CONSTANTS
  shop = shop
  user = user
  key1 = key1
  bearer_key1 = bearer_key1
  jwt = jwt
  agent = agent
  seller = seller
  ip1 = ip1
  ip2 = ip2
  x = x
  q1 = q1
  buy = buy
  sell = sell
  None = None
  Clusters <- TwoClusters
  Consumers <- ItsConsumers
  MaxRequests = 3
  InFlight = 2
  Inputs <- SomeInputs
  MaxTime = 1
  MaxBody = 2
  MaxFileSize = 1
  CacheTtl = 0
SPECIFICATION FairSpec
INVARIANTS TypeOK OnlyAllowedPass LimitsHold StoredIsWhole HitAnswersItsUri PurgedIsGone RefusedForCause MetaIsOwn
PROPERTIES RequestsEnd FreshIsLostInRace
CHECK_DEADLOCK FALSE
