CONSTANTS
  s1 = s1
  s2 = s2
  localhost = localhost
  host = host
  one = one
  two = two
  shop = shop
  user = user
  None = None
  Resolvable = {one, two, localhost}
  Configs <- SomeConfigs
  Registries <- SomeRegistries
  Resolve <- Resolved
  MaxEvents = 3
SPECIFICATION FairSpec
INVARIANTS TypeOK RoutesUsable SetBackOnce
PROPERTIES BackendsConverge DownIsAvoided
CHECK_DEADLOCK FALSE
