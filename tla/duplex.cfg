CONSTANTS
  ReqPieces = 2
  RespPieces = 2
  BufferSize = 2
  Manners = {TRUE, FALSE}
SPECIFICATION FairSpec
INVARIANTS TypeOK ResponseFaithful RequestFaithful NoneNeverReceived PooledIsOver PooledIsReusable
PROPERTIES ExchangeCompletes ClosedEnds
CHECK_DEADLOCK FALSE
