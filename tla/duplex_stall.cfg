CONSTANTS
  ReqPieces = 3
  RespPieces = 1
  BufferSize = 2
  Manners = {TRUE}
SPECIFICATION FairSpec
PROPERTIES RequestIsRead
CHECK_DEADLOCK FALSE
