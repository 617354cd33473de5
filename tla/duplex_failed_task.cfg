CONSTANTS
  ReqPieces = 1
  RespPieces = 1
  BufferSize = 2
  Manners = {FALSE}
SPECIFICATION Spec
INVARIANTS SenderOnlySendsBody
CHECK_DEADLOCK FALSE
