CONSTANTS
  None = None
  Heads <- SmallHeads
  Messages <- SmallMessages
  BodySize = 7
  HeadLimit = 3
  ChannelSize = 2
SPECIFICATION FairSpec
INVARIANTS TypeOK ReadsFaithfully RelaysFaithfully DoneIsWhole
PROPERTIES WholeIsRelayed CloseIsNoticed
CHECK_DEADLOCK FALSE
