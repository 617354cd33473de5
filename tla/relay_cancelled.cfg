CONSTANTS
  None = None
  Heads <- SmallHeads
  Messages <- SmallMessages
  BodySize = 7
  HeadLimit = 3
  ChannelSize = 2
SPECIFICATION Spec
INVARIANTS LegalIsReadOn
CHECK_DEADLOCK FALSE
