SPECIFICATION FairFraming
CONSTANTS
  BufSize = 4
  HeaderSize = 2
  Sizes = {2, 3, 5}
  MaxPackets = 4
  MaxUnread = 8
INVARIANTS AlignedInOrder
PROPERTIES FrontHandled
CHECK_DEADLOCK FALSE
