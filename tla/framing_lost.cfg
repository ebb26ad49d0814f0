SPECIFICATION FramingSpec
CONSTANTS
  BufSize = 4
  HeaderSize = 2
  Sizes = {2, 3, 5}
  MaxPackets = 4
  MaxUnread = 8
INVARIANTS EveryPacketHandled
CHECK_DEADLOCK FALSE
