SPECIFICATION FairLoop
CONSTANTS
  None = None
  s1 = s1
  s2 = s2
  Topic = {1, 2}
  Capacity = 1
  Timeout = 2
  U16Max = 4
  Expiries = {0, 1, 2}
  CounterMax = 3
  Slot = {s1, s2}
INVARIANTS LoopTypeOK KeepAliveHonoured
PROPERTIES SilentPeerTimesOut TopicServed
CHECK_DEADLOCK FALSE
