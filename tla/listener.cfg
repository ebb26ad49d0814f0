SPECIFICATION FairListener
CONSTANTS
  None = None
  p1 = p1
  p2 = p2
  p3 = p3
  Peer = {p1, p2, p3}
  Secure = TRUE
PROPERTIES AcceptContained
CHECK_DEADLOCK FALSE
