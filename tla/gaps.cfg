SPECIFICATION ClusterSpec
CONSTANTS
  None = None
  b1 = b1
  b2 = b2
  h1 = h1
  h2 = h2
  Topic = {1}
  Node = {b1, b2}
  Publisher = {b1}
  Task = {h1}
  Retain = {TRUE, FALSE}
  QueueSize = 2
  InboxSize = 1
  Logging = FALSE
  Faulty = FALSE
  MaxCrashes = 0
  MaxHistory = 3
INVARIANTS NoGaps
CHECK_DEADLOCK FALSE
