SPECIFICATION FairCluster
CONSTANTS
  None = None
  b1 = b1
  b2 = b2
  h1 = h1
  h2 = h2
  Topic = {1}
  Node = {b1, b2}
  Publisher = {b1, b2}
  Task = {h1}
  Retain = {TRUE}
  QueueSize = 1
  InboxSize = 1
  Logging = FALSE
  Faulty = FALSE
  MaxCrashes = 0
  MaxHistory = 3
INVARIANTS SavedIsNewest
PROPERTIES BackpressureDrains
CHECK_DEADLOCK FALSE
