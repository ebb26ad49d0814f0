SPECIFICATION ClusterSpec
CONSTANTS
  None = None
  b1 = b1
  b2 = b2
  h1 = h1
  h2 = h2
  Topic = {1}
  Node = {b1, b2}
  Publisher = {b1, b2}
  Task = {h1, h2}
  Retain = {TRUE}
  QueueSize = 2
  InboxSize = 1
  Logging = TRUE
  Faulty = TRUE
  MaxCrashes = 2
  MaxHistory = 2
SYMMETRY BrokersAndTasks
INVARIANTS ClusterTypeOK BroadcastAtMostOnce LoadFindsNoTopic LoggedOnce
PROPERTIES RetainedMovesForward
CHECK_DEADLOCK FALSE
