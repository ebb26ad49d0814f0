SPECIFICATION Spec
CONSTANTS
  None = None
  c1 = c1
  c2 = c2
  Client = {c1, c2}
  Topic = {1}
  Publishes <- MCRetainedQoS2
  Wills <- MCWillsQoS1
  Subscriptions <- MCOne
  PacketIds = {}
  Capacity = 1
  CounterMax = 3
  MaxLog = 3
SYMMETRY Clients
INVARIANTS MutexOK RetainedIsNewest SnapshotMeetsStream
PROPERTIES ImplementsPubSub
