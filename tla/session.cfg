SPECIFICATION Spec
CONSTANTS
  None = None
  c1 = c1
  c2 = c2
  Client = {c1}
  Topic = {1, 2}
  Publishes <- MCQoS1
  Wills <- MCWills
  Subscriptions <- MCTwo
  PacketIds = {1, 2, 3}
  Capacity = 1
  CounterMax = 3
  MaxLog = 2
INVARIANTS TypeOK RetryWithinExpiry
PROPERTIES ImplementsPubSub
