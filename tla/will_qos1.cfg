SPECIFICATION Spec
CONSTANTS
  None = None
  c1 = c1
  c2 = c2
  Client = {c1}
  Topic = {1}
  Publishes = {}
  Wills <- MCWillsQoS1
  Subscriptions <- MCOne
  PacketIds = {}
  Capacity = 2
  CounterMax = 3
  MaxLog = 1
INVARIANTS NoPanic
