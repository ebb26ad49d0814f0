SPECIFICATION Spec
CONSTANTS
  None = None
  c1 = c1
  c2 = c2
  Client = {c1, c2}
  Topic = {1}
  Publishes <- MCSameId
  Wills = {}
  Subscriptions <- MCOne
  PacketIds = {1}
  Capacity = 2
  CounterMax = 3
  MaxLog = 2
INVARIANTS InFlightIdsUnique
