SPECIFICATION FairSpec
CONSTANTS
  None = None
  c1 = c1
  c2 = c2
  Client = {c1, c2}
  Topic = {1}
  Publishes <- MCRetained
  Wills = {}
  Subscriptions <- MCOne
  PacketIds = {}
  Capacity = 1
  CounterMax = 3
  MaxLog = 2
PROPERTIES HandlersComplete StallIsContained
