SPECIFICATION FairSpec
CONSTANTS
  r1 = r1  n1 = n1  n2 = n2  c1 = c1
  Regions = {r1}
  Nodes = {n1, n2}
  RegionOf <- MCRegionOf
  Clients = {c1}
  BatchPersistSize = 2
  MaxRetries = 1
  MaxEvents = 3
  MaxRV = 4
  MaxStops = 1
  None = None
INVARIANTS
  TypeOK
  SavedWhenReturned
  NothingFromBefore
PROPERTIES
  CallReturns
  NodesComeBack
CHECK_DEADLOCK FALSE
