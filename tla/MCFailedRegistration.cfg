SPECIFICATION PulledSpec
CONSTANTS
  r1 = r1  l1 = l1  s1 = s1  s2 = s2
  n1 = n1  n2 = n2  n3 = n3  c1 = c1  q1 = q1
  Regions = {r1}
  Locations = {l1}
  Stores = {s1, s2}
  Hashes = {1, 2, 3}
  NodeIds = {n1, n2, n3}
  Clients = {c1}
  Requests = {q1}
  RegionOf <- MCRegionOf
  LocOf <- MCLocOf
  LocationOf <- MCLocationOf
  StoreOf <- MCStoreOf
  HashOf <- MCHashOf
  ClientOf <- MCClientOf
  RequestedHostNum <- MCRequestedHostNum
  MinimalRequestHostNum = 1
  LengthOfNodeEventQueue = 3
  MaxRV = 5
  None = None
INVARIANT DeniedHoldsNothing
CHECK_DEADLOCK FALSE
