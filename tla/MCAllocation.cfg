SPECIFICATION AllocationSpec
CONSTANTS
  n1 = n1  n2 = n2  n3 = n3  c1 = c1  c2 = c2  q1 = q1  q2 = q2  q3 = q3
  Regions = {0, 1}
  Locations <- MCLocations
  Stores <- MCStores
  Hashes <- MCHashes
  NodeIds = {n1, n2, n3}
  Clients = {c1, c2}
  Requests = {q1, q2, q3}
  RegionOf <- MCRegionOf
  LocOf <- MCLocOf
  StoreOf <- MCStoreOf
  HashOf <- MCHashOf
  ClientOf <- MCClientOf
  RequestedHostNum <- MCRequestedHostNum
  MinimalRequestHostNum = 0
  LengthOfNodeEventQueue = 3
  MaxRV = 2
  LocationOf <- MCLocationOf
  RingValue <- MCRingValue
  RegionNum = 2
  ResourcePartitionMax = 2
  VNodeNumPerRP = 2
  Granularity = 2
  None = None
INVARIANTS
  TypeOK
  ExclusiveAssignment
  GrantCoversRequest
  HostCountExact
  AcknowledgedIsStored
  StrayOnlyAtArcEnd
PROPERTY
  ImplementsAllocation
CHECK_DEADLOCK FALSE
