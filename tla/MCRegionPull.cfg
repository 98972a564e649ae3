SPECIFICATION FairSpec
CONSTANTS
  p1 = p1  p2 = p2  n1 = n1  n2 = n2  n3 = n3
  Nodes = {n1, n2, n3}
  Partitions = {p1, p2}
  PartitionOf <- MCPartitionOf
  InitialRV <- MCInitialRV
  NodeOrder <- MCNodeOrder
  MaxRV = 4
INVARIANTS
  TypeOK
  NoChangeForgotten
  PendingIsNewer
PROPERTY ChangesArrive
CHECK_DEADLOCK FALSE
