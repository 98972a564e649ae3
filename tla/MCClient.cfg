SPECIFICATION MCSpec
CONSTANTS
  n1 = n1
  n2 = n2
  None = None
  NoObject = NoObject
  NoKey = NoKey
  Nodes = {n1, n2}
  Keys = {n1, n2}
  FirstNodes <- MCFirstNodes
  Objects <- MCObjects
  KeyFunc <- MCKeyFunc
  IndexNames = {"byVersion"}
  IndexValues <- MCIndexValues
  IndexFunc <- MCIndexFunc
  Lists <- MCLists
  MaxRetries = 3
  Limits = {1, 2}
  MaxClients = 2
  MaxRV = 5
  DefaultResponseTrunkSize = 1
  MaxRestarts = 1
INVARIANTS
  TypeOK
  RegisteredOnce
  BodyArrivesWhole
  ListAllOrNothing
  MirrorWhenDrained
  IndexMatchesItems
PROPERTIES
  SessionEnds
  StoreMovesForward
CHECK_DEADLOCK FALSE
