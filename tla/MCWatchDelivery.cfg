SPECIFICATION Spec
CONSTANTS
  l1 = l1  l2 = l2  w1 = w1  w2 = w2
  Locations = {l1, l2}
  Watches = {w1, w2}
  ResumePoints <- MCResumePoints
  MaxEvents = 3
  WatchChannelSize = 4
  None = None
INVARIANTS
  TypeOK
  ReplayComplete
  TwiceOnlyAcrossWatches
CONSTRAINTS CalledInOrder FewEvents
CHECK_DEADLOCK FALSE
