SPECIFICATION Spec
CONSTANTS
  l1 = l1  l2 = l2  w1 = w1  w2 = w2
  Locations = {l1, l2}
  Watches = {w1, w2}
  ResumePoints <- ListedPoints
  MaxEvents = 2
  WatchChannelSize = 4
  None = None
INVARIANT QueuedEventsReplayed
CONSTRAINT CalledInOrder
CHECK_DEADLOCK FALSE
