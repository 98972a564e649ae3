SPECIFICATION FairSpec
CONSTANTS
  l1 = l1  w1 = w1  w2 = w2
  Locations = {l1}
  Watches = {w1, w2}
  ResumePoints <- MCResumePoints
  MaxEvents = 3
  WatchChannelSize = 4
  None = None
PROPERTIES
  RunningWatchStops
  BacklogIsSent
  WatchIsRenewable
CHECK_DEADLOCK FALSE
