CONSTANTS
  parent = parent
  child = child
  p1 = p1
  p2 = p2
  p3 = p3
  Items = {parent, child}
  Procs = {p1, p2, p3}
  NoHolder = nobody
  NoItem = none
  MaxTime = 2
  MaxCrashes = 1
  Allowed <- Sweeping
SPECIFICATION FairSpec
PROPERTIES PendingReleased ElapsedOpens 
