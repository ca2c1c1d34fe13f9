CONSTANTS
  parent = parent
  child = child
  p1 = p1
  p2 = p2
  p3 = p3
  Items = {child}
  Procs = {p1, p2}
  NoHolder = nobody
  NoItem = none
  MaxTime = 2
  MaxCrashes = 0
  Allowed <- Snoozing
SPECIFICATION Spec
PROPERTY FutureSnoozeKept
