CONSTANTS
  parent = parent
  child = child
  p1 = p1
  p2 = p2
  p3 = p3
  Items = {parent, child}
  Procs = {p1, p2}
  NoHolder = nobody
  NoItem = none
  MaxTime = 0
  MaxCrashes = 0
  Allowed <- Filing
SPECIFICATION Spec
INVARIANT NotStranded
