CONSTANTS
  parent = parent
  child = child
  p1 = p1
  p2 = p2
  p3 = p3
  Items = {parent, child}
  Procs = {p1, p2, p3}
  NoHolder = nobody
  NoItem = none
  MaxTime = 1
  MaxCrashes = 0
  Allowed <- Lives
SPECIFICATION Spec
INVARIANTS TypeOK ParentsFirst SweepIsTotal
