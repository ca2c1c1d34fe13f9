SPECIFICATION Spec
CONSTANTS
  p1 = p1  p2 = p2  p3 = p3
  x = x  mg_x = mg_x  mg_mg_x = mg_mg_x  scheduler = scheduler  m1 = m1  m2 = m2
  None = None
  Proc <- MCProc  Spelling <- MCSpelling  Box <- MCBox  Canonical <- MCCanonical
  Items = {x}  Made = {x}
  Msg <- MCMsg  Ids = {1, 2}  FromOf <- MCFrom  SubjectOf <- MCSubject  DateOf <- MCDate
  Generators = {scheduler}  Cutoff = 3  Keep = 1
  MaxAttempts = 2  MaxDup = 1  MaxCrashes = 1  MaxCommands = 4
  Allowed <- Sweepers
INVARIANT GroupNeverEmptied
CHECK_DEADLOCK FALSE
