SPECIFICATION Spec
CONSTANTS
  p1 = p1  p2 = p2  p3 = p3  s1 = s1  s2 = s2  s3 = s3
  None = None
  Proc <- MCProc  Sec <- MCSec  Bytes <- MCBytes  Hash <- MCHash  Now = {1}
  Keep = 1  MaxAttempts = 2  MaxCommands = 4  MaxCrashes = 1
  Allowed <- Parts
INVARIANTS TypeOK AckedKept GateHeld BodySaved ShelfBounded
CHECK_DEADLOCK FALSE
