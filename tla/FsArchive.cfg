CONSTANTS
  Procs = {p1, p2, p3}
  Holders = {h1}
  NoHolder = nobody
  Partitions = {m1}
  Moves <- DoneMoves
  Restored = {"done"}
  MaxCrashes = 1
SPECIFICATION Spec
INVARIANT NoNameLost
 
SYMMETRY Symmetry
