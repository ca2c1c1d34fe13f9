CONSTANTS
  Procs = {p1, p2}
  Holders = {h1}
  NoHolder = nobody
  Partitions = {m1}
  Moves <- ClaimMoves
  Restored = {}
  MaxCrashes = 0
SPECIFICATION Spec
INVARIANT ResultTravels
SYMMETRY Symmetry
