CONSTANTS
  Procs = {p1, p2, p3}
  Holders = {h1}
  NoHolder = nobody
  Partitions = {m1}
  Moves <- ClaimMoves
  Restored = {}
  MaxCrashes = 0
SPECIFICATION Spec
INVARIANTS TypeOK 
PROPERTY KeepsContract
SYMMETRY Symmetry
