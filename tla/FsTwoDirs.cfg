CONSTANTS
  Procs = {p1, p2, p3}
  Holders = {h1}
  NoHolder = nobody
  Partitions = {m1}
  Moves <- ArchiveMoves
  Restored = {"available", "done"}
  MaxCrashes = 0
SPECIFICATION Spec
INVARIANT NotLeftInTwoDirectories
SYMMETRY Symmetry
