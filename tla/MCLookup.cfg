SPECIFICATION Spec
CONSTANTS
  MaxKey = 3
  Tilde = 2
  Fallback = 2
  MaxTs = 2
  Cells <- MCCells
  PatchCells <- MCPatchCells
  Ranges <- MCRanges
  Expiries = {9}
  Never = 9
  DefaultTtl = 1
  MaxNow = 3
  BlockSize = 2
  TimeBucket = 2
  NumBits = 3
  Threshold = 2
  Patchers = {p1, p2}
  MaxWrites = 3
  MaxSsts = 5
INVARIANTS
  TypeOK
  ScanComplete
  PointReadsFind
  MemoryWins
  RangeDeleteHides
  PatchesCompose
CONSTRAINT LastKeyPlain
SYMMETRY PatcherSymmetry
CHECK_DEADLOCK FALSE
