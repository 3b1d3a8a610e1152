SPECIFICATION Spec
CONSTANTS
  Writers = {w1, w2}
  BatchSizes = {1}
  Ttls = {FALSE}
  MaxBatches = 3
  MaxCrashes = 2
  SeqStride = 2
  SegmentCap = 2
  MaxFrozen = 1
  Always = TRUE
  IoFaults = TRUE
  Tearing = TRUE
INVARIANTS
  TypeOK
  PromisedIsRecoverable
  PromisedIsVisible
  RestartRestoresMemory
SYMMETRY WriterSymmetry
CHECK_DEADLOCK FALSE
