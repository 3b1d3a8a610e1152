SPECIFICATION Spec
CONSTANTS
  Writers = {w1}
  BatchSizes = {1, 2}
  Ttls = {FALSE, TRUE}
  MaxBatches = 3
  MaxCrashes = 1
  SeqStride = 3
  SegmentCap = 2
  MaxFrozen = 1
  Always = FALSE
  IoFaults = FALSE
  Tearing = FALSE
INVARIANTS
  PromisedIsRecoverable
  PromisedIsVisible
CHECK_DEADLOCK FALSE
