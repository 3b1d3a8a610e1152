SPECIFICATION Spec
CONSTANTS
  Writers = {w1}
  BatchSizes = {1}
  Ttls = {FALSE}
  MaxBatches = 2
  MaxCrashes = 1
  SeqStride = 10
  SegmentCap = 3
  MaxFrozen = 1
  Always = TRUE
  IoFaults = FALSE
  Tearing = FALSE
INVARIANT PromisedSurvives
CHECK_DEADLOCK FALSE
