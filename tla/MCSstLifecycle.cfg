SPECIFICATION Spec
CONSTANTS
  Compactors = {c1}
  Collectors = {g1}
  Threshold = 2
  MaxFlushes = 3
  MaxRestarts = 1
  MaxFailures = 1
INVARIANTS
  TypeOK
  NothingLost
  NothingHidden
  QuietAgreement
CONSTRAINT NoClash
CHECK_DEADLOCK FALSE
