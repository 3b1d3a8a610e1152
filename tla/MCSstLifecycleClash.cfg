SPECIFICATION Spec
CONSTANTS
  Compactors = {c1}
  Collectors = {g1}
  Threshold = 2
  MaxFlushes = 3
  MaxRestarts = 0
  MaxFailures = 0
INVARIANT FlushedStaysPersisted
CHECK_DEADLOCK FALSE
