SPECIFICATION ReadSpec
CONSTANTS
  Compactors = {c1}
  Collectors = {g1}
  Threshold = 2
  MaxFlushes = 2
  MaxRestarts = 1
  MaxFailures = 0
  Gets = {t1}
  Scans = {s1}
  MaxReads = 2
INVARIANTS
  ReadTypeOK
  GetFindsIndexed
  ScanFinds
CONSTRAINTS Undisturbed OneAtATime
CHECK_DEADLOCK FALSE
