SPECIFICATION Spec
CONSTANTS
  Threads = {t1, t2}
  Nobody = nobody
  Indexes = {"byField"}
  Values = {v1, v2}
  Absent = absent
  None = none
  Untouched = untouched
  MaxKey = 2
  MaxCalls = 3
  MaxRestarts = 1
INVARIANTS
  TypeOK
  IndexesAgree
  UniqueHolds
  LockedWritesAreFresh
  RestartKeepsSchema
  AutoKeysFresh
  ReadYourWrites
SYMMETRY JsonSymmetry
CHECK_DEADLOCK FALSE
