SPECIFICATION FairSpec
CONSTANTS
  Threads = {t1, t2}
  Other = other
  Nobody = nobody
  MaxSubmits = 1
  Always = TRUE
  IoFaults = FALSE
PROPERTY EverySubmitReturns
CHECK_DEADLOCK FALSE
