SPECIFICATION FairSpec
CONSTANTS
  Threads = {t1, t2}
  Other = other
  Nobody = nobody
  MaxSubmits = 2
  Always = TRUE
  IoFaults = TRUE
INVARIANTS
  TypeOK
  OneLeader
  OkIsCommitted
  CommitOrder
  NothingDropped
PROPERTIES
  ImplementsGroupCommit
  DrainedIsAnswered
CHECK_DEADLOCK FALSE
