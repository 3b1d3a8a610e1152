SPECIFICATION Spec
CONSTANTS
  Keys <- MCKeys
  DocSet <- MCDocSet
  Fields <- MCFields
  Absent = Absent
  None = None
  IndexDefs <- MCIndexDefs
  Lookups <- MCLookups
  Bounds <- MCBounds
  Queries <- MCQueries
  NoLimit = NoLimit
  NoOrder = NoOrder
  HalfByte = 8
INVARIANTS
  IndexReadsExact
  TransactionReads
  QueryAnswers
CONSTRAINT SmallTransactions
CHECK_DEADLOCK FALSE
