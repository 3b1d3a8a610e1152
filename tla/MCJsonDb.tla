------------------------------- MODULE MCJsonDb -------------------------------
\* Model-checking instance of JsonDb: threads and field values are
\* interchangeable.
EXTENDS JsonDb, TLC

JsonSymmetry == Permutations(Threads) \cup Permutations(Values)
=============================================================================
