------------------------------ MODULE MCLookup ------------------------------
\* Lookup on two keys, the last beyond "~", and two time buckets.
EXTENDS Lookup, TLC

\* A key with two time stamps, and a key beside it.
MCCells == {<<1, 1>>, <<1, 2>>, <<3, 1>>}

MCPatchCells == {<<1, 1>>}

MCRanges == {<<1, 3>>}

\* The last key is only put, and with the default TTL.
LastKeyPlain == \A r \in Range(log) : r.key = MaxKey => r.op = "put" /\ r.exp # Never

PatcherSymmetry == Permutations(Patchers)
=============================================================================
