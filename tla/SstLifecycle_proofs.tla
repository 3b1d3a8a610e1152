------------------------- MODULE SstLifecycle_proofs -------------------------
(***************************************************************************)
(* Proofs about the life of SST files: for any number of threads that      *)
(* compact and collect, any number of flushes, failures and restarts.      *)
(***************************************************************************)
EXTENDS SstLifecycle, NatFacts, FiniteSetTheorems

-----------------------------------------------------------------------------
(* Types *)

SstIds == Nat \ {0}

CompactRuns ==
    [pc : {"idle", "open", "allocate", "write", "dropfile", "dropentry",
           "rename", "index", "append", "unlink"},
     id : Nat, recs : SUBSET Records, cands : SUBSET SstIds, todo : SUBSET SstIds]

GcRuns == [pc : {"idle", "index", "append", "unlink"}, id : Nat,
           todo : SUBSET SstIds]

\* The maps; there is a largest id in the manifest, so that next_sst_id has
\* something to return.
MapsOK ==
    /\ IsSstMap(manifest) /\ IsSstMap(files) /\ IsSstMap(tmp) /\ IsSstMap(index)
    /\ \E n \in Nat : \A i \in DOMAIN manifest : i <= n

FlushOK ==
    /\ fl \in [pc : {"idle", "write", "rename", "append", "index"}, id : Nat,
               recs : SUBSET Records]
    /\ fl.pc # "idle" => fl.id # 0

CompactOK ==
    /\ cp \in [Compactors -> CompactRuns]
    /\ \A c \in Compactors :
        /\ cp[c].todo \subseteq cp[c].cands
        /\ cp[c].pc # "idle" => cp[c].cands # {}
        /\ cp[c].pc \in {"write", "rename", "index", "append"} => cp[c].id # 0

CollectOK ==
    /\ gc \in [Collectors -> GcRuns]
    /\ \A g \in Collectors :
        /\ gc[g].id \notin gc[g].todo
        /\ gc[g].pc = "index" => gc[g].todo # {}

CountersOK ==
    /\ flushes \in 0..MaxFlushes
    /\ expired \subseteq recorded /\ recorded \subseteq Records
    /\ clash \in BOOLEAN /\ failures \in Nat /\ unindexed \subseteq recorded
    /\ restarts \in 0..MaxRestarts

TypeInv == MapsOK /\ FlushOK /\ CompactOK /\ CollectOK /\ CountersOK

-----------------------------------------------------------------------------
(* The operators on functions from SST ids *)

\* Put, Without and Replaced keep a map from SST ids to records one.
LEMMA MapsStayMaps ==
    /\ IsSstMap(<<>>)
    /\ \A f, ids : IsSstMap(f) => IsSstMap(Without(f, ids))
    /\ \A f, id, recs : IsSstMap(f) /\ id \in SstIds /\ recs \subseteq Records
                        => IsSstMap(Put(f, id, recs))
    /\ \A f, ids, id, recs : IsSstMap(f) /\ id \in SstIds /\ recs \subseteq Records
                        => IsSstMap(Replaced(f, ids, id, recs))
  <1>1. IsSstMap(<<>>)
    BY DEF IsSstMap
  <1>2. ASSUME NEW f, NEW ids, IsSstMap(f) PROVE IsSstMap(Without(f, ids))
    BY <1>2 DEF IsSstMap, Without
  <1>3. ASSUME NEW f, NEW id, NEW recs, IsSstMap(f), id \in SstIds, recs \subseteq Records
        PROVE  IsSstMap(Put(f, id, recs))
    BY <1>3 DEF IsSstMap, SstIds, Put
  <1>4. ASSUME NEW f, NEW ids, NEW id, NEW recs, IsSstMap(f), id \in SstIds,
               recs \subseteq Records
        PROVE  IsSstMap(Replaced(f, ids, id, recs))
    BY <1>2, <1>3, <1>4 DEF Replaced
  <1> QED
    BY <1>1, <1>2, <1>3, <1>4

\* Manifest::next_sst_id returns an id that the manifest does not have.
LEMMA NextSstIdIsNew ==
    ASSUME TypeInv
    PROVE  NextSstId \in SstIds /\ \A i \in DOMAIN manifest : i < NextSstId
  <1> DEFINE S == DOMAIN manifest
  <1>1. S \in SUBSET Nat
    BY DEF TypeInv, MapsOK, IsSstMap
  <1>2. PICK n \in Nat : \A i \in S : i <= n
    BY DEF TypeInv, MapsOK
  <1>3. CASE S = {}
    BY <1>3 DEF NextSstId, MaxOf, SstIds
  <1>4. CASE S # {}
    <2>1. \E m \in S : \A x \in S : x <= m
      <3> HIDE DEF S
      <3> QED BY <1>1, <1>2, <1>4, GreatestNatural
    <2>2. MaxOf(S) \in S /\ \A x \in S : x <= MaxOf(S)
      <3> HIDE DEF S
      <3> QED BY <2>1, <1>4 DEF MaxOf
    <2> QED
      <3>1. NextSstId = MaxOf(S) + 1
        BY DEF NextSstId
      <3> DEFINE m == MaxOf(S)
      <3>3. m \in Nat /\ \A x \in S : x <= m /\ x \in Nat
        BY <2>2, <1>1
      <3> HIDE DEF S, m
      <3>4. m + 1 \in SstIds /\ \A i \in S : i < m + 1
        BY <3>3 DEF SstIds
      <3>2. NextSstId \in SstIds /\ \A i \in S : i < NextSstId
        BY <3>1, <3>4 DEF m
      <3> QED
        BY <3>2 DEF S
  <1> QED
    BY <1>3, <1>4

\* A manifest with one more entry still has a largest id, one with fewer too.
LEMMA ManifestStaysBounded ==
    ASSUME TypeInv
    PROVE  /\ \A id \in Nat : \A recs : \E n \in Nat :
                \A i \in DOMAIN Put(manifest, id, recs) : i <= n
           /\ \A ids : \E n \in Nat : \A i \in DOMAIN Without(manifest, ids) : i <= n
           /\ \A id \in Nat : \A ids, recs : \E n \in Nat :
                \A i \in DOMAIN Replaced(manifest, ids, id, recs) : i <= n
  <1>1. PICK n \in Nat : \A i \in DOMAIN manifest : i <= n
    BY DEF TypeInv, MapsOK
  <1>2. DOMAIN manifest \subseteq Nat
    BY DEF TypeInv, MapsOK, IsSstMap
  <1>3. ASSUME NEW id \in Nat
        PROVE  \E m \in Nat : \A i \in DOMAIN manifest \cup {id} : i <= m
    <2>1. n + id \in Nat /\ \A i \in DOMAIN manifest \cup {id} : i <= n + id
      BY <1>1, <1>2
    <2> QED BY <2>1
  <1>4. ASSUME NEW id \in Nat, NEW recs
        PROVE  \E m \in Nat : \A i \in DOMAIN Put(manifest, id, recs) : i <= m
    BY <1>3 DEF Put
  <1>5. ASSUME NEW ids
        PROVE  \E m \in Nat : \A i \in DOMAIN Without(manifest, ids) : i <= m
    BY <1>1 DEF Without
  <1>6. ASSUME NEW ids, NEW id \in Nat, NEW recs
        PROVE  \E m \in Nat : \A i \in DOMAIN Replaced(manifest, ids, id, recs) : i <= m
    <2>1. DOMAIN Replaced(manifest, ids, id, recs) \subseteq DOMAIN manifest \cup {id}
      BY DEF Replaced, Put, Without
    <2> QED BY <2>1, <1>3
  <1> QED
    BY <1>4, <1>5, <1>6

LEMMA TypeFlush ==
    ASSUME TypeInv, Flush
    PROVE  TypeInv'
  <1> USE DEF TypeInv
  <1>0. NextSstId \in SstIds
    BY NextSstIdIsNew
  <1>1. CASE FlushBegin
    <2>1. MapsOK' /\ CompactOK' /\ CollectOK'
      BY <1>1 DEF FlushBegin, MapsOK, CompactOK, CollectOK
    <2>2. flushes' \in 1..MaxFlushes /\ {flushes + 1} \subseteq Records
      BY <1>1, LifecycleAssumption DEF FlushBegin, CountersOK, Records
    <2>3. FlushOK'
      BY <1>0, <1>1, <2>2 DEF FlushBegin, FlushOK, SstIds
    <2>4. CountersOK'
      BY <1>1, <2>2 DEF FlushBegin, CountersOK
    <2> QED BY <2>1, <2>3, <2>4
  <1>2. CASE FlushWrite
    <2>1. MapsOK'
      BY <1>2, MapsStayMaps DEF FlushWrite, MapsOK, FlushOK, SstIds
    <2>2. FlushOK' /\ CompactOK' /\ CollectOK' /\ CountersOK'
      BY <1>2 DEF FlushWrite, FlushOK, CompactOK, CollectOK, CountersOK
    <2> QED BY <2>1, <2>2
  <1>3. CASE FlushRename
    <2>1. tmp[fl.id] \subseteq Records
      BY <1>3 DEF FlushRename, MapsOK, IsSstMap
    <2>2. MapsOK'
      BY <1>3, <2>1, MapsStayMaps DEF FlushRename, MapsOK, FlushOK, SstIds
    <2>3. FlushOK' /\ CompactOK' /\ CollectOK' /\ CountersOK'
      BY <1>3 DEF FlushRename, FlushOK, CompactOK, CollectOK, CountersOK
    <2> QED BY <2>2, <2>3
  <1>4. CASE FlushAppend
    <2>1. MapsOK'
      BY <1>4, MapsStayMaps, ManifestStaysBounded DEF FlushAppend, MapsOK, FlushOK, SstIds
    <2>2. FlushOK' /\ CompactOK' /\ CollectOK' /\ CountersOK'
      BY <1>4 DEF FlushAppend, FlushOK, CompactOK, CollectOK, CountersOK
    <2> QED BY <2>1, <2>2
  <1>5. CASE FlushIndex
    <2>1. MapsOK'
      BY <1>5, MapsStayMaps DEF FlushIndex, MapsOK, FlushOK, SstIds
    <2>2. FlushOK' /\ CompactOK' /\ CollectOK' /\ CountersOK'
      BY <1>5 DEF FlushIndex, FlushOK, CompactOK, CollectOK, CountersOK, Idle
    <2> QED BY <2>1, <2>2
  <1>6. CASE CheckpointFails
    <2>1. MapsOK'
      BY <1>6, MapsStayMaps, ManifestStaysBounded DEF CheckpointFails, MapsOK, FlushOK, SstIds
    <2>2. FlushOK' /\ CompactOK' /\ CollectOK' /\ CountersOK'
      BY <1>6 DEF CheckpointFails, FlushOK, CompactOK, CollectOK, CountersOK, Idle
    <2> QED BY <2>1, <2>2
  <1>7. CASE FlushFails
    <2>1. MapsOK'
      BY <1>7, MapsStayMaps DEF FlushFails, MapsOK
    <2>2. FlushOK' /\ CompactOK' /\ CollectOK' /\ CountersOK'
      BY <1>7 DEF FlushFails, FlushOK, CompactOK, CollectOK, CountersOK, Idle
    <2> QED BY <2>1, <2>2
  <1> QED
    BY <1>1, <1>2, <1>3, <1>4, <1>5, <1>6, <1>7 DEF Flush

LEMMA TypeCompact ==
    ASSUME TypeInv, NEW c \in Compactors, Compact(c)
    PROVE  TypeInv'
  <1> USE DEF TypeInv
  <1>0. NextSstId \in SstIds
    BY NextSstIdIsNew
  <1>i. IdleCp \in CompactRuns /\ IdleCp.pc = "idle" /\ IdleCp.todo = {}
    BY DEF IdleCp, CompactRuns
  <1>t. cp[c] \in CompactRuns /\ cp[c].cands \in SUBSET SstIds /\ cp[c].recs \subseteq Records
    BY DEF CompactOK, CompactRuns
  \* A run that moves to a well-formed state.
  <1>m. ASSUME NEW new \in CompactRuns, Move(c, new), new.todo \subseteq new.cands,
               new.pc # "idle" => new.cands # {},
               new.pc \in {"write", "rename", "index", "append"} => new.id # 0
        PROVE  CompactOK'
    BY <1>m DEF Move, CompactOK
  <1>1. CASE CompactPick(c)
    <2>1. PICK cands \in SUBSET DOMAIN manifest :
            /\ Cardinality(cands) >= 2 \/ cands = DOMAIN manifest
            /\ Move(c, [IdleCp EXCEPT !.pc = "open", !.cands = cands, !.todo = cands])
      BY <1>1 DEF CompactPick
    <2>2. cands # {}
      BY <1>1, <2>1, FS_EmptySet DEF CompactPick
    <2>3. cands \subseteq SstIds
      BY DEF MapsOK, IsSstMap, SstIds
    <2>4. CompactOK'
      <3> DEFINE new == [IdleCp EXCEPT !.pc = "open", !.cands = cands, !.todo = cands]
      <3>1. new \in CompactRuns /\ new.pc = "open" /\ new.todo = cands /\ new.cands = cands
        BY <2>3 DEF IdleCp, CompactRuns
      <3> HIDE DEF new
      <3> QED BY <2>1, <2>2, <3>1, <1>m DEF new
    <2>5. MapsOK' /\ FlushOK' /\ CollectOK' /\ CountersOK'
      BY <1>1 DEF CompactPick, MapsOK, FlushOK, CollectOK, CountersOK
    <2> QED BY <2>4, <2>5
  <1>2. CASE CompactOpen(c)
    <2> DEFINE there == cp[c].cands \cap DOMAIN files
               merged == (UNION {files[i] : i \in there}) \ expired
               new == [cp[c] EXCEPT !.pc = "allocate", !.recs = merged]
    <2>1. merged \subseteq Records
      BY DEF MapsOK, IsSstMap
    <2>2. new \in CompactRuns /\ new.pc = "allocate" /\ new.todo = cp[c].todo
            /\ new.cands = cp[c].cands
      <3> HIDE DEF merged
      <3> QED BY <2>1, <1>t DEF CompactRuns
    <2>3. Move(c, IF there = {} THEN IdleCp ELSE new) /\ cp[c].pc = "open"
      BY <1>2 DEF CompactOpen
    <2>4. CompactOK'
      <3> HIDE DEF new, there
      <3>1. cp[c].todo \subseteq cp[c].cands /\ cp[c].cands # {}
        BY <2>3 DEF CompactOK
      <3>2. CASE there = {}
        <4>1. Move(c, IdleCp)
          BY <2>3, <3>2
        <4> QED BY <4>1, <1>i, <1>m DEF IdleCp
      <3>3. CASE there # {}
        <4>1. Move(c, new)
          BY <2>3, <3>3
        <4> QED BY <4>1, <2>2, <3>1, <1>m
      <3> QED BY <3>2, <3>3
    <2>5. MapsOK' /\ FlushOK' /\ CollectOK' /\ CountersOK'
      BY <1>2 DEF CompactOpen, MapsOK, FlushOK, CollectOK, CountersOK
    <2> QED BY <2>4, <2>5
  <1>3. CASE CompactAllocate(c)
    <2>1. CompactOK'
      BY <1>0, <1>3, ZenonT(60) DEF CompactAllocate, Move, CompactOK, CompactRuns, SstIds
    <2>2. MapsOK' /\ FlushOK' /\ CollectOK' /\ CountersOK'
      BY <1>3 DEF CompactAllocate, MapsOK, FlushOK, CollectOK, CountersOK
    <2> QED BY <2>1, <2>2
  <1>4. CASE CompactWrite(c)
    <2>1. CompactOK'
      BY <1>4 DEF CompactWrite, Move, CompactOK, CompactRuns
    <2>2. cp[c].id \in SstIds /\ cp[c].recs \subseteq Records
      BY <1>4, <1>t DEF CompactWrite, CompactOK, CompactRuns, SstIds
    <2>3. MapsOK'
      BY <1>4, <2>2, MapsStayMaps DEF CompactWrite, MapsOK
    <2>4. FlushOK' /\ CollectOK' /\ CountersOK'
      BY <1>4 DEF CompactWrite, FlushOK, CollectOK, CountersOK
    <2> QED BY <2>1, <2>3, <2>4
  <1>5. CASE DropFile(c)
    <2>0. PICK id \in cp[c].todo : Move(c, [cp[c] EXCEPT !.pc = "dropentry", !.id = id])
      BY <1>5 DEF DropFile
    <2>1. CompactOK'
      <3> DEFINE new == [cp[c] EXCEPT !.pc = "dropentry", !.id = id]
      <3>0. id \in Nat /\ cp[c].todo \subseteq cp[c].cands /\ cp[c].cands # {}
        BY <1>5, <1>t DEF DropFile, CompactOK, SstIds
      <3>1. new \in CompactRuns /\ new.pc = "dropentry" /\ new.todo = cp[c].todo
              /\ new.cands = cp[c].cands
        BY <3>0, <1>t DEF CompactRuns
      <3>2. Move(c, new)
        BY <2>0
      <3> HIDE DEF new
      <3> QED BY <3>0, <3>1, <3>2, <1>m
    <2>2. MapsOK'
      BY <1>5, MapsStayMaps DEF DropFile, RemoveFile, MapsOK
    <2>3. FlushOK' /\ CollectOK' /\ CountersOK'
      BY <1>5 DEF DropFile, RemoveFile, FlushOK, CollectOK, CountersOK
    <2> QED BY <2>1, <2>2, <2>3
  <1>6. CASE DropEntry(c)
    <2>1. CompactOK'
      BY <1>6, <1>i DEF DropEntry, Move, CompactOK, CompactRuns
    <2>2. MapsOK'
      BY <1>6, MapsStayMaps, ManifestStaysBounded DEF DropEntry, MapsOK
    <2>3. FlushOK' /\ CollectOK' /\ CountersOK'
      BY <1>6 DEF DropEntry, FlushOK, CollectOK, CountersOK
    <2> QED BY <2>1, <2>2, <2>3
  <1>7. CASE CompactRename(c)
    <2>1. CompactOK'
      BY <1>7 DEF CompactRename, Move, CompactOK, CompactRuns
    <2>2. cp[c].id \in SstIds /\ tmp[cp[c].id] \subseteq Records
      BY <1>7, <1>t DEF CompactRename, CompactOK, CompactRuns, SstIds, MapsOK, IsSstMap
    <2>3. MapsOK'
      BY <1>7, <2>2, MapsStayMaps DEF CompactRename, MapsOK
    <2>4. FlushOK' /\ CollectOK' /\ CountersOK'
      BY <1>7 DEF CompactRename, FlushOK, CollectOK, CountersOK
    <2> QED BY <2>1, <2>3, <2>4
  <1>8. CASE CompactIndex(c)
    <2>1. CompactOK'
      BY <1>8 DEF CompactIndex, Move, CompactOK, CompactRuns
    <2>2. cp[c].id \in SstIds /\ cp[c].recs \subseteq Records
      BY <1>8, <1>t DEF CompactIndex, CompactOK, CompactRuns, SstIds
    <2>3. MapsOK'
      BY <1>8, <2>2, MapsStayMaps DEF CompactIndex, MapsOK
    <2>4. FlushOK' /\ CollectOK' /\ CountersOK'
      BY <1>8 DEF CompactIndex, FlushOK, CollectOK, CountersOK
    <2> QED BY <2>1, <2>3, <2>4
  <1>9. CASE CompactAppend(c)
    <2>1. CompactOK'
      BY <1>9 DEF CompactAppend, Move, CompactOK, CompactRuns
    <2>2. cp[c].id \in SstIds /\ cp[c].id \in Nat /\ cp[c].recs \subseteq Records
      BY <1>9, <1>t DEF CompactAppend, CompactOK, CompactRuns, SstIds
    <2>3. MapsOK'
      <3>1. \E n \in Nat : \A i \in DOMAIN manifest' : i <= n
        BY <1>9, <2>2, ManifestStaysBounded DEF CompactAppend
      <3>2. IsSstMap(manifest')
        BY <1>9, <2>2, MapsStayMaps DEF CompactAppend, MapsOK
      <3> QED BY <1>9, <3>1, <3>2 DEF CompactAppend, MapsOK
    <2>4. FlushOK' /\ CollectOK' /\ CountersOK'
      BY <1>9 DEF CompactAppend, FlushOK, CollectOK, CountersOK
    <2> QED BY <2>1, <2>3, <2>4
  <1>10. CASE CompactUnlink(c)
    <2>1. CompactOK'
      BY <1>10, <1>i DEF CompactUnlink, Move, CompactOK, CompactRuns
    <2>2. MapsOK'
      BY <1>10, MapsStayMaps DEF CompactUnlink, RemoveFile, MapsOK
    <2>3. FlushOK' /\ CollectOK' /\ CountersOK'
      BY <1>10 DEF CompactUnlink, RemoveFile, FlushOK, CollectOK, CountersOK
    <2> QED BY <2>1, <2>2, <2>3
  <1>11. CASE CompactFails(c)
    <2>1. CompactOK'
      BY <1>11, <1>i DEF CompactFails, Move, CompactOK
    <2>2. MapsOK'
      BY <1>11, MapsStayMaps DEF CompactFails, MapsOK
    <2>3. FlushOK' /\ CollectOK' /\ CountersOK'
      BY <1>11 DEF CompactFails, FlushOK, CollectOK, CountersOK
    <2> QED BY <2>1, <2>2, <2>3
  <1> QED
    BY <1>1, <1>2, <1>3, <1>4, <1>5, <1>6, <1>7, <1>8, <1>9, <1>10, <1>11 DEF Compact

LEMMA TypeCollect ==
    ASSUME TypeInv, NEW g \in Collectors, Collect(g)
    PROVE  TypeInv'
  <1> USE DEF TypeInv
  <1>1. CASE GcScan(g)
    <2>1. ExpiredSsts \subseteq SstIds
      BY DEF ExpiredSsts, MapsOK, IsSstMap, SstIds
    <2>2. CollectOK'
      BY <1>1, <2>1 DEF GcScan, CollectOK, GcRuns, SstIds
    <2>3. MapsOK' /\ FlushOK' /\ CompactOK' /\ CountersOK'
      BY <1>1 DEF GcScan, MapsOK, FlushOK, CompactOK, CountersOK
    <2> QED BY <2>2, <2>3
  <1>2. CASE GcIndex(g)
    <2>1. CollectOK'
      BY <1>2 DEF GcIndex, ListLeft, CollectOK, GcRuns, SstIds
    <2>2. MapsOK'
      BY <1>2, MapsStayMaps DEF GcIndex, MapsOK
    <2>3. FlushOK' /\ CompactOK' /\ CountersOK'
      BY <1>2 DEF GcIndex, FlushOK, CompactOK, CountersOK
    <2> QED BY <2>1, <2>2, <2>3
  <1>3. CASE GcAppend(g)
    <2>1. CollectOK'
      BY <1>3 DEF GcAppend, CollectOK, GcRuns
    <2>2. MapsOK'
      BY <1>3, MapsStayMaps, ManifestStaysBounded DEF GcAppend, MapsOK
    <2>3. FlushOK' /\ CompactOK' /\ CountersOK'
      BY <1>3 DEF GcAppend, FlushOK, CompactOK, CountersOK
    <2> QED BY <2>1, <2>2, <2>3
  <1>4. CASE GcUnlink(g)
    <2>1. CollectOK'
      BY <1>4 DEF GcUnlink, CollectOK, GcRuns, IdleGc, SstIds
    <2>2. MapsOK'
      BY <1>4, MapsStayMaps DEF GcUnlink, RemoveFile, MapsOK
    <2>3. FlushOK' /\ CompactOK' /\ CountersOK'
      BY <1>4 DEF GcUnlink, RemoveFile, FlushOK, CompactOK, CountersOK
    <2> QED BY <2>1, <2>2, <2>3
  <1>5. CASE GcFails(g)
    <2>1. CollectOK'
      BY <1>5 DEF GcFails, CollectOK, GcRuns, IdleGc
    <2>2. MapsOK' /\ FlushOK' /\ CompactOK' /\ CountersOK'
      BY <1>5 DEF GcFails, MapsOK, FlushOK, CompactOK, CountersOK
    <2> QED BY <2>1, <2>2
  <1> QED
    BY <1>1, <1>2, <1>3, <1>4, <1>5 DEF Collect

LEMMA TypeStep ==
    ASSUME TypeInv, [Next]_vars
    PROVE  TypeInv'
  <1>1. CASE Flush
    BY <1>1, TypeFlush
  <1>2. CASE \E c \in Compactors : Compact(c)
    BY <1>2, TypeCompact
  <1>3. CASE \E g \in Collectors : Collect(g)
    BY <1>3, TypeCollect
  <1>4. CASE \E r \in Records : Expire(r)
    <2>1. MapsOK' /\ FlushOK' /\ CompactOK' /\ CollectOK'
      BY <1>4 DEF Expire, TypeInv, MapsOK, FlushOK, CompactOK, CollectOK
    <2>2. CountersOK'
      BY <1>4 DEF Expire, TypeInv, CountersOK
    <2> QED BY <2>1, <2>2 DEF TypeInv
  <1>5. CASE Restart
    <2>1. MapsOK' /\ FlushOK'
      BY <1>5, MapsStayMaps DEF Restart, TypeInv, MapsOK, FlushOK, Idle
    <2>2. CompactOK' /\ CollectOK'
      BY <1>5 DEF Restart, IdleCp, IdleGc, CompactOK, CompactRuns, CollectOK, GcRuns
    <2>3. CountersOK'
      BY <1>5, LifecycleAssumption DEF Restart, TypeInv, CountersOK
    <2> QED BY <2>1, <2>2, <2>3 DEF TypeInv
  <1>6. CASE UNCHANGED vars
    <2>1. MapsOK' /\ FlushOK' /\ CompactOK' /\ CollectOK' /\ CountersOK'
      BY <1>6 DEF vars, TypeInv, MapsOK, FlushOK, CompactOK, CollectOK, CountersOK
    <2> QED BY <2>1 DEF TypeInv
  <1> QED
    BY <1>1, <1>2, <1>3, <1>4, <1>5, <1>6 DEF Next

LEMMA TypeInit ==
    ASSUME Init
    PROVE  TypeInv
  <1>1. MapsOK
    BY MapsStayMaps DEF Init, MapsOK
  <1>2. FlushOK /\ CompactOK /\ CollectOK
    BY DEF Init, FlushOK, Idle, CompactOK, CompactRuns, IdleCp, CollectOK, GcRuns, IdleGc
  <1>3. CountersOK
    <2>1. flushes \in 0..MaxFlushes /\ restarts \in 0..MaxRestarts /\ failures \in Nat
      BY LifecycleAssumption DEF Init
    <2> QED BY <2>1 DEF Init, CountersOK
  <1> QED BY <1>1, <1>2, <1>3 DEF TypeInv

LEMMA TypeInvariant == Spec => []TypeInv
  <1>1. Init => TypeInv
    BY TypeInit
  <1>2. TypeInv /\ [Next]_vars => TypeInv'
    BY TypeStep
  <1> QED
    BY <1>1, <1>2, PTL DEF Spec

\* The maps stay maps from SST ids to flushed records, and the runs of flush,
\* compaction and GC keep the shape their code relies on: a compaction in
\* progress has candidates, GC never lists the SST it is removing again.
THEOREM TypesHold == Spec => []TypeOK
  <1>1. TypeInv => TypeOK
    <2> SUFFICES ASSUME TypeInv PROVE TypeOK
      OBVIOUS
    <2>1. \A c \in Compactors : cp[c] \in CompactRuns
      BY DEF TypeInv, CompactOK
    <2>2. \A g \in Collectors : gc[g] \in GcRuns
      BY DEF TypeInv, CollectOK
    <2>3. \A c \in Compactors :
            /\ cp[c].pc \in {"idle", "open", "allocate", "write", "dropfile",
                             "dropentry", "rename", "index", "append", "unlink"}
            /\ cp[c].recs \subseteq Records
            /\ cp[c].todo \subseteq cp[c].cands
            /\ cp[c].pc # "idle" => cp[c].cands # {}
      BY <2>1 DEF TypeInv, CompactOK, CompactRuns
    <2>4. \A g \in Collectors :
            /\ gc[g].pc \in {"idle", "index", "append", "unlink"}
            /\ gc[g].id \notin gc[g].todo
            /\ gc[g].pc = "index" => gc[g].todo # {}
      BY <2>2 DEF TypeInv, CollectOK, GcRuns
    <2> QED
      BY <2>3, <2>4 DEF TypeInv, TypeOK, MapsOK, FlushOK, CountersOK
  <1> QED
    BY <1>1, TypeInvariant, PTL

-----------------------------------------------------------------------------
(* What holds as long as no id was handed out while in use *)

\* An id that do_flush has drawn and not yet recorded in the manifest.
FlushDrawn == fl.pc \in {"write", "rename", "append"}

\* The same for a merge.
MergeDrawn(c) == cp[c].pc \in {"write", "rename", "index", "append"}

\* A drawn id is nobody else's.
DrawnIdsAreFree ==
    /\ fl.pc # "idle" => fl.id \notin DOMAIN index
    /\ FlushDrawn =>
        /\ fl.id \notin DOMAIN manifest
        /\ \A c \in Compactors : fl.id \notin cp[c].todo
        /\ \A g \in Collectors : fl.id \notin gc[g].todo /\ fl.id # gc[g].id
    /\ \A c \in Compactors : MergeDrawn(c) =>
        /\ cp[c].id \notin DOMAIN manifest
        /\ cp[c].pc # "append" => cp[c].id \notin DOMAIN index
        /\ fl.pc # "idle" => cp[c].id # fl.id
        /\ \A d \in Compactors :
            /\ cp[c].id \notin cp[d].todo
            /\ MergeDrawn(d) /\ d # c => cp[c].id # cp[d].id
        /\ \A g \in Collectors : cp[c].id \notin gc[g].todo /\ cp[c].id # gc[g].id

\* What a run has written is where the next step expects it.
WrittenIsThere ==
    /\ fl.pc = "rename" /\ fl.id \in DOMAIN tmp => tmp[fl.id] = fl.recs
    /\ fl.pc = "append" => fl.id \in DOMAIN files /\ files[fl.id] = fl.recs
    /\ \A c \in Compactors :
        /\ cp[c].pc = "rename" /\ cp[c].id \in DOMAIN tmp => tmp[cp[c].id] = cp[c].recs
        /\ cp[c].pc \in {"index", "append"} =>
            cp[c].id \in DOMAIN files /\ files[cp[c].id] = cp[c].recs
        /\ cp[c].pc = "append" =>
            cp[c].id \in DOMAIN index /\ index[cp[c].id] = cp[c].recs

\* A merge has the unexpired records of its candidates; an empty merge removes
\* files without any; GC only lists files without any; what is unlinked has
\* left the manifest.
RunsAreSound ==
    /\ \A c \in Compactors :
        /\ cp[c].pc \in {"open", "allocate", "write", "rename", "index", "append"}
             => cp[c].todo = cp[c].cands
        /\ cp[c].pc \in {"allocate", "write", "rename", "index", "append"} =>
            \A i \in cp[c].cands : i \in DOMAIN files => files[i] \ expired \subseteq cp[c].recs
        /\ cp[c].pc \in {"dropfile", "dropentry"} =>
            \A i \in cp[c].todo : i \in DOMAIN files => files[i] \subseteq expired
        /\ cp[c].pc = "dropentry" => cp[c].id \in cp[c].todo
        /\ cp[c].pc = "unlink" => cp[c].todo \cap DOMAIN manifest = {}
    /\ \A g \in Collectors :
        /\ \A i \in gc[g].todo \cup {gc[g].id} :
            i \in DOMAIN files => files[i] \subseteq expired
        /\ gc[g].pc = "unlink" => gc[g].id \notin DOMAIN manifest

\* The file of an SST of the manifest is what the manifest says, and is only
\* missing when everything in it has expired.
FilesMatch ==
    \A i \in DOMAIN manifest :
        /\ i \in DOMAIN files => files[i] = manifest[i]
        /\ i \notin DOMAIN files => manifest[i] \subseteq expired

LiveInManifest == \A r \in Live : \E i \in DOMAIN manifest : r \in manifest[i]

\* The index has the SST, or its flush is about to add it.
Announced(i, r) ==
    \/ i \in DOMAIN index /\ r \in index[i]
    \/ fl.pc = "index" /\ i = fl.id /\ r \in fl.recs

\* A file through which the record is read and that no merge is unlinking.
Reachable(r) ==
    \E i \in DOMAIN files :
        /\ r \in files[i]
        /\ Announced(i, r)
        /\ \A c \in Compactors : cp[c].pc = "unlink" => i \notin cp[c].todo

LiveIsReachable == \A r \in Live \ unindexed : Reachable(r)

\* Without failures an unexpired SST of the manifest is indexed, or its flush
\* is about to add it, or a merge that has replaced it in the index is about
\* to replace it in the manifest.
IndexFollows ==
    failures = 0 => \A i \in DOMAIN manifest : ~(manifest[i] \subseteq expired) =>
        \/ i \in DOMAIN index /\ index[i] = manifest[i]
        \/ fl.pc = "index" /\ fl.id = i /\ fl.recs = manifest[i]
        \/ \E c \in Compactors : cp[c].pc = "append" /\ i \in cp[c].cands

Safe ==
    /\ DrawnIdsAreFree /\ WrittenIsThere /\ RunsAreSound /\ FilesMatch
    /\ LiveInManifest /\ LiveIsReachable /\ IndexFollows

SafeInv == ~clash => Safe

-----------------------------------------------------------------------------
(* The flush keeps it *)

\* An id drawn without a clash is used by no other run and not indexed.
LEMMA DrawnIsFree ==
    ASSUME TypeInv, NextSstId \notin InUse
    PROVE  /\ NextSstId \notin DOMAIN manifest /\ NextSstId \notin DOMAIN index
           /\ NextSstId # fl.id
           /\ \A c \in Compactors : NextSstId \notin cp[c].todo /\ NextSstId # cp[c].id
           /\ \A g \in Collectors : NextSstId \notin gc[g].todo /\ NextSstId # gc[g].id
  <1>1. NextSstId \notin DOMAIN manifest
    BY NextSstIdIsNew DEF TypeInv, MapsOK, IsSstMap, SstIds
  <1>2. fl.id \in InUse /\ DOMAIN index \subseteq InUse
    BY DEF InUse
  <1>3. \A c \in Compactors : cp[c].id \in InUse /\ cp[c].todo \subseteq InUse
    BY DEF InUse
  <1>4. ASSUME NEW g \in Collectors
        PROVE  gc[g].id \in InUse /\ gc[g].todo \subseteq InUse
    <2> DEFINE lists == {gc[h].todo \cup {gc[h].id} : h \in Collectors}
    <2>1. gc[g].todo \cup {gc[g].id} \in lists
      OBVIOUS
    <2>2. UNION lists \subseteq InUse
      BY DEF InUse
    <2> HIDE DEF lists
    <2> QED BY <2>1, <2>2
  <1> QED
    BY <1>1, <1>2, <1>3, <1>4

LEMMA SafeFlushBegin ==
    ASSUME TypeInv, Safe, FlushBegin, ~clash'
    PROVE  Safe'
  <1>1. /\ fl.pc = "idle" /\ fl'.pc = "write" /\ fl'.id = NextSstId
        /\ UNCHANGED <<manifest, files, tmp, index, cp, gc, recorded, expired,
                       failures, unindexed>>
    BY DEF FlushBegin
  <1>2. /\ NextSstId \notin DOMAIN manifest /\ NextSstId \notin DOMAIN index
        /\ \A c \in Compactors : NextSstId \notin cp[c].todo /\ NextSstId # cp[c].id
        /\ \A g \in Collectors : NextSstId \notin gc[g].todo /\ NextSstId # gc[g].id
    BY DrawnIsFree DEF FlushBegin
  <1>3. DrawnIdsAreFree'
    BY <1>1, <1>2 DEF Safe, DrawnIdsAreFree, FlushDrawn, MergeDrawn
  <1>4. WrittenIsThere' /\ RunsAreSound' /\ FilesMatch' /\ LiveInManifest'
    BY <1>1 DEF Safe, WrittenIsThere, RunsAreSound, FilesMatch, LiveInManifest, Live
  <1>5. LiveIsReachable' /\ IndexFollows'
    BY <1>1 DEF Safe, LiveIsReachable, Live, Reachable, Announced, IndexFollows
  <1> QED
    BY <1>3, <1>4, <1>5 DEF Safe

LEMMA SafeFlushWrite ==
    ASSUME TypeInv, Safe, FlushWrite
    PROVE  Safe'
  <1>1. /\ fl.pc = "write" /\ fl'.pc = "rename" /\ fl'.id = fl.id /\ fl'.recs = fl.recs
        /\ UNCHANGED <<manifest, files, index, cp, gc, recorded, expired, failures,
                       unindexed>>
    BY DEF FlushWrite, TypeInv, FlushOK
  <1>2. DOMAIN tmp' = DOMAIN tmp \cup {fl.id} /\ tmp'[fl.id] = fl.recs
          /\ \A i \in DOMAIN tmp : i # fl.id => tmp'[i] = tmp[i]
    BY DEF FlushWrite, Put
  <1>3. DrawnIdsAreFree'
    BY <1>1 DEF Safe, DrawnIdsAreFree, FlushDrawn, MergeDrawn
  <1>4. WrittenIsThere'
    BY <1>1, <1>2 DEF Safe, DrawnIdsAreFree, WrittenIsThere, FlushDrawn, MergeDrawn
  <1>5. RunsAreSound' /\ FilesMatch' /\ LiveInManifest'
    BY <1>1 DEF Safe, RunsAreSound, FilesMatch, LiveInManifest, Live
  <1>6. LiveIsReachable' /\ IndexFollows'
    BY <1>1 DEF Safe, LiveIsReachable, Live, Reachable, Announced, IndexFollows
  <1> QED
    BY <1>3, <1>4, <1>5, <1>6 DEF Safe

\* The renamed file has an id that is in nobody's list.
LEMMA SafeFlushRename ==
    ASSUME TypeInv, Safe, FlushRename
    PROVE  Safe'
  <1>1. /\ fl.pc = "rename" /\ fl'.pc = "append" /\ fl'.id = fl.id /\ fl'.recs = fl.recs
        /\ UNCHANGED <<manifest, index, cp, gc, recorded, expired, failures,
                       unindexed>>
    BY DEF FlushRename, TypeInv, FlushOK
  <1>2. DOMAIN files' = DOMAIN files \cup {fl.id} /\ files'[fl.id] = tmp[fl.id]
          /\ \A i \in DOMAIN files : i # fl.id => files'[i] = files[i]
    BY DEF FlushRename, Put
  <1>3. DOMAIN tmp' = DOMAIN tmp \ {fl.id} /\ \A i \in DOMAIN tmp' : tmp'[i] = tmp[i]
    BY DEF FlushRename, Without
  <1>4. DrawnIdsAreFree'
    BY <1>1 DEF Safe, DrawnIdsAreFree, FlushDrawn, MergeDrawn
  <1>5. files'[fl.id] = fl.recs
    BY <1>1, <1>2 DEF FlushRename, Safe, WrittenIsThere
  <1>6. WrittenIsThere'
    BY <1>1, <1>2, <1>3, <1>5 DEF Safe, DrawnIdsAreFree, WrittenIsThere, FlushDrawn, MergeDrawn
  <1>7. /\ fl.id \notin DOMAIN manifest /\ fl.id \notin DOMAIN index
        /\ \A c \in Compactors : fl.id \notin cp[c].todo
        /\ \A g \in Collectors : fl.id \notin gc[g].todo \cup {gc[g].id}
    BY <1>1 DEF Safe, DrawnIdsAreFree, FlushDrawn
  <1>8. RunsAreSound'
    BY <1>1, <1>2, <1>7 DEF Safe, RunsAreSound
  <1>9. FilesMatch' /\ LiveInManifest' /\ IndexFollows'
    BY <1>1, <1>2, <1>7 DEF Safe, FilesMatch, LiveInManifest, Live, IndexFollows
  <1>10. LiveIsReachable'
    BY <1>1, <1>2, <1>7 DEF Safe, LiveIsReachable, Live, Reachable, Announced
  <1> QED
    BY <1>4, <1>6, <1>8, <1>9, <1>10 DEF Safe

\* The manifest gets an entry whose file is there, and that no run unlinks.
LEMMA SafeFlushAppend ==
    ASSUME TypeInv, Safe, fl.pc = "append",
           manifest' = Put(manifest, fl.id, fl.recs),
           recorded' = recorded \cup fl.recs,
           UNCHANGED <<files, tmp, index, cp, gc, expired>>,
           \/ fl' = [fl EXCEPT !.pc = "index"] /\ UNCHANGED <<failures, unindexed>>
           \/ /\ fl' = Idle /\ failures' = failures + 1
              /\ unindexed' = unindexed \cup fl.recs
    PROVE  Safe'
  <1>1. DOMAIN manifest' = DOMAIN manifest \cup {fl.id} /\ manifest'[fl.id] = fl.recs
          /\ \A i \in DOMAIN manifest : i # fl.id => manifest'[i] = manifest[i]
    BY DEF Put
  <1>2. \/ /\ fl'.pc = "index" /\ fl'.id = fl.id /\ fl'.recs = fl.recs
           /\ UNCHANGED <<failures, unindexed>>
        \/ /\ fl'.pc = "idle" /\ failures' # 0 /\ unindexed' = unindexed \cup fl.recs
    BY DEF TypeInv, FlushOK, CountersOK, Idle
  <1>3. /\ fl.id \notin DOMAIN manifest /\ fl.id \notin DOMAIN index
        /\ \A c \in Compactors : fl.id \notin cp[c].todo /\ (MergeDrawn(c) => cp[c].id # fl.id)
        /\ \A g \in Collectors : fl.id \notin gc[g].todo /\ fl.id # gc[g].id
        /\ fl.id \in DOMAIN files /\ files[fl.id] = fl.recs
    BY DEF Safe, DrawnIdsAreFree, WrittenIsThere, FlushDrawn
  <1>4. DrawnIdsAreFree'
    BY <1>1, <1>2, <1>3 DEF Safe, DrawnIdsAreFree, FlushDrawn, MergeDrawn
  <1>5. WrittenIsThere'
    BY <1>2 DEF Safe, WrittenIsThere
  <1>6. RunsAreSound'
    BY <1>1, <1>3 DEF Safe, RunsAreSound
  <1>7. FilesMatch' /\ LiveInManifest'
    BY <1>1, <1>3 DEF Safe, FilesMatch, LiveInManifest, Live
  <1>8. LiveIsReachable'
    <2> SUFFICES ASSUME NEW r \in Live' \ unindexed' PROVE Reachable(r)'
      BY DEF LiveIsReachable
    <2>1. CASE r \in Live \ unindexed
      BY <2>1, <1>2 DEF Safe, LiveIsReachable, Reachable, Announced
    <2>2. CASE r \in fl.recs
      <3>1. fl'.pc = "index" /\ fl'.id = fl.id /\ fl'.recs = fl.recs
        BY <1>2, <2>2
      <3> QED BY <3>1, <2>2, <1>3 DEF Reachable, Announced
    <2> QED BY <2>1, <2>2, <1>2 DEF Live
  <1>9. IndexFollows'
    BY <1>1, <1>2, <1>3 DEF Safe, IndexFollows
  <1> QED
    BY <1>4, <1>5, <1>6, <1>7, <1>8, <1>9 DEF Safe

LEMMA SafeFlushIndex ==
    ASSUME TypeInv, Safe, FlushIndex
    PROVE  Safe'
  <1>1. /\ fl.pc = "index" /\ fl'.pc = "idle"
        /\ UNCHANGED <<manifest, files, tmp, cp, gc, recorded, expired, failures,
                       unindexed>>
    BY DEF FlushIndex, Idle
  <1>2. DOMAIN index' = DOMAIN index \cup {fl.id} /\ index'[fl.id] = fl.recs
          /\ \A i \in DOMAIN index : i # fl.id => index'[i] = index[i]
    BY DEF FlushIndex, Put
  <1>3. /\ fl.id \notin DOMAIN index
        /\ \A c \in Compactors : MergeDrawn(c) => cp[c].id # fl.id
    BY <1>1 DEF Safe, DrawnIdsAreFree
  <1>4. DrawnIdsAreFree'
    BY <1>1, <1>2, <1>3 DEF Safe, DrawnIdsAreFree, FlushDrawn, MergeDrawn
  <1>5. WrittenIsThere'
    BY <1>1, <1>2, <1>3 DEF Safe, WrittenIsThere, MergeDrawn
  <1>6. RunsAreSound' /\ FilesMatch' /\ LiveInManifest'
    BY <1>1 DEF Safe, RunsAreSound, FilesMatch, LiveInManifest, Live
  <1>7. \A i, r : Announced(i, r) => Announced(i, r)'
    BY <1>1, <1>2, <1>3 DEF Announced
  <1>8. LiveIsReachable'
    BY <1>1, <1>7 DEF Safe, LiveIsReachable, Live, Reachable
  <1>9. IndexFollows'
    BY <1>1, <1>2, <1>3 DEF Safe, IndexFollows
  <1> QED
    BY <1>4, <1>5, <1>6, <1>8, <1>9 DEF Safe

LEMMA SafeFlushFails ==
    ASSUME TypeInv, Safe, FlushFails
    PROVE  Safe'
  <1>1. /\ fl.pc \in {"write", "rename", "append"} /\ fl'.pc = "idle"
        /\ failures' # 0
        /\ UNCHANGED <<manifest, files, index, cp, gc, recorded, expired, unindexed>>
    BY DEF FlushFails, Idle, TypeInv, CountersOK
  <1>2. DOMAIN tmp' \subseteq DOMAIN tmp /\ \A i \in DOMAIN tmp' : tmp'[i] = tmp[i]
    BY DEF FlushFails, Without
  <1>3. DrawnIdsAreFree'
    BY <1>1 DEF Safe, DrawnIdsAreFree, FlushDrawn, MergeDrawn
  <1>4. WrittenIsThere'
    BY <1>1, <1>2 DEF Safe, WrittenIsThere
  <1>5. RunsAreSound' /\ FilesMatch' /\ LiveInManifest'
    BY <1>1 DEF Safe, RunsAreSound, FilesMatch, LiveInManifest, Live
  <1>6. LiveIsReachable' /\ IndexFollows'
    BY <1>1 DEF Safe, LiveIsReachable, Live, Reachable, Announced, IndexFollows
  <1> QED
    BY <1>3, <1>4, <1>5, <1>6 DEF Safe

LEMMA SafeFlush ==
    ASSUME TypeInv, Safe, Flush, ~clash'
    PROVE  Safe'
  <1>1. CASE FlushBegin
    BY <1>1, SafeFlushBegin
  <1>2. CASE FlushWrite
    BY <1>2, SafeFlushWrite
  <1>3. CASE FlushRename
    BY <1>3, SafeFlushRename
  <1>4. CASE FlushAppend
    BY <1>4, SafeFlushAppend DEF FlushAppend
  <1>5. CASE FlushIndex
    BY <1>5, SafeFlushIndex
  <1>6. CASE CheckpointFails
    BY <1>6, SafeFlushAppend DEF CheckpointFails
  <1>7. CASE FlushFails
    BY <1>7, SafeFlushFails
  <1> QED
    BY <1>1, <1>2, <1>3, <1>4, <1>5, <1>6, <1>7 DEF Flush

-----------------------------------------------------------------------------
(* A compaction keeps it *)

\* Only the run of c moves.
LEMMA MoveFacts ==
    ASSUME TypeInv, NEW c \in Compactors, NEW new, Move(c, new)
    PROVE  cp'[c] = new /\ \A d \in Compactors : d # c => cp'[d] = cp[d]
  BY DEF Move, TypeInv, CompactOK

LEMMA SafeCompactPick ==
    ASSUME TypeInv, Safe, NEW c \in Compactors, CompactPick(c)
    PROVE  Safe'
  <1>1. PICK cands \in SUBSET DOMAIN manifest :
            Move(c, [IdleCp EXCEPT !.pc = "open", !.cands = cands, !.todo = cands])
    BY DEF CompactPick
  <1>2. /\ cp'[c].pc = "open" /\ cp'[c].cands = cands /\ cp'[c].todo = cands
        /\ \A d \in Compactors : d # c => cp'[d] = cp[d]
    <2>1. /\ cp'[c] = [IdleCp EXCEPT !.pc = "open", !.cands = cands, !.todo = cands]
          /\ \A d \in Compactors : d # c => cp'[d] = cp[d]
      BY <1>1, MoveFacts
    <2> QED BY <2>1 DEF IdleCp
  <1>3. /\ cp[c].pc = "idle"
        /\ UNCHANGED <<manifest, files, tmp, index, fl, gc, recorded, expired,
                       failures, unindexed>>
    BY DEF CompactPick
  <1>4. DrawnIdsAreFree'
    BY <1>2, <1>3 DEF Safe, DrawnIdsAreFree, FlushDrawn, MergeDrawn
  <1>5. WrittenIsThere' /\ RunsAreSound'
    BY <1>2, <1>3 DEF Safe, WrittenIsThere, RunsAreSound
  <1>6. FilesMatch' /\ LiveInManifest'
    BY <1>3 DEF Safe, FilesMatch, LiveInManifest, Live
  <1>7. LiveIsReachable' /\ IndexFollows'
    BY <1>2, <1>3 DEF Safe, LiveIsReachable, Live, Reachable, Announced, IndexFollows
  <1> QED
    BY <1>4, <1>5, <1>6, <1>7 DEF Safe

\* The merge has every unexpired record of the candidates' files.
LEMMA SafeCompactOpen ==
    ASSUME TypeInv, Safe, NEW c \in Compactors, CompactOpen(c)
    PROVE  Safe'
  <1> DEFINE there == cp[c].cands \cap DOMAIN files
             merged == (UNION {files[i] : i \in there}) \ expired
  <1>1. cp[c] \in CompactRuns /\ cp[c].pc = "open"
    BY DEF CompactOpen, TypeInv, CompactOK
  <1>2. \A d \in Compactors : d # c => cp'[d] = cp[d]
    BY MoveFacts DEF CompactOpen
  <1>3. \/ cp'[c].pc = "idle" /\ cp'[c].todo = {}
        \/ /\ cp'[c].pc = "allocate" /\ cp'[c].recs = merged
           /\ cp'[c].cands = cp[c].cands /\ cp'[c].todo = cp[c].todo
    <2>1. cp'[c] = IF there = {} THEN IdleCp
                   ELSE [cp[c] EXCEPT !.pc = "allocate", !.recs = merged]
      BY MoveFacts DEF CompactOpen
    <2> HIDE DEF there, merged
    <2> QED BY <2>1, <1>1 DEF CompactRuns, IdleCp
  <1>4. \A i \in cp[c].cands : i \in DOMAIN files => files[i] \ expired \subseteq merged
    OBVIOUS
  <1> HIDE DEF there, merged
  <1>5. UNCHANGED <<manifest, files, tmp, index, fl, gc, recorded, expired, failures,
                    unindexed>>
    BY DEF CompactOpen
  <1>6. DrawnIdsAreFree'
    BY <1>1, <1>2, <1>3, <1>5 DEF Safe, DrawnIdsAreFree, FlushDrawn, MergeDrawn
  <1>7. WrittenIsThere' /\ RunsAreSound'
    BY <1>1, <1>2, <1>3, <1>4, <1>5 DEF Safe, WrittenIsThere, RunsAreSound
  <1>8. FilesMatch' /\ LiveInManifest'
    BY <1>5 DEF Safe, FilesMatch, LiveInManifest, Live
  <1>9. LiveIsReachable' /\ IndexFollows'
    BY <1>1, <1>2, <1>3, <1>5
       DEF Safe, LiveIsReachable, Live, Reachable, Announced, IndexFollows
  <1> QED
    BY <1>6, <1>7, <1>8, <1>9 DEF Safe

LEMMA SafeCompactAllocate ==
    ASSUME TypeInv, Safe, NEW c \in Compactors, CompactAllocate(c), ~clash'
    PROVE  Safe'
  <1>1. cp[c] \in CompactRuns /\ cp[c].pc = "allocate"
    BY DEF CompactAllocate, TypeInv, CompactOK
  <1>2. /\ cp'[c].pc = "write" /\ cp'[c].id = NextSstId /\ cp'[c].recs = cp[c].recs
        /\ cp'[c].cands = cp[c].cands /\ cp'[c].todo = cp[c].todo
        /\ \A d \in Compactors : d # c => cp'[d] = cp[d]
    <2>1. /\ cp'[c] = [cp[c] EXCEPT !.pc = "write", !.id = NextSstId]
          /\ \A d \in Compactors : d # c => cp'[d] = cp[d]
      BY MoveFacts DEF CompactAllocate
    <2> QED BY <2>1, <1>1 DEF CompactRuns
  <1>3. UNCHANGED <<manifest, files, tmp, index, fl, gc, recorded, expired, failures,
                    unindexed>>
    BY DEF CompactAllocate
  <1>4. /\ NextSstId \notin DOMAIN manifest /\ NextSstId \notin DOMAIN index
        /\ NextSstId # fl.id
        /\ \A d \in Compactors : NextSstId \notin cp[d].todo /\ NextSstId # cp[d].id
        /\ \A g \in Collectors : NextSstId \notin gc[g].todo /\ NextSstId # gc[g].id
    BY DrawnIsFree DEF CompactAllocate
  <1>5. DrawnIdsAreFree'
    BY <1>1, <1>2, <1>3, <1>4 DEF Safe, DrawnIdsAreFree, FlushDrawn, MergeDrawn
  <1>6. WrittenIsThere' /\ RunsAreSound'
    BY <1>1, <1>2, <1>3 DEF Safe, WrittenIsThere, RunsAreSound
  <1>7. FilesMatch' /\ LiveInManifest'
    BY <1>3 DEF Safe, FilesMatch, LiveInManifest, Live
  <1>8. LiveIsReachable' /\ IndexFollows'
    BY <1>1, <1>2, <1>3
       DEF Safe, LiveIsReachable, Live, Reachable, Announced, IndexFollows
  <1> QED
    BY <1>5, <1>6, <1>7, <1>8 DEF Safe

\* An empty merge means that nothing in the candidates' files is unexpired.
LEMMA SafeCompactWrite ==
    ASSUME TypeInv, Safe, NEW c \in Compactors, CompactWrite(c)
    PROVE  Safe'
  <1>1. cp[c] \in CompactRuns /\ cp[c].pc = "write"
    BY DEF CompactWrite, TypeInv, CompactOK
  <1>2. /\ \/ cp'[c].pc = "dropfile" /\ cp[c].recs = {}
           \/ cp'[c].pc = "rename" /\ cp[c].recs # {}
        /\ cp'[c].id = cp[c].id /\ cp'[c].recs = cp[c].recs
        /\ cp'[c].cands = cp[c].cands /\ cp'[c].todo = cp[c].todo
        /\ \A d \in Compactors : d # c => cp'[d] = cp[d]
    BY <1>1, MoveFacts DEF CompactWrite, CompactRuns
  <1>3. UNCHANGED <<manifest, files, index, fl, gc, recorded, expired, failures,
                    unindexed>>
    BY DEF CompactWrite
  <1>4. /\ \A i \in DOMAIN tmp' : i # cp[c].id => i \in DOMAIN tmp /\ tmp'[i] = tmp[i]
        /\ cp[c].recs # {} => tmp'[cp[c].id] = cp[c].recs
    BY DEF CompactWrite, Put, Without
  <1>5. DrawnIdsAreFree'
    BY <1>1, <1>2, <1>3 DEF Safe, DrawnIdsAreFree, FlushDrawn, MergeDrawn
  <1>6. WrittenIsThere'
    BY <1>1, <1>2, <1>3, <1>4 DEF Safe, DrawnIdsAreFree, MergeDrawn, WrittenIsThere
  <1>7. RunsAreSound'
    BY <1>1, <1>2, <1>3 DEF Safe, RunsAreSound
  <1>8. FilesMatch' /\ LiveInManifest'
    BY <1>3 DEF Safe, FilesMatch, LiveInManifest, Live
  <1>9. LiveIsReachable' /\ IndexFollows'
    BY <1>1, <1>2, <1>3
       DEF Safe, LiveIsReachable, Live, Reachable, Announced, IndexFollows
  <1> QED
    BY <1>5, <1>6, <1>7, <1>8, <1>9 DEF Safe

\* A file goes that has no unexpired record, or that is in no manifest entry
\* and that no reader needs.
LEMMA SafeRemoveFile ==
    ASSUME TypeInv, Safe, NEW id, RemoveFile(id),
           UNCHANGED <<manifest, tmp, index, fl, recorded, expired, unindexed>>,
           \/ id \in DOMAIN files => files[id] \subseteq expired
           \/ /\ id \notin DOMAIN manifest
              /\ \E c \in Compactors : cp[c].pc = "unlink" /\ id \in cp[c].todo
    PROVE  /\ \A i \in DOMAIN files' : i \in DOMAIN files /\ files'[i] = files[i]
           /\ \A i \in DOMAIN files : i # id => i \in DOMAIN files'
           /\ failures' = 0 => failures = 0
           /\ FilesMatch' /\ LiveInManifest'
           /\ \A r \in Live' \ unindexed' : \E i \in DOMAIN files' :
                /\ r \in files'[i] /\ Announced(i, r)'
                /\ \A c \in Compactors : cp[c].pc = "unlink" => i \notin cp[c].todo
  <1>1. \A i \in DOMAIN files' : i \in DOMAIN files /\ files'[i] = files[i]
    BY DEF RemoveFile, Without
  <1>2. \A i \in DOMAIN files : i # id => i \in DOMAIN files'
    BY DEF RemoveFile, Without
  <1>3. failures' = 0 => failures = 0
    BY DEF RemoveFile, TypeInv, CountersOK
  <1>4. FilesMatch' /\ LiveInManifest'
    BY <1>1, <1>2 DEF Safe, FilesMatch, LiveInManifest, Live
  <1>5. ASSUME NEW r \in Live' \ unindexed'
        PROVE  \E i \in DOMAIN files' :
                /\ r \in files'[i] /\ Announced(i, r)'
                /\ \A c \in Compactors : cp[c].pc = "unlink" => i \notin cp[c].todo
    <2>1. r \in Live \ unindexed /\ r \notin expired
      BY DEF Live
    <2>2. PICK i \in DOMAIN files :
            /\ r \in files[i] /\ Announced(i, r)
            /\ \A c \in Compactors : cp[c].pc = "unlink" => i \notin cp[c].todo
      BY <2>1 DEF Safe, LiveIsReachable, Reachable
    <2>3. i # id
      BY <2>1, <2>2
    <2>4. Announced(i, r)'
      BY <2>2 DEF Announced
    <2> QED BY <1>1, <1>2, <2>2, <2>3, <2>4
  <1> QED
    BY <1>1, <1>2, <1>3, <1>4, <1>5

LEMMA SafeDropFile ==
    ASSUME TypeInv, Safe, NEW c \in Compactors, DropFile(c)
    PROVE  Safe'
  <1>1. cp[c] \in CompactRuns /\ cp[c].pc = "dropfile"
    BY DEF DropFile, TypeInv, CompactOK
  <1>2. PICK id \in cp[c].todo :
            RemoveFile(id) /\ Move(c, [cp[c] EXCEPT !.pc = "dropentry", !.id = id])
    BY DEF DropFile
  <1>3. /\ cp'[c].pc = "dropentry" /\ cp'[c].id = id /\ cp'[c].recs = cp[c].recs
        /\ cp'[c].cands = cp[c].cands /\ cp'[c].todo = cp[c].todo
        /\ \A d \in Compactors : d # c => cp'[d] = cp[d]
    <2>1. /\ cp'[c] = [cp[c] EXCEPT !.pc = "dropentry", !.id = id]
          /\ \A d \in Compactors : d # c => cp'[d] = cp[d]
      BY <1>2, MoveFacts
    <2> QED BY <2>1, <1>1 DEF CompactRuns
  <1>4. UNCHANGED <<manifest, tmp, index, fl, gc, recorded, expired, unindexed>>
    BY DEF DropFile
  <1>5. /\ FlushDrawn => fl.id # id
        /\ \A d \in Compactors : MergeDrawn(d) => cp[d].id # id
        /\ id \in DOMAIN files => files[id] \subseteq expired
    <2>2. (FlushDrawn => fl.id # id) /\ \A d \in Compactors : MergeDrawn(d) => cp[d].id # id
      BY DEF Safe, DrawnIdsAreFree
    <2>3. id \in DOMAIN files => files[id] \subseteq expired
      BY <1>1 DEF Safe, RunsAreSound
    <2> QED BY <2>2, <2>3
  <1>6. /\ \A i \in DOMAIN files' : i \in DOMAIN files /\ files'[i] = files[i]
        /\ \A i \in DOMAIN files : i # id => i \in DOMAIN files'
        /\ failures' = 0 => failures = 0
        /\ FilesMatch' /\ LiveInManifest'
        /\ \A r \in Live' \ unindexed' : \E i \in DOMAIN files' :
             /\ r \in files'[i] /\ Announced(i, r)'
             /\ \A d \in Compactors : cp[d].pc = "unlink" => i \notin cp[d].todo
    BY <1>2, <1>4, <1>5, SafeRemoveFile
  <1>7. DrawnIdsAreFree'
    BY <1>1, <1>3, <1>4 DEF Safe, DrawnIdsAreFree, FlushDrawn, MergeDrawn
  <1>8. WrittenIsThere'
    BY <1>1, <1>3, <1>4, <1>5, <1>6 DEF Safe, WrittenIsThere, FlushDrawn, MergeDrawn
  <1>9. RunsAreSound'
    BY <1>1, <1>3, <1>4, <1>6 DEF Safe, RunsAreSound
  <1>10. LiveIsReachable'
    BY <1>1, <1>3, <1>6 DEF LiveIsReachable, Reachable
  <1>11. IndexFollows'
    BY <1>1, <1>3, <1>4, <1>6 DEF Safe, IndexFollows
  <1> QED
    BY <1>6, <1>7, <1>8, <1>9, <1>10, <1>11 DEF Safe

\* An entry goes whose records have all expired.
LEMMA SafeDropEntry ==
    ASSUME TypeInv, Safe, NEW c \in Compactors, DropEntry(c)
    PROVE  Safe'
  <1> DEFINE id == cp[c].id
  <1>1. cp[c] \in CompactRuns /\ cp[c].pc = "dropentry"
    BY DEF DropEntry, TypeInv, CompactOK
  <1>2. /\ \/ cp'[c].pc = "idle" /\ cp'[c].todo = {}
           \/ cp'[c].pc = "dropfile" /\ cp'[c].todo = cp[c].todo \ {id}
        /\ \A d \in Compactors : d # c => cp'[d] = cp[d]
    <2>1. /\ cp'[c] = IF cp[c].todo \ {id} = {} THEN IdleCp
                      ELSE [cp[c] EXCEPT !.pc = "dropfile", !.todo = cp[c].todo \ {id}]
          /\ \A d \in Compactors : d # c => cp'[d] = cp[d]
      BY MoveFacts DEF DropEntry
    <2> QED BY <2>1, <1>1 DEF CompactRuns, IdleCp
  <1>3. UNCHANGED <<files, tmp, fl, gc, recorded, expired, failures, unindexed>>
    BY DEF DropEntry
  <1>4. /\ DOMAIN manifest' = DOMAIN manifest \ {id}
        /\ \A i \in DOMAIN manifest' : manifest'[i] = manifest[i]
        /\ DOMAIN index' = DOMAIN index \ {id}
        /\ \A i \in DOMAIN index' : index'[i] = index[i]
    BY DEF DropEntry, Without
  <1>5. id \in cp[c].todo /\ (id \in DOMAIN files => files[id] \subseteq expired)
    BY <1>1 DEF Safe, RunsAreSound
  <1>6. id \in DOMAIN manifest => manifest[id] \subseteq expired
    BY <1>5 DEF Safe, FilesMatch
  <1>7. \A d \in Compactors : MergeDrawn(d) => cp[d].id # id
    BY <1>5 DEF Safe, DrawnIdsAreFree
  <1> HIDE DEF id
  <1>8. DrawnIdsAreFree'
    BY <1>1, <1>2, <1>3, <1>4 DEF Safe, DrawnIdsAreFree, FlushDrawn, MergeDrawn
  <1>9. WrittenIsThere'
    BY <1>1, <1>2, <1>3, <1>4, <1>7 DEF Safe, WrittenIsThere, MergeDrawn
  <1>10. RunsAreSound'
    BY <1>1, <1>2, <1>3, <1>4 DEF Safe, RunsAreSound
  <1>11. FilesMatch' /\ LiveInManifest'
    BY <1>3, <1>4, <1>6 DEF Safe, FilesMatch, LiveInManifest, Live
  <1>12. LiveIsReachable'
    BY <1>1, <1>2, <1>3, <1>4, <1>5
       DEF Safe, LiveIsReachable, Live, Reachable, Announced
  <1>13. IndexFollows'
    BY <1>1, <1>2, <1>3, <1>4 DEF Safe, IndexFollows
  <1> QED
    BY <1>8, <1>9, <1>10, <1>11, <1>12, <1>13 DEF Safe

\* What is known of a merge that has drawn its id.
LEMMA MergeFacts ==
    ASSUME TypeInv, Safe, NEW c \in Compactors, MergeDrawn(c)
    PROVE  /\ cp[c] \in CompactRuns /\ cp[c].todo = cp[c].cands
           /\ cp[c].id \notin DOMAIN manifest
           /\ cp[c].pc # "append" => cp[c].id \notin DOMAIN index
           /\ fl.pc # "idle" => cp[c].id # fl.id
           /\ \A d \in Compactors :
                /\ cp[c].id \notin cp[d].todo
                /\ MergeDrawn(d) /\ d # c => cp[c].id # cp[d].id
           /\ \A g \in Collectors : cp[c].id \notin gc[g].todo /\ cp[c].id # gc[g].id
           /\ \A i \in cp[c].cands : i \in DOMAIN files => files[i] \ expired \subseteq cp[c].recs
  <1>1. cp[c] \in CompactRuns
    BY DEF TypeInv, CompactOK
  <1>2. /\ cp[c].todo = cp[c].cands
        /\ \A i \in cp[c].cands : i \in DOMAIN files => files[i] \ expired \subseteq cp[c].recs
    BY DEF Safe, RunsAreSound, MergeDrawn
  <1> QED
    BY <1>1, <1>2 DEF Safe, DrawnIdsAreFree

LEMMA SafeCompactRename ==
    ASSUME TypeInv, Safe, NEW c \in Compactors, CompactRename(c)
    PROVE  Safe'
  <1> DEFINE id == cp[c].id
  <1>1. cp[c] \in CompactRuns /\ cp[c].pc = "rename"
    BY DEF CompactRename, TypeInv, CompactOK
  <1>2. /\ cp'[c].pc = "index" /\ cp'[c].id = cp[c].id /\ cp'[c].recs = cp[c].recs
        /\ cp'[c].cands = cp[c].cands /\ cp'[c].todo = cp[c].todo
        /\ \A d \in Compactors : d # c => cp'[d] = cp[d]
    <2>1. /\ cp'[c] = [cp[c] EXCEPT !.pc = "index"]
          /\ \A d \in Compactors : d # c => cp'[d] = cp[d]
      BY MoveFacts DEF CompactRename
    <2> QED BY <2>1, <1>1 DEF CompactRuns
  <1>3. UNCHANGED <<manifest, index, fl, gc, recorded, expired, failures, unindexed>>
    BY DEF CompactRename
  <1>4. /\ DOMAIN files' = DOMAIN files \cup {id}
        /\ \A i \in DOMAIN files : i # id => files'[i] = files[i]
        /\ files'[id] = tmp[id] /\ id \in DOMAIN tmp
    BY DEF CompactRename, Put
  <1>5. DOMAIN tmp' = DOMAIN tmp \ {id} /\ \A i \in DOMAIN tmp' : tmp'[i] = tmp[i]
    BY DEF CompactRename, Without
  <1>6. files'[id] = cp[c].recs
    BY <1>1, <1>4 DEF Safe, WrittenIsThere
  <1>7. /\ id \notin DOMAIN manifest /\ id \notin DOMAIN index
        /\ fl.pc # "idle" => id # fl.id
        /\ \A d \in Compactors : /\ id \notin cp[d].todo
                                 /\ MergeDrawn(d) /\ d # c => id # cp[d].id
        /\ \A g \in Collectors : id \notin gc[g].todo /\ id # gc[g].id
    BY <1>1, MergeFacts DEF MergeDrawn
  <1>8. DrawnIdsAreFree'
    BY <1>1, <1>2, <1>3 DEF Safe, DrawnIdsAreFree, FlushDrawn, MergeDrawn
  <1>9. WrittenIsThere'
    BY <1>1, <1>2, <1>3, <1>4, <1>5, <1>6, <1>7 DEF Safe, WrittenIsThere, MergeDrawn
  <1> HIDE DEF id
  <1>10. RunsAreSound'
    BY <1>1, <1>2, <1>3, <1>4, <1>7 DEF Safe, RunsAreSound
  <1>11. FilesMatch' /\ LiveInManifest'
    BY <1>3, <1>4, <1>7 DEF Safe, FilesMatch, LiveInManifest, Live
  <1>12. LiveIsReachable'
    BY <1>1, <1>2, <1>3, <1>4, <1>7
       DEF Safe, LiveIsReachable, Live, Reachable, Announced
  <1>13. IndexFollows'
    BY <1>1, <1>2, <1>3 DEF Safe, IndexFollows
  <1> QED
    BY <1>8, <1>9, <1>10, <1>11, <1>12, <1>13 DEF Safe

\* A record that was read through a candidate is read through the result.
LEMMA SafeCompactIndex ==
    ASSUME TypeInv, Safe, NEW c \in Compactors, CompactIndex(c)
    PROVE  Safe'
  <1> DEFINE id == cp[c].id
  <1>1. cp[c] \in CompactRuns /\ cp[c].pc = "index"
    BY DEF CompactIndex, TypeInv, CompactOK
  <1>2. /\ cp'[c].pc = "append" /\ cp'[c].id = cp[c].id /\ cp'[c].recs = cp[c].recs
        /\ cp'[c].cands = cp[c].cands /\ cp'[c].todo = cp[c].todo
        /\ \A d \in Compactors : d # c => cp'[d] = cp[d]
    <2>1. /\ cp'[c] = [cp[c] EXCEPT !.pc = "append"]
          /\ \A d \in Compactors : d # c => cp'[d] = cp[d]
      BY MoveFacts DEF CompactIndex
    <2> QED BY <2>1, <1>1 DEF CompactRuns
  <1>3. UNCHANGED <<manifest, files, tmp, fl, gc, recorded, expired, failures, unindexed>>
    BY DEF CompactIndex
  <1>4. /\ DOMAIN index' = (DOMAIN index \ cp[c].cands) \cup {id}
        /\ index'[id] = cp[c].recs
        /\ \A i \in DOMAIN index \ cp[c].cands : i # id => index'[i] = index[i]
    BY DEF CompactIndex, Replaced, Put, Without
  <1>5. /\ id \notin DOMAIN manifest /\ id \notin DOMAIN index
        /\ fl.pc # "idle" => id # fl.id
        /\ cp[c].todo = cp[c].cands
        /\ \A d \in Compactors : /\ id \notin cp[d].todo
                                 /\ MergeDrawn(d) /\ d # c => id # cp[d].id
        /\ \A i \in cp[c].cands : i \in DOMAIN files => files[i] \ expired \subseteq cp[c].recs
    BY <1>1, MergeFacts DEF MergeDrawn
  <1>6. id \in DOMAIN files /\ files[id] = cp[c].recs
    BY <1>1 DEF Safe, WrittenIsThere
  <1>7. \A d \in Compactors : MergeDrawn(d) => cp[d].id \notin cp[c].cands
    BY <1>5 DEF Safe, DrawnIdsAreFree
  <1>8. DrawnIdsAreFree'
    BY <1>1, <1>2, <1>3, <1>4, <1>5 DEF Safe, DrawnIdsAreFree, FlushDrawn, MergeDrawn
  <1>9. WrittenIsThere'
    BY <1>1, <1>2, <1>3, <1>4, <1>5, <1>7 DEF Safe, WrittenIsThere, MergeDrawn
  <1> HIDE DEF id
  <1>10. RunsAreSound'
    BY <1>1, <1>2, <1>3 DEF Safe, RunsAreSound
  <1>11. FilesMatch' /\ LiveInManifest'
    BY <1>3 DEF Safe, FilesMatch, LiveInManifest, Live
  <1>12. LiveIsReachable'
    <2> SUFFICES ASSUME NEW r \in Live' \ unindexed' PROVE Reachable(r)'
      BY DEF LiveIsReachable
    <2>1. r \in Live \ unindexed /\ r \notin expired
      BY <1>3 DEF Live
    <2>2. PICK i \in DOMAIN files :
            /\ r \in files[i] /\ Announced(i, r)
            /\ \A d \in Compactors : cp[d].pc = "unlink" => i \notin cp[d].todo
      BY <2>1 DEF Safe, LiveIsReachable, Reachable
    <2>3. CASE i \in cp[c].cands
      <3>0. PICK j : j = id
        OBVIOUS
      <3>1. r \in files'[j] /\ j \in DOMAIN files'
        BY <2>1, <2>2, <2>3, <1>3, <1>5, <1>6, <3>0
      <3>2. Announced(j, r)'
        BY <3>0, <3>1, <1>3, <1>4, <1>6 DEF Announced
      <3>3. \A d \in Compactors : cp'[d].pc = "unlink" => j \notin cp'[d].todo
        BY <1>1, <1>2, <1>5, <3>0
      <3> QED BY <3>1, <3>2, <3>3 DEF Reachable
    <2>4. CASE i \notin cp[c].cands
      <3>1. Announced(i, r)'
        BY <2>2, <2>4, <1>3, <1>4, <1>5 DEF Announced
      <3>2. \A d \in Compactors : cp'[d].pc = "unlink" => i \notin cp'[d].todo
        BY <1>1, <1>2, <2>2
      <3> QED BY <3>1, <3>2, <2>2, <1>3 DEF Reachable
    <2> QED BY <2>3, <2>4
  <1>13. IndexFollows'
    BY <1>1, <1>2, <1>3, <1>4, <1>5 DEF Safe, IndexFollows
  <1> QED
    BY <1>8, <1>9, <1>10, <1>11, <1>12, <1>13 DEF Safe

\* The unexpired records of the candidates stay in the manifest, in the result.
LEMMA SafeCompactAppend ==
    ASSUME TypeInv, Safe, NEW c \in Compactors, CompactAppend(c)
    PROVE  Safe'
  <1> DEFINE id == cp[c].id
  <1>1. cp[c] \in CompactRuns /\ cp[c].pc = "append"
    BY DEF CompactAppend, TypeInv, CompactOK
  <1>2. /\ cp'[c].pc = "unlink" /\ cp'[c].id = cp[c].id /\ cp'[c].recs = cp[c].recs
        /\ cp'[c].cands = cp[c].cands /\ cp'[c].todo = cp[c].todo
        /\ \A d \in Compactors : d # c => cp'[d] = cp[d]
    <2>1. /\ cp'[c] = [cp[c] EXCEPT !.pc = "unlink"]
          /\ \A d \in Compactors : d # c => cp'[d] = cp[d]
      BY MoveFacts DEF CompactAppend
    <2> QED BY <2>1, <1>1 DEF CompactRuns
  <1>3. UNCHANGED <<files, tmp, index, fl, gc, recorded, expired, failures, unindexed>>
    BY DEF CompactAppend
  <1>4. /\ DOMAIN manifest' = (DOMAIN manifest \ cp[c].cands) \cup {id}
        /\ manifest'[id] = cp[c].recs
        /\ \A i \in DOMAIN manifest \ cp[c].cands : i # id => manifest'[i] = manifest[i]
    BY DEF CompactAppend, Replaced, Put, Without
  <1>5. /\ id \notin DOMAIN manifest /\ cp[c].todo = cp[c].cands
        /\ fl.pc # "idle" => id # fl.id
        /\ \A d \in Compactors : /\ id \notin cp[d].todo
                                 /\ MergeDrawn(d) /\ d # c => id # cp[d].id
        /\ \A g \in Collectors : id \notin gc[g].todo /\ id # gc[g].id
        /\ \A i \in cp[c].cands : i \in DOMAIN files => files[i] \ expired \subseteq cp[c].recs
    BY <1>1, MergeFacts DEF MergeDrawn
  <1>6. /\ id \in DOMAIN files /\ files[id] = cp[c].recs
        /\ id \in DOMAIN index /\ index[id] = cp[c].recs
    BY <1>1 DEF Safe, WrittenIsThere
  <1>7. DrawnIdsAreFree'
    BY <1>1, <1>2, <1>3, <1>4, <1>5 DEF Safe, DrawnIdsAreFree, FlushDrawn, MergeDrawn
  <1>8. WrittenIsThere'
    BY <1>1, <1>2, <1>3 DEF Safe, WrittenIsThere
  <1> HIDE DEF id
  <1>9. RunsAreSound'
    BY <1>1, <1>2, <1>3, <1>4, <1>5 DEF Safe, RunsAreSound
  <1>10. FilesMatch'
    BY <1>3, <1>4, <1>6 DEF Safe, FilesMatch
  <1>11. LiveInManifest'
    <2> SUFFICES ASSUME NEW r \in Live' PROVE \E i \in DOMAIN manifest' : r \in manifest'[i]
      BY DEF LiveInManifest
    <2>1. r \in Live /\ r \notin expired
      BY <1>3 DEF Live
    <2>2. PICK i \in DOMAIN manifest : r \in manifest[i]
      BY <2>1 DEF Safe, LiveInManifest
    <2>3. i \in DOMAIN files /\ r \in files[i]
      BY <2>1, <2>2 DEF Safe, FilesMatch
    <2> QED BY <2>1, <2>2, <2>3, <1>4, <1>5
  <1>12. LiveIsReachable'
    <2> SUFFICES ASSUME NEW r \in Live' \ unindexed' PROVE Reachable(r)'
      BY DEF LiveIsReachable
    <2>1. r \in Live \ unindexed /\ r \notin expired
      BY <1>3 DEF Live
    <2>2. PICK i \in DOMAIN files :
            /\ r \in files[i] /\ Announced(i, r)
            /\ \A d \in Compactors : cp[d].pc = "unlink" => i \notin cp[d].todo
      BY <2>1 DEF Safe, LiveIsReachable, Reachable
    <2>3. CASE i \in cp[c].cands
      <3>0. PICK j : j = id
        OBVIOUS
      <3>1. r \in files'[j] /\ j \in DOMAIN files'
        BY <2>1, <2>2, <2>3, <1>3, <1>5, <1>6, <3>0
      <3>2. Announced(j, r)'
        BY <3>0, <3>1, <1>3, <1>6 DEF Announced
      <3>3. \A d \in Compactors : cp'[d].pc = "unlink" => j \notin cp'[d].todo
        BY <1>1, <1>2, <1>5, <3>0
      <3> QED BY <3>1, <3>2, <3>3 DEF Reachable
    <2>4. CASE i \notin cp[c].cands
      <3>1. Announced(i, r)'
        BY <2>2, <1>3 DEF Announced
      <3>2. \A d \in Compactors : cp'[d].pc = "unlink" => i \notin cp'[d].todo
        BY <1>1, <1>2, <1>5, <2>2, <2>4
      <3> QED BY <3>1, <3>2, <2>2, <1>3 DEF Reachable
    <2> QED BY <2>3, <2>4
  <1>13. IndexFollows'
    BY <1>1, <1>2, <1>3, <1>4, <1>6 DEF Safe, IndexFollows
  <1> QED
    BY <1>7, <1>8, <1>9, <1>10, <1>11, <1>12, <1>13 DEF Safe

\* An unlinked file has left the manifest, and no record is read through it.
LEMMA SafeCompactUnlink ==
    ASSUME TypeInv, Safe, NEW c \in Compactors, CompactUnlink(c)
    PROVE  Safe'
  <1>1. cp[c] \in CompactRuns /\ cp[c].pc = "unlink"
    BY DEF CompactUnlink, TypeInv, CompactOK
  <1>2. PICK id \in cp[c].todo :
            /\ RemoveFile(id)
            /\ Move(c, IF cp[c].todo \ {id} = {} THEN IdleCp
                       ELSE [cp[c] EXCEPT !.todo = cp[c].todo \ {id}])
    BY DEF CompactUnlink
  <1>3. /\ \/ cp'[c].pc = "idle" /\ cp'[c].todo = {}
           \/ cp'[c].pc = "unlink" /\ cp'[c].todo = cp[c].todo \ {id}
        /\ \A d \in Compactors : d # c => cp'[d] = cp[d]
    <2>1. /\ cp'[c] = IF cp[c].todo \ {id} = {} THEN IdleCp
                      ELSE [cp[c] EXCEPT !.todo = cp[c].todo \ {id}]
          /\ \A d \in Compactors : d # c => cp'[d] = cp[d]
      BY <1>2, MoveFacts
    <2> QED BY <2>1, <1>1 DEF CompactRuns, IdleCp
  <1>4. UNCHANGED <<manifest, tmp, index, fl, gc, recorded, expired, unindexed>>
    BY DEF CompactUnlink
  <1>5. /\ FlushDrawn => fl.id # id
        /\ \A d \in Compactors : MergeDrawn(d) => cp[d].id # id
        /\ id \notin DOMAIN manifest
    <2>2. (FlushDrawn => fl.id # id) /\ \A d \in Compactors : MergeDrawn(d) => cp[d].id # id
      BY DEF Safe, DrawnIdsAreFree
    <2>3. id \notin DOMAIN manifest
      BY <1>1 DEF Safe, RunsAreSound
    <2> QED BY <2>2, <2>3
  <1>6. /\ \A i \in DOMAIN files' : i \in DOMAIN files /\ files'[i] = files[i]
        /\ \A i \in DOMAIN files : i # id => i \in DOMAIN files'
        /\ failures' = 0 => failures = 0
        /\ FilesMatch' /\ LiveInManifest'
        /\ \A r \in Live' \ unindexed' : \E i \in DOMAIN files' :
             /\ r \in files'[i] /\ Announced(i, r)'
             /\ \A d \in Compactors : cp[d].pc = "unlink" => i \notin cp[d].todo
    BY <1>1, <1>2, <1>4, <1>5, SafeRemoveFile
  <1>7. DrawnIdsAreFree'
    BY <1>1, <1>3, <1>4 DEF Safe, DrawnIdsAreFree, FlushDrawn, MergeDrawn
  <1>8. WrittenIsThere'
    BY <1>1, <1>3, <1>4, <1>5, <1>6 DEF Safe, WrittenIsThere, FlushDrawn, MergeDrawn
  <1>9. RunsAreSound'
    BY <1>1, <1>3, <1>4, <1>6 DEF Safe, RunsAreSound
  <1>10. LiveIsReachable'
    BY <1>1, <1>3, <1>6 DEF LiveIsReachable, Reachable
  <1>11. IndexFollows'
    BY <1>1, <1>3, <1>4, <1>6 DEF Safe, IndexFollows
  <1> QED
    BY <1>6, <1>7, <1>8, <1>9, <1>10, <1>11 DEF Safe

LEMMA SafeCompactFails ==
    ASSUME TypeInv, Safe, NEW c \in Compactors, CompactFails(c)
    PROVE  Safe'
  <1>1. /\ cp'[c].pc = "idle" /\ cp'[c].todo = {}
        /\ \A d \in Compactors : d # c => cp'[d] = cp[d]
    <2>1. cp'[c] = IdleCp /\ \A d \in Compactors : d # c => cp'[d] = cp[d]
      BY MoveFacts DEF CompactFails
    <2> QED BY <2>1 DEF IdleCp
  <1>2. /\ cp[c].pc # "unlink" /\ failures' # 0
        /\ UNCHANGED <<manifest, files, fl, gc, recorded, expired, unindexed>>
    BY DEF CompactFails, TypeInv, CountersOK
  <1>3. DOMAIN tmp' \subseteq DOMAIN tmp /\ \A i \in DOMAIN tmp' : tmp'[i] = tmp[i]
    BY DEF CompactFails, Without
  <1>4. /\ DOMAIN index' \subseteq DOMAIN index /\ \A i \in DOMAIN index' : index'[i] = index[i]
        /\ \A i \in DOMAIN index : i \in DOMAIN index'
                                 \/ (cp[c].pc = "dropentry" /\ i = cp[c].id)
    BY DEF CompactFails, Without
  <1>5. cp[c].pc = "dropentry" =>
          /\ cp[c].id \in cp[c].todo
          /\ cp[c].id \in DOMAIN files => files[cp[c].id] \subseteq expired
    BY DEF Safe, RunsAreSound
  <1>6. DrawnIdsAreFree'
    BY <1>1, <1>2, <1>4 DEF Safe, DrawnIdsAreFree, FlushDrawn, MergeDrawn
  <1>7. WrittenIsThere'
    <2>1. \A d \in Compactors : cp[d].pc = "append" /\ d # c => cp[d].id \in DOMAIN index'
      BY <1>4, <1>5 DEF Safe, WrittenIsThere, DrawnIdsAreFree, MergeDrawn
    <2> QED BY <2>1, <1>1, <1>2, <1>3, <1>4 DEF Safe, WrittenIsThere
  <1>8. RunsAreSound' /\ FilesMatch' /\ LiveInManifest'
    BY <1>1, <1>2 DEF Safe, RunsAreSound, FilesMatch, LiveInManifest, Live
  <1>9. LiveIsReachable'
    BY <1>1, <1>2, <1>4, <1>5 DEF Safe, LiveIsReachable, Live, Reachable, Announced
  <1>10. IndexFollows'
    BY <1>2 DEF IndexFollows
  <1> QED
    BY <1>6, <1>7, <1>8, <1>9, <1>10 DEF Safe

LEMMA SafeCompact ==
    ASSUME TypeInv, Safe, NEW c \in Compactors, Compact(c), ~clash'
    PROVE  Safe'
  BY SafeCompactPick, SafeCompactOpen, SafeCompactAllocate, SafeCompactWrite,
     SafeDropFile, SafeDropEntry, SafeCompactRename, SafeCompactIndex,
     SafeCompactAppend, SafeCompactUnlink, SafeCompactFails DEF Compact

-----------------------------------------------------------------------------
(* GC, the passing of time and a restart keep it *)

\* What a collector lists or is removing has no unexpired record.
LEMMA CollectFacts ==
    ASSUME TypeInv, Safe, NEW g \in Collectors, NEW i \in gc[g].todo \cup {gc[g].id}
    PROVE  /\ i \in DOMAIN files => files[i] \subseteq expired
           /\ i \in DOMAIN manifest => manifest[i] \subseteq expired
           /\ FlushDrawn => fl.id # i
           /\ \A c \in Compactors : MergeDrawn(c) => cp[c].id # i
  <1>1. i \in DOMAIN files => files[i] \subseteq expired
    BY DEF Safe, RunsAreSound
  <1>2. i \in DOMAIN manifest => manifest[i] \subseteq expired
    BY <1>1 DEF Safe, FilesMatch
  <1>3. (FlushDrawn => fl.id # i) /\ \A c \in Compactors : MergeDrawn(c) => cp[c].id # i
    BY DEF Safe, DrawnIdsAreFree
  <1> QED BY <1>1, <1>2, <1>3

LEMMA SafeGcScan ==
    ASSUME TypeInv, Safe, NEW g \in Collectors, GcScan(g)
    PROVE  Safe'
  <1>1. /\ gc'[g].pc = "index" /\ gc'[g].id = 0 /\ gc'[g].todo = ExpiredSsts
        /\ \A h \in Collectors : h # g => gc'[h] = gc[h]
    BY DEF GcScan, TypeInv, CollectOK
  <1>2. UNCHANGED <<manifest, files, tmp, index, fl, cp, recorded, expired, failures,
                    unindexed>>
    BY DEF GcScan
  <1>3. \A i \in ExpiredSsts : i \in DOMAIN manifest /\ (i \in DOMAIN files => files[i] \subseteq expired)
    BY DEF ExpiredSsts, Safe, FilesMatch
  <1>4. 0 \notin DOMAIN files
    BY DEF TypeInv, MapsOK, IsSstMap
  <1>5. (FlushDrawn => fl.id # 0) /\ \A c \in Compactors : MergeDrawn(c) => cp[c].id # 0
    BY DEF TypeInv, FlushOK, CompactOK, FlushDrawn, MergeDrawn
  <1>6. DrawnIdsAreFree'
    BY <1>1, <1>2, <1>3, <1>5 DEF Safe, DrawnIdsAreFree, FlushDrawn, MergeDrawn
  <1>7. RunsAreSound'
    BY <1>1, <1>2, <1>3, <1>4 DEF Safe, RunsAreSound
  <1>8. WrittenIsThere' /\ FilesMatch' /\ LiveInManifest'
    BY <1>2 DEF Safe, WrittenIsThere, FilesMatch, LiveInManifest, Live
  <1>9. LiveIsReachable' /\ IndexFollows'
    BY <1>2 DEF Safe, LiveIsReachable, Live, Reachable, Announced, IndexFollows
  <1> QED
    BY <1>6, <1>7, <1>8, <1>9 DEF Safe

LEMMA SafeGcIndex ==
    ASSUME TypeInv, Safe, NEW g \in Collectors, GcIndex(g)
    PROVE  Safe'
  <1>1. PICK id \in gc[g].todo :
            /\ index' = Without(index, {id})
            /\ gc' = [gc EXCEPT ![g] = [pc |-> "append", id |-> id,
                                        todo |-> ListLeft(gc[g].todo, id)]]
    BY DEF GcIndex
  <1>2. /\ gc'[g].pc = "append" /\ gc'[g].id = id /\ gc'[g].todo = gc[g].todo \ {id}
        /\ \A h \in Collectors : h # g => gc'[h] = gc[h]
    BY <1>1 DEF TypeInv, CollectOK, ListLeft
  <1>3. UNCHANGED <<manifest, files, tmp, fl, cp, recorded, expired, failures, unindexed>>
    BY DEF GcIndex
  <1>4. DOMAIN index' = DOMAIN index \ {id} /\ \A i \in DOMAIN index' : index'[i] = index[i]
    BY <1>1 DEF Without
  <1>5. /\ id \in DOMAIN files => files[id] \subseteq expired
        /\ id \in DOMAIN manifest => manifest[id] \subseteq expired
        /\ \A c \in Compactors : MergeDrawn(c) => cp[c].id # id
    BY CollectFacts
  <1>6. DrawnIdsAreFree'
    BY <1>2, <1>3, <1>4 DEF Safe, DrawnIdsAreFree, FlushDrawn, MergeDrawn
  <1>7. WrittenIsThere'
    BY <1>3, <1>4, <1>5 DEF Safe, WrittenIsThere, MergeDrawn
  <1>8. RunsAreSound'
    BY <1>2, <1>3 DEF Safe, RunsAreSound
  <1>9. FilesMatch' /\ LiveInManifest'
    BY <1>3 DEF Safe, FilesMatch, LiveInManifest, Live
  <1>10. LiveIsReachable'
    BY <1>3, <1>4, <1>5 DEF Safe, LiveIsReachable, Live, Reachable, Announced
  <1>11. IndexFollows'
    BY <1>3, <1>4, <1>5 DEF Safe, IndexFollows
  <1> QED
    BY <1>6, <1>7, <1>8, <1>9, <1>10, <1>11 DEF Safe

LEMMA SafeGcAppend ==
    ASSUME TypeInv, Safe, NEW g \in Collectors, GcAppend(g)
    PROVE  Safe'
  <1>1. /\ gc'[g].pc = "unlink" /\ gc'[g].id = gc[g].id /\ gc'[g].todo = gc[g].todo
        /\ \A h \in Collectors : h # g => gc'[h] = gc[h]
    BY DEF GcAppend, TypeInv, CollectOK, GcRuns
  <1>2. UNCHANGED <<files, tmp, index, fl, cp, recorded, expired, failures, unindexed>>
    BY DEF GcAppend
  <1>3. /\ DOMAIN manifest' = DOMAIN manifest \ {gc[g].id}
        /\ \A i \in DOMAIN manifest' : manifest'[i] = manifest[i]
    BY DEF GcAppend, Without
  <1>4. gc[g].id \in DOMAIN manifest => manifest[gc[g].id] \subseteq expired
    BY CollectFacts
  <1>5. DrawnIdsAreFree'
    BY <1>1, <1>2, <1>3 DEF Safe, DrawnIdsAreFree, FlushDrawn, MergeDrawn
  <1>6. RunsAreSound'
    BY <1>1, <1>2, <1>3 DEF Safe, RunsAreSound
  <1>7. WrittenIsThere' /\ FilesMatch'
    BY <1>2, <1>3 DEF Safe, WrittenIsThere, FilesMatch
  <1>8. LiveInManifest' /\ IndexFollows'
    BY <1>2, <1>3, <1>4 DEF Safe, LiveInManifest, Live, IndexFollows
  <1>9. LiveIsReachable'
    BY <1>2 DEF Safe, LiveIsReachable, Live, Reachable, Announced
  <1> QED
    BY <1>5, <1>6, <1>7, <1>8, <1>9 DEF Safe

LEMMA SafeGcUnlink ==
    ASSUME TypeInv, Safe, NEW g \in Collectors, GcUnlink(g)
    PROVE  Safe'
  <1>0. PICK id : id = gc[g].id
    OBVIOUS
  <1>1. gc[g].pc = "unlink" /\ RemoveFile(id)
    BY <1>0 DEF GcUnlink
  <1>2. /\ gc'[g].pc \in {"idle", "index"} /\ gc'[g].id = 0 /\ gc'[g].todo = gc[g].todo
        /\ \A h \in Collectors : h # g => gc'[h] = gc[h]
    BY DEF GcUnlink, TypeInv, CollectOK, GcRuns, IdleGc
  <1>3. UNCHANGED <<manifest, tmp, index, fl, cp, recorded, expired, unindexed>>
    BY DEF GcUnlink
  <1>4. /\ id \in DOMAIN files => files[id] \subseteq expired
        /\ FlushDrawn => fl.id # id
        /\ \A c \in Compactors : MergeDrawn(c) => cp[c].id # id
    BY <1>0, CollectFacts
  <1>5. /\ \A i \in DOMAIN files' : i \in DOMAIN files /\ files'[i] = files[i]
        /\ \A i \in DOMAIN files : i # id => i \in DOMAIN files'
        /\ failures' = 0 => failures = 0
        /\ FilesMatch' /\ LiveInManifest'
        /\ \A r \in Live' \ unindexed' : \E i \in DOMAIN files' :
             /\ r \in files'[i] /\ Announced(i, r)'
             /\ \A d \in Compactors : cp[d].pc = "unlink" => i \notin cp[d].todo
    BY <1>1, <1>3, <1>4, SafeRemoveFile
  <1>6. (FlushDrawn => fl.id # 0) /\ \A c \in Compactors : MergeDrawn(c) => cp[c].id # 0
    BY DEF TypeInv, FlushOK, CompactOK, FlushDrawn, MergeDrawn
  <1>7. 0 \notin DOMAIN files
    BY DEF TypeInv, MapsOK, IsSstMap
  <1>8. DrawnIdsAreFree'
    BY <1>2, <1>3, <1>6 DEF Safe, DrawnIdsAreFree, FlushDrawn, MergeDrawn
  <1>9. WrittenIsThere'
    BY <1>3, <1>4, <1>5 DEF Safe, WrittenIsThere, FlushDrawn, MergeDrawn
  <1>10. RunsAreSound'
    BY <1>2, <1>3, <1>5, <1>7 DEF Safe, RunsAreSound
  <1>11. LiveIsReachable'
    BY <1>3, <1>5 DEF LiveIsReachable, Reachable
  <1>12. IndexFollows'
    BY <1>3, <1>5 DEF Safe, IndexFollows
  <1> QED
    BY <1>5, <1>8, <1>9, <1>10, <1>11, <1>12 DEF Safe

LEMMA SafeGcFails ==
    ASSUME TypeInv, Safe, NEW g \in Collectors, GcFails(g)
    PROVE  Safe'
  <1>1. /\ gc'[g].pc = "idle" /\ gc'[g].id = 0 /\ gc'[g].todo = {}
        /\ \A h \in Collectors : h # g => gc'[h] = gc[h]
    BY DEF GcFails, TypeInv, CollectOK, IdleGc
  <1>2. /\ failures' # 0
        /\ UNCHANGED <<manifest, files, tmp, index, fl, cp, recorded, expired, unindexed>>
    BY DEF GcFails, TypeInv, CountersOK
  <1>3. (FlushDrawn => fl.id # 0) /\ \A c \in Compactors : MergeDrawn(c) => cp[c].id # 0
    BY DEF TypeInv, FlushOK, CompactOK, FlushDrawn, MergeDrawn
  <1>4. 0 \notin DOMAIN files
    BY DEF TypeInv, MapsOK, IsSstMap
  <1>5. DrawnIdsAreFree'
    BY <1>1, <1>2, <1>3 DEF Safe, DrawnIdsAreFree, FlushDrawn, MergeDrawn
  <1>6. RunsAreSound'
    BY <1>1, <1>2, <1>4 DEF Safe, RunsAreSound
  <1>7. WrittenIsThere' /\ FilesMatch' /\ LiveInManifest'
    BY <1>2 DEF Safe, WrittenIsThere, FilesMatch, LiveInManifest, Live
  <1>8. LiveIsReachable' /\ IndexFollows'
    BY <1>2 DEF Safe, LiveIsReachable, Live, Reachable, Announced, IndexFollows
  <1> QED
    BY <1>5, <1>6, <1>7, <1>8 DEF Safe

LEMMA SafeExpire ==
    ASSUME TypeInv, Safe, NEW r \in Records, Expire(r)
    PROVE  Safe'
  <1>1. /\ expired \subseteq expired'
        /\ UNCHANGED <<manifest, files, tmp, index, fl, cp, gc, recorded, failures,
                       unindexed>>
    BY DEF Expire
  <1>2. DrawnIdsAreFree' /\ WrittenIsThere'
    BY <1>1 DEF Safe, DrawnIdsAreFree, FlushDrawn, MergeDrawn, WrittenIsThere
  <1>3. RunsAreSound' /\ FilesMatch'
    BY <1>1 DEF Safe, RunsAreSound, FilesMatch
  <1>4. LiveInManifest' /\ LiveIsReachable'
    BY <1>1 DEF Safe, LiveInManifest, LiveIsReachable, Live, Reachable, Announced
  <1>5. IndexFollows'
    BY <1>1 DEF Safe, IndexFollows
  <1> QED
    BY <1>2, <1>3, <1>4, <1>5 DEF Safe

\* What the runs had in hand is forgotten; the index is what the manifest says.
LEMMA SafeRestart ==
    ASSUME TypeInv, Safe, Restart
    PROVE  Safe'
  <1>1. /\ index' = manifest /\ fl'.pc = "idle"
        /\ \A c \in Compactors : cp'[c].pc = "idle" /\ cp'[c].todo = {}
        /\ \A g \in Collectors : gc'[g].pc = "idle" /\ gc'[g].todo = {} /\ gc'[g].id = 0
        /\ UNCHANGED <<manifest, files, recorded, expired, failures>>
    BY DEF Restart, Idle, IdleCp, IdleGc
  <1>2. 0 \notin DOMAIN files
    BY DEF TypeInv, MapsOK, IsSstMap
  <1>3. DrawnIdsAreFree' /\ WrittenIsThere'
    BY <1>1 DEF DrawnIdsAreFree, FlushDrawn, MergeDrawn, WrittenIsThere
  <1>4. RunsAreSound'
    BY <1>1, <1>2 DEF RunsAreSound
  <1>5. FilesMatch' /\ LiveInManifest' /\ IndexFollows'
    BY <1>1 DEF Safe, FilesMatch, LiveInManifest, Live, IndexFollows
  <1>6. LiveIsReachable'
    <2> SUFFICES ASSUME NEW r \in Live' PROVE Reachable(r)'
      BY DEF LiveIsReachable
    <2>1. r \in Live /\ r \notin expired
      BY <1>1 DEF Live
    <2>2. PICK i \in DOMAIN manifest : r \in manifest[i]
      BY <2>1 DEF Safe, LiveInManifest
    <2>3. i \in DOMAIN files /\ r \in files[i]
      BY <2>1, <2>2 DEF Safe, FilesMatch
    <2>4. Announced(i, r)'
      BY <2>2, <1>1 DEF Announced
    <2> QED BY <2>3, <2>4, <1>1 DEF Reachable
  <1> QED
    BY <1>3, <1>4, <1>5, <1>6 DEF Safe

-----------------------------------------------------------------------------
(* The invariant, and the theorems *)

LEMMA SafeInit ==
    ASSUME Init
    PROVE  Safe
  <1>1. /\ DOMAIN manifest = {} /\ DOMAIN files = {} /\ DOMAIN index = {}
        /\ recorded = {} /\ fl.pc = "idle"
        /\ \A c \in Compactors : cp[c].pc = "idle"
        /\ \A g \in Collectors : gc[g].pc = "idle"
    BY DEF Init, Idle, IdleCp, IdleGc
  <1> QED
    BY <1>1 DEF Safe, DrawnIdsAreFree, FlushDrawn, MergeDrawn, WrittenIsThere,
                RunsAreSound, FilesMatch, LiveInManifest, LiveIsReachable, Live,
                IndexFollows

\* A clash is never forgotten.
LEMMA ClashStays ==
    ASSUME Next, ~clash'
    PROVE  ~clash
  <1>1. CASE Flush
    BY <1>1 DEF Flush, FlushBegin, FlushWrite, FlushRename, FlushAppend, FlushIndex,
                CheckpointFails, FlushFails
  <1>2. ASSUME NEW c \in Compactors, Compact(c) PROVE ~clash
    BY <1>2 DEF Compact, CompactPick, CompactOpen, CompactAllocate, CompactWrite,
                DropFile, DropEntry, CompactRename, CompactIndex, CompactAppend,
                CompactUnlink, CompactFails
  <1>3. ASSUME NEW g \in Collectors, Collect(g) PROVE ~clash
    BY <1>3 DEF Collect, GcScan, GcIndex, GcAppend, GcUnlink, GcFails
  <1>4. CASE (\E r \in Records : Expire(r)) \/ Restart
    BY <1>4 DEF Expire, Restart
  <1> QED
    BY <1>1, <1>2, <1>3, <1>4 DEF Next

\* As long as no SST id is handed out twice, drawn ids are free, files match
\* the manifest, and every live record is in it and reachable.
LEMMA SafeInvariant == Spec => [](TypeInv /\ SafeInv)
  <1>1. Init => TypeInv /\ SafeInv
    BY TypeInit, SafeInit DEF SafeInv
  <1>2. ASSUME TypeInv, SafeInv, [Next]_vars
        PROVE  SafeInv'
    <2>1. CASE UNCHANGED vars
      <3>1. ASSUME Safe PROVE Safe'
        <4>1. UNCHANGED <<manifest, files, tmp, index, fl, cp, gc, recorded, expired,
                          failures, unindexed>>
          BY <2>1 DEF vars
        <4>2. DrawnIdsAreFree' /\ WrittenIsThere' /\ RunsAreSound' /\ FilesMatch'
          BY <3>1, <4>1 DEF Safe, DrawnIdsAreFree, FlushDrawn, MergeDrawn,
                            WrittenIsThere, RunsAreSound, FilesMatch
        <4>3. LiveInManifest' /\ LiveIsReachable' /\ IndexFollows'
          BY <3>1, <4>1 DEF Safe, LiveInManifest, LiveIsReachable, Live, Reachable,
                            Announced, IndexFollows
        <4> QED BY <4>2, <4>3 DEF Safe
      <3>2. clash' = clash
        BY <2>1 DEF vars
      <3> QED BY <1>2, <3>1, <3>2, Zenon DEF SafeInv
    <2>2. CASE Next
      <3> SUFFICES ASSUME ~clash' PROVE Safe'
        BY DEF SafeInv
      <3>1. ~clash
        BY <2>2, ClashStays
      <3>2. Safe
        BY <1>2, <3>1 DEF SafeInv
      <3>3. CASE Flush
        BY <1>2, <3>2, <3>3, SafeFlush
      <3>4. CASE \E c \in Compactors : Compact(c)
        BY <1>2, <3>2, <3>4, SafeCompact
      <3>5. CASE \E g \in Collectors : Collect(g)
        BY <1>2, <3>2, <3>5, SafeGcScan, SafeGcIndex, SafeGcAppend, SafeGcUnlink,
           SafeGcFails DEF Collect
      <3>6. CASE \E r \in Records : Expire(r)
        BY <1>2, <3>2, <3>6, SafeExpire
      <3>7. CASE Restart
        BY <1>2, <3>2, <3>7, SafeRestart
      <3> QED
        BY <2>2, <3>3, <3>4, <3>5, <3>6, <3>7 DEF Next
    <2> QED
      BY <1>2, <2>1, <2>2
  <1>3. TypeInv /\ SafeInv /\ [Next]_vars => (TypeInv /\ SafeInv)'
    BY <1>2, TypeStep
  <1> QED
    BY <1>1, <1>3, PTL DEF Spec

\* Flushes, merges and GC interleaved in any way, with failing file operations
\* and appends and with restarts at any point: an unexpired record that was
\* flushed is in an SST of the manifest whose file has it, unless
\* Manifest::next_sst_id handed out an id that was still in use.
THEOREM FlushedStays == Spec => []NothingLost
  <1>1. TypeInv /\ SafeInv => NothingLost
    BY DEF SafeInv, Safe, NothingLost, LiveInManifest, FilesMatch, Live, Held
  <1> QED
    BY <1>1, SafeInvariant, PTL

\* The same for the read path: the record is found through the block index,
\* except between the manifest append and add_sst of its flush.
THEOREM FlushedIsFound == Spec => []NothingHidden
  <1>1. TypeInv /\ SafeInv => NothingHidden
    <2> SUFFICES ASSUME Safe, NEW r \in Live \ unindexed
                 PROVE  Held(r, index) \/ r \in fl.recs
      BY DEF SafeInv, NothingHidden
    <2>1. Reachable(r)
      BY DEF Safe, LiveIsReachable
    <2> QED
      BY <2>1 DEF Reachable, Announced, Held
  <1> QED
    BY <1>1, SafeInvariant, PTL

\* Once every run is over, and none has failed, manifest, index and directory
\* agree on every SST with an unexpired record.
THEOREM QuietMeansAgreement == Spec => []QuietAgreement
  <1>1. TypeInv /\ SafeInv => QuietAgreement
    <2> SUFFICES ASSUME Safe, Quiet, failures = 0, NEW i \in DOMAIN manifest,
                        ~(manifest[i] \subseteq expired)
                 PROVE  /\ i \in DOMAIN index /\ index[i] = manifest[i]
                        /\ i \in DOMAIN files /\ files[i] = manifest[i]
      BY DEF SafeInv, QuietAgreement
    <2>1. i \in DOMAIN index /\ index[i] = manifest[i]
      BY DEF Safe, IndexFollows, Quiet
    <2> QED
      BY <2>1 DEF Safe, FilesMatch
  <1> QED
    BY <1>1, SafeInvariant, PTL
=============================================================================
