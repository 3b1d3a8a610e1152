--------------------------- MODULE ReadRace_proofs ---------------------------
(***************************************************************************)
(* Proofs about get_sync and ScanIterator::build racing flush, compaction  *)
(* and GC: for any number of reading threads and of runs in the background.*)
(* What SstLifecycle_proofs shows of the background runs is used here.     *)
(***************************************************************************)
EXTENDS ReadRace, SstLifecycle_proofs

-----------------------------------------------------------------------------
(* The background runs, with or without readers, are those of SstLifecycle *)

\* Reading changes nothing of the files, the manifest and the index.
LEMMA ReadersOnlyRead == ReadSpec => Spec
  <1>1. ReadInit => Init
    BY DEF ReadInit
  <1>2. [ReadNext]_allVars => [Next]_vars
    <2> SUFFICES ASSUME [ReadNext]_allVars PROVE [Next]_vars
      OBVIOUS
    <2>1. CASE Background \/ ReadRestart
      BY <2>1 DEF Background, ReadRestart, Next
    <2>2. CASE EvictList \/ EvictRetain \/ \E id \in DOMAIN cache : CacheDrops(id)
      BY <2>2 DEF EvictList, EvictRetain, CacheDrops
    <2>3. ASSUME NEW t \in Gets, GetStep(t) PROVE UNCHANGED vars
      BY <2>3 DEF GetStep, GetActive, GetFrozen, GetIndex, GetOpen, GetInsert, GetBlock, GetFill,
                  GetReturns
    <2>4. ASSUME NEW t \in Scans, ScanStep(t) PROVE UNCHANGED vars
      BY <2>4 DEF ScanStep, ScanActive, ScanFrozen, ScanIndex, ScanSnapshot, ScanOpen, ScanBlock,
                  ScanFill, ScanReturns
    <2>5. CASE UNCHANGED allVars
      BY <2>5 DEF allVars
    <2> QED BY <2>1, <2>2, <2>3, <2>4, <2>5 DEF ReadNext
  <1> QED
    BY <1>1, <1>2, PTL DEF ReadSpec, Spec

\* The id that is asked first is one of the ids to ask.
LEMMA FirstIsOne ==
    ASSUME NEW S \in SUBSET SstIds, S # {}
    PROVE  Min(S) \in S
  <1>1. S \in SUBSET Nat
    BY DEF SstIds
  <1>2. \E x \in S : \A y \in S : x <= y
    BY <1>1, LeastNatural
  <1>3. (CHOOSE x \in S : \A y \in S : x <= y) \in S
    BY <1>2, Zenon
  <1> QED BY <1>3 DEF Min

-----------------------------------------------------------------------------
(* What readers find while the background runs move the records *)

\* The SST through which r can be read, and no merge is unlinking it.
Serves(i, r) ==
    /\ i \in DOMAIN files /\ i \in DOMAIN index
    /\ r \in files[i] /\ r \in index[i]
    /\ \A c \in Compactors : cp[c].pc = "unlink" => i \notin cp[c].todo

Served(r) == \E i \in DOMAIN files : Serves(i, r)

\* Whatever the index announces can be read through it, though not always where
\* it announces it: entries of SSTs that were merged and unlinked stay behind.
IndexServes == \A i \in DOMAIN index : \A r \in index[i] \ expired : Served(r)

\* A flush writes records that no SST has had before, and its file keeps them.
FlushIsNew ==
    /\ recorded \subseteq 1..flushes
    /\ fl.pc # "idle" => fl.recs \subseteq 1..flushes /\ fl.recs \cap unindexed = {}
    /\ FlushDrawn => fl.recs \cap recorded = {}
    /\ fl.pc = "index" => /\ fl.recs \subseteq recorded
                          /\ fl.id \in DOMAIN files => files[fl.id] = fl.recs

\* An id that a run has drawn and not yet put into the index.
Unborn(id) ==
    \/ fl.pc # "idle" /\ id = fl.id
    \/ \E c \in Compactors : cp[c].pc \in {"write", "rename", "index"} /\ id = cp[c].id

\* File and index entry of an SST stay, or go.
Same(i) ==
    /\ i \in DOMAIN files' => i \in DOMAIN files /\ files'[i] = files[i]
    /\ i \in DOMAIN index' => i \in DOMAIN index /\ index'[i] = index[i]

\* The file or the index entry of a drawn id appears.
Arrives(id, recs) ==
    /\ Unborn(id) /\ id \notin DOMAIN index
    /\ id \in DOMAIN files' => files'[id] = recs
    /\ id \in DOMAIN index' => index'[id] = recs

\* What a step does to the contents: only SSTs with drawn ids appear.
ContentStep ==
    \/ \A i : Same(i)
    \/ \E id, recs : Arrives(id, recs) /\ \A i : i # id => Same(i)

\* What a step does to what can be read.
ServesStep ==
    /\ \A r : r \notin expired' /\ Served(r) => Served(r)'
    /\ \A i \in DOMAIN index' : \A r \in index'[i] \ expired' :
        (i \in DOMAIN index /\ r \in index[i]) \/ Served(r)'

LifeStep == ContentStep /\ ServesStep /\ FlushIsNew'

\* No merge starts to unlink its candidates.
UnlinksLess ==
    \A c \in Compactors : cp'[c].pc = "unlink" =>
        cp[c].pc = "unlink" /\ cp'[c].todo \subseteq cp[c].todo

\* Steps that touch neither files nor index.
LEMMA LifeElsewhere ==
    ASSUME files' = files, index' = index, UnlinksLess
    PROVE  ContentStep /\ ServesStep
  <1>1. \A i : Same(i)
    BY DEF Same
  <1>2. \A i, r : Serves(i, r) => Serves(i, r)'
    BY DEF Serves, UnlinksLess
  <1>3. \A r : Served(r) => Served(r)'
    BY <1>2 DEF Served
  <1> QED BY <1>1, <1>3 DEF ContentStep, ServesStep

\* A run renames its temporary file over the file of the id it has drawn.
LEMMA LifeRename ==
    ASSUME index' = index, UnlinksLess, NEW id, NEW recs, files' = Put(files, id, recs),
           Unborn(id), id \notin DOMAIN index
    PROVE  ContentStep /\ ServesStep
  <1>1. /\ id \in DOMAIN files' /\ files'[id] = recs
        /\ \A i \in DOMAIN files : i \in DOMAIN files'
        /\ \A i \in DOMAIN files' : i # id => i \in DOMAIN files /\ files'[i] = files[i]
    BY DEF Put
  <1>2. \A i : i # id => Same(i)
    BY <1>1 DEF Same
  <1>3. Arrives(id, recs)
    BY <1>1 DEF Arrives
  <1>4. \A i, r : Serves(i, r) => Serves(i, r)'
    BY <1>1 DEF Serves, UnlinksLess
  <1>5. \A r : Served(r) => Served(r)'
    BY <1>1, <1>4 DEF Served
  <1>6. ContentStep
    BY <1>2, <1>3 DEF ContentStep
  <1> QED BY <1>5, <1>6 DEF ServesStep

\* A file is removed that has no unexpired record or that a merge has replaced.
LEMMA LifeRemoveFile ==
    ASSUME index' = index, UnlinksLess, expired' = expired, NEW id, RemoveFile(id),
           \/ id \in DOMAIN files => files[id] \subseteq expired
           \/ \E c \in Compactors : cp[c].pc = "unlink" /\ id \in cp[c].todo
    PROVE  ContentStep /\ ServesStep
  <1>1. /\ \A i \in DOMAIN files' : i \in DOMAIN files /\ files'[i] = files[i]
        /\ \A i \in DOMAIN files : i # id => i \in DOMAIN files'
    BY DEF RemoveFile, Without
  <1>2. \A i : Same(i)
    BY <1>1 DEF Same
  <1>3. ASSUME NEW r, r \notin expired, Served(r) PROVE Served(r)'
    <2>1. PICK i \in DOMAIN files : Serves(i, r)
      BY <1>3 DEF Served
    <2>2. i # id
      BY <1>3, <2>1 DEF Serves
    <2>3. i \in DOMAIN files' /\ Serves(i, r)'
      BY <1>1, <2>1, <2>2 DEF Serves, UnlinksLess
    <2> QED BY <2>3 DEF Served
  <1> QED BY <1>2, <1>3 DEF ContentStep, ServesStep

\* An SST without unexpired records leaves the index.
LEMMA LifeRemoveIndex ==
    ASSUME files' = files, UnlinksLess, expired' = expired, NEW id,
           index' = Without(index, {id}), id \in DOMAIN files => files[id] \subseteq expired
    PROVE  ContentStep /\ ServesStep
  <1>1. /\ \A i \in DOMAIN index' : i \in DOMAIN index /\ index'[i] = index[i]
        /\ \A i \in DOMAIN index : i # id => i \in DOMAIN index'
    BY DEF Without
  <1>2. \A i : Same(i)
    BY <1>1 DEF Same
  <1>3. ASSUME NEW r, r \notin expired, Served(r) PROVE Served(r)'
    <2>1. PICK i \in DOMAIN files : Serves(i, r)
      BY <1>3 DEF Served
    <2>2. i # id
      BY <1>3, <2>1 DEF Serves
    <2>3. i \in DOMAIN files' /\ Serves(i, r)'
      BY <1>1, <2>1, <2>2 DEF Serves, UnlinksLess
    <2> QED BY <2>3 DEF Served
  <1> QED BY <1>1, <1>2, <1>3 DEF ContentStep, ServesStep

\* Only the flush itself makes progress with what it has in hand.
LEMMA FlushUntouched ==
    ASSUME FlushIsNew, UNCHANGED <<fl, flushes, recorded, unindexed>>,
           fl.pc = "index" /\ fl.id \in DOMAIN files' =>
                fl.id \in DOMAIN files /\ files'[fl.id] = files[fl.id]
    PROVE  FlushIsNew'
  BY DEF FlushIsNew, FlushDrawn

LEMMA LifeFlush ==
    ASSUME TypeInv, Safe, FlushIsNew, Flush
    PROVE  LifeStep
  <1>0. flushes \in Nat /\ unindexed \subseteq recorded
    BY DEF TypeInv, CountersOK
  <1>1. UnlinksLess /\ expired' = expired
    BY DEF Flush, FlushBegin, FlushWrite, FlushRename, FlushAppend, FlushIndex,
           CheckpointFails, FlushFails, UnlinksLess
  <1>2. CASE FlushBegin
    <2>1. files' = files /\ index' = index
      BY <1>2 DEF FlushBegin
    <2>2. fl'.pc = "write" /\ fl'.recs = {flushes + 1} /\ flushes' = flushes + 1
          /\ UNCHANGED <<recorded, unindexed>>
      BY <1>2 DEF FlushBegin
    <2>3. recorded \subseteq 1..flushes' /\ fl'.recs \subseteq 1..flushes'
          /\ fl'.recs \cap recorded = {}
      BY <1>0, <2>2 DEF FlushIsNew
    <2>4. FlushIsNew'
      BY <1>0, <2>2, <2>3 DEF FlushIsNew, FlushDrawn
    <2> QED BY <1>1, <2>1, <2>4, LifeElsewhere DEF LifeStep
  <1>3. CASE FlushWrite
    <2>1. files' = files /\ index' = index
      BY <1>3 DEF FlushWrite
    <2>2. fl.pc = "write" /\ fl'.pc = "rename" /\ fl'.recs = fl.recs
          /\ UNCHANGED <<flushes, recorded, unindexed>>
      BY <1>3 DEF FlushWrite, TypeInv, FlushOK
    <2>3. FlushIsNew'
      BY <2>2 DEF FlushIsNew, FlushDrawn
    <2> QED BY <1>1, <2>1, <2>3, LifeElsewhere DEF LifeStep
  <1>4. CASE FlushRename
    <2>1. index' = index /\ files' = Put(files, fl.id, tmp[fl.id])
      BY <1>4 DEF FlushRename
    <2>2. fl.pc = "rename" /\ fl'.pc = "append" /\ fl'.recs = fl.recs
          /\ UNCHANGED <<flushes, recorded, unindexed>>
      BY <1>4 DEF FlushRename, TypeInv, FlushOK
    <2>3. Unborn(fl.id) /\ fl.id \notin DOMAIN index
      BY <2>2 DEF Unborn, Safe, DrawnIdsAreFree
    <2>4. FlushIsNew'
      BY <2>2 DEF FlushIsNew, FlushDrawn
    <2>5. ContentStep /\ ServesStep
      BY <1>1, <2>1, <2>3, LifeRename
    <2> QED BY <2>4, <2>5 DEF LifeStep
  <1>5. CASE FlushAppend
    <2>1. files' = files /\ index' = index
      BY <1>5 DEF FlushAppend
    <2>2. /\ fl.pc = "append" /\ fl'.pc = "index" /\ fl'.recs = fl.recs /\ fl'.id = fl.id
          /\ recorded' = recorded \cup fl.recs /\ UNCHANGED <<flushes, unindexed>>
      BY <1>5 DEF FlushAppend, TypeInv, FlushOK
    <2>3. fl.id \in DOMAIN files /\ files[fl.id] = fl.recs
      BY <2>2 DEF Safe, WrittenIsThere
    <2>4. FlushIsNew'
      BY <2>1, <2>2, <2>3 DEF FlushIsNew, FlushDrawn
    <2> QED BY <1>1, <2>1, <2>4, LifeElsewhere DEF LifeStep
  <1>6. CASE FlushIndex
    <2>1. /\ fl.pc = "index" /\ fl'.pc = "idle" /\ files' = files /\ cp' = cp
          /\ UNCHANGED <<flushes, recorded, unindexed>>
      BY <1>6 DEF FlushIndex, Idle
    <2>2. /\ fl.id \in DOMAIN index' /\ index'[fl.id] = fl.recs
          /\ \A i \in DOMAIN index : i \in DOMAIN index'
          /\ \A i \in DOMAIN index' : i # fl.id => i \in DOMAIN index /\ index'[i] = index[i]
      BY <1>6 DEF FlushIndex, Put
    <2>3. fl.id \notin DOMAIN index
      BY <2>1 DEF Safe, DrawnIdsAreFree
    <2>4. FlushIsNew'
      BY <2>1 DEF FlushIsNew, FlushDrawn
    <2>5. ContentStep
      <3>1. \A i : i # fl.id => Same(i)
        BY <2>1, <2>2 DEF Same
      <3>2. Arrives(fl.id, fl.recs)
        BY <2>1, <2>2, <2>3 DEF Arrives, Unborn, FlushIsNew
      <3> QED BY <3>1, <3>2 DEF ContentStep
    <2>6. \A i, r : Serves(i, r) => Serves(i, r)'
      BY <2>1, <2>2, <2>3 DEF Serves
    <2>7. \A r : Served(r) => Served(r)'
      BY <2>1, <2>6 DEF Served
    <2>8. ASSUME NEW r \in fl.recs \ expired PROVE Served(r)'
      <3>1. r \in Live \ unindexed
        BY <2>1 DEF FlushIsNew, Live
      <3>2. PICK i \in DOMAIN files :
                /\ r \in files[i] /\ Announced(i, r)
                /\ \A c \in Compactors : cp[c].pc = "unlink" => i \notin cp[c].todo
        BY <3>1 DEF Safe, LiveIsReachable, Reachable
      <3>3. i \in DOMAIN index' /\ r \in index'[i]
        BY <2>1, <2>2, <2>3, <3>2 DEF Announced
      <3> QED BY <2>1, <3>2, <3>3 DEF Served, Serves
    <2>9. ServesStep
      BY <1>1, <2>2, <2>7, <2>8 DEF ServesStep
    <2> QED BY <2>4, <2>5, <2>9 DEF LifeStep
  <1>7. CASE CheckpointFails
    <2>1. files' = files /\ index' = index
      BY <1>7 DEF CheckpointFails
    <2>2. /\ fl.pc = "append" /\ fl'.pc = "idle"
          /\ recorded' = recorded \cup fl.recs /\ UNCHANGED <<flushes>>
      BY <1>7 DEF CheckpointFails, Idle
    <2>3. FlushIsNew'
      BY <2>2 DEF FlushIsNew, FlushDrawn
    <2> QED BY <1>1, <2>1, <2>3, LifeElsewhere DEF LifeStep
  <1>8. CASE FlushFails
    <2>1. files' = files /\ index' = index
      BY <1>8 DEF FlushFails
    <2>2. fl'.pc = "idle" /\ UNCHANGED <<flushes, recorded>>
      BY <1>8 DEF FlushFails, Idle
    <2>3. FlushIsNew'
      BY <2>2 DEF FlushIsNew, FlushDrawn
    <2> QED BY <1>1, <2>1, <2>3, LifeElsewhere DEF LifeStep
  <1> QED
    BY <1>2, <1>3, <1>4, <1>5, <1>6, <1>7, <1>8 DEF Flush

\* What a compaction leaves alone.
LEMMA CompactLeaves ==
    ASSUME NEW c \in Compactors, Compact(c)
    PROVE  UNCHANGED <<fl, gc, flushes, recorded, expired, unindexed>>
  BY DEF Compact, CompactPick, CompactOpen, CompactAllocate, CompactWrite, DropFile,
         DropEntry, CompactRename, CompactIndex, CompactAppend, CompactUnlink,
         CompactFails

\* The steps of a merge before its rename.
LEMMA LifeMerge ==
    ASSUME TypeInv, Safe, FlushIsNew, NEW c \in Compactors,
           \/ CompactPick(c) \/ CompactOpen(c) \/ CompactAllocate(c) \/ CompactWrite(c)
    PROVE  LifeStep
  <1>1. UNCHANGED <<files, index, fl, flushes, recorded, unindexed>>
    BY DEF CompactPick, CompactOpen, CompactAllocate, CompactWrite
  <1>2. cp'[c].pc # "unlink"
    <2>0. cp[c] \in CompactRuns /\ IdleCp.pc # "unlink"
      BY DEF TypeInv, CompactOK, IdleCp
    <2>1. CASE CompactPick(c)
      <3>1. PICK cands : Move(c, [IdleCp EXCEPT !.pc = "open", !.cands = cands, !.todo = cands])
        BY <2>1 DEF CompactPick
      <3>2. cp'[c] = [IdleCp EXCEPT !.pc = "open", !.cands = cands, !.todo = cands]
        BY <3>1 DEF Move, TypeInv, CompactOK
      <3> QED BY <3>2 DEF IdleCp
    <2>2. CASE CompactOpen(c)
      <3> DEFINE there == cp[c].cands \cap DOMAIN files
                 merged == (UNION {files[i] : i \in there}) \ expired
      <3>1. cp'[c] = IF there = {} THEN IdleCp
                     ELSE [cp[c] EXCEPT !.pc = "allocate", !.recs = merged]
        BY <2>2, MoveFacts DEF CompactOpen
      <3> HIDE DEF there, merged
      <3> QED BY <3>1, <2>0 DEF CompactRuns
    <2>3. CASE CompactAllocate(c)
      <3>1. cp'[c] = [cp[c] EXCEPT !.pc = "write", !.id = NextSstId]
        BY <2>3 DEF CompactAllocate, Move, TypeInv, CompactOK
      <3> QED BY <2>0, <3>1 DEF CompactRuns
    <2>4. CASE CompactWrite(c)
      BY <2>0, <2>4, MoveFacts DEF CompactWrite, CompactRuns
    <2> QED BY <2>1, <2>2, <2>3, <2>4
  <1>3. \A d \in Compactors : d # c => cp'[d] = cp[d]
    BY MoveFacts DEF CompactPick, CompactOpen, CompactAllocate, CompactWrite
  <1>4. UnlinksLess
    BY <1>2, <1>3 DEF UnlinksLess
  <1>5. FlushIsNew'
    BY <1>1, FlushUntouched
  <1> QED BY <1>1, <1>4, <1>5, LifeElsewhere DEF LifeStep

\* The steps of a merge that has records, from its rename to the manifest.
LEMMA LifeReplace ==
    ASSUME TypeInv, Safe, FlushIsNew, NEW c \in Compactors,
           CompactRename(c) \/ CompactIndex(c) \/ CompactAppend(c)
    PROVE  LifeStep
  <1>0. cp[c] \in CompactRuns /\ \A d \in Compactors : d # c => cp'[d] = cp[d]
    BY MoveFacts DEF TypeInv, CompactOK, CompactRename, CompactIndex, CompactAppend
  <1>1. UNCHANGED <<fl, flushes, recorded, unindexed, expired>>
    BY DEF CompactRename, CompactIndex, CompactAppend
  <1>2. PICK id, recs : id = cp[c].id /\ recs = cp[c].recs
    OBVIOUS
  <1>3. CASE CompactRename(c)
    <2>1. cp[c].pc = "rename" /\ cp'[c].pc = "index"
      BY <1>0, <1>3, MoveFacts DEF CompactRename, CompactRuns
    <2>2. index' = index /\ files' = Put(files, id, tmp[id])
      BY <1>2, <1>3 DEF CompactRename
    <2>3. UnlinksLess
      BY <1>0, <2>1 DEF UnlinksLess
    <2>4. Unborn(id) /\ id \notin DOMAIN index /\ (fl.pc # "idle" => id # fl.id)
      BY <1>2, <2>1 DEF Unborn, Safe, DrawnIdsAreFree, MergeDrawn
    <2>5. \A i \in DOMAIN files' : i # id => i \in DOMAIN files /\ files'[i] = files[i]
      BY <2>2 DEF Put
    <2>6. FlushIsNew'
      BY <1>1, <2>4, <2>5, FlushUntouched
    <2>7. ContentStep /\ ServesStep
      BY <2>2, <2>3, <2>4, LifeRename
    <2> QED BY <2>6, <2>7 DEF LifeStep
  <1>4. CASE CompactIndex(c)
    <2>1. cp[c].pc = "index" /\ cp'[c].pc = "append" /\ files' = files
      BY <1>0, <1>4, MoveFacts DEF CompactIndex, CompactRuns
    <2>2. /\ id \in DOMAIN index' /\ index'[id] = recs
          /\ \A i \in DOMAIN index : i \notin cp[c].cands => i \in DOMAIN index'
          /\ \A i \in DOMAIN index' : i # id => i \in DOMAIN index /\ index'[i] = index[i]
      BY <1>2, <1>4 DEF CompactIndex, Replaced, Put, Without
    <2>3. /\ Unborn(id) /\ id \notin DOMAIN index
          /\ id \in DOMAIN files /\ files[id] = recs
          /\ \A d \in Compactors : id \notin cp[d].todo
      BY <1>2, <2>1 DEF Unborn, Safe, DrawnIdsAreFree, MergeDrawn, WrittenIsThere
    <2>4. \A i \in cp[c].cands : i \in DOMAIN files => files[i] \ expired \subseteq recs
      BY <1>2, <2>1 DEF Safe, RunsAreSound
    <2>5. UnlinksLess
      BY <1>0, <2>1 DEF UnlinksLess
    <2>6. \A r \in recs : Served(r)'
      BY <2>1, <2>2, <2>3, <2>5 DEF Served, Serves, UnlinksLess
    <2>7. ASSUME NEW r, r \notin expired, Served(r) PROVE Served(r)'
      <3>1. PICK i \in DOMAIN files : Serves(i, r)
        BY <2>7 DEF Served
      <3>2. CASE i \in cp[c].cands
        BY <2>4, <2>6, <2>7, <3>1, <3>2 DEF Serves
      <3>3. CASE i \notin cp[c].cands
        <4>1. Serves(i, r)'
          BY <2>1, <2>2, <2>3, <2>5, <3>1, <3>3 DEF Serves, UnlinksLess
        <4> QED BY <2>1, <4>1 DEF Served
      <3> QED BY <3>2, <3>3
    <2>8. ServesStep
      BY <1>1, <2>2, <2>6, <2>7 DEF ServesStep
    <2>9. ContentStep
      <3>1. \A i : i # id => Same(i)
        BY <2>1, <2>2 DEF Same
      <3>2. Arrives(id, recs)
        BY <2>1, <2>2, <2>3 DEF Arrives
      <3> QED BY <3>1, <3>2 DEF ContentStep
    <2>10. FlushIsNew'
      BY <1>1, <2>1, FlushUntouched
    <2> QED BY <2>8, <2>9, <2>10 DEF LifeStep
  <1>5. CASE CompactAppend(c)
    <2>1. /\ cp[c].pc = "append" /\ cp'[c].pc = "unlink" /\ cp'[c].todo = cp[c].todo
          /\ files' = files /\ index' = index
      BY <1>0, <1>5, MoveFacts DEF CompactAppend, CompactRuns
    <2>2. /\ id \in DOMAIN files /\ files[id] = recs /\ id \in DOMAIN index /\ index[id] = recs
          /\ \A d \in Compactors : id \notin cp[d].todo
      BY <1>2, <2>1 DEF Safe, DrawnIdsAreFree, MergeDrawn, WrittenIsThere
    <2>3. /\ cp[c].todo = cp[c].cands
          /\ \A i \in cp[c].cands : i \in DOMAIN files => files[i] \ expired \subseteq recs
      BY <1>2, <2>1 DEF Safe, RunsAreSound
    <2>4. \A r \in recs : Served(r)'
      <3>1. \A d \in Compactors : cp'[d].todo = cp[d].todo
        BY <1>0, <2>1
      <3> QED BY <2>1, <2>2, <3>1 DEF Served, Serves
    <2>5. ASSUME NEW r, r \notin expired, Served(r) PROVE Served(r)'
      <3>1. PICK i \in DOMAIN files : Serves(i, r)
        BY <2>5 DEF Served
      <3>2. CASE i \in cp[c].todo
        BY <2>3, <2>4, <2>5, <3>1, <3>2 DEF Serves
      <3>3. CASE i \notin cp[c].todo
        <4>1. Serves(i, r)'
          BY <1>0, <2>1, <3>1, <3>3 DEF Serves
        <4> QED BY <2>1, <4>1 DEF Served
      <3> QED BY <3>2, <3>3
    <2>6. ServesStep
      BY <1>1, <2>1, <2>5 DEF ServesStep
    <2>7. ContentStep
      BY <2>1 DEF ContentStep, Same
    <2>8. FlushIsNew'
      BY <1>1, <2>1, FlushUntouched
    <2> QED BY <2>6, <2>7, <2>8 DEF LifeStep
  <1> QED BY <1>3, <1>4, <1>5

\* The steps that remove candidates, and a compaction that fails.
LEMMA LifeRemoves ==
    ASSUME TypeInv, Safe, FlushIsNew, NEW c \in Compactors,
           DropFile(c) \/ DropEntry(c) \/ CompactUnlink(c) \/ CompactFails(c)
    PROVE  LifeStep
  <1>0. /\ cp[c] \in CompactRuns /\ IdleCp.pc = "idle"
        /\ \A d \in Compactors : d # c => cp'[d] = cp[d]
    BY MoveFacts DEF TypeInv, CompactOK, IdleCp, DropFile, DropEntry, CompactUnlink,
                     CompactFails
  <1>1. UNCHANGED <<fl, flushes, recorded, unindexed, expired>>
    BY DEF DropFile, DropEntry, CompactUnlink, CompactFails
  <1>2. ASSUME \A i : Same(i) PROVE FlushIsNew'
    BY <1>1, <1>2, FlushUntouched DEF Same
  <1>3. CASE DropFile(c)
    <2>1. PICK id \in cp[c].todo :
            RemoveFile(id) /\ Move(c, [cp[c] EXCEPT !.pc = "dropentry", !.id = id])
      BY <1>3 DEF DropFile
    <2>2. cp[c].pc = "dropfile" /\ index' = index
      BY <1>3 DEF DropFile
    <2>3. cp'[c].pc = "dropentry"
      BY <1>0, <2>1 DEF Move, TypeInv, CompactOK, CompactRuns
    <2>4. UnlinksLess
      BY <1>0, <2>3 DEF UnlinksLess
    <2>5. id \in DOMAIN files => files[id] \subseteq expired
      BY <2>2 DEF Safe, RunsAreSound
    <2>6. ContentStep /\ ServesStep
      BY <1>1, <2>1, <2>2, <2>4, <2>5, LifeRemoveFile
    <2>7. \A i : Same(i)
      BY <2>1, <2>2 DEF Same, RemoveFile, Without
    <2> QED BY <1>2, <2>6, <2>7 DEF LifeStep
  <1>4. CASE DropEntry(c)
    <2>1. cp[c].pc = "dropentry" /\ index' = Without(index, {cp[c].id}) /\ files' = files
      BY <1>4 DEF DropEntry
    <2>2. cp'[c].pc # "unlink"
      <3>1. cp'[c] = IF cp[c].todo \ {cp[c].id} = {} THEN IdleCp
                     ELSE [cp[c] EXCEPT !.pc = "dropfile", !.todo = cp[c].todo \ {cp[c].id}]
        BY <1>4 DEF DropEntry, Move, TypeInv, CompactOK
      <3> QED BY <1>0, <3>1 DEF CompactRuns
    <2>3. UnlinksLess
      BY <1>0, <2>2 DEF UnlinksLess
    <2>4. cp[c].id \in DOMAIN files => files[cp[c].id] \subseteq expired
      BY <2>1 DEF Safe, RunsAreSound
    <2>5. ContentStep /\ ServesStep
      BY <1>1, <2>1, <2>3, <2>4, LifeRemoveIndex
    <2>6. \A i : Same(i)
      BY <2>1 DEF Same, Without
    <2> QED BY <1>2, <2>5, <2>6 DEF LifeStep
  <1>5. CASE CompactUnlink(c)
    <2>1. PICK id \in cp[c].todo :
            /\ RemoveFile(id)
            /\ Move(c, IF cp[c].todo \ {id} = {} THEN IdleCp
                       ELSE [cp[c] EXCEPT !.todo = cp[c].todo \ {id}])
      BY <1>5 DEF CompactUnlink
    <2>2. cp[c].pc = "unlink" /\ index' = index
      BY <1>5 DEF CompactUnlink
    <2>3. cp'[c].pc = "unlink" => cp'[c].todo \subseteq cp[c].todo
      <3>1. cp'[c] = IF cp[c].todo \ {id} = {} THEN IdleCp
                     ELSE [cp[c] EXCEPT !.todo = cp[c].todo \ {id}]
        BY <2>1 DEF Move, TypeInv, CompactOK
      <3> QED BY <1>0, <3>1 DEF CompactRuns
    <2>4. UnlinksLess
      BY <1>0, <2>2, <2>3 DEF UnlinksLess
    <2>5. ContentStep /\ ServesStep
      BY <1>1, <2>1, <2>2, <2>4, LifeRemoveFile
    <2>6. \A i : Same(i)
      BY <2>1, <2>2 DEF Same, RemoveFile, Without
    <2> QED BY <1>2, <2>5, <2>6 DEF LifeStep
  <1>6. CASE CompactFails(c)
    <2>1. cp'[c].pc = "idle" /\ files' = files
      BY <1>0, <1>6, MoveFacts DEF CompactFails
    <2>2. UnlinksLess
      BY <1>0, <2>1 DEF UnlinksLess
    <2>3. CASE cp[c].pc = "dropentry"
      <3>1. index' = Without(index, {cp[c].id})
        BY <1>6, <2>3 DEF CompactFails
      <3>2. cp[c].id \in DOMAIN files => files[cp[c].id] \subseteq expired
        BY <2>3 DEF Safe, RunsAreSound
      <3>3. ContentStep /\ ServesStep
        BY <1>1, <2>1, <2>2, <3>1, <3>2, LifeRemoveIndex
      <3>4. \A i : Same(i)
        BY <2>1, <3>1 DEF Same, Without
      <3> QED BY <1>2, <3>3, <3>4 DEF LifeStep
    <2>4. CASE cp[c].pc # "dropentry"
      <3>1. index' = index
        BY <1>6, <2>4 DEF CompactFails
      <3> QED BY <1>2, <2>1, <2>2, <3>1, LifeElsewhere DEF LifeStep, Same
    <2> QED BY <2>3, <2>4
  <1> QED BY <1>3, <1>4, <1>5, <1>6

LEMMA LifeCollect ==
    ASSUME TypeInv, Safe, FlushIsNew, NEW g \in Collectors, Collect(g)
    PROVE  LifeStep
  <1>1. UNCHANGED <<fl, cp, flushes, recorded, unindexed, expired>>
    BY DEF Collect, GcScan, GcIndex, GcAppend, GcUnlink, GcFails
  <1>2. UnlinksLess
    BY <1>1 DEF UnlinksLess
  <1>3. ASSUME \A i : Same(i) PROVE FlushIsNew'
    BY <1>1, <1>3, FlushUntouched DEF Same
  <1>4. CASE GcScan(g) \/ GcAppend(g) \/ GcFails(g)
    <2>1. files' = files /\ index' = index
      BY <1>4 DEF GcScan, GcAppend, GcFails
    <2> QED BY <1>2, <1>3, <2>1, LifeElsewhere DEF LifeStep, Same
  <1>5. CASE GcIndex(g)
    <2>1. PICK id \in gc[g].todo : index' = Without(index, {id})
      BY <1>5 DEF GcIndex
    <2>2. files' = files
      BY <1>5 DEF GcIndex
    <2>3. id \in DOMAIN files => files[id] \subseteq expired
      BY CollectFacts
    <2>4. ContentStep /\ ServesStep
      BY <1>1, <1>2, <2>1, <2>2, <2>3, LifeRemoveIndex
    <2>5. \A i : Same(i)
      BY <2>1, <2>2 DEF Same, Without
    <2> QED BY <1>3, <2>4, <2>5 DEF LifeStep
  <1>6. CASE GcUnlink(g)
    <2>1. PICK id : id = gc[g].id
      OBVIOUS
    <2>2. RemoveFile(id) /\ index' = index
      BY <1>6, <2>1 DEF GcUnlink
    <2>3. id \in DOMAIN files => files[id] \subseteq expired
      BY <2>1, CollectFacts
    <2>4. ContentStep /\ ServesStep
      BY <1>1, <1>2, <2>2, <2>3, LifeRemoveFile
    <2>5. \A i : Same(i)
      BY <2>2 DEF Same, RemoveFile, Without
    <2> QED BY <1>3, <2>4, <2>5 DEF LifeStep
  <1> QED BY <1>4, <1>5, <1>6 DEF Collect

\* Every step of the background that uses no id twice.
LEMMA LifeBackground ==
    ASSUME TypeInv, Safe, FlushIsNew, Background
    PROVE  LifeStep
  <1>1. CASE Flush
    BY <1>1, LifeFlush
  <1>2. ASSUME NEW c \in Compactors, Compact(c) PROVE LifeStep
    BY <1>2, LifeMerge, LifeReplace, LifeRemoves DEF Compact
  <1>3. ASSUME NEW g \in Collectors, Collect(g) PROVE LifeStep
    BY <1>3, LifeCollect
  <1>4. ASSUME NEW r \in Records, Expire(r) PROVE LifeStep
    <2>1. UNCHANGED <<files, index, fl, cp, flushes, recorded, unindexed>>
      BY <1>4 DEF Expire
    <2>2. ContentStep /\ ServesStep
      BY <2>1, LifeElsewhere DEF UnlinksLess
    <2> QED BY <2>1, <2>2, FlushUntouched DEF LifeStep
  <1> QED BY <1>1, <1>2, <1>3, <1>4 DEF Background

\* Engine::open builds the index from the manifest, whose files are there.
LEMMA LifeRestart ==
    ASSUME TypeInv, Safe, FlushIsNew, Restart
    PROVE  FlushIsNew' /\ IndexServes'
  <1>1. /\ index' = manifest /\ fl'.pc = "idle" /\ UNCHANGED <<files, flushes, recorded, expired>>
        /\ \A c \in Compactors : cp'[c].pc = "idle"
    BY DEF Restart, Idle, IdleCp
  <1>2. FlushIsNew'
    BY <1>1 DEF FlushIsNew, FlushDrawn
  <1>3. ASSUME NEW i \in DOMAIN index', NEW r \in index'[i] \ expired' PROVE Served(r)'
    <2>1. i \in DOMAIN files /\ r \in files[i]
      BY <1>1, <1>3 DEF Safe, FilesMatch
    <2> QED BY <1>1, <1>3, <2>1 DEF Served, Serves
  <1> QED BY <1>2, <1>3 DEF IndexServes

-----------------------------------------------------------------------------
(* Types of the readers *)

GetRuns ==
    [pc : {"idle", "frozen", "index", "open", "insert", "block", "fill", "done"}, rec : Nat,
     todo : SUBSET SstIds, file : SUBSET Records, locked : BOOLEAN, found : BOOLEAN,
     gap : BOOLEAN, alone : BOOLEAN, unlinked : BOOLEAN]

Searching == {"open", "insert", "block", "fill"}

\* A get that searches blocks has one to search; the index lock is held only then.
GetOK(g) ==
    /\ g \in GetRuns
    /\ g.pc \in Searching => g.todo # {}
    /\ g.locked => g.pc \in Searching

ScanFields == {"pc", "full", "todo", "opened", "cur", "file", "seen", "must", "skipped"}

ScanOK(s) ==
    /\ DOMAIN s = ScanFields
    /\ s.pc \in {"idle", "frozen", "index", "snapshot", "open", "block", "fill"}
    /\ s.pc \in {"block", "fill"} => s.cur \in DOMAIN s.todo
    /\ IsSstMap(s.todo) /\ IsSstMap(s.opened)
    /\ s.file \subseteq Records /\ s.seen \subseteq Records /\ s.must \subseteq Records

ReadTypeInv ==
    /\ IsSstMap(readers) /\ IsSstMap(cache)
    /\ DOMAIN rd = Gets /\ \A t \in Gets : GetOK(rd[t])
    /\ DOMAIN sc = Scans /\ \A t \in Scans : ScanOK(sc[t])
    /\ reads \in 0..MaxReads /\ dirty \in BOOLEAN

LEMMA IdleReaders == GetOK(IdleGet) /\ ScanOK(IdleScan)
  <1>1. GetOK(IdleGet)
    BY DEF GetOK, GetRuns, IdleGet, Searching
  <1>2. ScanOK(IdleScan)
    BY MapsStayMaps DEF ScanOK, ScanFields, IdleScan
  <1> QED BY <1>1, <1>2

\* The SST at hand does not have the record.
LEMMA MissFacts ==
    ASSUME NEW g \in GetRuns, g.todo # {}, NEW h, h = AfterMiss(g)
    PROVE  /\ GetOK(h)
           /\ h.todo = g.todo \ {Min(g.todo)}
           /\ h.pc \in {"open", "done"} /\ (h.pc = "done" <=> h.todo = {})
           /\ h.locked <=> g.locked /\ h.todo # {}
           /\ h.rec = g.rec /\ h.gap = g.gap /\ h.alone = g.alone
           /\ h.found = g.found /\ h.unlinked = g.unlinked
  <1>1. PICK left : left = g.todo \ {Min(g.todo)}
    OBVIOUS
  <1>2. h = [g EXCEPT !.todo = left, !.pc = IF left = {} THEN "done" ELSE "open",
                      !.locked = g.locked /\ left # {}]
    BY <1>1 DEF AfterMiss
  <1>3. left \in SUBSET SstIds
    BY <1>1 DEF GetRuns
  <1>4. /\ h.todo = left /\ h.pc = (IF left = {} THEN "done" ELSE "open")
        /\ h.rec = g.rec /\ h.gap = g.gap /\ h.alone = g.alone
        /\ h.found = g.found /\ h.unlinked = g.unlinked
    BY <1>2 DEF GetRuns
  <1>5. h.locked = (g.locked /\ left # {})
    BY <1>2 DEF GetRuns
  <1>6. h \in GetRuns
    BY <1>2, <1>3, Zenon DEF GetRuns
  <1> QED BY <1>1, <1>4, <1>5, <1>6 DEF GetOK, Searching

\* The record is in the block, or the SST does not have it.
LEMMA LookFacts ==
    ASSUME NEW g \in GetRuns, g.todo # {}, NEW block, NEW h, h = AfterLook(g, block)
    PROVE  \/ /\ GetOK(h) /\ h.pc = "done" /\ h.found /\ ~h.locked
              /\ h.todo = g.todo /\ h.rec = g.rec /\ h.gap = g.gap
           \/ g.rec \notin block \ expired /\ h = AfterMiss(g)
  <1>1. CASE g.rec \in block \ expired
    <2>1. h = [g EXCEPT !.pc = "done", !.found = TRUE, !.locked = FALSE]
      BY <1>1 DEF AfterLook
    <2>2. h \in GetRuns
      BY <2>1 DEF GetRuns
    <2>3. /\ h.pc = "done" /\ h.found /\ ~h.locked
          /\ h.todo = g.todo /\ h.rec = g.rec /\ h.gap = g.gap
      BY <2>1 DEF GetRuns
    <2> QED BY <2>2, <2>3 DEF GetOK, Searching
  <1>2. CASE g.rec \notin block \ expired
    BY <1>2 DEF AfterLook
  <1> QED BY <1>1, <1>2

-----------------------------------------------------------------------------
(* The steps of a get *)

\* Thread t is the only one that moves, and it only reads.
GetMoves(t) ==
    /\ DOMAIN rd' = Gets /\ \A u \in Gets : u # t => rd'[u] = rd[u]
    /\ GetOK(rd'[t])
    /\ reads' \in 0..MaxReads
    /\ UNCHANGED <<sc, dirty, vars>>

LEMMA SetGetFacts ==
    ASSUME ReadTypeInv, NEW t \in Gets, NEW h, SetGet(t, h)
    PROVE  DOMAIN rd' = Gets /\ rd'[t] = h /\ \A u \in Gets : u # t => rd'[u] = rd[u]
  BY DEF SetGet, ReadTypeInv

LEMMA GetActiveFacts ==
    ASSUME ReadTypeInv, NEW t \in Gets, NEW r \in Records, NEW hit \in BOOLEAN,
           GetActive(t, r, hit)
    PROVE  /\ GetMoves(t) /\ UNCHANGED <<readers, cache>>
           /\ rd'[t].pc \in {"frozen", "done"} /\ rd'[t].todo = {}
           /\ rd'[t].pc = "done" => rd'[t].found
  <1>1. PICK b : b = (r \notin Findable)
    OBVIOUS
  <1>2. PICK h : h = [IdleGet EXCEPT !.rec = r, !.found = hit, !.gap = b,
                                     !.pc = IF hit THEN "done" ELSE "frozen"]
    OBVIOUS
  <1>3. SetGet(t, h)
    BY <1>1, <1>2 DEF GetActive
  <1>4. b \in BOOLEAN /\ r \in Nat
    BY <1>1 DEF Records
  <1>5. h = [pc |-> IF hit THEN "done" ELSE "frozen", rec |-> r, todo |-> {}, file |-> {},
             locked |-> FALSE, found |-> hit, gap |-> b, alone |-> FALSE, unlinked |-> FALSE]
    BY <1>2 DEF IdleGet
  <1>6. h \in GetRuns
    BY <1>4, <1>5 DEF GetRuns
  <1>7. /\ h.pc = (IF hit THEN "done" ELSE "frozen") /\ h.todo = {} /\ h.locked = FALSE
        /\ h.found = hit
    BY <1>5
  <1>8. GetOK(h)
    BY <1>6, <1>7 DEF GetOK, Searching
  <1>9. rd'[t] = h /\ DOMAIN rd' = Gets /\ \A u \in Gets : u # t => rd'[u] = rd[u]
    BY <1>3, SetGetFacts
  <1>10. UNCHANGED <<readers, cache, sc, dirty, vars>>
    BY DEF GetActive
  <1>11. reads' \in 0..MaxReads
    <2>1. reads \in 0..MaxReads /\ reads < MaxReads /\ reads' = reads + 1
      BY DEF GetActive, ReadTypeInv
    <2> QED BY <2>1, ReadAssumption
  <1> QED BY <1>7, <1>8, <1>9, <1>10, <1>11 DEF GetMoves

LEMMA GetFrozenFacts ==
    ASSUME ReadTypeInv, NEW t \in Gets, GetFrozen(t)
    PROVE  /\ GetMoves(t) /\ UNCHANGED <<readers, cache>>
           /\ rd'[t].pc \in {"index", "done"} /\ rd'[t].todo = rd[t].todo
           /\ rd'[t].pc = "done" => rd'[t].found
           /\ rd'[t].pc = "index" /\ ~rd'[t].gap => rd'[t].rec \in Findable \ InMemtables
  <1>1. PICK old, r : old = rd[t] /\ r = rd[t].rec
    OBVIOUS
  <1>2. old \in GetRuns /\ old.pc = "frozen" /\ (old.locked => old.pc \in Searching)
    BY <1>1 DEF ReadTypeInv, GetOK, GetFrozen
  <1>3. PICK b1, b2 : b1 = (r \in InMemtables) /\ b2 = (old.gap \/ r \notin Findable)
    OBVIOUS
  <1>4. PICK h : h = [old EXCEPT !.found = b1, !.gap = b2,
                                 !.pc = IF b1 THEN "done" ELSE "index"]
    OBVIOUS
  <1>5. SetGet(t, h)
    BY <1>1, <1>3, <1>4 DEF GetFrozen
  <1>6. b1 \in BOOLEAN /\ b2 \in BOOLEAN
    BY <1>3
  <1>7. h \in GetRuns
    BY <1>2, <1>4, <1>6 DEF GetRuns
  <1>8. /\ h.pc = (IF b1 THEN "done" ELSE "index") /\ h.rec = r /\ h.todo = old.todo
        /\ h.locked = old.locked /\ h.found = b1 /\ h.gap = b2
    BY <1>1, <1>2, <1>4 DEF GetRuns
  <1>9. GetOK(h)
    <2>1. ~old.locked
      BY <1>2 DEF Searching
    <2> QED BY <1>7, <1>8, <2>1 DEF GetOK, Searching
  <1>10. rd'[t] = h /\ DOMAIN rd' = Gets /\ \A u \in Gets : u # t => rd'[u] = rd[u]
    BY <1>5, SetGetFacts
  <1>11. UNCHANGED <<readers, cache, sc, dirty, vars>> /\ reads' \in 0..MaxReads
    BY DEF GetFrozen, ReadTypeInv
  <1>12. GetMoves(t)
    BY <1>9, <1>10, <1>11 DEF GetMoves
  <1>13. h.pc = "index" /\ ~h.gap => h.rec \in Findable \ InMemtables
    BY <1>3, <1>8
  <1> QED BY <1>1, <1>8, <1>10, <1>11, <1>12, <1>13

LEMMA GetIndexFacts ==
    ASSUME ReadTypeInv, TypeInv, NEW t \in Gets, GetIndex(t)
    PROVE  /\ rd[t].pc = "index"
           /\ GetMoves(t) /\ UNCHANGED <<readers, cache>>
           /\ rd'[t].pc \in {"open", "done"} /\ (rd'[t].pc = "done" <=> rd'[t].todo = {})
           /\ rd'[t].todo \subseteq DOMAIN index
           /\ \A i \in DOMAIN index : rd[t].rec \in index[i] => i \in rd'[t].todo
           /\ rd'[t].pc = "open" => (rd'[t].locked <=> ~rd'[t].alone)
           /\ rd'[t].rec = rd[t].rec /\ rd'[t].gap = rd[t].gap
  <1>1. PICK todo \in SUBSET DOMAIN index :
            /\ {i \in DOMAIN index : rd[t].rec \in index[i]} \subseteq todo
            /\ SetGet(t, [rd[t] EXCEPT !.todo = todo,
                          !.alone = (Cardinality(DOMAIN index) = 1),
                          !.locked = KeepsIndexLock /\ todo # {},
                          !.pc = IF todo = {} THEN "done" ELSE "open"])
    BY DEF GetIndex
  <1>2. PICK b1, b2 : b1 = (Cardinality(DOMAIN index) = 1) /\ b2 = (KeepsIndexLock /\ todo # {})
    OBVIOUS
  <1>3. PICK h : h = [rd[t] EXCEPT !.todo = todo, !.alone = b1, !.locked = b2,
                                   !.pc = IF todo = {} THEN "done" ELSE "open"]
    OBVIOUS
  <1>4. SetGet(t, h)
    BY <1>1, <1>2, <1>3
  <1>5. b1 \in BOOLEAN /\ b2 \in BOOLEAN /\ (todo # {} => (b2 <=> ~b1)) /\ (b2 => todo # {})
    BY <1>2 DEF KeepsIndexLock
  <1>6. rd[t] \in GetRuns
    BY DEF ReadTypeInv, GetOK
  <1>7. todo \in SUBSET SstIds
    BY <1>1 DEF TypeInv, MapsOK, IsSstMap, SstIds
  <1>8. h \in GetRuns
    BY <1>3, <1>5, <1>6, <1>7 DEF GetRuns
  <1>9. /\ h.pc = (IF todo = {} THEN "done" ELSE "open") /\ h.todo = todo
        /\ h.locked = b2 /\ h.alone = b1 /\ h.rec = rd[t].rec /\ h.gap = rd[t].gap
    BY <1>3, <1>6 DEF GetRuns
  <1>10. GetOK(h)
    BY <1>5, <1>8, <1>9 DEF GetOK, Searching
  <1>11. rd'[t] = h /\ DOMAIN rd' = Gets /\ \A u \in Gets : u # t => rd'[u] = rd[u]
    BY <1>4, SetGetFacts
  <1>12. rd[t].pc = "index" /\ UNCHANGED <<readers, cache, sc, reads, dirty, vars>>
    BY DEF GetIndex
  <1>13. GetMoves(t)
    BY <1>10, <1>11, <1>12 DEF GetMoves, ReadTypeInv
  <1>14. \A i \in DOMAIN index : rd[t].rec \in index[i] => i \in todo
    BY <1>1
  <1> QED BY <1>1, <1>5, <1>9, <1>11, <1>12, <1>13, <1>14

\* The SST at hand is given up because its file is gone, or there is a reader.
LEMMA GetOpenFacts ==
    ASSUME ReadTypeInv, TypeInv, NEW t \in Gets, GetOpen(t),
           NEW id, id = Min(rd[t].todo)
    PROVE  /\ rd[t].pc = "open" /\ rd[t].todo # {}
           /\ GetMoves(t) /\ UNCHANGED <<readers, cache>>
           /\ \/ /\ rd'[t].pc \in {"block", "insert"}
                 /\ \/ id \in DOMAIN readers /\ rd'[t].file = readers[id]
                    \/ id \in DOMAIN files /\ rd'[t].file = files[id]
                 /\ rd'[t].todo = rd[t].todo /\ rd'[t].rec = rd[t].rec
                 /\ rd'[t].gap = rd[t].gap /\ rd'[t].locked = rd[t].locked
                 /\ rd'[t].alone = rd[t].alone /\ rd'[t].unlinked = rd[t].unlinked
              \/ /\ id \notin DOMAIN files
                 /\ \E g \in GetRuns :
                      /\ g.unlinked /\ g.todo = rd[t].todo /\ g.rec = rd[t].rec
                      /\ g.gap = rd[t].gap /\ g.locked = rd[t].locked
                      /\ g.alone = rd[t].alone
                      /\ rd'[t] = AfterMiss(g)
  <1>1. rd[t] \in GetRuns /\ rd[t].pc = "open" /\ rd[t].todo # {}
    BY DEF GetOpen, ReadTypeInv, GetOK, Searching
  <1>2. UNCHANGED <<readers, cache, sc, reads, dirty, vars>>
    BY DEF GetOpen
  <1>3. IsSstMap(readers) /\ IsSstMap(files) /\ reads \in 0..MaxReads
    BY DEF ReadTypeInv, TypeInv, MapsOK
  <1>4. ASSUME NEW file \in SUBSET Records, NEW pc \in {"block", "insert"}, NEW h,
               h = [rd[t] EXCEPT !.pc = pc, !.file = file], SetGet(t, h)
        PROVE  /\ GetMoves(t)
               /\ rd'[t].pc = pc /\ rd'[t].file = file
               /\ rd'[t].todo = rd[t].todo /\ rd'[t].rec = rd[t].rec
               /\ rd'[t].gap = rd[t].gap /\ rd'[t].locked = rd[t].locked
               /\ rd'[t].alone = rd[t].alone /\ rd'[t].unlinked = rd[t].unlinked
    <2>1. h \in GetRuns
      BY <1>1, <1>4 DEF GetRuns
    <2>2. /\ h.pc = pc /\ h.file = file
          /\ h.todo = rd[t].todo /\ h.rec = rd[t].rec /\ h.gap = rd[t].gap
          /\ h.locked = rd[t].locked /\ h.alone = rd[t].alone /\ h.unlinked = rd[t].unlinked
      BY <1>1, <1>4 DEF GetRuns
    <2>3. GetOK(h)
      BY <1>1, <2>1, <2>2 DEF GetOK, Searching
    <2>4. rd'[t] = h /\ DOMAIN rd' = Gets /\ \A u \in Gets : u # t => rd'[u] = rd[u]
      BY <1>4, SetGetFacts
    <2> QED BY <1>2, <1>3, <2>2, <2>3, <2>4 DEF GetMoves
  <1>5. CASE id \in DOMAIN readers
    <2>1. PICK h : h = [rd[t] EXCEPT !.pc = "block", !.file = readers[id]]
      OBVIOUS
    <2>2. SetGet(t, h) /\ readers[id] \in SUBSET Records
      BY <1>3, <1>5, <2>1 DEF GetOpen, Current, IsSstMap
    <2> QED BY <1>1, <1>2, <1>4, <1>5, <2>1, <2>2
  <1>6. CASE id \notin DOMAIN readers /\ id \in DOMAIN files
    <2>1. PICK h : h = [rd[t] EXCEPT !.pc = "insert", !.file = files[id]]
      OBVIOUS
    <2>2. SetGet(t, h) /\ files[id] \in SUBSET Records
      BY <1>3, <1>6, <2>1 DEF GetOpen, Current, IsSstMap
    <2> QED BY <1>1, <1>2, <1>4, <1>6, <2>1, <2>2
  <1>7. CASE id \notin DOMAIN readers /\ id \notin DOMAIN files
    <2>1. PICK g : g = [rd[t] EXCEPT !.unlinked = TRUE]
      OBVIOUS
    <2>2. /\ g \in GetRuns
          /\ g.unlinked /\ g.todo = rd[t].todo /\ g.rec = rd[t].rec /\ g.gap = rd[t].gap
          /\ g.locked = rd[t].locked /\ g.alone = rd[t].alone
      BY <1>1, <2>1 DEF GetRuns
    <2>3. PICK h : h = AfterMiss(g)
      OBVIOUS
    <2>4. SetGet(t, h)
      BY <1>7, <2>1, <2>3 DEF GetOpen, Current
    <2>5. GetOK(h)
      BY <1>1, <2>2, <2>3, MissFacts
    <2>6. rd'[t] = h /\ DOMAIN rd' = Gets /\ \A u \in Gets : u # t => rd'[u] = rd[u]
      BY <2>4, SetGetFacts
    <2>7. GetMoves(t)
      BY <1>2, <1>3, <2>5, <2>6 DEF GetMoves
    <2> QED BY <1>1, <1>2, <1>7, <2>2, <2>3, <2>6, <2>7
  <1> QED BY <1>5, <1>6, <1>7

\* A get with a reader at hand looks at a block, or goes on to read it.
LEMMA GetReadsFacts ==
    ASSUME ReadTypeInv, TypeInv, NEW t \in Gets,
           GetInsert(t) \/ GetBlock(t) \/ GetFill(t),
           NEW id, id = Min(rd[t].todo)
    PROVE  /\ rd[t].pc \in {"insert", "block", "fill"} /\ rd[t].todo # {}
           /\ GetMoves(t)
           /\ readers' = readers \/ readers' = Put(readers, id, rd[t].file)
           /\ cache' = cache \/ cache' = Put(cache, id, rd[t].file)
           /\ \/ /\ rd'[t].pc \in {"block", "fill"}
                 /\ rd'[t].file = rd[t].file
                 /\ rd'[t].todo = rd[t].todo /\ rd'[t].rec = rd[t].rec
                 /\ rd'[t].gap = rd[t].gap /\ rd'[t].locked = rd[t].locked
                 /\ rd'[t].alone = rd[t].alone /\ rd'[t].unlinked = rd[t].unlinked
              \/ /\ rd'[t].pc = "done" /\ rd'[t].found
                 /\ rd'[t].todo = rd[t].todo
              \/ /\ rd'[t] = AfterMiss(rd[t])
                 /\ \/ id \in DOMAIN cache /\ rd[t].rec \notin cache[id] \ expired
                    \/ rd[t].rec \notin rd[t].file \ expired
  <1>1. /\ rd[t] \in GetRuns /\ rd[t].pc \in {"insert", "block", "fill"} /\ rd[t].todo # {}
        /\ rd[t].file \in SUBSET Records
    <2>1. rd[t].pc \in {"insert", "block", "fill"}
      BY DEF GetInsert, GetBlock, GetFill
    <2> QED BY <2>1 DEF ReadTypeInv, GetOK, Searching, GetRuns
  <1>2. UNCHANGED <<sc, reads, dirty, vars>> /\ reads \in 0..MaxReads
    BY DEF GetInsert, GetBlock, GetFill, ReadTypeInv
  <1>3. /\ readers' = readers \/ readers' = Put(readers, id, rd[t].file)
        /\ cache' = cache \/ cache' = Put(cache, id, rd[t].file)
    BY DEF GetInsert, GetBlock, GetFill, Current
  <1>4. ASSUME NEW pc \in {"block", "fill"}, NEW h, h = [rd[t] EXCEPT !.pc = pc], SetGet(t, h)
        PROVE  /\ GetMoves(t)
               /\ rd'[t].pc = pc /\ rd'[t].file = rd[t].file
               /\ rd'[t].todo = rd[t].todo /\ rd'[t].rec = rd[t].rec
               /\ rd'[t].gap = rd[t].gap /\ rd'[t].locked = rd[t].locked
               /\ rd'[t].alone = rd[t].alone /\ rd'[t].unlinked = rd[t].unlinked
    <2>1. h \in GetRuns
      BY <1>1, <1>4 DEF GetRuns
    <2>2. /\ h.pc = pc /\ h.file = rd[t].file
          /\ h.todo = rd[t].todo /\ h.rec = rd[t].rec /\ h.gap = rd[t].gap
          /\ h.locked = rd[t].locked /\ h.alone = rd[t].alone /\ h.unlinked = rd[t].unlinked
      BY <1>1, <1>4 DEF GetRuns
    <2>3. GetOK(h)
      BY <1>1, <2>1, <2>2 DEF GetOK, Searching
    <2>4. rd'[t] = h /\ DOMAIN rd' = Gets /\ \A u \in Gets : u # t => rd'[u] = rd[u]
      BY <1>4, SetGetFacts
    <2> QED BY <1>2, <2>2, <2>3, <2>4 DEF GetMoves
  <1>5. ASSUME NEW block, NEW h, h = AfterLook(rd[t], block), SetGet(t, h)
        PROVE  /\ GetMoves(t)
               /\ \/ rd'[t].pc = "done" /\ rd'[t].found /\ rd'[t].todo = rd[t].todo
                  \/ rd'[t] = AfterMiss(rd[t]) /\ rd[t].rec \notin block \ expired
    <2>1. rd'[t] = h /\ DOMAIN rd' = Gets /\ \A u \in Gets : u # t => rd'[u] = rd[u]
      BY <1>5, SetGetFacts
    <2>2. \/ GetOK(h) /\ h.pc = "done" /\ h.found /\ h.todo = rd[t].todo
          \/ rd[t].rec \notin block \ expired /\ h = AfterMiss(rd[t])
      BY <1>1, <1>5, LookFacts
    <2>3. GetOK(h)
      BY <1>1, <2>2, MissFacts
    <2> QED BY <1>2, <2>1, <2>2, <2>3 DEF GetMoves
  <1>6. CASE GetInsert(t)
    <2>1. PICK h : h = [rd[t] EXCEPT !.pc = "block"]
      OBVIOUS
    <2>2. SetGet(t, h)
      BY <1>6, <2>1 DEF GetInsert
    <2> QED BY <1>1, <1>3, <1>4, <2>1, <2>2
  <1>7. CASE GetBlock(t) /\ id \in DOMAIN cache
    <2>1. PICK h : h = AfterLook(rd[t], cache[id])
      OBVIOUS
    <2>2. SetGet(t, h)
      BY <1>7, <2>1 DEF GetBlock, Current
    <2> QED BY <1>1, <1>3, <1>5, <1>7, <2>1, <2>2
  <1>8. CASE GetBlock(t) /\ id \notin DOMAIN cache
    <2>1. PICK h : h = [rd[t] EXCEPT !.pc = "fill"]
      OBVIOUS
    <2>2. SetGet(t, h)
      BY <1>8, <2>1 DEF GetBlock, Current
    <2> QED BY <1>1, <1>3, <1>4, <2>1, <2>2
  <1>9. CASE GetFill(t)
    <2>1. PICK h : h = AfterLook(rd[t], rd[t].file)
      OBVIOUS
    <2>2. SetGet(t, h)
      BY <1>9, <2>1 DEF GetFill
    <2> QED BY <1>1, <1>3, <1>5, <2>1, <2>2
  <1> QED BY <1>6, <1>7, <1>8, <1>9

LEMMA GetReturnsFacts ==
    ASSUME ReadTypeInv, NEW t \in Gets, GetReturns(t)
    PROVE  /\ GetMoves(t) /\ UNCHANGED <<readers, cache>>
           /\ rd'[t].pc = "idle" /\ rd'[t].todo = {}
  <1>1. rd'[t] = IdleGet /\ DOMAIN rd' = Gets /\ \A u \in Gets : u # t => rd'[u] = rd[u]
    BY SetGetFacts DEF GetReturns
  <1>2. UNCHANGED <<readers, cache, sc, reads, dirty, vars>>
    BY DEF GetReturns
  <1>3. GetMoves(t)
    BY <1>1, <1>2, IdleReaders DEF GetMoves, ReadTypeInv
  <1> QED BY <1>1, <1>2, <1>3 DEF IdleGet

-----------------------------------------------------------------------------
(* The steps of a scan *)

ScanMoves(t) ==
    /\ DOMAIN sc' = Scans /\ \A u \in Scans : u # t => sc'[u] = sc[u]
    /\ ScanOK(sc'[t])
    /\ reads' \in 0..MaxReads
    /\ UNCHANGED <<readers, rd, dirty, vars>>

LEMMA SetScanFacts ==
    ASSUME ReadTypeInv, NEW t \in Scans, NEW s, SetScan(t, s)
    PROVE  DOMAIN sc' = Scans /\ sc'[t] = s /\ \A u \in Scans : u # t => sc'[u] = sc[u]
  BY DEF SetScan, ReadTypeInv

\* A scan begins, and returns.
LEMMA ScanEndsFacts ==
    ASSUME ReadTypeInv, TypeInv, NEW t \in Scans,
           \/ \E full \in BOOLEAN, n \in {0} \cup Records : ScanActive(t, full, n)
           \/ ScanReturns(t)
    PROVE  /\ ScanMoves(t) /\ cache' = cache
           /\ sc'[t].pc \in {"idle", "frozen"}
           /\ sc'[t].todo = <<>> /\ sc'[t].opened = <<>>
  <1>1. CASE ScanReturns(t)
    <2>1. sc'[t] = IdleScan /\ DOMAIN sc' = Scans /\ \A u \in Scans : u # t => sc'[u] = sc[u]
      BY <1>1, SetScanFacts DEF ScanReturns
    <2>2. UNCHANGED <<readers, cache, rd, reads, dirty, vars>>
      BY <1>1 DEF ScanReturns
    <2>3. ScanMoves(t)
      BY <2>1, <2>2, IdleReaders DEF ScanMoves, ReadTypeInv
    <2> QED BY <2>1, <2>2, <2>3 DEF IdleScan
  <1>2. ASSUME NEW full \in BOOLEAN, NEW n \in {0} \cup Records, ScanActive(t, full, n)
        PROVE  /\ ScanMoves(t) /\ cache' = cache /\ sc'[t].pc = "frozen"
               /\ sc'[t].todo = <<>> /\ sc'[t].opened = <<>>
    <2>1. PICK s : s = [IdleScan EXCEPT !.pc = "frozen", !.full = full,
                                        !.seen = InMemtables \ 1..n, !.must = Findable]
      OBVIOUS
    <2>2. SetScan(t, s)
      BY <1>2, <2>1 DEF ScanActive
    <2>3. /\ s.pc = "frozen" /\ s.todo = <<>> /\ s.opened = <<>> /\ s.file = {}
          /\ s.seen = InMemtables \ 1..n /\ s.must = Findable /\ DOMAIN s = ScanFields
      BY <2>1 DEF IdleScan, ScanFields
    <2>4. InMemtables \subseteq Records /\ Findable \subseteq Records
      BY DEF InMemtables, Findable, TypeInv, MapsOK, IsSstMap
    <2>5. ScanOK(s)
      BY <2>3, <2>4, MapsStayMaps DEF ScanOK
    <2>6. sc'[t] = s /\ DOMAIN sc' = Scans /\ \A u \in Scans : u # t => sc'[u] = sc[u]
      BY <2>2, SetScanFacts
    <2>7. UNCHANGED <<readers, cache, rd, dirty, vars>>
      BY <1>2 DEF ScanActive
    <2>8. reads' \in 0..MaxReads
      <3>1. reads \in 0..MaxReads /\ reads < MaxReads /\ reads' = reads + 1
        BY <1>2 DEF ScanActive, ReadTypeInv
      <3> QED BY <3>1, ReadAssumption
    <2> QED BY <2>3, <2>5, <2>6, <2>7, <2>8 DEF ScanMoves
  <1> QED BY <1>1, <1>2

\* A scan looks at the frozen memtables.
LEMMA ScanFrozenFacts ==
    ASSUME ReadTypeInv, TypeInv, NEW t \in Scans, ScanFrozen(t)
    PROVE  /\ ScanMoves(t) /\ cache' = cache
           /\ sc[t].pc = "frozen" /\ sc'[t].pc = "index"
           /\ sc'[t].todo = sc[t].todo /\ sc'[t].opened = sc[t].opened
           /\ InMemtables \subseteq sc'[t].seen
           /\ sc'[t].must \subseteq sc'[t].seen \cup Findable
  <1>1. PICK old, seen, must : /\ old = sc[t] /\ seen = old.seen \cup InMemtables
                               /\ must = old.must \cap (seen \cup Findable)
    OBVIOUS
  <1>2. ScanOK(old) /\ old.pc = "frozen"
    BY <1>1 DEF ReadTypeInv, ScanFrozen
  <1>3. PICK s : s = [old EXCEPT !.pc = "index", !.seen = seen, !.must = must]
    OBVIOUS
  <1>4. SetScan(t, s)
    BY <1>1, <1>3 DEF ScanFrozen
  <1>5. /\ s.pc = "index" /\ s.todo = old.todo /\ s.opened = old.opened /\ s.file = old.file
        /\ s.seen = seen /\ s.must = must /\ DOMAIN s = ScanFields
    BY <1>2, <1>3 DEF ScanOK, ScanFields
  <1>6. InMemtables \subseteq Records
    BY DEF InMemtables
  <1>7. ScanOK(s)
    BY <1>1, <1>2, <1>5, <1>6 DEF ScanOK
  <1>8. sc'[t] = s /\ DOMAIN sc' = Scans /\ \A u \in Scans : u # t => sc'[u] = sc[u]
    BY <1>4, SetScanFacts
  <1>9. UNCHANGED <<readers, cache, rd, reads, dirty, vars>> /\ reads \in 0..MaxReads
    BY DEF ScanFrozen, ReadTypeInv
  <1>10. ScanMoves(t)
    BY <1>7, <1>8, <1>9 DEF ScanMoves
  <1> QED BY <1>1, <1>2, <1>5, <1>8, <1>9, <1>10

\* A scan takes the index, then the reader map.
LEMMA ScanTakesFacts ==
    ASSUME ReadTypeInv, TypeInv, NEW t \in Scans, ScanIndex(t) \/ ScanSnapshot(t)
    PROVE  /\ ScanMoves(t) /\ cache' = cache
           /\ \/ sc[t].pc = "index" /\ sc'[t].pc = "snapshot" /\ sc'[t].todo = index
                 /\ sc'[t].opened = sc[t].opened
              \/ sc[t].pc = "snapshot" /\ sc'[t].pc = "open" /\ sc'[t].todo = sc[t].todo
                 /\ sc'[t].opened = readers
           /\ sc'[t].seen = sc[t].seen /\ sc'[t].must = sc[t].must
           /\ sc'[t].skipped = sc[t].skipped
  <1>1. ScanOK(sc[t]) /\ IsSstMap(index) /\ IsSstMap(readers)
    BY DEF ReadTypeInv, TypeInv, MapsOK
  <1>2. UNCHANGED <<readers, cache, rd, reads, dirty, vars>> /\ reads \in 0..MaxReads
    BY DEF ScanIndex, ScanSnapshot, ReadTypeInv
  <1>3. PICK s : SetScan(t, s) /\
            (\/ s = [sc[t] EXCEPT !.pc = "snapshot", !.todo = index] /\ sc[t].pc = "index"
             \/ s = [sc[t] EXCEPT !.pc = "open", !.opened = readers] /\ sc[t].pc = "snapshot")
    BY DEF ScanIndex, ScanSnapshot
  <1>4. /\ DOMAIN s = ScanFields
        /\ \/ sc[t].pc = "index" /\ s.pc = "snapshot" /\ s.todo = index
              /\ s.opened = sc[t].opened
           \/ sc[t].pc = "snapshot" /\ s.pc = "open" /\ s.todo = sc[t].todo
              /\ s.opened = readers
        /\ s.seen = sc[t].seen /\ s.must = sc[t].must
        /\ s.skipped = sc[t].skipped /\ s.file = sc[t].file
    BY <1>1, <1>3 DEF ScanOK, ScanFields
  <1>5. ScanOK(s)
    BY <1>1, <1>4 DEF ScanOK
  <1>6. sc'[t] = s /\ DOMAIN sc' = Scans /\ \A u \in Scans : u # t => sc'[u] = sc[u]
    BY <1>3, SetScanFacts
  <1> QED BY <1>2, <1>4, <1>5, <1>6 DEF ScanMoves

\* The next block has a reader, or is skipped.
LEMMA ScanOpenFacts ==
    ASSUME ReadTypeInv, TypeInv, NEW t \in Scans, ScanOpen(t)
    PROVE  /\ ScanMoves(t) /\ cache' = cache /\ sc[t].pc = "open"
           /\ sc'[t].opened = sc[t].opened
           /\ sc'[t].seen = sc[t].seen /\ sc'[t].must = sc[t].must
           /\ \E id \in DOMAIN sc[t].todo :
                \/ /\ sc'[t].pc = "block" /\ sc'[t].cur = id
                   /\ sc'[t].todo = sc[t].todo /\ sc'[t].skipped = sc[t].skipped
                   /\ \/ id \in DOMAIN sc[t].opened /\ sc'[t].file = sc[t].opened[id]
                      \/ id \in DOMAIN files /\ sc'[t].file = files[id]
                \/ /\ sc'[t].pc = "open"
                   /\ sc'[t].todo = Without(sc[t].todo, {id})
                   /\ sc'[t].skipped = sc[t].skipped \cup sc[t].todo[id]
  <1>1. ScanOK(sc[t]) /\ sc[t].pc = "open" /\ IsSstMap(files)
    BY DEF ReadTypeInv, ScanOpen, TypeInv, MapsOK
  <1>2. UNCHANGED <<readers, cache, rd, reads, dirty, vars>> /\ reads \in 0..MaxReads
    BY DEF ScanOpen, ReadTypeInv
  <1>3. PICK id \in DOMAIN sc[t].todo :
            LET Reading(file) == [sc[t] EXCEPT !.pc = "block", !.cur = id, !.file = file]
            IN SetScan(t, IF id \in DOMAIN sc[t].opened THEN Reading(sc[t].opened[id])
                          ELSE IF id \in DOMAIN files THEN Reading(files[id])
                          ELSE ScanSkips(sc[t], id))
    BY DEF ScanOpen
  <1>4. ASSUME NEW file \in SUBSET Records, NEW s,
               s = [sc[t] EXCEPT !.pc = "block", !.cur = id, !.file = file], SetScan(t, s)
        PROVE  /\ ScanMoves(t)
               /\ sc'[t].opened = sc[t].opened
               /\ sc'[t].seen = sc[t].seen /\ sc'[t].must = sc[t].must
               /\ sc'[t].pc = "block" /\ sc'[t].cur = id /\ sc'[t].file = file
               /\ sc'[t].todo = sc[t].todo /\ sc'[t].skipped = sc[t].skipped
    <2>1. /\ DOMAIN s = ScanFields /\ s.opened = sc[t].opened
          /\ s.seen = sc[t].seen /\ s.must = sc[t].must
          /\ s.pc = "block" /\ s.cur = id /\ s.file = file
          /\ s.todo = sc[t].todo /\ s.skipped = sc[t].skipped
      BY <1>1, <1>4 DEF ScanOK, ScanFields
    <2>2. ScanOK(s)
      BY <1>1, <1>4, <2>1 DEF ScanOK
    <2>3. sc'[t] = s /\ DOMAIN sc' = Scans /\ \A u \in Scans : u # t => sc'[u] = sc[u]
      BY <1>4, SetScanFacts
    <2> QED BY <1>2, <2>1, <2>2, <2>3 DEF ScanMoves
  <1>5. CASE id \in DOMAIN sc[t].opened
    <2>1. PICK s : s = [sc[t] EXCEPT !.pc = "block", !.cur = id, !.file = sc[t].opened[id]]
      OBVIOUS
    <2>2. SetScan(t, s) /\ sc[t].opened[id] \in SUBSET Records
      BY <1>1, <1>3, <1>5, <2>1 DEF ScanOK, IsSstMap
    <2> QED BY <1>1, <1>2, <1>4, <1>5, <2>1, <2>2
  <1>6. CASE id \notin DOMAIN sc[t].opened /\ id \in DOMAIN files
    <2>1. PICK s : s = [sc[t] EXCEPT !.pc = "block", !.cur = id, !.file = files[id]]
      OBVIOUS
    <2>2. SetScan(t, s) /\ files[id] \in SUBSET Records
      BY <1>1, <1>3, <1>6, <2>1 DEF IsSstMap
    <2> QED BY <1>1, <1>2, <1>4, <1>6, <2>1, <2>2
  <1>7. CASE id \notin DOMAIN sc[t].opened /\ id \notin DOMAIN files
    <2>1. PICK s, left, more : /\ s = ScanSkips(sc[t], id) /\ left = Without(sc[t].todo, {id})
                               /\ more = sc[t].skipped \cup sc[t].todo[id]
      OBVIOUS
    <2>2. SetScan(t, s)
      BY <1>3, <1>7, <2>1
    <2>3. s = [sc[t] EXCEPT !.todo = left, !.skipped = more]
      BY <2>1 DEF ScanSkips
    <2>4. /\ DOMAIN s = ScanFields /\ s.opened = sc[t].opened
          /\ s.seen = sc[t].seen /\ s.must = sc[t].must /\ s.file = sc[t].file
          /\ s.pc = "open" /\ s.todo = left /\ s.skipped = more
      BY <1>1, <2>3 DEF ScanOK, ScanFields
    <2>5. IsSstMap(left)
      BY <1>1, <2>1, MapsStayMaps DEF ScanOK
    <2>6. ScanOK(s)
      BY <1>1, <2>4, <2>5 DEF ScanOK
    <2>7. sc'[t] = s /\ DOMAIN sc' = Scans /\ \A u \in Scans : u # t => sc'[u] = sc[u]
      BY <2>2, SetScanFacts
    <2>8. ScanMoves(t)
      BY <1>2, <2>6, <2>7 DEF ScanMoves
    <2> QED BY <1>1, <1>2, <2>1, <2>4, <2>7, <2>8
  <1> QED BY <1>5, <1>6, <1>7

\* The unexpired records of a block are taken.
LEMMA TakenFacts ==
    ASSUME NEW scan, ScanOK(scan), NEW block \in SUBSET Records, NEW s, s = ScanTakes(scan, block)
    PROVE  /\ ScanOK(s) /\ s.pc = "open" /\ s.opened = scan.opened
           /\ s.todo = Without(scan.todo, {scan.cur}) /\ s.seen = scan.seen \cup (block \ expired)
           /\ s.must = scan.must /\ s.skipped = scan.skipped
  <1>1. PICK left, more : /\ left = Without(scan.todo, {scan.cur})
                          /\ more = scan.seen \cup (block \ expired)
    OBVIOUS
  <1>2. s = [scan EXCEPT !.pc = "open", !.todo = left, !.cur = 0, !.file = {}, !.seen = more]
    BY <1>1 DEF ScanTakes
  <1>3. /\ DOMAIN s = ScanFields /\ s.pc = "open" /\ s.opened = scan.opened /\ s.todo = left
        /\ s.seen = more /\ s.must = scan.must /\ s.skipped = scan.skipped /\ s.file = {}
    BY <1>2 DEF ScanOK, ScanFields
  <1>4. IsSstMap(left) /\ more \subseteq Records
    BY <1>1, MapsStayMaps DEF ScanOK
  <1>5. ScanOK(s)
    BY <1>3, <1>4 DEF ScanOK
  <1> QED BY <1>1, <1>3, <1>5

LEMMA ScanReadsFacts ==
    ASSUME ReadTypeInv, TypeInv, NEW t \in Scans, ScanBlock(t) \/ ScanFill(t)
    PROVE  /\ ScanMoves(t) /\ sc[t].pc \in {"block", "fill"} /\ sc[t].cur \in DOMAIN sc[t].todo
           /\ cache' = cache \/ cache' = Put(cache, sc[t].cur, sc[t].file)
           /\ sc'[t].opened = sc[t].opened
           /\ sc'[t].must = sc[t].must /\ sc'[t].skipped = sc[t].skipped
           /\ \/ /\ sc'[t].pc = "fill" /\ sc'[t].cur = sc[t].cur /\ sc'[t].file = sc[t].file
                 /\ sc'[t].todo = sc[t].todo /\ sc'[t].seen = sc[t].seen
              \/ /\ sc'[t].pc = "open"
                 /\ sc'[t].todo = Without(sc[t].todo, {sc[t].cur})
                 /\ \/ sc'[t].seen = sc[t].seen \cup (sc[t].file \ expired)
                    \/ /\ sc[t].cur \in DOMAIN cache
                       /\ sc'[t].seen = sc[t].seen \cup (cache[sc[t].cur] \ expired)
  <1>1. /\ ScanOK(sc[t]) /\ sc[t].pc \in {"block", "fill"} /\ IsSstMap(cache)
        /\ sc[t].file \in SUBSET Records /\ sc[t].cur \in DOMAIN sc[t].todo
    BY DEF ReadTypeInv, ScanBlock, ScanFill, ScanOK
  <1>2. UNCHANGED <<readers, rd, reads, dirty, vars>> /\ reads \in 0..MaxReads
    BY DEF ScanBlock, ScanFill, ReadTypeInv
  <1>3. cache' = cache \/ cache' = Put(cache, sc[t].cur, sc[t].file)
    BY DEF ScanBlock, ScanFill
  <1>4. ASSUME NEW block \in SUBSET Records, NEW s, s = ScanTakes(sc[t], block), SetScan(t, s)
        PROVE  /\ ScanMoves(t) /\ sc'[t].opened = sc[t].opened
               /\ sc'[t].must = sc[t].must /\ sc'[t].skipped = sc[t].skipped
               /\ sc'[t].pc = "open" /\ sc'[t].todo = Without(sc[t].todo, {sc[t].cur})
               /\ sc'[t].seen = sc[t].seen \cup (block \ expired)
    <2>1. /\ ScanOK(s) /\ s.pc = "open" /\ s.opened = sc[t].opened
          /\ s.todo = Without(sc[t].todo, {sc[t].cur})
          /\ s.seen = sc[t].seen \cup (block \ expired)
          /\ s.must = sc[t].must /\ s.skipped = sc[t].skipped
      BY <1>1, <1>4, TakenFacts
    <2>2. sc'[t] = s /\ DOMAIN sc' = Scans /\ \A u \in Scans : u # t => sc'[u] = sc[u]
      BY <1>4, SetScanFacts
    <2> QED BY <1>2, <2>1, <2>2 DEF ScanMoves
  <1>5. CASE ScanFill(t) \/ (ScanBlock(t) /\ sc[t].full)
    <2>1. PICK s : s = ScanTakes(sc[t], sc[t].file)
      OBVIOUS
    <2>2. SetScan(t, s)
      BY <1>5, <2>1 DEF ScanFill, ScanBlock
    <2> QED BY <1>1, <1>3, <1>4, <2>1, <2>2
  <1>6. CASE ScanBlock(t) /\ ~sc[t].full /\ sc[t].cur \in DOMAIN cache
    <2>1. PICK s : s = ScanTakes(sc[t], cache[sc[t].cur])
      OBVIOUS
    <2>2. SetScan(t, s) /\ cache[sc[t].cur] \in SUBSET Records
      BY <1>1, <1>6, <2>1 DEF ScanBlock, IsSstMap
    <2> QED BY <1>1, <1>3, <1>4, <1>6, <2>1, <2>2
  <1>7. CASE ScanBlock(t) /\ ~sc[t].full /\ sc[t].cur \notin DOMAIN cache
    <2>1. PICK s : s = [sc[t] EXCEPT !.pc = "fill"]
      OBVIOUS
    <2>2. SetScan(t, s)
      BY <1>7, <2>1 DEF ScanBlock
    <2>3. /\ DOMAIN s = ScanFields /\ s.pc = "fill" /\ s.cur = sc[t].cur /\ s.file = sc[t].file
          /\ s.todo = sc[t].todo /\ s.seen = sc[t].seen /\ s.opened = sc[t].opened
          /\ s.must = sc[t].must /\ s.skipped = sc[t].skipped
      BY <1>1, <2>1 DEF ScanOK, ScanFields
    <2>4. ScanOK(s)
      BY <1>1, <2>3 DEF ScanOK
    <2>5. sc'[t] = s /\ DOMAIN sc' = Scans /\ \A u \in Scans : u # t => sc'[u] = sc[u]
      BY <2>2, SetScanFacts
    <2>6. ScanMoves(t)
      BY <1>2, <2>4, <2>5 DEF ScanMoves
    <2> QED BY <1>1, <1>3, <2>3, <2>5, <2>6
  <1> QED BY <1>5, <1>6, <1>7

-----------------------------------------------------------------------------
(* Types hold *)

LEMMA TypeGetStep ==
    ASSUME ReadTypeInv, TypeInv, NEW t \in Gets, GetStep(t)
    PROVE  ReadTypeInv'
  <1>1. PICK id : id = Min(rd[t].todo)
    OBVIOUS
  <1>2. ASSUME GetMoves(t), IsSstMap(readers'), IsSstMap(cache') PROVE ReadTypeInv'
    BY <1>2 DEF GetMoves, ReadTypeInv
  <1>3. IsSstMap(readers) /\ IsSstMap(cache)
    BY DEF ReadTypeInv
  <1>4. CASE GetInsert(t) \/ GetBlock(t) \/ GetFill(t)
    <2>1. /\ rd[t].todo # {} /\ GetMoves(t)
          /\ readers' = readers \/ readers' = Put(readers, id, rd[t].file)
          /\ cache' = cache \/ cache' = Put(cache, id, rd[t].file)
      BY <1>1, <1>4, GetReadsFacts
    <2>2. rd[t].todo \in SUBSET SstIds /\ rd[t].file \subseteq Records
      BY DEF ReadTypeInv, GetOK, GetRuns
    <2>3. id \in SstIds
      BY <1>1, <2>1, <2>2, FirstIsOne
    <2>4. IsSstMap(readers') /\ IsSstMap(cache')
      BY <1>3, <2>1, <2>2, <2>3, MapsStayMaps
    <2> QED BY <1>2, <2>1, <2>4
  <1>5. CASE GetOpen(t)
    <2>1. GetMoves(t) /\ UNCHANGED <<readers, cache>>
      BY <1>1, <1>5, GetOpenFacts
    <2> QED BY <1>2, <1>3, <2>1
  <1>6. CASE \/ \E r \in Records, hit \in BOOLEAN : GetActive(t, r, hit)
             \/ GetFrozen(t) \/ GetIndex(t) \/ GetReturns(t)
    <2>1. GetMoves(t) /\ UNCHANGED <<readers, cache>>
      BY <1>6, GetActiveFacts, GetFrozenFacts, GetIndexFacts, GetReturnsFacts
    <2> QED BY <1>2, <1>3, <2>1
  <1> QED BY <1>4, <1>5, <1>6 DEF GetStep

LEMMA TypeScanStep ==
    ASSUME ReadTypeInv, TypeInv, NEW t \in Scans, ScanStep(t)
    PROVE  ReadTypeInv'
  <1>1. ASSUME ScanMoves(t), IsSstMap(cache') PROVE ReadTypeInv'
    BY <1>1 DEF ScanMoves, ReadTypeInv
  <1>2. IsSstMap(cache)
    BY DEF ReadTypeInv
  <1>3. CASE ScanBlock(t) \/ ScanFill(t)
    <2>1. /\ ScanMoves(t) /\ sc[t].cur \in DOMAIN sc[t].todo
          /\ cache' = cache \/ cache' = Put(cache, sc[t].cur, sc[t].file)
      BY <1>3, ScanReadsFacts
    <2>2. sc[t].cur \in SstIds /\ sc[t].file \subseteq Records
      BY <2>1 DEF ReadTypeInv, ScanOK, IsSstMap, SstIds
    <2>3. IsSstMap(cache')
      BY <1>2, <2>1, <2>2, MapsStayMaps
    <2> QED BY <1>1, <2>1, <2>3
  <1>4. CASE \/ \E full \in BOOLEAN, n \in {0} \cup Records : ScanActive(t, full, n)
             \/ ScanFrozen(t) \/ ScanReturns(t) \/ ScanIndex(t) \/ ScanSnapshot(t) \/ ScanOpen(t)
    <2>1. ScanMoves(t) /\ cache' = cache
      BY <1>4, ScanEndsFacts, ScanFrozenFacts, ScanTakesFacts, ScanOpenFacts
    <2> QED BY <1>1, <1>2, <2>1
  <1> QED BY <1>3, <1>4 DEF ScanStep

LEMMA TypeReadStep ==
    ASSUME ReadTypeInv, TypeInv, [ReadNext]_allVars
    PROVE  ReadTypeInv'
  <1>1. ASSUME NEW t \in Gets, GetStep(t) PROVE ReadTypeInv'
    BY <1>1, TypeGetStep
  <1>2. ASSUME NEW t \in Scans, ScanStep(t) PROVE ReadTypeInv'
    BY <1>2, TypeScanStep
  <1>3. CASE EvictList \/ EvictRetain \/ \E id \in DOMAIN cache : CacheDrops(id)
    <2>1. IsSstMap(readers') /\ IsSstMap(cache')
      BY <1>3, MapsStayMaps DEF EvictList, EvictRetain, CacheDrops, ReadTypeInv
    <2>2. UNCHANGED <<rd, sc, reads, dirty>>
      BY <1>3 DEF EvictList, EvictRetain, CacheDrops
    <2> QED BY <2>1, <2>2 DEF ReadTypeInv
  <1>4. CASE Background
    <2>1. IsSstMap(readers') /\ IsSstMap(cache')
      BY <1>4, MapsStayMaps DEF Background, ReadTypeInv
    <2>2. UNCHANGED <<rd, sc, reads>>
      BY <1>4 DEF Background
    <2>3. dirty' = (dirty \/ HandedOut \cap Around # {})
      BY <1>4 DEF Background
    <2>4. dirty' \in BOOLEAN
      BY <2>3, Zenon
    <2> QED BY <2>1, <2>2, <2>4 DEF ReadTypeInv
  <1>5. CASE ReadRestart
    <2>1. IsSstMap(readers') /\ IsSstMap(cache')
      BY <1>5, MapsStayMaps DEF ReadRestart
    <2>2. /\ DOMAIN rd' = Gets /\ \A t \in Gets : rd'[t] = IdleGet
          /\ DOMAIN sc' = Scans /\ \A t \in Scans : sc'[t] = IdleScan
          /\ UNCHANGED <<reads, dirty>>
      BY <1>5 DEF ReadRestart
    <2> QED BY <2>1, <2>2, IdleReaders DEF ReadTypeInv
  <1>6. CASE UNCHANGED allVars
    BY <1>6 DEF allVars, readVars, ReadTypeInv
  <1> QED BY <1>1, <1>2, <1>3, <1>4, <1>5, <1>6 DEF ReadNext

LEMMA ReadTypeInvariant == ReadSpec => [](TypeInv /\ ReadTypeInv)
  <1>1. ReadInit => ReadTypeInv
    <2> SUFFICES ASSUME ReadInit PROVE ReadTypeInv
      OBVIOUS
    <2>1. IsSstMap(readers) /\ IsSstMap(cache)
      BY MapsStayMaps DEF ReadInit
    <2>2. /\ DOMAIN rd = Gets /\ \A t \in Gets : rd[t] = IdleGet
          /\ DOMAIN sc = Scans /\ \A t \in Scans : sc[t] = IdleScan
          /\ dirty = FALSE
      BY DEF ReadInit
    <2>3. reads \in 0..MaxReads
      BY ReadAssumption DEF ReadInit
    <2> QED BY <2>1, <2>2, <2>3, IdleReaders DEF ReadTypeInv
  <1>2. TypeInv /\ ReadTypeInv /\ [ReadNext]_allVars => ReadTypeInv'
    BY TypeReadStep
  <1>3. ReadSpec => []TypeInv
    BY ReadersOnlyRead, TypeInvariant, PTL
  <1> QED BY <1>1, <1>2, <1>3, PTL DEF ReadSpec

\* The readers beside the runs they race, for any number of threads: a get that
\* searches has an SST to ask, it holds the index lock only while it searches (so
\* that it gives it back), a scan reads blocks the index has announced to it, and
\* open readers and cached blocks are those of SST ids.
THEOREM ReadTypesHold == ReadSpec => []ReadTypeOK
  <1>1. TypeOK /\ ReadTypeInv => ReadTypeOK
    <2> SUFFICES ASSUME TypeOK, ReadTypeInv PROVE ReadTypeOK
      OBVIOUS
    <2>1. \A t \in Gets :
            /\ rd[t].pc \in {"idle", "frozen", "index", "open", "insert", "block", "fill", "done"}
            /\ rd[t].pc \in {"open", "insert", "block", "fill"} => rd[t].todo # {}
            /\ rd[t].locked => rd[t].pc \in {"open", "insert", "block", "fill"}
            /\ rd[t].file \subseteq Records
      BY DEF ReadTypeInv, GetOK, GetRuns, Searching
    <2>2. \A t \in Scans :
            /\ sc[t].pc \in {"idle", "frozen", "index", "snapshot", "open", "block", "fill"}
            /\ sc[t].pc \in {"block", "fill"} => sc[t].cur \in DOMAIN sc[t].todo
            /\ sc[t].seen \subseteq Records /\ sc[t].must \subseteq Records
            /\ IsSstMap(sc[t].opened) /\ IsSstMap(sc[t].todo)
      BY DEF ReadTypeInv, ScanOK
    <2>3. IsSstMap(readers) /\ IsSstMap(cache) /\ reads \in 0..MaxReads /\ dirty \in BOOLEAN
      BY DEF ReadTypeInv
    <2> QED BY <2>1, <2>2, <2>3, Zenon DEF ReadTypeOK
  <1> QED BY <1>1, ReadTypeInvariant, ReadersOnlyRead, TypesHold, PTL

-----------------------------------------------------------------------------
(* The copies of an SST *)

InMap(f, i, x) == i \in DOMAIN f /\ x = f[i]

\* The reader that a get, or a scan, has of SST i; and what the scan was told of it.
GetCopy(g, i, x) == g.pc \in {"insert", "block", "fill"} /\ i = Min(g.todo) /\ x = g.file
ScanCopy(s, i, x) ==
    \/ InMap(s.opened, i, x) \/ InMap(s.todo, i, x)
    \/ s.pc \in {"block", "fill"} /\ i = s.cur /\ x = s.file

\* Somebody takes the records of SST i to be x.
Copy(i, x) ==
    \/ InMap(files, i, x) \/ InMap(index, i, x) \/ InMap(readers, i, x) \/ InMap(cache, i, x)
    \/ \E t \in Gets : GetCopy(rd[t], i, x)
    \/ \E t \in Scans : ScanCopy(sc[t], i, x)

\* All agree about the records of an SST, whether or not its file is still there.
OneContent == \A i, x, y : Copy(i, x) /\ Copy(i, y) => x = y

\* No reader or block is around of an id that is drawn and not yet in the index.
DrawnAway == \A i \in Around : ~Unborn(i)

AllHave(i, r) == \A x : Copy(i, x) => r \in x

\* What a reader's step does to the copies: none is new, and the ids around were
\* around or are indexed.
NoNewCopies == \A i, x : Copy(i, x)' => Copy(i, x)
StaysNear == Around' \subseteq Around \cup DOMAIN index

\* Putting an SST into the reader map or the cache.
LEMMA PutFacts ==
    ASSUME NEW f, NEW g, NEW id, NEW file, g = f \/ g = Put(f, id, file)
    PROVE  /\ DOMAIN g \subseteq DOMAIN f \cup {id}
           /\ \A i, x : InMap(g, i, x) => (i = id /\ x = file) \/ InMap(f, i, x)
  BY DEF Put, InMap

\* The parts of Around.
LEMMA AroundFacts ==
    /\ DOMAIN readers \subseteq Around /\ DOMAIN cache \subseteq Around
    /\ \A t \in Gets : rd[t].todo \subseteq Around
    /\ \A t \in Scans : DOMAIN sc[t].todo \subseteq Around /\ DOMAIN sc[t].opened \subseteq Around
  <1>1. DOMAIN readers \subseteq Around /\ DOMAIN cache \subseteq Around
    BY DEF Around
  <1>2. ASSUME NEW t \in Gets PROVE rd[t].todo \subseteq Around
    BY DEF Around
  <1>3. ASSUME NEW t \in Scans
        PROVE  DOMAIN sc[t].todo \subseteq Around /\ DOMAIN sc[t].opened \subseteq Around
    <2>1. PICK near : near = {DOMAIN sc[u].todo \cup DOMAIN sc[u].opened : u \in Scans}
      OBVIOUS
    <2>2. (DOMAIN sc[t].todo \cup DOMAIN sc[t].opened) \in near
      BY <2>1
    <2>3. Around = DOMAIN readers \cup DOMAIN cache \cup (UNION {rd[u].todo : u \in Gets})
                   \cup UNION near
      BY <2>1 DEF Around
    <2> QED BY <2>2, <2>3
  <1> QED BY <1>1, <1>2, <1>3

\* Who is around is one of them, now and after a step.
LEMMA AroundIs ==
    /\ \A i \in Around :
        \/ i \in DOMAIN readers \/ i \in DOMAIN cache
        \/ \E t \in Gets : i \in rd[t].todo
        \/ \E t \in Scans : i \in DOMAIN sc[t].todo \/ i \in DOMAIN sc[t].opened
    /\ \A i \in Around' :
        \/ i \in DOMAIN readers' \/ i \in DOMAIN cache'
        \/ \E t \in Gets : i \in rd'[t].todo
        \/ \E t \in Scans : i \in DOMAIN sc'[t].todo \/ i \in DOMAIN sc'[t].opened
  <1>1. ASSUME NEW r, NEW c, NEW g, NEW s,
               NEW i \in DOMAIN r \cup DOMAIN c \cup (UNION {g[t].todo : t \in Gets})
                         \cup UNION {DOMAIN s[t].todo \cup DOMAIN s[t].opened : t \in Scans}
        PROVE  \/ i \in DOMAIN r \/ i \in DOMAIN c
               \/ \E t \in Gets : i \in g[t].todo
               \/ \E t \in Scans : i \in DOMAIN s[t].todo \/ i \in DOMAIN s[t].opened
    <2>1. CASE i \in UNION {g[t].todo : t \in Gets}
      BY <2>1, Zenon
    <2>2. CASE i \in UNION {DOMAIN s[t].todo \cup DOMAIN s[t].opened : t \in Scans}
      <3>1. PICK S \in {DOMAIN s[t].todo \cup DOMAIN s[t].opened : t \in Scans} : i \in S
        BY <2>2, Zenon
      <3>2. PICK t \in Scans : S = DOMAIN s[t].todo \cup DOMAIN s[t].opened
        BY <3>1, Zenon
      <3>3. i \in DOMAIN s[t].todo \/ i \in DOMAIN s[t].opened
        BY <3>1, <3>2
      <3> QED BY <3>2, <3>3
    <2> QED BY <1>1, <2>1, <2>2
  <1>2. ASSUME NEW i \in Around
        PROVE  \/ i \in DOMAIN readers \/ i \in DOMAIN cache
               \/ \E t \in Gets : i \in rd[t].todo
               \/ \E t \in Scans : i \in DOMAIN sc[t].todo \/ i \in DOMAIN sc[t].opened
    BY <1>1, <1>2, Zenon DEF Around
  <1>3. ASSUME NEW i \in Around'
        PROVE  \/ i \in DOMAIN readers' \/ i \in DOMAIN cache'
               \/ \E t \in Gets : i \in rd'[t].todo
               \/ \E t \in Scans : i \in DOMAIN sc'[t].todo \/ i \in DOMAIN sc'[t].opened
    BY <1>1, <1>3, Zenon DEF Around
  <1> QED BY <1>2, <1>3

\* What readers have is of an id that is around.
LEMMA CopiesElsewhere ==
    ASSUME ReadTypeInv, NEW i, NEW x,
           \/ InMap(readers, i, x) \/ InMap(cache, i, x)
           \/ \E t \in Gets : GetCopy(rd[t], i, x)
           \/ \E t \in Scans : ScanCopy(sc[t], i, x)
    PROVE  i \in Around
  <1>1. CASE InMap(readers, i, x) \/ InMap(cache, i, x)
    BY <1>1, AroundFacts DEF InMap
  <1>2. ASSUME NEW t \in Gets, GetCopy(rd[t], i, x) PROVE i \in Around
    <2>1. rd[t].todo \in SUBSET SstIds /\ rd[t].todo # {}
      BY <1>2 DEF ReadTypeInv, GetOK, GetRuns, Searching, GetCopy
    <2>2. i \in rd[t].todo
      BY <1>2, <2>1, FirstIsOne DEF GetCopy
    <2> QED BY <2>2, AroundFacts
  <1>3. ASSUME NEW t \in Scans, ScanCopy(sc[t], i, x) PROVE i \in Around
    <2>1. i \in DOMAIN sc[t].todo \/ i \in DOMAIN sc[t].opened
      BY <1>3 DEF ReadTypeInv, ScanOK, ScanCopy, InMap
    <2> QED BY <2>1, AroundFacts
  <1> QED BY <1>1, <1>2, <1>3

\* A get's step that takes what it reads from the copies there are.
LEMMA GetCopies ==
    ASSUME ReadTypeInv, NEW t \in Gets, GetMoves(t),
           \A i, x : InMap(readers', i, x) \/ InMap(cache', i, x) \/ GetCopy(rd'[t], i, x)
                     => Copy(i, x),
           DOMAIN readers' \subseteq Around, DOMAIN cache' \subseteq Around,
           rd'[t].todo \subseteq Around \cup DOMAIN index
    PROVE  NoNewCopies /\ StaysNear
  <1>1. /\ DOMAIN rd' = Gets /\ \A u \in Gets : u # t => rd'[u] = rd[u]
        /\ files' = files /\ index' = index /\ sc' = sc
    BY DEF GetMoves, vars
  <1>2. ASSUME NEW i, NEW x, Copy(i, x)' PROVE Copy(i, x)
    <2>1. CASE InMap(files', i, x) \/ InMap(index', i, x)
      BY <1>1, <2>1 DEF Copy
    <2>2. CASE InMap(readers', i, x) \/ InMap(cache', i, x)
      BY <2>2
    <2>3. ASSUME NEW u \in Gets, GetCopy(rd'[u], i, x) PROVE Copy(i, x)
      BY <1>1, <2>3 DEF Copy
    <2>4. ASSUME NEW u \in Scans, ScanCopy(sc'[u], i, x) PROVE Copy(i, x)
      BY <1>1, <2>4 DEF Copy
    <2> QED BY <1>2, <2>1, <2>2, <2>3, <2>4 DEF Copy
  <1>3. ASSUME NEW i \in Around' PROVE i \in Around \cup DOMAIN index
    <2>1. \/ i \in DOMAIN readers' \/ i \in DOMAIN cache'
          \/ \E u \in Gets : i \in rd'[u].todo
          \/ \E u \in Scans : i \in DOMAIN sc[u].todo \/ i \in DOMAIN sc[u].opened
      BY <1>1, <1>3, AroundIs
    <2>2. ASSUME NEW u \in Gets, i \in rd'[u].todo PROVE i \in Around \cup DOMAIN index
      BY <1>1, <2>2, AroundFacts
    <2> QED BY <2>1, <2>2, AroundFacts
  <1> QED BY <1>2, <1>3 DEF NoNewCopies, StaysNear

LEMMA ScanCopies ==
    ASSUME ReadTypeInv, NEW t \in Scans, ScanMoves(t),
           \A i, x : InMap(cache', i, x) \/ ScanCopy(sc'[t], i, x) => Copy(i, x),
           DOMAIN cache' \subseteq Around,
           DOMAIN sc'[t].todo \subseteq Around \cup DOMAIN index,
           DOMAIN sc'[t].opened \subseteq Around
    PROVE  NoNewCopies /\ StaysNear
  <1>1. /\ DOMAIN sc' = Scans /\ \A u \in Scans : u # t => sc'[u] = sc[u]
        /\ files' = files /\ index' = index /\ readers' = readers /\ rd' = rd
    BY DEF ScanMoves, vars
  <1>2. ASSUME NEW i, NEW x, Copy(i, x)' PROVE Copy(i, x)
    <2>1. CASE InMap(files', i, x) \/ InMap(index', i, x) \/ InMap(readers', i, x)
      BY <1>1, <2>1 DEF Copy
    <2>2. CASE InMap(cache', i, x)
      BY <2>2
    <2>3. ASSUME NEW u \in Gets, GetCopy(rd'[u], i, x) PROVE Copy(i, x)
      BY <1>1, <2>3 DEF Copy
    <2>4. ASSUME NEW u \in Scans, ScanCopy(sc'[u], i, x) PROVE Copy(i, x)
      BY <1>1, <2>4 DEF Copy
    <2> QED BY <1>2, <2>1, <2>2, <2>3, <2>4 DEF Copy
  <1>3. ASSUME NEW i \in Around' PROVE i \in Around \cup DOMAIN index
    <2>1. \/ i \in DOMAIN readers \/ i \in DOMAIN cache'
          \/ \E u \in Gets : i \in rd[u].todo
          \/ \E u \in Scans : i \in DOMAIN sc'[u].todo \/ i \in DOMAIN sc'[u].opened
      BY <1>1, <1>3, AroundIs
    <2>2. ASSUME NEW u \in Scans, i \in DOMAIN sc'[u].todo \/ i \in DOMAIN sc'[u].opened
          PROVE  i \in Around \cup DOMAIN index
      BY <1>1, <2>2, AroundFacts
    <2> QED BY <2>1, <2>2, AroundFacts
  <1> QED BY <1>2, <1>3 DEF NoNewCopies, StaysNear

-----------------------------------------------------------------------------
(* What readers in progress can count on *)

Holds(i, r) == i \in DOMAIN index /\ i \in DOMAIN files /\ r \in index[i]

\* A get whose record could be found when it began.  With the index lock it still
\* has every SST to ask that holds the record.  Without it, one of the SSTs it has
\* to ask has the record in every copy, unless a file was unlinked.
GetGood(g) ==
    ~g.gap /\ g.rec \notin expired =>
        /\ g.pc = "index" => Served(g.rec)
        /\ g.pc \in Searching /\ g.locked =>
            Served(g.rec) /\ \A i : Holds(i, g.rec) => i \in g.todo
        /\ g.pc \in Searching /\ ~g.locked =>
            g.alone /\ (g.unlinked \/ \E i \in g.todo : AllHave(i, g.rec))
        /\ g.pc = "done" => g.found \/ (g.alone /\ g.unlinked)

\* A scan has seen a record, has skipped its block or is still to read it.
ScanGood(s) ==
    /\ s.pc = "index" => \A r \in s.must \ expired : r \in s.seen \/ Served(r)
    /\ s.pc \in {"snapshot", "open", "block", "fill"} =>
        \A r \in s.must \ expired :
            r \in s.seen \cup s.skipped \/ \E i \in DOMAIN s.todo : r \in s.todo[i]

Good ==
    /\ IndexServes /\ FlushIsNew /\ DrawnAway /\ OneContent
    /\ \A t \in Gets : GetGood(rd[t])
    /\ \A t \in Scans : ScanGood(sc[t])

\* A served record is held by an SST of the index.
LEMMA ServedIsHeld ==
    ASSUME NEW r, Served(r)
    PROVE  \E i : Holds(i, r)
  BY DEF Served, Serves, Holds

\* What a step of a reader leaves as it is.
LEMMA ReadersLeave ==
    ASSUME Safe, IndexServes, FlushIsNew, DrawnAway, OneContent,
           NoNewCopies, StaysNear, UNCHANGED vars
    PROVE  /\ IndexServes' /\ FlushIsNew' /\ DrawnAway' /\ OneContent'
           /\ \A r : Served(r)' <=> Served(r)
           /\ \A i, r : Holds(i, r)' <=> Holds(i, r)
           /\ \A i, r : AllHave(i, r) => AllHave(i, r)'
           /\ \A g : GetGood(g) => GetGood(g)'
           /\ \A s : ScanGood(s) => ScanGood(s)'
  <1>1. UNCHANGED <<files, index, fl, cp, flushes, recorded, expired, unindexed>>
    BY DEF vars
  <1>2. \A r : Served(r)' <=> Served(r)
    BY <1>1 DEF Served, Serves
  <1>3. \A i, r : Holds(i, r)' <=> Holds(i, r)
    BY <1>1 DEF Holds
  <1>4. \A i, r : AllHave(i, r) => AllHave(i, r)'
    BY DEF AllHave, NoNewCopies
  <1>5. IndexServes'
    BY <1>1, <1>2 DEF IndexServes
  <1>6. FlushIsNew'
    BY <1>1, FlushUntouched
  <1>7. DrawnAway'
    <2>1. \A i : Unborn(i)' <=> Unborn(i)
      BY <1>1 DEF Unborn
    <2>2. \A i \in DOMAIN index : ~Unborn(i)
      BY DEF Unborn, Safe, DrawnIdsAreFree, MergeDrawn
    <2> QED BY <2>1, <2>2 DEF DrawnAway, StaysNear
  <1>8. OneContent'
    BY DEF OneContent, NoNewCopies
  <1>9. ASSUME NEW g, GetGood(g) PROVE GetGood(g)'
    BY <1>1, <1>2, <1>3, <1>4, <1>9 DEF GetGood
  <1>10. ASSUME NEW s, ScanGood(s) PROVE ScanGood(s)'
    BY <1>1, <1>2, <1>10 DEF ScanGood
  <1> QED BY <1>2, <1>3, <1>4, <1>5, <1>6, <1>7, <1>8, <1>9, <1>10

\* One get moves: what is left to show is about this get.
LEMMA GetMovesOn ==
    ASSUME Safe, Good, NEW t \in Gets, GetMoves(t), NoNewCopies, StaysNear,
           GetGood(rd[t])'
    PROVE  Good'
  <1>1. /\ UNCHANGED vars /\ sc' = sc
        /\ \A u \in Gets : u # t => rd'[u] = rd[u]
    BY DEF GetMoves
  <1>2. /\ IndexServes' /\ FlushIsNew' /\ DrawnAway' /\ OneContent'
        /\ \A g : GetGood(g) => GetGood(g)'
        /\ \A s : ScanGood(s) => ScanGood(s)'
    BY <1>1, ReadersLeave DEF Good
  <1>3. ASSUME NEW u \in Gets, u # t PROVE GetGood(rd[u])'
    <2>1. PICK g : g = rd[u]
      OBVIOUS
    <2>2. GetGood(g)'
      BY <1>2, <2>1 DEF Good
    <2>3. g = rd'[u]
      BY <1>1, <1>3, <2>1
    <2> QED BY <2>2, <2>3
  <1>4. ASSUME NEW u \in Scans PROVE ScanGood(sc[u])'
    <2>1. PICK s : s = sc[u]
      OBVIOUS
    <2>2. ScanGood(s)'
      BY <1>2, <2>1 DEF Good
    <2>3. s = sc'[u]
      BY <1>1, <2>1
    <2> QED BY <2>2, <2>3
  <1> QED BY <1>2, <1>3, <1>4 DEF Good

\* The same for a scan.
LEMMA ScanMovesOn ==
    ASSUME Safe, Good, NEW t \in Scans, ScanMoves(t), NoNewCopies, StaysNear,
           ScanGood(sc[t])'
    PROVE  Good'
  <1>1. /\ UNCHANGED vars /\ rd' = rd
        /\ \A u \in Scans : u # t => sc'[u] = sc[u]
    BY DEF ScanMoves
  <1>2. /\ IndexServes' /\ FlushIsNew' /\ DrawnAway' /\ OneContent'
        /\ \A g : GetGood(g) => GetGood(g)'
        /\ \A s : ScanGood(s) => ScanGood(s)'
    BY <1>1, ReadersLeave DEF Good
  <1>3. ASSUME NEW u \in Scans, u # t PROVE ScanGood(sc[u])'
    <2>1. PICK s : s = sc[u]
      OBVIOUS
    <2>2. ScanGood(s)'
      BY <1>2, <2>1 DEF Good
    <2>3. s = sc'[u]
      BY <1>1, <1>3, <2>1
    <2> QED BY <2>2, <2>3
  <1>4. ASSUME NEW u \in Gets PROVE GetGood(rd[u])'
    <2>1. PICK g : g = rd[u]
      OBVIOUS
    <2>2. GetGood(g)'
      BY <1>2, <2>1 DEF Good
    <2>3. g = rd'[u]
      BY <1>1, <2>1
    <2> QED BY <2>2, <2>3
  <1> QED BY <1>2, <1>3, <1>4 DEF Good

\* A get that looks at the memtables or returns has nothing at hand.
LEMMA GoodGetEnds ==
    ASSUME ReadTypeInv, TypeInv, Safe, Good, NEW t \in Gets,
           \/ \E r \in Records, hit \in BOOLEAN : GetActive(t, r, hit)
           \/ GetFrozen(t) \/ GetReturns(t)
    PROVE  Good'
  <1>1. /\ GetMoves(t) /\ UNCHANGED <<readers, cache>>
        /\ rd'[t].pc \in {"idle", "frozen", "index", "done"} /\ rd'[t].todo \subseteq rd[t].todo
        /\ rd'[t].pc = "done" => rd'[t].found
        /\ rd'[t].pc = "index" /\ ~rd'[t].gap => rd'[t].rec \in Findable \ InMemtables
    BY GetActiveFacts, GetFrozenFacts, GetReturnsFacts
  <1>2. \A i, x : InMap(readers', i, x) \/ InMap(cache', i, x) \/ GetCopy(rd'[t], i, x)
                  => Copy(i, x)
    BY <1>1 DEF GetCopy, Copy
  <1>3. NoNewCopies /\ StaysNear
    BY <1>1, <1>2, AroundFacts, GetCopies
  <1>4. UNCHANGED vars /\ expired' = expired
    BY <1>1 DEF GetMoves, vars
  <1>5. \A r : Served(r) => Served(r)'
    BY <1>3, <1>4, ReadersLeave DEF Good
  <1>6. PICK g : g = rd'[t]
    OBVIOUS
  <1>7. ASSUME g.pc = "index", ~g.gap, g.rec \notin expired PROVE Served(g.rec)'
    <2>1. PICK i \in DOMAIN index : g.rec \in index[i]
      BY <1>1, <1>6, <1>7 DEF Findable
    <2>2. Served(g.rec)
      BY <1>7, <2>1 DEF Good, IndexServes
    <2> QED BY <1>5, <2>2
  <1>8. GetGood(g)'
    BY <1>1, <1>4, <1>6, <1>7 DEF GetGood, Searching
  <1>9. GetGood(rd[t])'
    BY <1>6, <1>8
  <1> QED BY <1>1, <1>3, <1>9, GetMovesOn

\* The get asks the index.
LEMMA GoodGetIndex ==
    ASSUME ReadTypeInv, TypeInv, Safe, Good, NEW t \in Gets, GetIndex(t)
    PROVE  Good'
  <1>1. /\ rd[t].pc = "index"
        /\ GetMoves(t) /\ UNCHANGED <<readers, cache>>
        /\ rd'[t].pc \in {"open", "done"} /\ (rd'[t].pc = "done" <=> rd'[t].todo = {})
        /\ rd'[t].todo \subseteq DOMAIN index
        /\ \A i \in DOMAIN index : rd[t].rec \in index[i] => i \in rd'[t].todo
        /\ rd'[t].pc = "open" => (rd'[t].locked <=> ~rd'[t].alone)
        /\ rd'[t].rec = rd[t].rec /\ rd'[t].gap = rd[t].gap
    BY GetIndexFacts
  <1>2. \A i, x : InMap(readers', i, x) \/ InMap(cache', i, x) \/ GetCopy(rd'[t], i, x)
                  => Copy(i, x)
    BY <1>1 DEF GetCopy, Copy
  <1>3. NoNewCopies /\ StaysNear
    BY <1>1, <1>2, AroundFacts, GetCopies
  <1>4. UNCHANGED vars /\ expired' = expired
    BY <1>1 DEF GetMoves, vars
  <1>5. /\ \A r : Served(r) => Served(r)'
        /\ \A i, r : Holds(i, r)' => Holds(i, r)
        /\ \A i, r : AllHave(i, r) => AllHave(i, r)'
    BY <1>3, <1>4, ReadersLeave DEF Good
  <1>6. PICK g : g = rd'[t]
    OBVIOUS
  <1>7. ASSUME ~g.gap, g.rec \notin expired
        PROVE  /\ g.pc = "open" /\ Served(g.rec)'
               /\ \A i : Holds(i, g.rec)' => i \in g.todo
               /\ \E i \in g.todo : AllHave(i, g.rec)'
    <2>1. Served(g.rec)
      BY <1>1, <1>6, <1>7 DEF Good, GetGood
    <2>2. PICK i : Holds(i, g.rec)
      BY <2>1, ServedIsHeld
    <2>3. \A j : Holds(j, g.rec) => j \in g.todo
      BY <1>1, <1>6 DEF Holds
    <2>4. AllHave(i, g.rec)
      <3>1. Copy(i, index[i]) /\ g.rec \in index[i]
        BY <2>2 DEF Holds, Copy, InMap
      <3> QED BY <3>1 DEF Good, OneContent, AllHave
    <2> QED BY <1>1, <1>5, <1>6, <2>1, <2>2, <2>3, <2>4
  <1>8. GetGood(g)'
    BY <1>1, <1>4, <1>6, <1>7 DEF GetGood, Searching
  <1>9. GetGood(rd[t])'
    BY <1>6, <1>8
  <1> QED BY <1>1, <1>3, <1>9, GetMovesOn

\* The SST at hand did not have the record, in the copy that was asked, or its file
\* is gone: the get goes on with the others.
LEMMA GoodAfterMiss ==
    ASSUME ReadTypeInv, Safe, Good, NoNewCopies, StaysNear, UNCHANGED vars,
           NEW g \in GetRuns, g.todo # {},
           NEW old, GetGood(old), old.pc \in Searching,
           old.todo = g.todo, old.rec = g.rec, old.gap = g.gap, old.locked = g.locked,
           old.alone = g.alone, old.unlinked => g.unlinked,
           NEW id, id = Min(g.todo),
           \/ g.unlinked /\ id \notin DOMAIN files
           \/ \E x : Copy(id, x) /\ g.rec \notin x \ expired,
           NEW h, h = AfterMiss(g)
    PROVE  GetGood(h)'
  <1>1. /\ h.todo = g.todo \ {id}
        /\ h.pc \in {"open", "done"} /\ (h.pc = "done" <=> h.todo = {})
        /\ h.locked <=> g.locked /\ h.todo # {}
        /\ h.rec = g.rec /\ h.gap = g.gap /\ h.alone = g.alone
        /\ h.found = g.found /\ h.unlinked = g.unlinked
    BY MissFacts
  <1>2. expired' = expired
    BY DEF vars
  <1>3. /\ \A r : Served(r) => Served(r)'
        /\ \A i, r : Holds(i, r)' => Holds(i, r)
        /\ \A i, r : AllHave(i, r) => AllHave(i, r)'
    BY ReadersLeave DEF Good
  <1>4. ASSUME ~g.gap, g.rec \notin expired, g.locked
        PROVE  /\ h.pc = "open" /\ h.locked /\ Served(h.rec)'
               /\ \A i : Holds(i, h.rec)' => i \in h.todo
    <2>1. Served(g.rec) /\ \A i : Holds(i, g.rec) => i \in g.todo
      BY <1>4 DEF GetGood
    <2>2. ~Holds(id, g.rec)
      <3>1. ASSUME Holds(id, g.rec) PROVE FALSE
        <4>1. id \in DOMAIN files /\ Copy(id, index[id]) /\ g.rec \in index[id]
          BY <3>1 DEF Holds, Copy, InMap
        <4>2. PICK x : Copy(id, x) /\ g.rec \notin x \ expired
          BY <4>1
        <4>3. x = index[id]
          BY <4>1, <4>2 DEF Good, OneContent
        <4> QED BY <1>4, <4>1, <4>2, <4>3
      <3> QED BY <3>1
    <2>3. \A i : Holds(i, g.rec) => i \in h.todo
      BY <1>1, <2>1, <2>2
    <2>4. h.todo # {}
      BY <2>1, <2>3, ServedIsHeld
    <2> QED BY <1>1, <1>3, <1>4, <2>1, <2>3, <2>4
  <1>5. ASSUME ~g.gap, g.rec \notin expired, ~g.locked
        PROVE  /\ ~h.locked /\ h.alone
               /\ h.unlinked \/ (h.pc = "open" /\ \E i \in h.todo : AllHave(i, h.rec)')
    <2>1. g.alone /\ (g.unlinked \/ \E i \in g.todo : AllHave(i, g.rec))
      BY <1>5 DEF GetGood
    <2>2. CASE g.unlinked
      BY <1>1, <1>5, <2>1, <2>2
    <2>3. CASE ~g.unlinked
      <3>1. PICK i \in g.todo : AllHave(i, g.rec)
        BY <2>1, <2>3
      <3>2. PICK x : Copy(id, x) /\ g.rec \notin x \ expired
        BY <2>3
      <3>3. i # id
        BY <1>5, <3>1, <3>2 DEF AllHave
      <3>4. i \in h.todo /\ h.pc = "open"
        BY <1>1, <3>1, <3>3
      <3> QED BY <1>1, <1>3, <1>5, <2>1, <3>1, <3>4
    <2> QED BY <2>2, <2>3
  <1> QED BY <1>1, <1>2, <1>4, <1>5 DEF GetGood, Searching

\* The get opens an SST, or gives it up.
LEMMA GoodGetOpen ==
    ASSUME ReadTypeInv, TypeInv, Safe, Good, NEW t \in Gets, GetOpen(t)
    PROVE  Good'
  <1>0. PICK id, old : id = Min(rd[t].todo) /\ old = rd[t]
    OBVIOUS
  <1>1. /\ old.pc = "open" /\ old.todo # {}
        /\ GetMoves(t) /\ UNCHANGED <<readers, cache>>
        /\ \/ /\ rd'[t].pc \in {"block", "insert"}
              /\ \/ id \in DOMAIN readers /\ rd'[t].file = readers[id]
                 \/ id \in DOMAIN files /\ rd'[t].file = files[id]
              /\ rd'[t].todo = old.todo /\ rd'[t].rec = old.rec
              /\ rd'[t].gap = old.gap /\ rd'[t].locked = old.locked
              /\ rd'[t].alone = old.alone /\ rd'[t].unlinked = old.unlinked
           \/ /\ id \notin DOMAIN files
              /\ \E g \in GetRuns :
                   /\ g.unlinked /\ g.todo = old.todo /\ g.rec = old.rec
                   /\ g.gap = old.gap /\ g.locked = old.locked
                   /\ g.alone = old.alone
                   /\ rd'[t] = AfterMiss(g)
    BY <1>0, GetOpenFacts
  <1>2. GetGood(old)
    BY <1>0 DEF Good
  <1>3. UNCHANGED vars /\ expired' = expired
    BY <1>1 DEF GetMoves, vars
  <1>4. old.todo \subseteq Around
    BY <1>0, AroundFacts
  <1>5. PICK new : new = rd'[t]
    OBVIOUS
  <1>6. ASSUME new.todo \subseteq old.todo, \A i, x : GetCopy(new, i, x) => Copy(i, x)
        PROVE  NoNewCopies /\ StaysNear
    <2>1. \A i, x : InMap(readers', i, x) \/ InMap(cache', i, x) \/ GetCopy(rd'[t], i, x)
                    => Copy(i, x)
      BY <1>1, <1>5, <1>6 DEF Copy
    <2> QED BY <1>1, <1>4, <1>5, <1>6, <2>1, AroundFacts, GetCopies
  <1>7. CASE /\ new.pc \in {"block", "insert"}
             /\ \/ id \in DOMAIN readers /\ new.file = readers[id]
                \/ id \in DOMAIN files /\ new.file = files[id]
             /\ new.todo = old.todo /\ new.rec = old.rec
             /\ new.gap = old.gap /\ new.locked = old.locked
             /\ new.alone = old.alone /\ new.unlinked = old.unlinked
    <2>1. \A i, x : GetCopy(new, i, x) => Copy(i, x)
      BY <1>0, <1>7 DEF GetCopy, Copy, InMap
    <2>2. NoNewCopies /\ StaysNear
      BY <1>6, <1>7, <2>1
    <2>3. GetGood(old)'
      BY <1>2, <1>3, <2>2, ReadersLeave DEF Good
    <2>4. GetGood(new)'
      BY <1>1, <1>7, <2>3 DEF GetGood, Searching
    <2>5. GetGood(rd[t])'
      BY <1>5, <2>4
    <2> QED BY <1>1, <2>2, <2>5, GetMovesOn
  <1>8. ASSUME id \notin DOMAIN files, NEW g \in GetRuns, g.unlinked, g.todo = old.todo,
               g.rec = old.rec, g.gap = old.gap, g.locked = old.locked, g.alone = old.alone,
               new = AfterMiss(g)
        PROVE  Good'
    <2>1. new.todo \subseteq old.todo /\ new.pc \in {"open", "done"}
      BY <1>1, <1>8, MissFacts
    <2>2. NoNewCopies /\ StaysNear
      BY <1>6, <2>1 DEF GetCopy
    <2>3. GetGood(new)'
      BY <1>0, <1>1, <1>2, <1>3, <1>8, <2>2, GoodAfterMiss DEF Searching
    <2>4. GetGood(rd[t])'
      BY <1>5, <2>3
    <2> QED BY <1>1, <2>2, <2>4, GetMovesOn
  <1> QED BY <1>1, <1>5, <1>7, <1>8

\* The get puts its reader into the map, reads the block or finds it in the cache.
LEMMA GoodGetReads ==
    ASSUME ReadTypeInv, TypeInv, Safe, Good, NEW t \in Gets,
           GetInsert(t) \/ GetBlock(t) \/ GetFill(t)
    PROVE  Good'
  <1>0. PICK id, old, new : id = Min(rd[t].todo) /\ old = rd[t] /\ new = rd'[t]
    OBVIOUS
  <1>1. /\ old.pc \in {"insert", "block", "fill"} /\ old.todo # {}
        /\ GetMoves(t)
        /\ readers' = readers \/ readers' = Put(readers, id, old.file)
        /\ cache' = cache \/ cache' = Put(cache, id, old.file)
        /\ \/ /\ new.pc \in {"block", "fill"}
              /\ new.file = old.file
              /\ new.todo = old.todo /\ new.rec = old.rec
              /\ new.gap = old.gap /\ new.locked = old.locked
              /\ new.alone = old.alone /\ new.unlinked = old.unlinked
           \/ new.pc = "done" /\ new.found /\ new.todo = old.todo
           \/ /\ new = AfterMiss(old)
              /\ \/ id \in DOMAIN cache /\ old.rec \notin cache[id] \ expired
                 \/ old.rec \notin old.file \ expired
    BY <1>0, GetReadsFacts
  <1>2. GetGood(old) /\ old \in GetRuns
    BY <1>0 DEF Good, ReadTypeInv, GetOK
  <1>3. UNCHANGED vars /\ expired' = expired
    BY <1>1 DEF GetMoves, vars
  <1>4. /\ old.todo \subseteq Around /\ DOMAIN readers \subseteq Around
        /\ DOMAIN cache \subseteq Around
    BY <1>0, AroundFacts
  <1>5. id \in old.todo
    <2>1. old.todo \in SUBSET SstIds
      BY <1>2 DEF GetRuns
    <2> QED BY <1>0, <1>1, <2>1, FirstIsOne
  <1>6. Copy(id, old.file)
    BY <1>0, <1>1 DEF Copy, GetCopy
  <1>7. /\ DOMAIN readers' \subseteq Around /\ DOMAIN cache' \subseteq Around
        /\ \A i, x : InMap(readers', i, x) \/ InMap(cache', i, x) => Copy(i, x)
    <2>1. \A i, x : InMap(readers, i, x) \/ InMap(cache, i, x) => Copy(i, x)
      BY DEF Copy
    <2>2. /\ DOMAIN readers' \subseteq DOMAIN readers \cup {id}
          /\ \A i, x : InMap(readers', i, x) => (i = id /\ x = old.file) \/ InMap(readers, i, x)
      BY <1>1, PutFacts
    <2>3. /\ DOMAIN cache' \subseteq DOMAIN cache \cup {id}
          /\ \A i, x : InMap(cache', i, x) => (i = id /\ x = old.file) \/ InMap(cache, i, x)
      BY <1>1, PutFacts
    <2> QED BY <1>4, <1>5, <1>6, <2>1, <2>2, <2>3
  <1>8. new.todo \subseteq old.todo /\ (new.pc \in {"insert", "block", "fill"} =>
                                          new.file = old.file /\ new.todo = old.todo)
    BY <1>1, <1>2, MissFacts
  <1>9. NoNewCopies /\ StaysNear
    <2>1. \A i, x : GetCopy(new, i, x) => Copy(i, x)
      BY <1>0, <1>6, <1>8 DEF GetCopy
    <2>2. rd'[t].todo \subseteq Around \cup DOMAIN index
      BY <1>0, <1>4, <1>8
    <2> QED BY <1>0, <1>1, <1>7, <2>1, <2>2, GetCopies
  <1>10. CASE /\ new.pc \in {"block", "fill"}
              /\ new.todo = old.todo /\ new.rec = old.rec
              /\ new.gap = old.gap /\ new.locked = old.locked
              /\ new.alone = old.alone /\ new.unlinked = old.unlinked
    <2>1. GetGood(old)'
      BY <1>2, <1>3, <1>9, ReadersLeave DEF Good
    <2>2. GetGood(new)'
      BY <1>1, <1>10, <2>1 DEF GetGood, Searching
    <2>3. GetGood(rd[t])'
      BY <1>0, <2>2
    <2> QED BY <1>1, <1>9, <2>3, GetMovesOn
  <1>11. CASE new.pc = "done" /\ new.found
    <2>1. GetGood(new)'
      BY <1>11 DEF GetGood, Searching
    <2>2. GetGood(rd[t])'
      BY <1>0, <2>1
    <2> QED BY <1>1, <1>9, <2>2, GetMovesOn
  <1>12. CASE /\ new = AfterMiss(old)
              /\ \/ id \in DOMAIN cache /\ old.rec \notin cache[id] \ expired
                 \/ old.rec \notin old.file \ expired
    <2>1. \E x : Copy(id, x) /\ old.rec \notin x \ expired
      BY <1>6, <1>12 DEF Copy, InMap
    <2>2. GetGood(new)'
      BY <1>0, <1>1, <1>2, <1>3, <1>9, <1>12, <2>1, GoodAfterMiss DEF Searching
    <2>3. GetGood(rd[t])'
      BY <1>0, <2>2
    <2> QED BY <1>1, <1>9, <2>3, GetMovesOn
  <1> QED BY <1>1, <1>10, <1>11, <1>12

-----------------------------------------------------------------------------
(* The scans keep it *)

\* A scan begins, ends, takes the index or the reader map, or opens a block.
LEMMA GoodScanOpens ==
    ASSUME ReadTypeInv, TypeInv, Safe, Good, NEW t \in Scans,
           \/ \E full \in BOOLEAN, n \in {0} \cup Records : ScanActive(t, full, n)
           \/ ScanFrozen(t) \/ ScanReturns(t) \/ ScanIndex(t) \/ ScanSnapshot(t) \/ ScanOpen(t)
    PROVE  Good'
  <1>0. PICK old, new : old = sc[t] /\ new = sc'[t]
    OBVIOUS
  <1>1. ScanGood(old) /\ IndexServes /\ ScanOK(old)
    BY <1>0 DEF Good, ReadTypeInv
  <1>2. ASSUME ScanMoves(t), cache' = cache,
               \A i, x : ScanCopy(new, i, x) => Copy(i, x),
               DOMAIN new.todo \subseteq Around \cup DOMAIN index,
               DOMAIN new.opened \subseteq Around,
               new.pc = "index" => \A r \in new.must \ expired : r \in new.seen \/ Served(r),
               new.pc \in {"snapshot", "open", "block", "fill"} =>
                    \A r \in new.must \ expired :
                        r \in new.seen \cup new.skipped \/ \E i \in DOMAIN new.todo : r \in new.todo[i]
        PROVE  Good'
    <2>1. \A i, x : InMap(cache', i, x) \/ ScanCopy(sc'[t], i, x) => Copy(i, x)
      BY <1>0, <1>2 DEF Copy
    <2>2. NoNewCopies /\ StaysNear
      BY <1>0, <1>2, <2>1, AroundFacts, ScanCopies
    <2>3. ScanGood(new)
      BY <1>2 DEF ScanGood
    <2>4. ScanGood(new)'
      BY <1>2, <2>2, <2>3, ReadersLeave DEF Good, ScanMoves
    <2>5. ScanGood(sc[t])'
      BY <1>0, <2>4
    <2> QED BY <1>2, <2>2, <2>5, ScanMovesOn
  <1>3. \A i, x : ScanCopy(old, i, x) \/ InMap(index, i, x) \/ InMap(readers, i, x)
                  \/ InMap(files, i, x) => Copy(i, x)
    BY <1>0 DEF Copy
  <1>4. /\ DOMAIN old.todo \subseteq Around /\ DOMAIN old.opened \subseteq Around
        /\ DOMAIN readers \subseteq Around
    BY <1>0, AroundFacts
  <1>5. CASE \/ \E full \in BOOLEAN, n \in {0} \cup Records : ScanActive(t, full, n)
             \/ ScanReturns(t)
    <2>1. /\ ScanMoves(t) /\ cache' = cache /\ new.pc \in {"idle", "frozen"}
          /\ new.todo = <<>> /\ new.opened = <<>>
      BY <1>0, <1>5, ScanEndsFacts
    <2>2. DOMAIN new.todo = {} /\ DOMAIN new.opened = {}
      BY <2>1
    <2>3. \A i, x : ~ScanCopy(new, i, x)
      BY <2>1, <2>2 DEF ScanCopy, InMap
    <2> QED BY <1>2, <2>1, <2>2, <2>3
  <1>8. CASE ScanFrozen(t)
    <2>1. /\ ScanMoves(t) /\ cache' = cache /\ old.pc = "frozen" /\ new.pc = "index"
          /\ new.todo = old.todo /\ new.opened = old.opened
          /\ InMemtables \subseteq new.seen /\ new.must \subseteq new.seen \cup Findable
      BY <1>0, <1>8, ScanFrozenFacts
    <2>2. \A i, x : ScanCopy(new, i, x) => ScanCopy(old, i, x)
      BY <2>1 DEF ScanCopy
    <2>3. \A r \in Findable \ expired : r \in InMemtables \/ Served(r)
      BY <1>1 DEF Findable, IndexServes
    <2>4. \A r \in new.must \ expired : r \in new.seen \/ Served(r)
      BY <2>1, <2>3
    <2> QED BY <1>2, <1>3, <1>4, <2>1, <2>2, <2>4
  <1>6. CASE ScanIndex(t) \/ ScanSnapshot(t)
    <2>1. /\ ScanMoves(t) /\ cache' = cache
          /\ \/ old.pc = "index" /\ new.pc = "snapshot" /\ new.todo = index
                /\ new.opened = old.opened
             \/ old.pc = "snapshot" /\ new.pc = "open" /\ new.todo = old.todo
                /\ new.opened = readers
          /\ new.seen = old.seen /\ new.must = old.must /\ new.skipped = old.skipped
      BY <1>0, <1>6, ScanTakesFacts
    <2>2. \A i, x : ScanCopy(new, i, x) => Copy(i, x)
      BY <1>3, <2>1 DEF ScanCopy
    <2>3. DOMAIN new.todo \subseteq Around \cup DOMAIN index /\ DOMAIN new.opened \subseteq Around
      BY <1>4, <2>1
    <2>4. ASSUME NEW r \in new.must \ expired
          PROVE  r \in new.seen \cup new.skipped \/ \E i \in DOMAIN new.todo : r \in new.todo[i]
      <3>1. \A i : Holds(i, r) => i \in DOMAIN index /\ r \in index[i]
        BY DEF Holds
      <3> QED BY <1>1, <2>1, <2>4, <3>1, ServedIsHeld DEF ScanGood
    <2> QED BY <1>2, <2>1, <2>2, <2>3, <2>4
  <1>7. CASE ScanOpen(t)
    <2>1. /\ ScanMoves(t) /\ cache' = cache /\ old.pc = "open"
          /\ new.opened = old.opened
          /\ new.seen = old.seen /\ new.must = old.must
          /\ \E id \in DOMAIN old.todo :
               \/ /\ new.pc = "block" /\ new.cur = id
                  /\ new.todo = old.todo /\ new.skipped = old.skipped
                  /\ \/ id \in DOMAIN old.opened /\ new.file = old.opened[id]
                     \/ id \in DOMAIN files /\ new.file = files[id]
               \/ /\ new.pc = "open"
                  /\ new.todo = Without(old.todo, {id})
                  /\ new.skipped = old.skipped \cup old.todo[id]
      BY <1>0, <1>7, ScanOpenFacts
    <2>2. \A r \in old.must \ expired :
            r \in old.seen \cup old.skipped \/ \E i \in DOMAIN old.todo : r \in old.todo[i]
      BY <1>1, <2>1 DEF ScanGood
    <2>3. ASSUME NEW id \in DOMAIN old.todo, new.pc = "block", new.cur = id,
                 new.todo = old.todo, new.skipped = old.skipped,
                 \/ id \in DOMAIN old.opened /\ new.file = old.opened[id]
                 \/ id \in DOMAIN files /\ new.file = files[id]
          PROVE  Good'
      <3>1. \A i, x : ScanCopy(new, i, x) => ScanCopy(old, i, x) \/ InMap(files, i, x)
        BY <2>1, <2>3 DEF ScanCopy, InMap
      <3> QED BY <1>2, <1>3, <1>4, <2>1, <2>2, <2>3, <3>1
    <2>4. ASSUME NEW id \in DOMAIN old.todo, new.pc = "open",
                 new.todo = Without(old.todo, {id}), new.skipped = old.skipped \cup old.todo[id]
          PROVE  Good'
      <3>1. /\ DOMAIN new.todo = DOMAIN old.todo \ {id}
            /\ \A i \in DOMAIN new.todo : new.todo[i] = old.todo[i]
        BY <2>4 DEF Without
      <3>2. \A i, x : ScanCopy(new, i, x) => ScanCopy(old, i, x)
        BY <2>1, <2>4, <3>1 DEF ScanCopy, InMap
      <3>3. \A r \in new.must \ expired :
                r \in new.seen \cup new.skipped \/ \E i \in DOMAIN new.todo : r \in new.todo[i]
        BY <2>1, <2>2, <2>4, <3>1
      <3> QED BY <1>2, <1>3, <1>4, <2>1, <2>4, <3>1, <3>2, <3>3
    <2> QED BY <2>1, <2>3, <2>4
  <1> QED BY <1>5, <1>6, <1>7, <1>8

\* The scan takes the records of a block, from the cache or from its reader.
LEMMA GoodScanReads ==
    ASSUME ReadTypeInv, TypeInv, Safe, Good, NEW t \in Scans, ScanBlock(t) \/ ScanFill(t)
    PROVE  Good'
  <1>0. PICK old, new, id : old = sc[t] /\ new = sc'[t] /\ id = sc[t].cur
    OBVIOUS
  <1>1. /\ ScanMoves(t) /\ old.pc \in {"block", "fill"} /\ id \in DOMAIN old.todo
        /\ cache' = cache \/ cache' = Put(cache, id, old.file)
        /\ new.opened = old.opened
        /\ new.must = old.must /\ new.skipped = old.skipped
        /\ \/ /\ new.pc = "fill" /\ new.cur = id /\ new.file = old.file
              /\ new.todo = old.todo /\ new.seen = old.seen
           \/ /\ new.pc = "open"
              /\ new.todo = Without(old.todo, {id})
              /\ \/ new.seen = old.seen \cup (old.file \ expired)
                 \/ id \in DOMAIN cache /\ new.seen = old.seen \cup (cache[id] \ expired)
    BY <1>0, ScanReadsFacts
  <1>2. /\ DOMAIN old.todo \subseteq Around /\ DOMAIN old.opened \subseteq Around
        /\ DOMAIN cache \subseteq Around
    BY <1>0, AroundFacts
  <1>3. /\ \A i, x : ScanCopy(old, i, x) => Copy(i, x)
        /\ \A i, x : InMap(cache, i, x) => Copy(i, x)
    BY <1>0 DEF Copy
  <1>4. Copy(id, old.file) /\ Copy(id, old.todo[id])
    BY <1>0, <1>1, <1>3 DEF ScanCopy, InMap
  <1>5. DOMAIN cache' \subseteq Around /\ \A i, x : InMap(cache', i, x) => Copy(i, x)
    <2>1. /\ DOMAIN cache' \subseteq DOMAIN cache \cup {id}
          /\ \A i, x : InMap(cache', i, x) => (i = id /\ x = old.file) \/ InMap(cache, i, x)
      BY <1>1, PutFacts
    <2> QED BY <1>1, <1>2, <1>3, <1>4, <2>1
  <1>6. /\ DOMAIN Without(old.todo, {id}) = DOMAIN old.todo \ {id}
        /\ \A i \in DOMAIN old.todo : i # id => Without(old.todo, {id})[i] = old.todo[i]
    BY DEF Without
  <1>7. DOMAIN new.todo \subseteq DOMAIN old.todo
        /\ \A i, x : ScanCopy(new, i, x) => ScanCopy(old, i, x)
    BY <1>0, <1>1, <1>6 DEF ScanCopy, InMap
  <1>8. NoNewCopies /\ StaysNear
    <2>1. \A i, x : InMap(cache', i, x) \/ ScanCopy(sc'[t], i, x) => Copy(i, x)
      BY <1>0, <1>3, <1>5, <1>7
    <2>2. /\ DOMAIN sc'[t].todo \subseteq Around \cup DOMAIN index
          /\ DOMAIN sc'[t].opened \subseteq Around
      BY <1>0, <1>1, <1>2, <1>7
    <2> QED BY <1>1, <1>5, <2>1, <2>2, ScanCopies
  <1>9. \A r \in old.must \ expired :
            r \in old.seen \cup old.skipped \/ \E i \in DOMAIN old.todo : r \in old.todo[i]
    BY <1>0, <1>1 DEF Good, ScanGood
  <1>10. ScanGood(new)
    <2>1. CASE new.pc = "fill"
      BY <1>1, <1>9, <2>1 DEF ScanGood
    <2>2. CASE new.pc = "open"
      <3>1. PICK x : Copy(id, x) /\ new.seen = old.seen \cup (x \ expired)
        BY <1>1, <1>3, <1>4, <2>2 DEF InMap
      <3>2. x = old.todo[id]
        BY <1>4, <3>1 DEF Good, OneContent
      <3>3. new.todo = Without(old.todo, {id})
        BY <1>1, <2>2
      <3>4. ASSUME NEW r \in new.must \ expired
            PROVE  r \in new.seen \cup new.skipped \/ \E i \in DOMAIN new.todo : r \in new.todo[i]
        <4>1. CASE r \in old.seen \cup old.skipped
          BY <1>1, <3>1, <4>1
        <4>2. ASSUME NEW i \in DOMAIN old.todo, r \in old.todo[i]
              PROVE  r \in new.seen \/ \E j \in DOMAIN new.todo : r \in new.todo[j]
          BY <1>6, <3>1, <3>2, <3>3, <3>4, <4>2
        <4> QED BY <1>1, <1>9, <3>4, <4>1, <4>2
      <3> QED BY <2>2, <3>4 DEF ScanGood
    <2> QED BY <1>1, <2>1, <2>2
  <1>11. ScanGood(new)'
    BY <1>1, <1>8, <1>10, ReadersLeave DEF Good, ScanMoves
  <1>12. ScanGood(sc[t])'
    BY <1>0, <1>11
  <1> QED BY <1>1, <1>8, <1>12, ScanMovesOn

-----------------------------------------------------------------------------
(* The background keeps it *)

\* Only CompactAllocate draws an id for a merge.
LEMMA DrawnAgain ==
    ASSUME TypeInv, NEW c \in Compactors, Compact(c),
           cp'[c].pc \in {"write", "rename", "index"}
    PROVE  \/ cp[c].pc \in {"write", "rename", "index"} /\ cp'[c].id = cp[c].id
           \/ cp[c].pc = "allocate" /\ cp'[c].pc = "write"
  <1>0. cp[c] \in CompactRuns /\ IdleCp.pc = "idle"
    BY DEF TypeInv, CompactOK, IdleCp
  <1>1. CASE CompactPick(c)
    <2>1. PICK cands : cp'[c] = [IdleCp EXCEPT !.pc = "open", !.cands = cands, !.todo = cands]
      BY <1>1 DEF CompactPick, Move, TypeInv, CompactOK
    <2> QED BY <2>1 DEF IdleCp
  <1>2. CASE CompactOpen(c)
    <2>1. PICK merged : \/ cp'[c] = IdleCp
                        \/ cp'[c] = [cp[c] EXCEPT !.pc = "allocate", !.recs = merged]
      BY <1>2 DEF CompactOpen, Move, TypeInv, CompactOK
    <2> QED BY <1>0, <2>1 DEF CompactRuns
  <1>3. CASE CompactAllocate(c)
    <2>1. cp[c].pc = "allocate" /\ cp'[c] = [cp[c] EXCEPT !.pc = "write", !.id = NextSstId]
      BY <1>3 DEF CompactAllocate, Move, TypeInv, CompactOK
    <2> QED BY <1>0, <2>1 DEF CompactRuns
  <1>4. CASE CompactWrite(c) \/ CompactRename(c) \/ CompactIndex(c) \/ CompactAppend(c)
    <2>1. PICK pc : cp'[c] = [cp[c] EXCEPT !.pc = pc]
      BY <1>4 DEF CompactWrite, CompactRename, CompactIndex, CompactAppend, Move, TypeInv,
                  CompactOK
    <2>2. cp[c].pc \in {"write", "rename", "index", "append"}
      BY <1>4 DEF CompactWrite, CompactRename, CompactIndex, CompactAppend
    <2>3. cp[c].pc = "append" => cp'[c] = [cp[c] EXCEPT !.pc = "unlink"]
      BY <1>4 DEF CompactWrite, CompactRename, CompactIndex, CompactAppend, Move, TypeInv,
                  CompactOK
    <2> QED BY <1>0, <2>1, <2>2, <2>3 DEF CompactRuns
  <1>5. CASE DropFile(c)
    <2>1. PICK id : cp'[c] = [cp[c] EXCEPT !.pc = "dropentry", !.id = id]
      BY <1>5 DEF DropFile, Move, TypeInv, CompactOK
    <2> QED BY <1>0, <2>1 DEF CompactRuns
  <1>6. CASE DropEntry(c)
    <2>1. PICK left : \/ cp'[c] = IdleCp
                      \/ cp'[c] = [cp[c] EXCEPT !.pc = "dropfile", !.todo = left]
      BY <1>6 DEF DropEntry, Move, TypeInv, CompactOK
    <2> QED BY <1>0, <2>1 DEF CompactRuns
  <1>7. CASE CompactUnlink(c)
    <2>1. PICK left : cp'[c] = IdleCp \/ cp'[c] = [cp[c] EXCEPT !.todo = left]
      BY <1>7 DEF CompactUnlink, Move, TypeInv, CompactOK
    <2>2. cp[c].pc = "unlink"
      BY <1>7 DEF CompactUnlink
    <2> QED BY <1>0, <2>1, <2>2 DEF CompactRuns
  <1>8. CASE CompactFails(c)
    BY <1>0, <1>8, MoveFacts DEF CompactFails
  <1> QED BY <1>1, <1>2, <1>3, <1>4, <1>5, <1>6, <1>7, <1>8 DEF Compact

\* An id that is drawn after a step was drawn before, or the step hands it out.
LEMMA DrawsOne ==
    ASSUME TypeInv, Background, NEW i, Unborn(i)'
    PROVE  Unborn(i) \/ i \in HandedOut
  <1>1. CASE Flush
    <2>1. cp' = cp
      BY <1>1 DEF Flush, FlushBegin, FlushWrite, FlushRename, FlushAppend, FlushIndex,
                  CheckpointFails, FlushFails
    <2>2. fl'.pc # "idle" => \/ fl.pc # "idle" /\ fl'.id = fl.id
                             \/ fl.pc = "idle" /\ fl'.pc = "write"
      BY <1>1 DEF Flush, FlushBegin, FlushWrite, FlushRename, FlushAppend, FlushIndex,
                  CheckpointFails, FlushFails, Idle, TypeInv, FlushOK
    <2> QED BY <2>1, <2>2 DEF Unborn, HandedOut
  <1>2. ASSUME NEW c \in Compactors, Compact(c) PROVE Unborn(i) \/ i \in HandedOut
    <2>1. fl' = fl
      BY <1>2, CompactLeaves
    <2>2. \A d \in Compactors : d # c => cp'[d] = cp[d]
      BY <1>2, MoveFacts DEF Compact, CompactPick, CompactOpen, CompactAllocate, CompactWrite,
         DropFile, DropEntry, CompactRename, CompactIndex, CompactAppend, CompactUnlink,
         CompactFails
    <2>3. cp'[c].pc \in {"write", "rename", "index"} =>
            \/ cp[c].pc \in {"write", "rename", "index"} /\ cp'[c].id = cp[c].id
            \/ cp[c].pc = "allocate" /\ cp'[c].pc = "write"
      BY <1>2, DrawnAgain
    <2> QED BY <2>1, <2>2, <2>3 DEF Unborn, HandedOut
  <1>3. CASE \/ \E g \in Collectors : Collect(g)
             \/ \E r \in Records : Expire(r)
    <2>1. fl' = fl /\ cp' = cp
      BY <1>3 DEF Collect, GcScan, GcIndex, GcAppend, GcUnlink, GcFails, Expire
    <2> QED BY <2>1 DEF Unborn
  <1> QED BY <1>1, <1>2, <1>3 DEF Background

LEMMA BackgroundExpires ==
    ASSUME Background
    PROVE  expired \subseteq expired'
  BY DEF Background, Flush, FlushBegin, FlushWrite, FlushRename, FlushAppend, FlushIndex,
         CheckpointFails, FlushFails, Compact, CompactPick, CompactOpen, CompactAllocate,
         CompactWrite, DropFile, DropEntry, CompactRename, CompactIndex, CompactAppend,
         CompactUnlink, CompactFails, Collect, GcScan, GcIndex, GcAppend, GcUnlink, GcFails,
         Expire

\* What a step of the background does to the copies that readers have: none, but
\* that blocks leave the cache.
LEMMA BackgroundCopies ==
    ASSUME ReadTypeInv, DrawnAway, OneContent, ContentStep,
           UNCHANGED <<readers, rd, sc>>, NEW ids, cache' = Without(cache, ids)
    PROVE  /\ OneContent' /\ Around' \subseteq Around
           /\ \A i \in Around : \A x : Copy(i, x)' => Copy(i, x)
  <1>1. DOMAIN cache' \subseteq DOMAIN cache /\ \A i, x : InMap(cache', i, x) => InMap(cache, i, x)
    BY DEF Without, InMap
  <1>2. Around' \subseteq Around
    <2>1. ASSUME NEW i \in Around' PROVE i \in Around
      <3>1. \/ i \in DOMAIN readers \/ i \in DOMAIN cache
            \/ \E t \in Gets : i \in rd[t].todo
            \/ \E t \in Scans : i \in DOMAIN sc[t].todo \/ i \in DOMAIN sc[t].opened
        BY <1>1, <2>1, AroundIs
      <3> QED BY <3>1, AroundFacts
    <2> QED BY <2>1
  <1>3. ASSUME NEW i, NEW x, Copy(i, x)', ~InMap(files', i, x), ~InMap(index', i, x)
        PROVE  Copy(i, x) /\ i \in Around
    <2>1. \/ InMap(readers, i, x) \/ InMap(cache, i, x)
          \/ \E t \in Gets : GetCopy(rd[t], i, x)
          \/ \E t \in Scans : ScanCopy(sc[t], i, x)
      BY <1>1, <1>3 DEF Copy
    <2>2. i \in Around
      BY <2>1, CopiesElsewhere
    <2> QED BY <2>1, <2>2 DEF Copy
  <1>4. ASSUME NEW i, NEW x, Same(i), Copy(i, x)' PROVE Copy(i, x)
    <2>1. CASE InMap(files', i, x) \/ InMap(index', i, x)
      BY <1>4, <2>1 DEF Same, InMap, Copy
    <2> QED BY <1>3, <1>4, <2>1
  <1>5. CASE \A i : Same(i)
    <2>1. \A i, x : Copy(i, x)' => Copy(i, x)
      BY <1>4, <1>5
    <2> QED BY <1>2, <2>1 DEF OneContent
  <1>6. ASSUME NEW id, NEW recs, Arrives(id, recs), \A i : i # id => Same(i)
        PROVE  OneContent' /\ \A i \in Around : \A x : Copy(i, x)' => Copy(i, x)
    <2>1. id \notin Around
      BY <1>6 DEF Arrives, DrawnAway
    <2>2. \A x : Copy(id, x)' => x = recs
      BY <1>3, <1>6, <2>1 DEF Arrives, InMap
    <2>3. \A i, x : i # id /\ Copy(i, x)' => Copy(i, x)
      BY <1>4, <1>6
    <2>4. OneContent'
      BY <2>2, <2>3 DEF OneContent
    <2> QED BY <2>1, <2>3, <2>4
  <1> QED BY <1>2, <1>5, <1>6 DEF ContentStep

LEMMA GoodBackground ==
    ASSUME ReadTypeInv, TypeInv, Safe, Good, Background, ~dirty'
    PROVE  Good'
  <1>1. LifeStep
    BY LifeBackground DEF Good
  <1>2. /\ UNCHANGED <<readers, rd, sc>> /\ cache' = Without(cache, Invalidated)
        /\ index' = index \/ IndexFree
        /\ HandedOut \cap Around = {}
    BY DEF Background
  <1>3. PICK ids : ids = Invalidated
    OBVIOUS
  <1>4. /\ OneContent' /\ Around' \subseteq Around
        /\ \A i \in Around : \A x : Copy(i, x)' => Copy(i, x)
    BY <1>1, <1>2, <1>3, BackgroundCopies DEF Good, LifeStep
  <1>5. expired \subseteq expired'
    BY BackgroundExpires
  <1>6. IndexServes'
    BY <1>1, <1>5 DEF LifeStep, ServesStep, IndexServes, Good
  <1>7. DrawnAway'
    BY <1>2, <1>4, DrawsOne DEF Good, DrawnAway
  <1>8. \A r : r \notin expired' /\ Served(r) => Served(r)'
    BY <1>1 DEF LifeStep, ServesStep
  <1>9. ASSUME index' = index, NEW i, NEW r, Holds(i, r)' PROVE Holds(i, r)
    <2>1. i \in DOMAIN index /\ r \in index[i] /\ i \in DOMAIN files'
      BY <1>9 DEF Holds
    <2>2. Same(i)
      BY <1>1, <2>1 DEF LifeStep, ContentStep, Arrives
    <2> QED BY <2>1, <2>2 DEF Same, Holds
  <1>10. ASSUME NEW t \in Gets PROVE GetGood(rd[t])'
    <2>1. PICK g : g = rd[t]
      OBVIOUS
    <2>2. GetGood(g) /\ g.todo \subseteq Around /\ (g.locked => ~IndexFree)
      BY <2>1, AroundFacts DEF Good, IndexFree
    <2>3. \A i \in g.todo : AllHave(i, g.rec) => AllHave(i, g.rec)'
      BY <1>4, <2>2 DEF AllHave
    <2>4. g.locked => \A i : Holds(i, g.rec)' => Holds(i, g.rec)
      BY <1>2, <1>9, <2>2
    <2>5. GetGood(g)'
      BY <1>5, <1>8, <2>2, <2>3, <2>4 DEF GetGood
    <2>6. g = rd'[t]
      BY <1>2, <2>1
    <2> QED BY <2>5, <2>6
  <1>11. ASSUME NEW t \in Scans PROVE ScanGood(sc[t])'
    <2>1. PICK s : s = sc[t]
      OBVIOUS
    <2>2. ScanGood(s)
      BY <2>1 DEF Good
    <2>3. ScanGood(s)'
      BY <1>5, <1>8, <2>2 DEF ScanGood
    <2>4. s = sc'[t]
      BY <1>2, <2>1
    <2> QED BY <2>3, <2>4
  <1>12. FlushIsNew'
    BY <1>1 DEF LifeStep
  <1> QED BY <1>4, <1>6, <1>7, <1>10, <1>11, <1>12 DEF Good

\* A restart ends all readers.
LEMMA GoodRestart ==
    ASSUME TypeInv, Safe, Good, ReadRestart
    PROVE  Good'
  <1>1. /\ Restart /\ readers' = <<>> /\ cache' = <<>>
        /\ \A t \in Gets : rd'[t] = IdleGet
        /\ \A t \in Scans : sc'[t] = IdleScan
        /\ files' = files /\ index' = manifest
    BY DEF ReadRestart, Restart
  <1>2. FlushIsNew' /\ IndexServes'
    BY <1>1, LifeRestart DEF Good
  <1>3. \A i, x : ~GetCopy(IdleGet, i, x) /\ ~ScanCopy(IdleScan, i, x)
    BY DEF GetCopy, ScanCopy, IdleGet, IdleScan, InMap
  <1>4. \A i, x : Copy(i, x)' => InMap(files, i, x) \/ InMap(manifest, i, x)
    BY <1>1, <1>3 DEF Copy, InMap
  <1>5. OneContent'
    BY <1>4 DEF OneContent, InMap, Safe, FilesMatch
  <1>6. Around' = {}
    <2>1. ASSUME NEW i \in Around' PROVE FALSE
      BY <1>1, <2>1, AroundIs DEF IdleGet, IdleScan
    <2> QED BY <2>1
  <1>7. DrawnAway'
    BY <1>6 DEF DrawnAway
  <1>8. GetGood(IdleGet)' /\ ScanGood(IdleScan)'
    BY DEF GetGood, ScanGood, IdleGet, IdleScan, Searching
  <1>9. (\A t \in Gets : GetGood(rd[t]))' /\ (\A t \in Scans : ScanGood(sc[t]))'
    BY <1>1, <1>8
  <1> QED BY <1>2, <1>5, <1>7, <1>9 DEF Good

\* Eviction only takes readers out of the map and blocks out of the cache.
LEMMA GoodEvict ==
    ASSUME ReadTypeInv, Safe, Good,
           \/ EvictList \/ EvictRetain \/ \E id \in DOMAIN cache : CacheDrops(id)
           \/ UNCHANGED allVars
    PROVE  Good'
  <1>1. UNCHANGED <<rd, sc>> /\ UNCHANGED vars /\ files' = files /\ index' = index
    BY DEF EvictList, EvictRetain, CacheDrops, allVars, readVars, vars
  <1>2. \E ids : readers' = readers \/ readers' = Without(readers, ids)
    BY DEF EvictList, EvictRetain, CacheDrops, allVars, readVars
  <1>3. \E ids : cache' = cache \/ cache' = Without(cache, ids)
    BY DEF EvictList, EvictRetain, CacheDrops, allVars, readVars
  <1>4. DOMAIN readers' \subseteq DOMAIN readers
        /\ \A i, x : InMap(readers', i, x) => InMap(readers, i, x)
    BY <1>2 DEF Without, InMap
  <1>5. DOMAIN cache' \subseteq DOMAIN cache
        /\ \A i, x : InMap(cache', i, x) => InMap(cache, i, x)
    BY <1>3 DEF Without, InMap
  <1>6. NoNewCopies
    BY <1>1, <1>4, <1>5 DEF NoNewCopies, Copy
  <1>7. StaysNear
    <2>1. ASSUME NEW i \in Around' PROVE i \in Around
      <3>1. \/ i \in DOMAIN readers \/ i \in DOMAIN cache
            \/ \E t \in Gets : i \in rd[t].todo
            \/ \E t \in Scans : i \in DOMAIN sc[t].todo \/ i \in DOMAIN sc[t].opened
        BY <1>1, <1>4, <1>5, <2>1, AroundIs
      <3> QED BY <3>1, AroundFacts
    <2> QED BY <2>1 DEF StaysNear
  <1>8. /\ IndexServes' /\ FlushIsNew' /\ DrawnAway' /\ OneContent'
        /\ \A g : GetGood(g) => GetGood(g)'
        /\ \A s : ScanGood(s) => ScanGood(s)'
    BY <1>1, <1>6, <1>7, ReadersLeave DEF Good
  <1>9. ASSUME NEW t \in Gets PROVE GetGood(rd[t])'
    <2>1. PICK g : g = rd[t] /\ g = rd'[t]
      BY <1>1
    <2>2. GetGood(g)'
      BY <1>8, <2>1 DEF Good
    <2> QED BY <2>1, <2>2
  <1>10. ASSUME NEW t \in Scans PROVE ScanGood(sc[t])'
    <2>1. PICK s : s = sc[t] /\ s = sc'[t]
      BY <1>1
    <2>2. ScanGood(s)'
      BY <1>8, <2>1 DEF Good
    <2> QED BY <2>1, <2>2
  <1> QED BY <1>8, <1>9, <1>10 DEF Good

-----------------------------------------------------------------------------
(* The theorems *)

\* As long as no id was handed out that was in use by a run or around in memory.
ReadInv == ~clash /\ ~dirty => Good

LEMMA GoodStep ==
    ASSUME TypeInv, ReadTypeInv, Safe, Good, [ReadNext]_allVars, ~dirty'
    PROVE  Good'
  <1>1. CASE Background
    BY <1>1, GoodBackground
  <1>2. CASE ReadRestart
    BY <1>2, GoodRestart
  <1>3. CASE \/ EvictList \/ EvictRetain \/ \E id \in DOMAIN cache : CacheDrops(id)
             \/ UNCHANGED allVars
    BY <1>3, GoodEvict
  <1>4. ASSUME NEW t \in Gets, GetStep(t) PROVE Good'
    BY <1>4, GoodGetEnds, GoodGetIndex, GoodGetOpen, GoodGetReads DEF GetStep
  <1>5. ASSUME NEW t \in Scans, ScanStep(t) PROVE Good'
    BY <1>5, GoodScanOpens, GoodScanReads DEF ScanStep
  <1> QED BY <1>1, <1>2, <1>3, <1>4, <1>5 DEF ReadNext

\* What went wrong with an id stays on record.
LEMMA MarksStay ==
    ASSUME [ReadNext]_allVars, ~clash', ~dirty'
    PROVE  ~clash /\ ~dirty
  <1>1. CASE Background
    <2>1. Next
      BY <1>1 DEF Background, Next
    <2>2. ~clash
      BY <2>1, ClashStays
    <2>3. ~dirty
      BY <1>1 DEF Background
    <2> QED BY <2>2, <2>3
  <1>2. CASE ReadRestart
    <2>1. Next
      BY <1>2 DEF ReadRestart, Next
    <2> QED BY <1>2, <2>1, ClashStays DEF ReadRestart
  <1>3. CASE \/ EvictList \/ EvictRetain \/ \E id \in DOMAIN cache : CacheDrops(id)
             \/ UNCHANGED allVars
    <2>1. clash' = clash /\ dirty' = dirty
      BY <1>3 DEF EvictList, EvictRetain, CacheDrops, allVars, readVars, vars
    <2> QED BY <2>1, Zenon
  <1>4. ASSUME NEW t \in Gets, GetStep(t) PROVE ~clash /\ ~dirty
    <2>1. clash' = clash /\ dirty' = dirty
      BY <1>4 DEF GetStep, GetActive, GetFrozen, GetIndex, GetOpen, GetInsert, GetBlock, GetFill,
                  GetReturns, vars
    <2> QED BY <2>1, Zenon
  <1>5. ASSUME NEW t \in Scans, ScanStep(t) PROVE ~clash /\ ~dirty
    <2>1. clash' = clash /\ dirty' = dirty
      BY <1>5 DEF ScanStep, ScanActive, ScanFrozen, ScanIndex, ScanSnapshot, ScanOpen, ScanBlock,
                  ScanFill, ScanReturns, vars
    <2> QED BY <2>1, Zenon
  <1> QED BY <1>1, <1>2, <1>3, <1>4, <1>5 DEF ReadNext

LEMMA GoodInit ==
    ASSUME ReadInit
    PROVE  Good
  <1>1. /\ files = <<>> /\ index = <<>> /\ readers = <<>> /\ cache = <<>>
        /\ \A t \in Gets : rd[t] = IdleGet
        /\ \A t \in Scans : sc[t] = IdleScan
        /\ fl.pc = "idle" /\ recorded = {}
        /\ \A c \in Compactors : cp[c].pc = "idle"
    BY DEF ReadInit, Init, Idle, IdleCp
  <1>2. IndexServes /\ FlushIsNew
    BY <1>1 DEF IndexServes, FlushIsNew, FlushDrawn
  <1>3. DrawnAway
    BY <1>1 DEF DrawnAway, Unborn
  <1>4. \A i, x : ~GetCopy(IdleGet, i, x) /\ ~ScanCopy(IdleScan, i, x)
    BY DEF GetCopy, ScanCopy, IdleGet, IdleScan, InMap
  <1>5. OneContent
    BY <1>1, <1>4 DEF OneContent, Copy, InMap
  <1>6. GetGood(IdleGet) /\ ScanGood(IdleScan)
    BY DEF GetGood, ScanGood, IdleGet, IdleScan, Searching
  <1> QED BY <1>1, <1>2, <1>3, <1>5, <1>6 DEF Good

LEMMA ReadInvariant == ReadSpec => []ReadInv
  <1>1. ReadInit => ReadInv
    BY GoodInit DEF ReadInv
  <1>2. TypeInv /\ SafeInv /\ ReadTypeInv /\ ReadInv /\ [ReadNext]_allVars => ReadInv'
    BY MarksStay, GoodStep DEF ReadInv, SafeInv
  <1>3. ReadSpec => [](TypeInv /\ SafeInv)
    BY ReadersOnlyRead, SafeInvariant, PTL
  <1> QED BY <1>1, <1>2, <1>3, ReadTypeInvariant, PTL DEF ReadSpec

\* get_sync finds every unexpired record that could be found when it began and when
\* it looked at the frozen memtables, whatever any number of flushes, merges, GC runs and other readers do meanwhile
\* and whatever readers and blocks are kept: except where the only SST of the index
\* is replaced and unlinked after the index lock was dropped, and unless an id was
\* handed out while it was in use or around.
THEOREM GetsFind == ReadSpec => []GetFindsIndexed
  <1>1. ReadInv => GetFindsIndexed
    BY DEF ReadInv, Good, GetGood, GetFindsIndexed
  <1> QED BY <1>1, ReadInvariant, PTL

\* ScanIterator::build, which reads without a lock, returns every unexpired record
\* that could be found when it began and when it looked at the frozen memtables, or
\* had to skip the SST in which the index had announced it.
THEOREM ScansFind == ReadSpec => []ScanFinds
  <1>1. ReadInv => ScanFinds
    <2> SUFFICES ASSUME Good, NEW t \in Scans, ScanOver(t), NEW r \in sc[t].must,
                        r \notin expired
                 PROVE  r \in sc[t].seen \cup sc[t].skipped
      BY DEF ReadInv, ScanFinds
    <2>1. ScanGood(sc[t]) /\ sc[t].pc = "open" /\ DOMAIN sc[t].todo = {}
      BY DEF Good, ScanOver
    <2> QED BY <2>1 DEF ScanGood
  <1> QED BY <1>1, ReadInvariant, PTL
=============================================================================
