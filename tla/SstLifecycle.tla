----------------------------- MODULE SstLifecycle -----------------------------
(***************************************************************************)
(* The life of SST files in FlowDB: how do_flush creates them, how         *)
(* CompactionRunner::run merges them and how GcRunner::run removes them,   *)
(* with the manifest, the SST directory and the block index they share     *)
(* (src/src/write_worker.rs, compaction.rs, gc.rs, manifest.rs).           *)
(*                                                                         *)
(* A flush runs under the worker mutex, so there is one flusher.           *)
(* Compaction and GC run in the maintenance thread and in every thread     *)
(* that calls Engine::trigger_compaction or trigger_gc; nothing serialises *)
(* them with each other or with the flush.  They meet in the manifest      *)
(* mutex and the index lock, which are held for single steps only: each    *)
(* action here is one such critical section or one file operation.         *)
(*                                                                         *)
(* A record is the number of the flush that wrote it: keys, versions,      *)
(* tombstones and block layout are left out, so a merge is a union.  An    *)
(* expired record is one whose expire_at has passed.  Directory operations *)
(* are durable in the order they are made.                                 *)
(***************************************************************************)
EXTENDS Naturals, FiniteSets

CONSTANTS Compactors,   \* threads that may run CompactionRunner::run
          Collectors,   \* threads that may run GcRunner::run
          Threshold,    \* config.compaction_threshold
          MaxFlushes,   \* bound: flushes
          MaxRestarts,  \* bound: crashes
          MaxFailures   \* bound: failing file operations and appends

ASSUME LifecycleAssumption ==
    /\ Threshold \in Nat \ {0}
    /\ MaxFlushes \in Nat /\ MaxRestarts \in Nat /\ MaxFailures \in Nat

VARIABLES
    manifest,   \* ManifestState::sstables: [SST id -> records]
    files,      \* SST/<id>.sst: [SST id -> records]
    tmp,        \* SST/<id>.sst.tmp, as long as its writer may rename it
    index,      \* BlockMetaIndex: [SST id -> records its blocks announce]
    fl,         \* the flush in progress: [pc, id, recs]
    cp,         \* [Compactors -> run in progress: [pc, id, recs, cands, todo]]
    gc,         \* [Collectors -> run in progress: [pc, todo, id]]
    flushes,    \* flushes begun
    recorded,   \* records whose flush is in the manifest (history)
    expired,    \* records whose expire_at has passed
    clash,      \* an id was handed out while in use (history)
    failures,   \* operations that have failed
    unindexed,  \* records of flushes that failed between their two appends
    restarts

vars == <<manifest, files, tmp, index, fl, cp, gc, flushes, recorded, expired,
          clash, failures, unindexed, restarts>>

Records == 1..MaxFlushes

-----------------------------------------------------------------------------
(* Functions from SST ids *)

Put(f, id, recs) ==
    [i \in DOMAIN f \cup {id} |-> IF i = id THEN recs ELSE f[i]]

Without(f, ids) == [i \in DOMAIN f \ ids |-> f[i]]

\* Mutants: the result is not added; the merged SSTs are not removed.
RemovedOnly(f, ids, id, recs) == Without(f, ids)
AddedOnly(f, ids, id, recs) == Put(f, id, recs)

\* ManifestEntry::Compaction in apply_entry, and the index update of a merge.
Replaced(f, ids, id, recs) == Put(Without(f, ids), id, recs)

MaxOf(S) == IF S = {} THEN 0 ELSE CHOOSE m \in S : \A n \in S : n <= m

\* Manifest::next_sst_id: read under the manifest mutex, which is released
\* before the id is used.
NextSstId == MaxOf(DOMAIN manifest) + 1

Idle == [pc |-> "idle", id |-> 0, recs |-> {}]
IdleCp == [pc |-> "idle", id |-> 0, recs |-> {}, cands |-> {}, todo |-> {}]
IdleGc == [pc |-> "idle", id |-> 0, todo |-> {}]

\* Ids some run still works on, or the index still points to.
InUse ==
    {fl.id} \cup {cp[c].id : c \in Compactors}
    \cup (UNION {cp[c].todo : c \in Compactors})
    \cup (UNION {gc[g].todo \cup {gc[g].id} : g \in Collectors})
    \cup DOMAIN index

Init ==
    /\ manifest = <<>> /\ files = <<>> /\ tmp = <<>> /\ index = <<>>
    /\ fl = Idle
    /\ cp = [c \in Compactors |-> IdleCp]
    /\ gc = [g \in Collectors |-> IdleGc]
    /\ flushes = 0
    /\ recorded = {}
    /\ expired = {}
    /\ clash = FALSE
    /\ failures = 0
    /\ unindexed = {}
    /\ restarts = 0

\* Time passes; or the block that holds the record can no longer be read.  A merge
\* passes over such a block without an error, as it passes over expired records, and
\* so do the reads, so that one set stands for both.
Expire(r) ==
    /\ r \in recorded \ expired
    /\ expired' = expired \cup {r}
    /\ UNCHANGED <<manifest, files, tmp, index, fl, cp, gc, flushes, recorded,
                   clash, failures, unindexed, restarts>>

MayFail == failures < MaxFailures

\* std::fs::remove_file of an SST; a failure is only logged.
RemoveFile(id) ==
    \/ files' = Without(files, {id}) /\ UNCHANGED failures
    \/ MayFail /\ failures' = failures + 1 /\ UNCHANGED files

-----------------------------------------------------------------------------
(* WriteWorker::do_flush, from the popped memtable on *)

\* The id is taken from the manifest.
FlushBegin ==
    /\ fl.pc = "idle"
    /\ flushes < MaxFlushes
    /\ flushes' = flushes + 1
    /\ fl' = [pc |-> "write", id |-> NextSstId, recs |-> {flushes + 1}]
    /\ clash' = (clash \/ NextSstId \in InUse)
    /\ UNCHANGED <<manifest, files, tmp, index, cp, gc, recorded, expired,
                   failures, unindexed, restarts>>

\* SstWriter::write to the temporary file, truncating what is there.
FlushWrite ==
    /\ fl.pc = "write"
    /\ tmp' = Put(tmp, fl.id, fl.recs)
    /\ fl' = [fl EXCEPT !.pc = "rename"]
    /\ UNCHANGED <<manifest, files, index, cp, gc, flushes, recorded, expired,
                   clash, failures, unindexed, restarts>>

\* rename over <id>.sst; fsync of the directory.
FlushRename ==
    /\ fl.pc = "rename"
    /\ fl.id \in DOMAIN tmp
    /\ files' = Put(files, fl.id, tmp[fl.id])
    /\ tmp' = Without(tmp, {fl.id})
    /\ fl' = [fl EXCEPT !.pc = "append"]
    /\ UNCHANGED <<manifest, index, cp, gc, flushes, recorded, expired, clash,
                   failures, unindexed, restarts>>

\* ManifestEntry::Flush (and Checkpoint) under the manifest mutex.
FlushAppend ==
    /\ fl.pc = "append"
    /\ manifest' = Put(manifest, fl.id, fl.recs)
    /\ recorded' = recorded \cup fl.recs
    /\ fl' = [fl EXCEPT !.pc = "index"]
    /\ UNCHANGED <<files, tmp, index, cp, gc, flushes, expired, clash, failures,
                   unindexed, restarts>>

\* add_sst and set_bloom under the index lock.
FlushIndex ==
    /\ fl.pc = "index"
    /\ index' = Put(index, fl.id, fl.recs)
    /\ fl' = Idle
    /\ UNCHANGED <<manifest, files, tmp, cp, gc, flushes, recorded, expired,
                   clash, failures, unindexed, restarts>>

\* The Flush entry is in the manifest but the Checkpoint append fails: the SST
\* is never indexed by this run of the engine.
CheckpointFails ==
    /\ fl.pc = "append"
    /\ MayFail
    /\ failures' = failures + 1
    /\ manifest' = Put(manifest, fl.id, fl.recs)
    /\ recorded' = recorded \cup fl.recs
    /\ unindexed' = unindexed \cup fl.recs
    /\ fl' = Idle
    /\ UNCHANGED <<files, tmp, index, cp, gc, flushes, expired, clash, restarts>>

\* A file operation or the first append fails: `?` leaves do_flush.  The rename
\* of a temporary file that another run has renamed away always fails.
FlushFails ==
    /\ \/ MayFail /\ fl.pc \in {"write", "rename", "append"}
       \/ fl.pc = "rename" /\ fl.id \notin DOMAIN tmp
    /\ fl' = Idle
    /\ failures' = failures + 1
    /\ tmp' = Without(tmp, {fl.id})
    /\ UNCHANGED <<manifest, files, index, cp, gc, flushes, recorded, expired,
                   clash, unindexed, restarts>>

-----------------------------------------------------------------------------
(* CompactionRunner::run *)

Move(c, new) == cp' = [cp EXCEPT ![c] = new]

\* should_compact and pick_compaction_candidates: a prefix of the SSTs by
\* size, at least two of them unless there is only one.
CompactPick(c) ==
    /\ cp[c].pc = "idle"
    /\ DOMAIN manifest # {}
    /\ Cardinality(DOMAIN manifest) >= Threshold
    /\ \E cands \in SUBSET DOMAIN manifest :
        /\ Cardinality(cands) >= 2 \/ cands = DOMAIN manifest
        /\ Move(c, [IdleCp EXCEPT !.pc = "open", !.cands = cands,
                                  !.todo = cands])
    /\ UNCHANGED <<manifest, files, tmp, index, fl, gc, flushes, recorded,
                   expired, clash, failures, unindexed, restarts>>

\* Every candidate whose file exists is opened; its unexpired records, as far as
\* their blocks can be read, are merged.  No file left: the run returns false.
CompactOpen(c) ==
    LET there == cp[c].cands \cap DOMAIN files IN
    /\ cp[c].pc = "open"
    /\ Move(c, IF there = {} THEN IdleCp
               ELSE [cp[c] EXCEPT !.pc = "allocate",
                        !.recs = (UNION {files[i] : i \in there}) \ expired])
    /\ UNCHANGED <<manifest, files, tmp, index, fl, gc, flushes, recorded,
                   expired, clash, failures, unindexed, restarts>>

CompactAllocate(c) ==
    /\ cp[c].pc = "allocate"
    /\ Move(c, [cp[c] EXCEPT !.pc = "write", !.id = NextSstId])
    /\ clash' = (clash \/ NextSstId \in InUse)
    /\ UNCHANGED <<manifest, files, tmp, index, fl, gc, flushes, recorded,
                   expired, failures, unindexed, restarts>>

\* SstStreamWriter.  records_written = 0: there is nothing to rename.
CompactWrite(c) ==
    LET empty == cp[c].recs = {} IN
    /\ cp[c].pc = "write"
    /\ tmp' = IF empty THEN Without(tmp, {cp[c].id})
              ELSE Put(tmp, cp[c].id, cp[c].recs)
    /\ Move(c, [cp[c] EXCEPT !.pc = IF empty THEN "dropfile" ELSE "rename"])
    /\ UNCHANGED <<manifest, files, index, fl, gc, flushes, recorded, expired,
                   clash, failures, unindexed, restarts>>

\* The empty merge: per candidate, first the file goes, ...
DropFile(c) ==
    /\ cp[c].pc = "dropfile"
    /\ \E id \in cp[c].todo :
        /\ RemoveFile(id)
        /\ Move(c, [cp[c] EXCEPT !.pc = "dropentry", !.id = id])
    /\ UNCHANGED <<manifest, tmp, index, fl, gc, flushes, recorded, expired,
                   clash, unindexed, restarts>>

\* ... then the index entry and, with the index lock still held, the entry of
\* the manifest (GcDeleteSst).
DropEntry(c) ==
    LET left == cp[c].todo \ {cp[c].id} IN
    /\ cp[c].pc = "dropentry"
    /\ index' = Without(index, {cp[c].id})
    /\ manifest' = Without(manifest, {cp[c].id})
    /\ Move(c, IF left = {} THEN IdleCp
               ELSE [cp[c] EXCEPT !.pc = "dropfile", !.todo = left])
    /\ UNCHANGED <<files, tmp, fl, gc, flushes, recorded, expired, clash, failures,
                   unindexed, restarts>>

CompactRename(c) ==
    /\ cp[c].pc = "rename"
    /\ cp[c].id \in DOMAIN tmp
    /\ files' = Put(files, cp[c].id, tmp[cp[c].id])
    /\ tmp' = Without(tmp, {cp[c].id})
    /\ Move(c, [cp[c] EXCEPT !.pc = "index"])
    /\ UNCHANGED <<manifest, index, fl, gc, flushes, recorded, expired, clash,
                   failures, unindexed, restarts>>

\* remove_sst of the candidates and add_sst of the result, under one lock.
CompactIndex(c) ==
    /\ cp[c].pc = "index"
    /\ index' = Replaced(index, cp[c].cands, cp[c].id, cp[c].recs)
    /\ Move(c, [cp[c] EXCEPT !.pc = "append"])
    /\ UNCHANGED <<manifest, files, tmp, fl, gc, flushes, recorded, expired,
                   clash, failures, unindexed, restarts>>

\* ManifestEntry::Compaction
CompactAppend(c) ==
    /\ cp[c].pc = "append"
    /\ manifest' = Replaced(manifest, cp[c].cands, cp[c].id, cp[c].recs)
    /\ Move(c, [cp[c] EXCEPT !.pc = "unlink"])
    /\ UNCHANGED <<files, tmp, index, fl, gc, flushes, recorded, expired, clash,
                   failures, unindexed, restarts>>

\* remove_file of one candidate.
CompactUnlink(c) ==
    /\ cp[c].pc = "unlink"
    /\ \E id \in cp[c].todo :
        LET left == cp[c].todo \ {id} IN
        /\ RemoveFile(id)
        /\ Move(c, IF left = {} THEN IdleCp ELSE [cp[c] EXCEPT !.todo = left])
    /\ UNCHANGED <<manifest, tmp, index, fl, gc, flushes, recorded, expired,
                   clash, unindexed, restarts>>

CompactFails(c) ==
    /\ \/ MayFail /\ cp[c].pc \in {"open", "write", "rename", "append",
                                    "dropentry"}
       \/ cp[c].pc = "rename" /\ cp[c].id \notin DOMAIN tmp
    /\ Move(c, IdleCp)
    /\ failures' = failures + 1
    /\ tmp' = IF cp[c].pc = "rename" THEN Without(tmp, {cp[c].id}) ELSE tmp
    /\ index' = IF cp[c].pc = "dropentry" THEN Without(index, {cp[c].id})
                ELSE index
    /\ UNCHANGED <<manifest, files, fl, gc, flushes, recorded, expired, clash,
                   unindexed, restarts>>

-----------------------------------------------------------------------------
(* GcRunner::run *)

\* Mutant: min_expire instead of max_expire.
ExpiringSsts == {i \in DOMAIN manifest : manifest[i] \cap expired # {}}

\* The SSTs whose max_expire has passed.
ExpiredSsts == {i \in DOMAIN manifest : manifest[i] \subseteq expired}

\* The expired SSTs are listed, under one lock of the manifest.
GcScan(g) ==
    /\ gc[g].pc = "idle"
    /\ ExpiredSsts # {}
    /\ gc' = [gc EXCEPT ![g] = [pc |-> "index", id |-> 0, todo |-> ExpiredSsts]]
    /\ UNCHANGED <<manifest, files, tmp, index, fl, cp, flushes, recorded,
                   expired, clash, failures, unindexed, restarts>>

\* Mutant: the SST stays on the list of the run.
ListKept(ids, id) == ids

ListLeft(ids, id) == ids \ {id}

\* invalidate_sst and remove_sst
GcIndex(g) ==
    /\ gc[g].pc = "index"
    /\ \E id \in gc[g].todo :
        /\ index' = Without(index, {id})
        /\ gc' = [gc EXCEPT ![g] = [pc |-> "append", id |-> id,
                                    todo |-> ListLeft(gc[g].todo, id)]]
    /\ UNCHANGED <<manifest, files, tmp, fl, cp, flushes, recorded, expired,
                   clash, failures, unindexed, restarts>>

\* ManifestEntry::GcDeleteSst
GcAppend(g) ==
    /\ gc[g].pc = "append"
    /\ manifest' = Without(manifest, {gc[g].id})
    /\ gc' = [gc EXCEPT ![g].pc = "unlink"]
    /\ UNCHANGED <<files, tmp, index, fl, cp, flushes, recorded, expired, clash,
                   failures, unindexed, restarts>>

GcUnlink(g) ==
    /\ gc[g].pc = "unlink"
    /\ RemoveFile(gc[g].id)
    /\ gc' = [gc EXCEPT ![g] =
                IF gc[g].todo = {} THEN IdleGc
                ELSE [pc |-> "index", id |-> 0, todo |-> gc[g].todo]]
    /\ UNCHANGED <<manifest, tmp, index, fl, cp, flushes, recorded, expired,
                   clash, unindexed, restarts>>

GcFails(g) ==
    /\ MayFail
    /\ gc[g].pc = "append"
    /\ gc' = [gc EXCEPT ![g] = IdleGc]
    /\ failures' = failures + 1
    /\ UNCHANGED <<manifest, files, tmp, index, fl, cp, flushes, recorded,
                   expired, clash, unindexed, restarts>>

-----------------------------------------------------------------------------
\* A crash and Engine::open: the manifest and the files stay, the index is
\* rebuilt from the manifest.
Restart ==
    /\ restarts < MaxRestarts
    /\ restarts' = restarts + 1
    /\ index' = manifest
    /\ tmp' = <<>>
    /\ unindexed' = {}
    /\ fl' = Idle
    /\ cp' = [c \in Compactors |-> IdleCp]
    /\ gc' = [g \in Collectors |-> IdleGc]
    /\ UNCHANGED <<manifest, files, flushes, recorded, expired, clash,
                   failures>>

Flush ==
    \/ FlushBegin \/ FlushWrite \/ FlushRename \/ FlushAppend \/ FlushIndex
    \/ CheckpointFails \/ FlushFails

Compact(c) ==
    \/ CompactPick(c) \/ CompactOpen(c) \/ CompactAllocate(c) \/ CompactWrite(c)
    \/ DropFile(c) \/ DropEntry(c) \/ CompactRename(c) \/ CompactIndex(c)
    \/ CompactAppend(c) \/ CompactUnlink(c) \/ CompactFails(c)

Collect(g) ==
    GcScan(g) \/ GcIndex(g) \/ GcAppend(g) \/ GcUnlink(g) \/ GcFails(g)

Next ==
    \/ Flush
    \/ \E c \in Compactors : Compact(c)
    \/ \E g \in Collectors : Collect(g)
    \/ \E r \in Records : Expire(r)
    \/ Restart

Spec == Init /\ [][Next]_vars

-----------------------------------------------------------------------------
(* Properties *)

IsSstMap(f) == DOMAIN f \subseteq Nat \ {0} /\ \A i \in DOMAIN f : f[i] \subseteq Records

TypeOK ==
    /\ IsSstMap(manifest) /\ IsSstMap(files) /\ IsSstMap(tmp) /\ IsSstMap(index)
    /\ fl \in [pc : {"idle", "write", "rename", "append", "index"}, id : Nat,
               recs : SUBSET Records]
    /\ \A c \in Compactors :
        /\ cp[c].pc \in {"idle", "open", "allocate", "write", "dropfile",
                         "dropentry", "rename", "index", "append", "unlink"}
        /\ cp[c].recs \subseteq Records
        /\ cp[c].todo \subseteq cp[c].cands
        /\ cp[c].pc # "idle" => cp[c].cands # {}
    /\ \A g \in Collectors :
        /\ gc[g].pc \in {"idle", "index", "append", "unlink"}
        /\ gc[g].id \notin gc[g].todo
        /\ gc[g].pc = "index" => gc[g].todo # {}
    /\ flushes \in 0..MaxFlushes
    /\ expired \subseteq recorded /\ recorded \subseteq Records
    /\ clash \in BOOLEAN /\ failures \in Nat /\ unindexed \subseteq recorded
    /\ restarts \in 0..MaxRestarts

Live == recorded \ expired

\* The record is in the SST the map lists and in its file.
Held(r, f) == \E i \in DOMAIN f : r \in f[i] /\ i \in DOMAIN files /\ r \in files[i]

\* Flush, merges and GC together, with failures and restarts at any point: as
\* long as no id was handed out while another run was using it, every record
\* that was flushed and has not expired is in an SST of the manifest whose
\* file has it.
NothingLost == ~clash => \A r \in Live : Held(r, manifest)

\* The read path under the same condition: the record is found through the
\* block index, except between the manifest append and add_sst of its flush,
\* or when that flush failed in between.
NothingHidden ==
    ~clash => \A r \in Live \ unindexed : Held(r, index) \/ r \in fl.recs

Quiet ==
    /\ fl.pc = "idle"
    /\ \A c \in Compactors : cp[c].pc = "idle"
    /\ \A g \in Collectors : gc[g].pc = "idle"

\* Whatever runs interleaved, once they are over every SST of the manifest with
\* an unexpired record is indexed and its file is the one the manifest
\* describes.  (The index may keep entries of SSTs that a merge or GC removed
\* between the manifest append and add_sst of their flush.)
QuietAgreement ==
    Quiet /\ ~clash /\ failures = 0 =>
        \A i \in DOMAIN manifest : ~(manifest[i] \subseteq expired) =>
            /\ i \in DOMAIN index /\ index[i] = manifest[i]
            /\ i \in DOMAIN files /\ files[i] = manifest[i]

\* Without the condition.  A WAL segment is deleted because "all records have
\* been persisted to SSTable, and the segment can be safely deleted"
\* (docs/flowdb-evolution-en.md): from then on the SSTs must keep them.
FlushedStaysPersisted == \A r \in Live : Held(r, manifest)
=============================================================================
