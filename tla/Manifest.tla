------------------------------- MODULE Manifest -------------------------------
(***************************************************************************)
(* The MANIFEST of FlowDB: a log of JSON lines that is replayed on open,    *)
(* appended to by flush, compaction and GC, and now and then rewritten as a *)
(* snapshot (src/src/manifest.rs); with the rebuild of legacy bloom filters *)
(* in Engine::open, which appends to it (src/src/engine.rs).                *)
(*                                                                         *)
(* The manifest mutex serialises the callers, so there is one append or     *)
(* snapshot at a time.  What survives a crash or a failing write is any     *)
(* prefix of the line: nothing, a part that does not parse, the whole JSON  *)
(* without its newline, or the line.  An append to an unterminated line     *)
(* continues it, and two values on one line do not parse.                   *)
(*                                                                         *)
(* do_flush releases the mutex before it puts its filter into the index, so  *)
(* merges, GC and snapshots may come in between.  An id is taken where its  *)
(* entry is appended; two runs with the same id are SstLifecycle's matter.  *)
(*                                                                         *)
(* The contents of an SST (SstInfo, its BlockInfos) are the number of the   *)
(* flush or merge that wrote it.                                           *)
(***************************************************************************)
EXTENDS Naturals, FiniteSets, SequencesExt

CONSTANTS SnapshotThreshold,  \* SNAPSHOT_THRESHOLD
          MaxWrites,          \* bound: SSTs written
          MaxLegacy,          \* bound: SSTs that an older version has written
          MaxAppends,         \* bound: appends begun
          MaxCrashes,         \* bound: crashes
          MaxFailures         \* bound: failing file operations

ASSUME ManifestAssumption ==
    /\ SnapshotThreshold \in Nat /\ MaxWrites \in Nat /\ MaxLegacy \in 0..MaxWrites
    /\ MaxAppends \in Nat /\ MaxCrashes \in Nat /\ MaxFailures \in Nat

VARIABLES
    log,       \* the MANIFEST: [lines, tail], tail being an unterminated last line
    previous,  \* the MANIFEST a rename has replaced, until the directory is synced
    state,     \* ManifestState
    count,     \* entry_count
    blooms,    \* BlockMetaIndex::blooms: [SST id -> [of, current]]
    stale,     \* stale_ssts of Engine::open, still to be rebuilt
    flushed,   \* [id, info] of the SST of a do_flush that has not indexed it yet
    overtaken, \* history: ids whose SST was gone when do_flush indexed it
    pc,        \* closed, rebuild, idle, append, checkpoint, sync
    pending,   \* the entry being appended, or the last one
    written,   \* SSTs written
    appends,
    crashes,
    failures,
    spoiled    \* history: since the last open or snapshot the file may have
               \* missed an entry or got one that was reported as failed

vars == <<log, previous, state, count, blooms, stale, flushed, overtaken, pc, pending,
          written, appends, crashes, failures, spoiled>>

-----------------------------------------------------------------------------
(* ManifestEntry and ManifestState *)

Flush(seq, id, info, bloom) ==
    [type |-> "flush", seq |-> seq, id |-> id, info |-> info, bloom |-> bloom, ids |-> {}]
Compaction(removed, id, info) ==
    [type |-> "compaction", seq |-> 0, id |-> id, info |-> info, bloom |-> "current",
     ids |-> removed]
Checkpoint(seq) ==
    [type |-> "checkpoint", seq |-> seq, id |-> 0, info |-> 0, bloom |-> "none", ids |-> {}]
GcDeleteSst(id) ==
    [type |-> "gc_delete_sst", seq |-> 0, id |-> id, info |-> 0, bloom |-> "none",
     ids |-> {id}]
UpdateBloom(id, info) ==
    [type |-> "update_bloom", seq |-> 0, id |-> id, info |-> info, bloom |-> "current",
     ids |-> {}]

Junk == [type |-> "junk"]     \* a line that from_str refuses
NoEntry == [type |-> "none"]
NoSst == [id |-> 0, info |-> 0]

\* sstables holds [info, bloom, of]: of is the SST the bloom filter was built from.
EmptyState == [seq |-> 0, sstables |-> <<>>, blocks |-> <<>>, active |-> {}]

Drop(f, ids) == [i \in DOMAIN f \ ids |-> f[i]]
Set(f, id, v) == [i \in DOMAIN f \cup {id} |-> IF i = id THEN v ELSE f[i]]
Larger(a, b) == IF a >= b THEN a ELSE b

\* Mutant: the block infos stay.
RemovedButBlocks(s, ids) == [s EXCEPT !.sstables = Drop(@, ids), !.active = @ \ ids]

Removed(s, ids) ==
    [s EXCEPT !.sstables = Drop(@, ids), !.blocks = Drop(@, ids), !.active = @ \ ids]

Added(s, e) ==
    [s EXCEPT !.sstables = Set(@, e.id, [info |-> e.info, bloom |-> e.bloom, of |-> e.info]),
              !.blocks = Set(@, e.id, e.info), !.active = @ \cup {e.id}]

\* apply_entry.  delete_sst, which nothing writes, is read like gc_delete_sst.
ApplyEntry(s, e) ==
    CASE e.type = "flush" -> [Added(s, e) EXCEPT !.seq = Larger(@, e.seq)]
      [] e.type = "gc_delete_sst" -> Removed(s, e.ids)
      [] e.type = "compaction" -> Added(Removed(s, e.ids), e)
      [] e.type = "checkpoint" -> [s EXCEPT !.seq = Larger(@, e.seq)]
      [] e.type = "update_bloom" ->
            IF e.id \in DOMAIN s.sstables
            THEN [s EXCEPT !.sstables[e.id] = [@ EXCEPT !.bloom = e.bloom, !.of = e.info]]
            ELSE s
      [] OTHER -> s

\* Manifest::next_sst_id
NextSstId == IF state.sstables = <<>> THEN 1
             ELSE 1 + CHOOSE m \in DOMAIN state.sstables :
                        \A n \in DOMAIN state.sstables : n <= m

-----------------------------------------------------------------------------
(* The file *)

NoLog == [lines |-> <<>>, tail |-> NoEntry]

\* The states that the loop over the lines passes: after[n] is the one after n.
After(lines) ==
    LET after[n \in 0..Len(lines)] ==
          IF n = 0 THEN EmptyState ELSE ApplyEntry(after[n - 1], lines[n])
    IN  after

\* Manifest::open: every line that parses is applied, the last one also when it
\* has no newline; the others are passed over.
Replay(file) ==
    LET lines == Append(file.lines, file.tail) IN After(lines)[Len(lines)]

\* What may have become of writeln! of the entry.
Wrote(file, e, how) ==
    LET joined == IF file.tail = NoEntry THEN e ELSE Junk IN
    CASE how = "nothing" -> file
      [] how = "part"    -> [file EXCEPT !.tail = Junk]
      [] how = "value"   -> [file EXCEPT !.tail = joined]
      [] how = "line"    -> [lines |-> Append(file.lines, joined), tail |-> NoEntry]

HowFar == {"nothing", "part", "value", "line"}

\* Mutant: a snapshot of the SSTs alone.
SnapshotWithoutCheckpoint(s, order) ==
    [lines |-> [n \in DOMAIN order |->
                  Flush(s.seq, order[n], s.sstables[order[n]].info,
                        s.sstables[order[n]].bloom)],
     tail |-> NoEntry]

\* snapshot: a flush entry per SST, in the order of the hash map, and a checkpoint.
SnapshotLines(s, order) ==
    [lines |-> Append([n \in DOMAIN order |->
                        Flush(s.seq, order[n], s.sstables[order[n]].info,
                              s.sstables[order[n]].bloom)],
                      Checkpoint(s.seq)),
     tail |-> NoEntry]

\* A MANIFEST that an older version may have left: its bloom filters were built
\* with another hash function.
LegacyLogs ==
    {[lines |-> [n \in 1..k |-> Flush(n, n, n, "legacy")], tail |-> NoEntry] :
        k \in 0..MaxLegacy}

Init ==
    /\ log \in LegacyLogs
    /\ previous = <<>>
    /\ state = Replay(log)
    /\ count = 0 /\ blooms = <<>> /\ stale = {}
    /\ flushed = NoSst /\ overtaken = {}
    /\ pc = "closed"
    /\ pending = NoEntry
    /\ written = Len(log.lines)
    /\ appends = 0 /\ crashes = 0 /\ failures = 0
    /\ spoiled = FALSE

-----------------------------------------------------------------------------
(* Engine::open *)

BloomOf(sst) == [of |-> sst.of, current |-> sst.bloom = "current"]

Open ==
    LET s == Replay(log)
        with == {i \in s.active : s.sstables[i].bloom # "none"}
        old == {i \in with : s.sstables[i].bloom # "current"} IN
    /\ pc = "closed"
    /\ state' = s
    /\ count' = 0
    /\ blooms' = [i \in with |-> BloomOf(s.sstables[i])]
    /\ stale' = old
    /\ pc' = IF old = {} THEN "idle" ELSE "rebuild"
    /\ spoiled' = FALSE
    /\ UNCHANGED <<log, previous, flushed, overtaken, pending, written, appends, crashes,
                   failures>>

\* append up to the write; the callers differ in the entry.
BeginAppend(e) ==
    /\ appends < MaxAppends
    /\ appends' = appends + 1
    /\ pending' = e
    /\ pc' = "append"
    /\ UNCHANGED <<log, previous, state, count, overtaken, crashes, failures, spoiled>>

\* rebuild_bloom_for_sst has read the SST.
RebuildBloom(id) ==
    /\ pc = "rebuild" /\ id \in stale
    /\ stale' = stale \ {id}
    /\ BeginAppend(UpdateBloom(id, state.sstables[id].info))
    /\ UNCHANGED <<blooms, flushed, written>>

\* Mutant: the stale filter stays in the index.
StaleBloomStays(id) == blooms

\* remove_bloom after an error.
StaleBloomGone(id) == Drop(blooms, {id})

MayFail == failures < MaxFailures

\* rebuild_bloom_for_sst cannot read the SST: the index does without its filter.
RebuildFails(id) ==
    /\ pc = "rebuild" /\ id \in stale
    /\ MayFail
    /\ failures' = failures + 1
    /\ stale' = stale \ {id}
    /\ blooms' = StaleBloomGone(id)
    /\ pc' = IF stale' = {} THEN "idle" ELSE "rebuild"
    /\ UNCHANGED <<log, previous, state, count, flushed, overtaken, pending, written, appends,
                   crashes, spoiled>>

-----------------------------------------------------------------------------
(* Manifest::append and its callers *)

\* do_flush, which appends two entries under one lock; the worker's mutex lets one
\* flush run at a time.
AppendFlush ==
    /\ pc = "idle" /\ flushed = NoSst
    /\ written < MaxWrites
    /\ written' = written + 1
    /\ BeginAppend(Flush(written + 1, NextSstId, written + 1, "current"))
    /\ flushed' = [id |-> NextSstId, info |-> written + 1]
    /\ UNCHANGED <<blooms, stale>>

AppendCheckpoint ==
    /\ pc = "checkpoint"
    /\ BeginAppend(Checkpoint(pending.seq))
    /\ UNCHANGED <<blooms, stale, flushed, written>>

Filter(info) == [of |-> info, current |-> TRUE]

\* CompactionRunner::run; the index has been updated before.
AppendCompaction ==
    /\ pc = "idle"
    /\ written < MaxWrites
    /\ written' = written + 1
    /\ \E removed \in (SUBSET state.active) \ {{}} :
        /\ BeginAppend(Compaction(removed, NextSstId, written + 1))
        /\ blooms' = Set(Drop(blooms, removed), NextSstId, Filter(written + 1))
    /\ UNCHANGED <<stale, flushed>>

\* GcRunner::run, and the merge that leaves nothing; here too the index is first.
AppendGcDelete ==
    /\ pc = "idle"
    /\ \E id \in state.active :
        /\ BeginAppend(GcDeleteSst(id))
        /\ blooms' = Drop(blooms, {id})
    /\ UNCHANGED <<stale, flushed, written>>

\* The two appends of do_flush, between which the mutex is not released.
FlushAppends(e) == e.type \in {"flush", "checkpoint"}

\* The SST of the flush is no longer the one of the manifest, or is being removed.
FlushedIsGone ==
    \/ flushed.id \notin DOMAIN state.sstables
    \/ state.sstables[flushed.id].info # flushed.info
    \/ pc = "append" /\ flushed.id \in pending.ids

\* add_sst and set_bloom at the end of do_flush, under the lock of the index alone.
FlushIndexes ==
    /\ flushed # NoSst
    /\ pc # "checkpoint" /\ ~(pc = "append" /\ FlushAppends(pending))
    /\ blooms' = Set(blooms, flushed.id, Filter(flushed.info))
    /\ overtaken' = overtaken \cup (IF FlushedIsGone THEN {flushed.id} ELSE {})
    /\ flushed' = NoSst
    /\ UNCHANGED <<log, previous, state, count, stale, pc, pending, written, appends, crashes,
                   failures, spoiled>>

\* Engine::open sets the rebuilt filter after the append.
BloomsAfter(e) ==
    IF e.type = "update_bloom" THEN Set(blooms, e.id, Filter(e.info)) ELSE blooms

Callers == IF stale = {} THEN "idle" ELSE "rebuild"

\* The line and the directory are synced; only now the entry is applied.
AppendDone ==
    /\ pc = "append"
    /\ log' = Wrote(log, pending, "line")
    /\ previous' = <<>>
    /\ state' = ApplyEntry(state, pending)
    /\ count' = count + 1
    /\ blooms' = BloomsAfter(pending)
    /\ pc' = IF pending.type = "flush" THEN "checkpoint" ELSE Callers
    /\ spoiled' = (spoiled \/ log.tail # NoEntry)
    /\ UNCHANGED <<stale, flushed, overtaken, pending, written, appends, crashes, failures>>

\* An error on the way: the state stays without the entry, the file may have it.
AppendFails ==
    /\ pc = "append"
    /\ MayFail
    /\ failures' = failures + 1
    /\ \E how \in HowFar : log' = Wrote(log, pending, how)
    /\ blooms' = IF pending.type = "update_bloom" THEN StaleBloomGone(pending.id) ELSE blooms
    /\ flushed' = IF FlushAppends(pending) THEN NoSst ELSE flushed
    /\ pc' = Callers
    /\ spoiled' = TRUE
    /\ UNCHANGED <<previous, state, count, stale, overtaken, pending, written, appends,
                   crashes>>

-----------------------------------------------------------------------------
(* Manifest::maybe_snapshot, called by the maintenance thread after a merge *)

\* The temporary file is written and synced, then renamed over the MANIFEST.
SnapshotRename ==
    /\ pc = "idle"
    /\ count > SnapshotThreshold
    /\ \E order \in SetToSeqs(DOMAIN state.sstables) : log' = SnapshotLines(state, order)
    /\ previous' = <<log>>
    /\ pc' = "sync"
    /\ UNCHANGED <<state, count, blooms, stale, flushed, overtaken, pending, written, appends,
                   crashes, failures, spoiled>>

\* The directory is synced.
SnapshotDone ==
    /\ pc = "sync"
    /\ previous' = <<>>
    /\ count' = Cardinality(DOMAIN state.sstables) + 1
    /\ pc' = "idle"
    /\ spoiled' = FALSE
    /\ UNCHANGED <<log, state, blooms, stale, flushed, overtaken, pending, written, appends,
                   crashes, failures>>

\* The sync of the directory fails: the snapshot stays, the counter too.  A
\* failure before the rename leaves everything as it was.
SnapshotFails ==
    /\ pc = "sync"
    /\ MayFail
    /\ failures' = failures + 1
    /\ pc' = "idle"
    /\ UNCHANGED <<log, previous, state, count, blooms, stale, flushed, overtaken, pending,
                   written, appends, crashes, spoiled>>

-----------------------------------------------------------------------------
\* A crash: of an append any prefix of the line, of a rename that is not synced
\* the old file or the new one.
Crash ==
    /\ pc # "closed"
    /\ crashes < MaxCrashes
    /\ crashes' = crashes + 1
    /\ \/ \E how \in HowFar : pc = "append" /\ log' = Wrote(log, pending, how)
       \/ pc # "append" /\ log' = log
       \/ \E file \in ToSet(previous) : log' = file
    /\ previous' = <<>>
    /\ pc' = "closed"
    /\ pending' = IF pc = "append" THEN pending ELSE NoEntry
    /\ blooms' = <<>> /\ stale' = {} /\ flushed' = NoSst /\ overtaken' = {}
    /\ spoiled' = (spoiled \/ (pc = "append" /\ log.tail # NoEntry))
    /\ UNCHANGED <<state, count, written, appends, failures>>

Next ==
    \/ Open
    \/ \E id \in stale : RebuildBloom(id) \/ RebuildFails(id)
    \/ AppendFlush \/ AppendCheckpoint \/ AppendCompaction \/ AppendGcDelete
    \/ AppendDone \/ AppendFails \/ FlushIndexes
    \/ SnapshotRename \/ SnapshotDone \/ SnapshotFails
    \/ Crash

Spec == Init /\ [][Next]_vars

-----------------------------------------------------------------------------
(* Properties *)

\* The three maps of ManifestState describe the same SSTs, also after a replay.
TypeOK ==
    /\ state.active = DOMAIN state.sstables
    /\ state.blocks = [i \in DOMAIN state.sstables |-> state.sstables[i].info]
    /\ state.seq \in 0..MaxWrites
    /\ DOMAIN blooms \subseteq Nat /\ stale \subseteq state.active
    /\ pc \in {"closed", "rebuild", "idle", "append", "checkpoint", "sync"}
    /\ pc = "rebuild" => stale # {}
    /\ written \in 0..MaxWrites /\ appends \in 0..MaxAppends
    /\ crashes \in 0..MaxCrashes /\ failures \in 0..MaxFailures
    /\ spoiled \in BOOLEAN

\* A crash at any point of an append or of a snapshot, also one whose rename was
\* never synced: Manifest::open comes back to the state before it or to the one
\* with the entry that was being appended.  It may not when an append failed
\* before, or continued an unterminated line, and no snapshot was made since.
CrashKeepsState ==
    [][pc = "closed" /\ pc' # "closed" /\ ~spoiled =>
         state' \in {state, ApplyEntry(state, pending)}]_vars

\* Engine::open with legacy filters, failing rebuilds, crashes between them, ids
\* that are used again, and flushes that index their SST while merges and GC go on:
\* a filter of the index is current and was built from the SST that now has the id.
\* Not so where do_flush was overtaken: merges and GC that remove its SST before it
\* sets the filter leave that filter to the next SST with the id.  After a failed
\* merge a filter may be another's until do_flush has set its own (with one failing
\* operation; with two, a failed merge and a failed checkpoint, it may stay so).
BloomsSound ==
    pc = "idle" /\ failures <= 1 =>
        \A id \in DOMAIN blooms :
            /\ blooms[id].current
            /\ \/ id \in DOMAIN state.sstables => blooms[id].of = state.sstables[id].info
               \/ id \in overtaken
               \/ failures = 1 /\ id = flushed.id
===============================================================================
