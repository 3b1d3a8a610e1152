--------------------------- MODULE Manifest_proofs ---------------------------
(***************************************************************************)
(* Proofs about the MANIFEST, for any number of entries, SSTs, legacy SSTs,  *)
(* crashes and failing operations: what a replay yields, line by line; that *)
(* a snapshot replays to the state it was made from; that a crash keeps the  *)
(* state; and that the bloom filters of the index are those of its SSTs.    *)
(***************************************************************************)
EXTENDS Manifest, NatFacts, FiniteSetTheorems

-----------------------------------------------------------------------------
(* Replay, line by line *)

\* f holds the states of the loop of Manifest::open over the first k lines.
Passes(f, lines, k) ==
    f = [n \in 0..k |-> IF n = 0 THEN EmptyState ELSE ApplyEntry(f[n - 1], lines[n])]

\* The loop of Manifest::open over any number of lines ends in some state.
LEMMA SomePasses ==
    ASSUME NEW lines, NEW k \in Nat
    PROVE  \E f : Passes(f, lines, k)
  <1> DEFINE Bad == {m \in Nat : ~ \E f : Passes(f, lines, m)}
  <1> SUFFICES ASSUME Bad # {} PROVE FALSE
    OBVIOUS
  <1>1. PICK m \in Bad : \A n \in Bad : m <= n
    BY LeastNatural
  <1>2. CASE m = 0
    <2>1. PICK f : f = [n \in 0..0 |-> EmptyState]
      OBVIOUS
    <2>2. f = [n \in 0..0 |-> IF n = 0 THEN EmptyState ELSE ApplyEntry(f[n - 1], lines[n])]
      BY <2>1
    <2> QED
      BY <1>1, <1>2, <2>2 DEF Passes
  <1>3. CASE m # 0
    <2>1. m - 1 \in Nat /\ m - 1 \notin Bad
      BY <1>1, <1>3
    <2>2. PICK f : Passes(f, lines, m - 1)
      BY <2>1
    <2>3. PICK g : g = [n \in 0..m |-> IF n = m THEN ApplyEntry(f[m - 1], lines[m]) ELSE f[n]]
      OBVIOUS
    <2>4. \A n \in 0..m : g[n] = IF n = 0 THEN EmptyState ELSE ApplyEntry(g[n - 1], lines[n])
      <3> SUFFICES ASSUME NEW n \in 0..m
                   PROVE  g[n] = IF n = 0 THEN EmptyState ELSE ApplyEntry(g[n - 1], lines[n])
        OBVIOUS
      <3>1. CASE n = m
        <4>1. g[m - 1] = f[m - 1]
          BY <1>1, <1>3, <2>3
        <4> QED
          BY <1>3, <2>3, <3>1, <4>1
      <3>2. CASE n # m
        <4>1. g[n] = f[n] /\ (n # 0 => g[n - 1] = f[n - 1])
          BY <1>1, <2>3, <3>2
        <4>2. f[n] = IF n = 0 THEN EmptyState ELSE ApplyEntry(f[n - 1], lines[n])
          BY <1>1, <2>2, <3>2 DEF Passes
        <4> QED
          BY <4>1, <4>2
      <3> QED
        BY <3>1, <3>2
    <2>5. g = [n \in 0..m |-> IF n = 0 THEN EmptyState ELSE ApplyEntry(g[n - 1], lines[n])]
      BY <2>3, <2>4
    <2> QED
      BY <1>1, <2>5 DEF Passes
  <1> QED
    BY <1>2, <1>3

\* What the loop of Manifest::open does with one more line.
LEMMA AfterSteps ==
    ASSUME NEW lines, Len(lines) \in Nat
    PROVE  /\ After(lines)[0] = EmptyState
           /\ \A n \in 1..Len(lines) :
                After(lines)[n] = ApplyEntry(After(lines)[n - 1], lines[n])
  <1>1. PICK a : a = After(lines)
    OBVIOUS
  <1>2. \E f : f = [n \in 0..Len(lines) |->
                      IF n = 0 THEN EmptyState ELSE ApplyEntry(f[n - 1], lines[n])]
    BY SomePasses DEF Passes
  <1>3. After(lines) = [n \in 0..Len(lines) |->
              IF n = 0 THEN EmptyState ELSE ApplyEntry(After(lines)[n - 1], lines[n])]
    BY <1>2, Zenon DEF After
  <1>4. a = [n \in 0..Len(lines) |->
              IF n = 0 THEN EmptyState ELSE ApplyEntry(a[n - 1], lines[n])]
    BY <1>1, <1>3
  <1>5. a[0] = EmptyState /\ \A n \in 1..Len(lines) : a[n] = ApplyEntry(a[n - 1], lines[n])
    BY <1>4
  <1> QED
    BY <1>1, <1>5

\* The loop over two sequences of lines passes the same states as long as the
\* lines are the same.
LEMMA AfterAgrees ==
    ASSUME NEW a, NEW b, Len(a) \in Nat, Len(b) \in Nat,
           NEW k \in Nat, k <= Len(a), k <= Len(b), \A n \in 1..k : a[n] = b[n]
    PROVE  \A n \in 0..k : After(a)[n] = After(b)[n]
  <1>1. PICK f : f = After(a)
    OBVIOUS
  <1>2. PICK g : g = After(b)
    OBVIOUS
  <1>3. f[0] = EmptyState /\ \A n \in 1..Len(a) : f[n] = ApplyEntry(f[n - 1], a[n])
    BY <1>1, AfterSteps
  <1>4. g[0] = EmptyState /\ \A n \in 1..Len(b) : g[n] = ApplyEntry(g[n - 1], b[n])
    BY <1>2, AfterSteps
  <1> DEFINE Bad == {n \in 0..k : f[n] # g[n]}
  <1> SUFFICES ASSUME Bad # {} PROVE FALSE
    BY <1>1, <1>2
  <1>5. PICK m \in Bad : \A n \in Bad : m <= n
    <2>1. Bad \in SUBSET Nat
      OBVIOUS
    <2> HIDE DEF Bad
    <2> QED
      BY <2>1, LeastNatural
  <1>6. m # 0
    BY <1>3, <1>4, <1>5
  <1>7. m - 1 \in 0..k /\ m - 1 \notin Bad /\ m \in 1..Len(a) /\ m \in 1..Len(b) /\ m \in 1..k
    BY <1>5, <1>6
  <1>8. f[m - 1] = g[m - 1] /\ a[m] = b[m]
    BY <1>7
  <1>9. f[m] = g[m]
    BY <1>3, <1>4, <1>7, <1>8
  <1> QED
    BY <1>5, <1>9

\* The state that the terminated lines of a file yield.
Whole(lines) == After(lines)[Len(lines)]

LEMMA WholeEmpty == Whole(<<>>) = EmptyState
  <1>1. Len(<<>>) = 0
    OBVIOUS
  <1> QED
    BY <1>1, AfterSteps DEF Whole

\* One more line is one more application of apply_entry.
LEMMA WholeAppend ==
    ASSUME NEW S, NEW lines \in Seq(S), NEW e
    PROVE  Whole(Append(lines, e)) = ApplyEntry(Whole(lines), e)
  <1>1. PICK more : more = Append(lines, e)
    OBVIOUS
  <1>2. PICK k \in Nat : k = Len(lines)
    OBVIOUS
  <1>3. /\ Len(more) = k + 1
        /\ more[k + 1] = e
        /\ \A n \in 1..k : more[n] = lines[n]
    <2>1. lines \in Seq(S \cup {e}) /\ e \in S \cup {e}
      OBVIOUS
    <2> QED
      BY <1>1, <1>2, <2>1
  <1>4. After(more)[k + 1] = ApplyEntry(After(more)[k], e)
    <2>1. \A n \in 1..Len(more) : After(more)[n] = ApplyEntry(After(more)[n - 1], more[n])
      <3>1. Len(more) \in Nat
        BY <1>3
      <3> QED
        BY <3>1, AfterSteps, Zenon
    <2>2. k + 1 \in 1..Len(more) /\ (k + 1) - 1 = k
      BY <1>3
    <2> QED
      BY <1>3, <2>1, <2>2
  <1>5. After(more)[k] = After(lines)[k]
    <2>1. Len(more) \in Nat /\ k <= Len(more) /\ Len(lines) \in Nat /\ k <= Len(lines)
      BY <1>2, <1>3
    <2>2. \A n \in 0..k : After(more)[n] = After(lines)[n]
      BY <1>3, <2>1, AfterAgrees
    <2> QED
      BY <2>2
  <1> QED
    BY <1>1, <1>2, <1>3, <1>4, <1>5 DEF Whole

\* A replay applies the unterminated last line too.
LEMMA ReplayIs ==
    ASSUME NEW S, NEW file, file.lines \in Seq(S)
    PROVE  Replay(file) = ApplyEntry(Whole(file.lines), file.tail)
  <1>1. Replay(file) = Whole(Append(file.lines, file.tail))
    BY DEF Replay, Whole
  <1> QED
    BY <1>1, WholeAppend

-----------------------------------------------------------------------------
(* The inductive invariant *)

Sst == [info : Nat, bloom : {"legacy", "current"}, of : Nat]

EntryTypes == {"flush", "compaction", "checkpoint", "gc_delete_sst", "update_bloom"}

Line == {Junk, NoEntry} \cup
        [type : EntryTypes, seq : 0..MaxWrites, id : Nat, info : Nat,
         bloom : {"legacy", "current", "none"}, ids : SUBSET Nat]

\* A state of the manifest: its three maps agree, its ids have a largest, and
\* every filter is that of its SST.  An SST that still has a filter of the older
\* version is one of the older version.
Good(s) ==
    /\ s = [seq |-> s.seq, sstables |-> s.sstables, blocks |-> s.blocks, active |-> s.active]
    /\ s.seq \in 0..MaxWrites
    /\ s.sstables \in [s.active -> Sst]
    /\ s.blocks = [i \in s.active |-> s.sstables[i].info]
    /\ \E b \in Nat : s.active \subseteq 1..b
    /\ \A i \in s.active : s.sstables[i].of = s.sstables[i].info
    /\ \A i \in s.active : s.sstables[i].bloom = "legacy" => s.sstables[i].info = i

\* In s, the SST with the id i is the one of the older version, if there is one.
IsOld(s, i) == i \in s.active => s.sstables[i].info = i

\* apply_entry(e) leaves a good state good.
Applies(s, e) ==
    /\ e \in Line
    /\ e.type \in {"flush", "compaction"} =>
        /\ e.id # 0 /\ e.bloom # "none"
        /\ e.bloom = "legacy" => e.info = e.id
    /\ e.type = "update_bloom" =>
        /\ e.bloom = "current"
        /\ e.id \in s.active => s.sstables[e.id].info = e.info

\* The state of a file with and without its last, unterminated line.
FileOK(file) ==
    /\ file \in [lines : Seq(Line), tail : Line]
    /\ Good(Whole(file.lines)) /\ Good(Replay(file))
    /\ \A i \in Replay(file).active :
        Replay(file).sstables[i].bloom = "legacy" => IsOld(Whole(file.lines), i)

FilesOK == FileOK(log) /\ \A file \in ToSet(previous) : FileOK(file)

\* An SST whose filter is to be rebuilt.
ToRebuild(i) ==
    /\ i \in state.active
    /\ state.sstables[i].info = i
    /\ IsOld(Whole(log.lines), i) /\ IsOld(Replay(log), i)

RebuildOK ==
    /\ \A i \in stale : ToRebuild(i)
    /\ stale # {} => pc = "rebuild" \/ (pc = "append" /\ pending.type = "update_bloom")

AppendOK ==
    pc = "append" =>
        /\ pending.type \in EntryTypes
        /\ pending.bloom # "legacy"
        /\ pending.type \in {"flush", "compaction"} =>
            pending.id # 0 /\ pending.bloom = "current" /\ pending.id \notin state.active
        /\ pending.type = "flush" => pending.id = flushed.id /\ pending.info = flushed.info
        /\ pending.type = "update_bloom" =>
            pending.bloom = "current" /\ pending.info = pending.id /\ ToRebuild(pending.id)

PendingOK ==
    /\ pending \in Line
    /\ flushed \in [id : Nat, info : Nat]
    /\ pc = "checkpoint" => pending.type = "flush"
    /\ AppendOK

Counters ==
    /\ count \in Nat
    /\ written \in 0..MaxWrites /\ appends \in 0..MaxAppends
    /\ crashes \in 0..MaxCrashes /\ failures \in 0..MaxFailures
    /\ spoiled \in BOOLEAN
    /\ pc \in {"closed", "rebuild", "idle", "append", "checkpoint", "sync"}
    /\ pc = "rebuild" => stale # {}
    /\ pc = "closed" =>
        blooms = <<>> /\ stale = {} /\ previous = <<>> /\ flushed = NoSst

ManifestInv == Good(state) /\ FilesOK /\ RebuildOK /\ PendingOK /\ Counters

\* What a crash leaves of the state.
CrashInv ==
    /\ pc = "sync" => Replay(log) = state
    /\ pc # "closed" /\ ~spoiled =>
        Replay(log) = state /\ \A file \in ToSet(previous) : Replay(file) = state
    /\ pc = "closed" /\ ~spoiled => Replay(log) \in {state, ApplyEntry(state, pending)}

\* A filter of the index is current, or Engine::open will still replace it.
Current ==
    \A i \in DOMAIN blooms :
        \/ blooms[i].current = TRUE
        \/ i \in stale
        \/ pc = "append" /\ pending.type = "update_bloom" /\ pending.id = i

\* Merges and GC change the index before they append.
IndexFirst ==
    pc = "append" =>
        /\ (DOMAIN blooms \ overtaken) \cap pending.ids = {}
        /\ pending.type = "compaction" =>
            \/ pending.id \in overtaken
            \/ pending.id \in DOMAIN blooms /\ blooms[pending.id].of = pending.info

\* As long as nothing has failed and no flush was overtaken, the index has no
\* filter without an SST.
Known ==
    failures = 0 =>
        \A i \in DOMAIN blooms \ overtaken :
            \/ i \in state.active
            \/ pc = "append" /\ pending.type = "compaction" /\ pending.id = i

\* With one failure: a merge whose append failed leaves a filter for an id that is
\* used again, and only the flush that does so puts the right one there.
Match ==
    failures <= 1 =>
        \A i \in DOMAIN blooms \ overtaken :
            \/ i \in state.active => blooms[i].of = state.sstables[i].info
            \/ failures = 1 /\ i = flushed.id

BloomInv == DOMAIN blooms \subseteq Nat /\ Current /\ IndexFirst /\ Known /\ Match

-----------------------------------------------------------------------------
(* apply_entry *)

\* The fields of a state that apply_entry puts together.
LEMMA GoodBuilt ==
    ASSUME NEW s, NEW q \in 0..MaxWrites, NEW S, NEW b \in Nat, S \subseteq 1..b,
           NEW t \in [S -> Sst],
           s = [seq |-> q, sstables |-> t, blocks |-> [i \in S |-> t[i].info], active |-> S],
           \A i \in S : t[i].of = t[i].info /\ (t[i].bloom = "legacy" => t[i].info = i)
    PROVE  Good(s) /\ s.seq = q /\ s.sstables = t /\ s.active = S
  <1>1. s.seq = q /\ s.sstables = t /\ s.active = S /\ s.blocks = [i \in S |-> t[i].info]
    OBVIOUS
  <1>2. s = [seq |-> s.seq, sstables |-> s.sstables, blocks |-> s.blocks, active |-> s.active]
    BY <1>1
  <1> QED
    BY <1>1, <1>2 DEF Good

\* Manifest::open of a file that does not exist yet.
LEMMA EmptyGood == Good(EmptyState) /\ EmptyState.active = {}
  <1>1. PICK t : t = <<>>
    OBVIOUS
  <1>2. t \in [{} -> Sst] /\ t = [i \in {} |-> t[i].info]
    BY <1>1
  <1>3. EmptyState = [seq |-> 0, sstables |-> t, blocks |-> [i \in {} |-> t[i].info],
                      active |-> {}]
    BY <1>1, <1>2 DEF EmptyState
  <1>4. 0 \in 0..MaxWrites /\ {} \subseteq 1..0
    BY ManifestAssumption
  <1> QED
    BY <1>2, <1>3, <1>4, GoodBuilt

\* An assignment to three of the fields leaves the fourth.
LEMMA ThreeFields ==
    ASSUME NEW s,
           s = [seq |-> s.seq, sstables |-> s.sstables, blocks |-> s.blocks,
                active |-> s.active],
           NEW t, NEW u, NEW S,
           NEW r, r = [s EXCEPT !.sstables = t, !.blocks = u, !.active = S]
    PROVE  r = [seq |-> s.seq, sstables |-> t, blocks |-> u, active |-> S]
  <1>1. PICK q, x, y, z : s = [seq |-> q, sstables |-> x, blocks |-> y, active |-> z]
    OBVIOUS
  <1>2. DOMAIN r = {"seq", "sstables", "blocks", "active"} /\ r = [f \in DOMAIN r |-> r[f]]
    BY <1>1
  <1>3. r.seq = q /\ r.sstables = t /\ r.blocks = u /\ r.active = S
    BY <1>1
  <1>4. s.seq = q
    BY <1>1
  <1> QED
    BY <1>2, <1>3, <1>4

\* gc_delete_sst: the other SSTs stay as they are.
LEMMA RemovedGood ==
    ASSUME NEW s, Good(s), NEW ids
    PROVE  /\ Good(Removed(s, ids))
           /\ Removed(s, ids).seq = s.seq
           /\ Removed(s, ids).active = s.active \ ids
           /\ \A i \in s.active \ ids : Removed(s, ids).sstables[i] = s.sstables[i]
  <1>1. PICK t : t = Drop(s.sstables, ids)
    OBVIOUS
  <1>2. PICK S : S = s.active \ ids
    OBVIOUS
  <1>3. PICK b \in Nat : s.active \subseteq 1..b
    BY DEF Good
  <1>4. DOMAIN s.sstables = s.active /\ DOMAIN s.blocks = s.active
    BY DEF Good
  <1>5. t \in [S -> Sst] /\ \A i \in S : t[i] = s.sstables[i]
    BY <1>1, <1>2, <1>4 DEF Drop, Good
  <1>6. Drop(s.blocks, ids) = [i \in S |-> t[i].info]
    BY <1>2, <1>4, <1>5 DEF Drop, Good
  <1>7. Removed(s, ids) = [seq |-> s.seq, sstables |-> t, blocks |-> [i \in S |-> t[i].info],
                           active |-> S]
    <2>1. s = [seq |-> s.seq, sstables |-> s.sstables, blocks |-> s.blocks,
               active |-> s.active]
      BY DEF Good
    <2>2. PICK u : u = Drop(s.blocks, ids)
      OBVIOUS
    <2>3. PICK r : r = Removed(s, ids)
      OBVIOUS
    <2>4. r = [s EXCEPT !.sstables = t, !.blocks = u, !.active = S]
      BY <1>1, <1>2, <2>2, <2>3 DEF Removed
    <2>5. r = [seq |-> s.seq, sstables |-> t, blocks |-> u, active |-> S]
      BY <2>1, <2>4, ThreeFields, Zenon
    <2> QED
      BY <1>6, <2>2, <2>3, <2>5, Zenon
  <1>8. /\ s.seq \in 0..MaxWrites
        /\ S \subseteq 1..b
        /\ \A i \in S : t[i].of = t[i].info /\ (t[i].bloom = "legacy" => t[i].info = i)
    BY <1>2, <1>3, <1>5 DEF Good
  <1>9. /\ Good(Removed(s, ids)) /\ Removed(s, ids).seq = s.seq
        /\ Removed(s, ids).sstables = t /\ Removed(s, ids).active = S
    BY <1>5, <1>7, <1>8, GoodBuilt
  <1> QED
    BY <1>2, <1>5, <1>9

\* flush, compaction: the SST of the entry, with its filter, and the others.
LEMMA AddedGood ==
    ASSUME NEW s, Good(s), NEW e, e.id \in Nat \ {0}, e.info \in Nat,
           e.bloom \in {"legacy", "current"}, e.bloom = "legacy" => e.info = e.id
    PROVE  /\ Good(Added(s, e))
           /\ Added(s, e).seq = s.seq
           /\ Added(s, e).active = s.active \cup {e.id}
           /\ Added(s, e).sstables[e.id].info = e.info
           /\ Added(s, e).sstables[e.id].bloom = e.bloom
           /\ \A i \in s.active \ {e.id} : Added(s, e).sstables[i] = s.sstables[i]
  <1>1. PICK v : v = [info |-> e.info, bloom |-> e.bloom, of |-> e.info]
    OBVIOUS
  <1>2. PICK t : t = Set(s.sstables, e.id, v)
    OBVIOUS
  <1>3. PICK S : S = s.active \cup {e.id}
    OBVIOUS
  <1>4. PICK b \in Nat : s.active \subseteq 1..b
    BY DEF Good
  <1>5. PICK c \in Nat : c >= b /\ c >= e.id
    OBVIOUS
  <1>6. DOMAIN s.sstables = s.active /\ DOMAIN s.blocks = s.active
    BY DEF Good
  <1>7. v \in Sst /\ v.info = e.info /\ v.bloom = e.bloom /\ v.of = e.info
    BY <1>1 DEF Sst
  <1>8. t = [i \in S |-> IF i = e.id THEN v ELSE s.sstables[i]]
    BY <1>2, <1>3, <1>6 DEF Set
  <1>9. t \in [S -> Sst] /\ t[e.id] = v /\ \A i \in s.active \ {e.id} : t[i] = s.sstables[i]
    BY <1>3, <1>7, <1>8 DEF Good
  <1>10. Set(s.blocks, e.id, e.info) = [i \in S |-> t[i].info]
    BY <1>3, <1>6, <1>7, <1>9 DEF Set, Good
  <1>11. Added(s, e) = [seq |-> s.seq, sstables |-> t, blocks |-> [i \in S |-> t[i].info],
                        active |-> S]
    <2>1. s = [seq |-> s.seq, sstables |-> s.sstables, blocks |-> s.blocks,
               active |-> s.active]
      BY DEF Good
    <2>2. PICK u : u = Set(s.blocks, e.id, e.info)
      OBVIOUS
    <2>3. PICK r : r = Added(s, e)
      OBVIOUS
    <2>4. r = [s EXCEPT !.sstables = t, !.blocks = u, !.active = S]
      BY <1>1, <1>2, <1>3, <2>2, <2>3 DEF Added
    <2>5. r = [seq |-> s.seq, sstables |-> t, blocks |-> u, active |-> S]
      BY <2>1, <2>4, ThreeFields, Zenon
    <2> QED
      BY <1>10, <2>2, <2>3, <2>5, Zenon
  <1>12. S \subseteq 1..c
    BY <1>3, <1>4, <1>5
  <1>13. \A i \in S : t[i].of = t[i].info /\ (t[i].bloom = "legacy" => t[i].info = i)
    BY <1>3, <1>7, <1>9 DEF Good
  <1>14. s.seq \in 0..MaxWrites
    BY DEF Good
  <1>15. /\ Good(Added(s, e)) /\ Added(s, e).seq = s.seq
         /\ Added(s, e).sstables = t /\ Added(s, e).active = S
    BY <1>9, <1>11, <1>12, <1>13, <1>14, GoodBuilt
  <1> QED
    BY <1>3, <1>7, <1>9, <1>15

\* checkpoint: only the sequence number.
LEMMA SeqGood ==
    ASSUME NEW s, Good(s), NEW q \in 0..MaxWrites
    PROVE  /\ Good([s EXCEPT !.seq = Larger(@, q)])
           /\ [s EXCEPT !.seq = Larger(@, q)].seq = Larger(s.seq, q)
           /\ [s EXCEPT !.seq = Larger(@, q)].active = s.active
           /\ [s EXCEPT !.seq = Larger(@, q)].sstables = s.sstables
  <1>1. PICK r : r = [s EXCEPT !.seq = Larger(@, q)]
    OBVIOUS
  <1>2. Larger(s.seq, q) \in 0..MaxWrites
    BY DEF Good, Larger
  <1>3. r = [seq |-> Larger(s.seq, q), sstables |-> s.sstables, blocks |-> s.blocks,
             active |-> s.active]
    BY <1>1 DEF Good
  <1>4. /\ r.seq = Larger(s.seq, q) /\ r.sstables = s.sstables
        /\ r.blocks = s.blocks /\ r.active = s.active
    BY <1>3
  <1>5. Good(r)
    BY <1>2, <1>3, <1>4 DEF Good
  <1> QED
    BY <1>1, <1>4, <1>5

\* update_bloom: the filter of one SST, the one it was built from.
LEMMA BloomGood ==
    ASSUME NEW s, Good(s), NEW e, e.id \in s.active, e.info = s.sstables[e.id].info,
           e.bloom = "current", e.type = "update_bloom", NEW r, r = ApplyEntry(s, e)
    PROVE  /\ Good(r) /\ r.seq = s.seq /\ r.active = s.active
           /\ \A i \in s.active : r.sstables[i].info = s.sstables[i].info
           /\ \A i \in s.active \ {e.id} : r.sstables[i] = s.sstables[i]
           /\ r.sstables[e.id].bloom = "current"
  <1>1. PICK w : w = s.sstables[e.id]
    OBVIOUS
  <1>2. w \in Sst
    BY <1>1 DEF Good
  <1>3. PICK v : v = [w EXCEPT !.bloom = e.bloom, !.of = e.info]
    OBVIOUS
  <1>4. v.info = w.info /\ v.bloom = "current" /\ v.of = w.info /\ v \in Sst
    <2>1. PICK x, y, z : w = [info |-> x, bloom |-> y, of |-> z] /\ x \in Nat
      BY <1>2 DEF Sst
    <2>2. w.info = x /\ e.info = x
      BY <1>1, <2>1
    <2>3. v.info = x /\ v.bloom = "current" /\ v.of = x
      BY <1>3, <2>1, <2>2
    <2>4. DOMAIN v = {"info", "bloom", "of"} /\ v = [f \in DOMAIN v |-> v[f]]
      BY <1>3, <2>1
    <2>5. v = [info |-> x, bloom |-> "current", of |-> x]
      BY <2>3, <2>4
    <2> QED
      BY <2>1, <2>2, <2>3, <2>5 DEF Sst
  <1>5. PICK t : t = [s.sstables EXCEPT ![e.id] = v]
    OBVIOUS
  <1>6. DOMAIN s.sstables = s.active /\ s.sstables \in [s.active -> Sst]
    BY DEF Good
  <1>7. t \in [s.active -> Sst] /\ t[e.id] = v /\ \A i \in s.active \ {e.id} : t[i] = s.sstables[i]
    BY <1>4, <1>5, <1>6
  <1>8. \A i \in s.active : t[i].info = s.sstables[i].info
    BY <1>1, <1>4, <1>7
  <1>9. r = [seq |-> s.seq, sstables |-> t, blocks |-> [i \in s.active |-> t[i].info],
             active |-> s.active]
    <2>1. s = [seq |-> s.seq, sstables |-> s.sstables, blocks |-> s.blocks,
               active |-> s.active]
      BY DEF Good
    <2>2. r = [s EXCEPT !.sstables = t]
      <3>1. r = [s EXCEPT !.sstables[e.id] = [@ EXCEPT !.bloom = e.bloom, !.of = e.info]]
        BY <1>6 DEF ApplyEntry
      <3> QED
        BY <1>1, <1>3, <1>5, <2>1, <3>1
    <2>3. r = [seq |-> s.seq, sstables |-> t, blocks |-> s.blocks, active |-> s.active]
      BY <2>1, <2>2
    <2>4. s.blocks = [i \in s.active |-> t[i].info]
      BY <1>8 DEF Good
    <2> QED
      BY <2>3, <2>4, Zenon
  <1>10. PICK b \in Nat : s.active \subseteq 1..b
    BY DEF Good
  <1>11. \A i \in s.active : t[i].of = t[i].info /\ (t[i].bloom = "legacy" => t[i].info = i)
    BY <1>1, <1>4, <1>7 DEF Good
  <1>12. s.seq \in 0..MaxWrites
    BY DEF Good
  <1>13. Good(r) /\ r.seq = s.seq /\ r.sstables = t /\ r.active = s.active
    <2>1. /\ r.seq = s.seq /\ r.sstables = t /\ r.active = s.active
          /\ r.blocks = [i \in s.active |-> t[i].info]
      BY <1>9
    <2>2. r = [seq |-> r.seq, sstables |-> r.sstables, blocks |-> r.blocks, active |-> r.active]
      BY <1>9, <2>1, Zenon
    <2>3. Good(r)
      BY <1>7, <1>10, <1>11, <1>12, <2>1, <2>2 DEF Good
    <2> QED
      BY <2>1, <2>3
  <1> QED
    BY <1>4, <1>7, <1>8, <1>13

\* The fields of an entry.
LEMMA EntryFields ==
    ASSUME NEW e \in Line, e.type \in EntryTypes
    PROVE  /\ e.seq \in 0..MaxWrites /\ e.id \in Nat /\ e.info \in Nat
           /\ e.bloom \in {"legacy", "current", "none"} /\ e.ids \in SUBSET Nat
  <1>1. Junk.type \notin EntryTypes /\ NoEntry.type \notin EntryTypes
    BY DEF Junk, NoEntry, EntryTypes
  <1> QED
    BY <1>1 DEF Line

\* A line that does not parse, or is not there, changes nothing.
LEMMA ApplyNothing ==
    ASSUME NEW s, NEW e, e.type \notin EntryTypes
    PROVE  ApplyEntry(s, e) = s
  BY DEF ApplyEntry, EntryTypes

LEMMA ApplyFlush ==
    ASSUME NEW s, Good(s), NEW e, Applies(s, e), e.type = "flush"
    PROVE  /\ Good(ApplyEntry(s, e))
           /\ ApplyEntry(s, e).seq = Larger(s.seq, e.seq)
           /\ ApplyEntry(s, e).active = s.active \cup {e.id}
           /\ ApplyEntry(s, e).sstables[e.id].info = e.info
           /\ ApplyEntry(s, e).sstables[e.id].bloom = e.bloom
           /\ \A i \in s.active \ {e.id} : ApplyEntry(s, e).sstables[i] = s.sstables[i]
  <1>1. PICK a : a = Added(s, e)
    OBVIOUS
  <1>2. e.id \in Nat \ {0} /\ e.info \in Nat /\ e.seq \in 0..MaxWrites
    BY EntryFields DEF Applies, EntryTypes
  <1>3. e.bloom \in {"legacy", "current"} /\ (e.bloom = "legacy" => e.info = e.id)
    BY EntryFields DEF Applies, EntryTypes
  <1>4. /\ Good(a) /\ a.seq = s.seq /\ a.active = s.active \cup {e.id}
        /\ a.sstables[e.id].info = e.info /\ a.sstables[e.id].bloom = e.bloom
        /\ \A i \in s.active \ {e.id} : a.sstables[i] = s.sstables[i]
    BY <1>1, <1>2, <1>3, AddedGood
  <1>5. PICK r : r = [a EXCEPT !.seq = Larger(@, e.seq)]
    OBVIOUS
  <1>6. Good(r) /\ r.seq = Larger(a.seq, e.seq) /\ r.active = a.active /\ r.sstables = a.sstables
    BY <1>2, <1>4, <1>5, SeqGood
  <1>7. ApplyEntry(s, e) = r
    BY <1>1, <1>5 DEF ApplyEntry
  <1> QED
    BY <1>4, <1>6, <1>7

LEMMA ApplyCompaction ==
    ASSUME NEW s, Good(s), NEW e, Applies(s, e), e.type = "compaction"
    PROVE  /\ Good(ApplyEntry(s, e))
           /\ ApplyEntry(s, e).active = (s.active \ e.ids) \cup {e.id}
           /\ ApplyEntry(s, e).sstables[e.id].info = e.info
           /\ ApplyEntry(s, e).sstables[e.id].bloom = e.bloom
           /\ \A i \in (s.active \ e.ids) \ {e.id} :
                ApplyEntry(s, e).sstables[i] = s.sstables[i]
  <1>1. PICK a : a = Removed(s, e.ids)
    OBVIOUS
  <1>2. e.id \in Nat \ {0} /\ e.info \in Nat
    BY EntryFields DEF Applies, EntryTypes
  <1>3. e.bloom \in {"legacy", "current"} /\ (e.bloom = "legacy" => e.info = e.id)
    BY EntryFields DEF Applies, EntryTypes
  <1>4. /\ Good(a) /\ a.active = s.active \ e.ids
        /\ \A i \in s.active \ e.ids : a.sstables[i] = s.sstables[i]
    BY <1>1, RemovedGood
  <1>5. PICK r : r = Added(a, e)
    OBVIOUS
  <1>6. /\ Good(r) /\ r.active = a.active \cup {e.id}
        /\ r.sstables[e.id].info = e.info /\ r.sstables[e.id].bloom = e.bloom
        /\ \A i \in a.active \ {e.id} : r.sstables[i] = a.sstables[i]
    BY <1>2, <1>3, <1>4, <1>5, AddedGood
  <1>7. ApplyEntry(s, e) = r
    BY <1>1, <1>5 DEF ApplyEntry
  <1> QED
    BY <1>4, <1>6, <1>7

LEMMA ApplyGcDelete ==
    ASSUME NEW s, Good(s), NEW e, e.type = "gc_delete_sst"
    PROVE  /\ Good(ApplyEntry(s, e))
           /\ ApplyEntry(s, e).active = s.active \ e.ids
           /\ \A i \in s.active \ e.ids : ApplyEntry(s, e).sstables[i] = s.sstables[i]
  <1>1. ApplyEntry(s, e) = Removed(s, e.ids)
    BY DEF ApplyEntry
  <1> QED
    BY <1>1, RemovedGood

LEMMA ApplyCheckpoint ==
    ASSUME NEW s, Good(s), NEW e, Applies(s, e), e.type = "checkpoint"
    PROVE  /\ Good(ApplyEntry(s, e))
           /\ ApplyEntry(s, e).seq = Larger(s.seq, e.seq)
           /\ ApplyEntry(s, e).active = s.active
           /\ ApplyEntry(s, e).sstables = s.sstables
  <1>1. ApplyEntry(s, e) = [s EXCEPT !.seq = Larger(@, e.seq)]
    BY DEF ApplyEntry
  <1>2. e.seq \in 0..MaxWrites
    BY EntryFields DEF Applies, EntryTypes
  <1> QED
    BY <1>1, <1>2, SeqGood

LEMMA ApplyUpdate ==
    ASSUME NEW s, Good(s), NEW e, Applies(s, e), e.type = "update_bloom"
    PROVE  /\ Good(ApplyEntry(s, e))
           /\ ApplyEntry(s, e).active = s.active
           /\ \A i \in s.active : ApplyEntry(s, e).sstables[i].info = s.sstables[i].info
           /\ \A i \in s.active \ {e.id} : ApplyEntry(s, e).sstables[i] = s.sstables[i]
           /\ e.id \in s.active => ApplyEntry(s, e).sstables[e.id].bloom = "current"
  <1>1. CASE e.id \in s.active
    <2>3. PICK r : r = ApplyEntry(s, e)
      OBVIOUS
    <2>4. e.bloom = "current" /\ e.info = s.sstables[e.id].info
      BY <1>1 DEF Applies
    <2>5. /\ Good(r) /\ r.active = s.active
          /\ \A i \in s.active : r.sstables[i].info = s.sstables[i].info
          /\ \A i \in s.active \ {e.id} : r.sstables[i] = s.sstables[i]
          /\ r.sstables[e.id].bloom = "current"
      BY <1>1, <2>3, <2>4, BloomGood
    <2> QED
      BY <2>3, <2>5
  <1>2. CASE e.id \notin s.active
    <2>1. e.id \notin DOMAIN s.sstables
      BY <1>2 DEF Good
    <2>2. ApplyEntry(s, e) = s
      BY <2>1 DEF ApplyEntry
    <2> QED
      BY <1>2, <2>2
  <1> QED
    BY <1>1, <1>2

\* Every entry type: a good state stays good, and an SST with a filter of the
\* older version was there before, unless the entry brings one.
LEMMA ApplyGood ==
    ASSUME NEW s, Good(s), NEW e, Applies(s, e)
    PROVE  /\ Good(ApplyEntry(s, e))
           /\ \A i \in ApplyEntry(s, e).active :
                ApplyEntry(s, e).sstables[i].bloom = "legacy" =>
                    \/ i \in s.active /\ s.sstables[i].bloom = "legacy"
                    \/ e.type \in EntryTypes /\ e.bloom = "legacy"
  <1>1. CASE e.type \notin EntryTypes
    BY <1>1, ApplyNothing
  <1>2. CASE e.type = "flush"
    BY <1>2, ApplyFlush DEF EntryTypes
  <1>3. CASE e.type = "compaction"
    BY <1>3, ApplyCompaction DEF EntryTypes
  <1>4. CASE e.type = "checkpoint"
    BY <1>4, ApplyCheckpoint
  <1>5. CASE e.type = "gc_delete_sst"
    BY <1>5, ApplyGcDelete
  <1>6. CASE e.type = "update_bloom"
    BY <1>6, ApplyUpdate
  <1> QED
    BY <1>1, <1>2, <1>3, <1>4, <1>5, <1>6 DEF EntryTypes

-----------------------------------------------------------------------------
(* The file *)

File == [lines : Seq(Line), tail : Line]

LEMMA NoEntries ==
    /\ NoEntry \in Line /\ Junk \in Line
    /\ NoEntry.type \notin EntryTypes /\ Junk.type \notin EntryTypes
  BY DEF NoEntry, Junk, Line, EntryTypes

\* A terminated file replays to what its lines yield.
LEMMA ReplayFile ==
    ASSUME NEW file \in File
    PROVE  /\ Replay(file) = ApplyEntry(Whole(file.lines), file.tail)
           /\ file.tail.type \notin EntryTypes => Replay(file) = Whole(file.lines)
  <1>1. file.lines \in Seq(Line)
    BY DEF File
  <1>2. Replay(file) = ApplyEntry(Whole(file.lines), file.tail)
    BY <1>1, ReplayIs
  <1> QED
    BY <1>2, ApplyNothing

\* What writeln! may have done to a file: nothing; a line that does not parse; or
\* the entry, with its newline or without.  The entry only when the file ended
\* in a newline.
LEMMA WroteCases ==
    ASSUME NEW file \in File, NEW e \in Line, NEW how \in HowFar,
           NEW w, w = Wrote(file, e, how)
    PROVE  /\ w \in File
           /\ \/ w = file
              \/ Whole(w.lines) = Whole(file.lines) /\ Replay(w) = Whole(file.lines)
              \/ /\ file.tail = NoEntry
                 /\ Replay(w) = ApplyEntry(Whole(file.lines), e)
                 /\ \/ Whole(w.lines) = Whole(file.lines)
                    \/ Whole(w.lines) = ApplyEntry(Whole(file.lines), e)
           /\ how = "line" /\ file.tail = NoEntry =>
                Replay(w) = ApplyEntry(Whole(file.lines), e)
  <1>1. PICK l, t : file = [lines |-> l, tail |-> t] /\ l \in Seq(Line) /\ t \in Line
    BY DEF File
  <1>2. file.lines = l /\ file.tail = t
    BY <1>1
  <1>3. PICK j : j = IF t = NoEntry THEN e ELSE Junk
    OBVIOUS
  <1>4. j \in Line
    BY <1>3, NoEntries
  <1>5. CASE how = "nothing"
    BY <1>5 DEF Wrote
  <1>6. CASE how = "part"
    <2>1. w = [file EXCEPT !.tail = Junk]
      BY <1>6 DEF Wrote
    <2>2. w = [lines |-> l, tail |-> Junk]
      BY <1>1, <2>1
    <2>3. w \in File /\ w.lines = l /\ w.tail = Junk
      BY <1>1, <2>2, NoEntries DEF File
    <2>4. Replay(w) = Whole(l)
      BY <2>3, NoEntries, ReplayFile
    <2> QED
      BY <1>2, <1>6, <2>3, <2>4
  <1>7. CASE how = "value"
    <2>1. w = [file EXCEPT !.tail = j]
      BY <1>2, <1>3, <1>7 DEF Wrote
    <2>2. w = [lines |-> l, tail |-> j]
      BY <1>1, <2>1
    <2>3. w \in File /\ w.lines = l /\ w.tail = j
      BY <1>1, <1>4, <2>2 DEF File
    <2>4. Replay(w) = ApplyEntry(Whole(l), j)
      BY <2>3, ReplayFile
    <2>5. j = Junk => Replay(w) = Whole(l)
      BY <2>3, NoEntries, ReplayFile
    <2> QED
      BY <1>2, <1>3, <1>7, <2>3, <2>4, <2>5
  <1>8. CASE how = "line"
    <2>1. w = [lines |-> Append(l, j), tail |-> NoEntry]
      BY <1>2, <1>3, <1>8 DEF Wrote
    <2>2. Append(l, j) \in Seq(Line)
      BY <1>1, <1>4
    <2>3. w \in File /\ w.lines = Append(l, j) /\ w.tail = NoEntry
      BY <2>1, <2>2, NoEntries DEF File
    <2>4. Replay(w) = Whole(w.lines)
      BY <2>3, NoEntries, ReplayFile
    <2>5. Whole(w.lines) = ApplyEntry(Whole(l), j)
      BY <1>1, <2>3, WholeAppend
    <2>6. j = Junk => Whole(w.lines) = Whole(l)
      BY <2>5, NoEntries, ApplyNothing
    <2> QED
      BY <1>2, <1>3, <1>8, <2>3, <2>4, <2>5, <2>6
  <1> QED
    BY <1>5, <1>6, <1>7, <1>8 DEF HowFar

\* No outcome of a write spoils the file.
LEMMA WroteOK ==
    ASSUME NEW file, FileOK(file), NEW e, Applies(Whole(file.lines), e),
           e.type \in EntryTypes => e.bloom # "legacy",
           NEW how \in HowFar, NEW w, w = Wrote(file, e, how)
    PROVE  FileOK(w)
  <1>1. PICK x : x = Whole(file.lines)
    OBVIOUS
  <1>2. PICK y : y = ApplyEntry(x, e)
    OBVIOUS
  <1>3. file \in File /\ e \in Line
    BY DEF FileOK, File, Applies
  <1>4. Good(x)
    BY <1>1 DEF FileOK
  <1>5. /\ Good(y)
        /\ \A i \in y.active : y.sstables[i].bloom = "legacy" =>
                i \in x.active /\ x.sstables[i].bloom = "legacy"
    BY <1>1, <1>2, <1>4, ApplyGood
  <1>6. \A i \in x.active : x.sstables[i].bloom = "legacy" => IsOld(x, i)
    BY <1>4 DEF Good, IsOld
  <1>7. \A i \in y.active : y.sstables[i].bloom = "legacy" => IsOld(x, i) /\ IsOld(y, i)
    BY <1>5, <1>6 DEF Good, IsOld
  <1>8. w \in File
    BY <1>3, WroteCases
  <1>9. \/ w = file
        \/ Whole(w.lines) = x /\ Replay(w) = x
        \/ Replay(w) = y /\ (Whole(w.lines) = x \/ Whole(w.lines) = y)
    BY <1>1, <1>2, <1>3, WroteCases
  <1> QED
    BY <1>4, <1>5, <1>6, <1>7, <1>8, <1>9 DEF FileOK, File

-----------------------------------------------------------------------------
(* The snapshot *)

\* A state is given by its sequence number, its SSTs and their filters.
LEMMA SameState ==
    ASSUME NEW a, Good(a), NEW b, Good(b), a.seq = b.seq, a.active = b.active,
           \A i \in b.active : /\ a.sstables[i].info = b.sstables[i].info
                               /\ a.sstables[i].bloom = b.sstables[i].bloom
    PROVE  a = b
  <1>1. \A i \in b.active : a.sstables[i] = b.sstables[i]
    <2> SUFFICES ASSUME NEW i \in b.active PROVE a.sstables[i] = b.sstables[i]
      OBVIOUS
    <2>1. PICK v : v = a.sstables[i]
      OBVIOUS
    <2>2. PICK w : w = b.sstables[i]
      OBVIOUS
    <2>3. v \in Sst /\ w \in Sst /\ v.of = v.info /\ w.of = w.info
      BY <2>1, <2>2 DEF Good
    <2>4. v.info = w.info /\ v.bloom = w.bloom
      BY <2>1, <2>2
    <2>5. v = w
      BY <2>3, <2>4 DEF Sst
    <2> QED
      BY <2>1, <2>2, <2>5
  <1>2. a.sstables = b.sstables
    BY <1>1 DEF Good
  <1>3. a.blocks = b.blocks
    BY <1>2 DEF Good
  <1>4. /\ a = [seq |-> a.seq, sstables |-> a.sstables, blocks |-> a.blocks,
                active |-> a.active]
        /\ b = [seq |-> b.seq, sstables |-> b.sstables, blocks |-> b.blocks,
                active |-> b.active]
    BY Zenon DEF Good
  <1> QED
    BY <1>2, <1>3, <1>4, Zenon

\* The first c places of order list the elements of S.
Lists(order, S, c) == order \in [1..c -> S] /\ S = {order[n] : n \in 1..c}

\* The order in which the snapshot writes the SSTs leaves none out.
LEMMA OrderCovers ==
    ASSUME NEW S, NEW b \in Nat, S \subseteq 1..b, NEW order \in SetToSeqs(S)
    PROVE  \E c \in Nat : Lists(order, S, c)
  <1>1. IsFiniteSet(1..b)
    BY FS_Interval
  <1>2. IsFiniteSet(S)
    BY <1>1, FS_Subset
  <1>3. PICK c \in Nat : c = Cardinality(S)
    BY <1>2, FS_CardinalityType
  <1>4. order \in [1..c -> S] /\ \A i, j \in 1..c : i # j => order[i] # order[j]
    BY <1>3 DEF SetToSeqs
  <1>5. order \in Injection(1..c, S)
    BY <1>4 DEF Injection, IsInjective
  <1>6. Cardinality(1..c) = Cardinality(S)
    <2>1. Cardinality(1..c) = IF 1 > c THEN 0 ELSE c - 1 + 1
      BY FS_Interval
    <2> QED
      BY <1>3, <2>1
  <1>7. order \in Surjection(1..c, S)
    BY <1>2, <1>5, <1>6, FS_Injection
  <1>8. \A x \in S : \E n \in 1..c : order[n] = x
    BY <1>7 DEF Surjection
  <1> QED
    <2>1. S \subseteq {order[n] : n \in 1..c}
      BY <1>8
    <2>2. {order[n] : n \in 1..c} \subseteq S
      BY <1>4
    <2>3. S = {order[n] : n \in 1..c}
      BY <2>1, <2>2
    <2> QED
      BY <1>4, <2>3, Zenon DEF Lists

\* A flush entry keeps every state good.
LEMMA FlushEntry ==
    ASSUME NEW q \in 0..MaxWrites, NEW i \in Nat \ {0}, NEW n \in Nat,
           NEW b \in {"legacy", "current"}, b = "legacy" => n = i,
           NEW e, e = Flush(q, i, n, b)
    PROVE  /\ e \in Line /\ \A r : Applies(r, e)
           /\ e.type = "flush" /\ e.seq = q /\ e.id = i /\ e.info = n /\ e.bloom = b
           /\ e.ids = {}
  <1>1. e = [type |-> "flush", seq |-> q, id |-> i, info |-> n, bloom |-> b, ids |-> {}]
    BY DEF Flush
  <1>2. /\ e.type = "flush" /\ e.seq = q /\ e.id = i /\ e.info = n /\ e.bloom = b
        /\ e.ids = {}
    BY <1>1
  <1>3. e \in Line
    BY <1>1 DEF Line, EntryTypes
  <1>4. \A r : Applies(r, e)
    BY <1>2, <1>3 DEF Applies
  <1> QED
    BY <1>2, <1>3, <1>4

\* What a snapshot writes of an SST is a flush entry.
LEMMA SnapshotSst ==
    ASSUME NEW s, Good(s), NEW i \in s.active
    PROVE  /\ s.seq \in 0..MaxWrites /\ i \in Nat \ {0}
           /\ s.sstables[i].info \in Nat
           /\ s.sstables[i].bloom \in {"legacy", "current"}
           /\ s.sstables[i].bloom = "legacy" => s.sstables[i].info = i
  <1>1. s.sstables[i] \in Sst
    BY DEF Good
  <1>2. i \in Nat \ {0}
    BY DEF Good
  <1>3. s.seq \in 0..MaxWrites /\ (s.sstables[i].bloom = "legacy" => s.sstables[i].info = i)
    BY DEF Good
  <1> QED
    BY <1>1, <1>2, <1>3 DEF Sst

\* The state after the first k lines of a snapshot of s: the first k SSTs of s.
PartOf(r, s, order, k) ==
    /\ Good(r)
    /\ r.seq <= s.seq
    /\ r.active = {order[n] : n \in 1..k}
    /\ \A i \in r.active : /\ r.sstables[i].info = s.sstables[i].info
                           /\ r.sstables[i].bloom = s.sstables[i].bloom

LEMMA NoPart ==
    ASSUME NEW s, Good(s), NEW order
    PROVE  PartOf(EmptyState, s, order, 0)
  <1>1. Good(EmptyState) /\ EmptyState.active = {} /\ EmptyState.seq = 0
    BY EmptyGood DEF EmptyState
  <1>2. s.seq \in Nat
    BY ManifestAssumption DEF Good
  <1>3. {order[n] : n \in 1..0} = {}
    OBVIOUS
  <1> QED
    BY <1>1, <1>2, <1>3 DEF PartOf

LEMMA NextPart ==
    ASSUME NEW s, Good(s), NEW c \in Nat, NEW order \in [1..c -> s.active],
           NEW k \in 0..c, k # c, NEW r, PartOf(r, s, order, k), NEW e,
           e = Flush(s.seq, order[k + 1], s.sstables[order[k + 1]].info,
                     s.sstables[order[k + 1]].bloom)
    PROVE  PartOf(ApplyEntry(r, e), s, order, k + 1)
  <1>1. PICK i : i = order[k + 1]
    OBVIOUS
  <1>2. i \in s.active /\ k + 1 \in 1..c
    BY <1>1
  <1>3. e = Flush(s.seq, i, s.sstables[i].info, s.sstables[i].bloom)
    BY <1>1
  <1>4. /\ Applies(r, e) /\ e.type = "flush" /\ e.seq = s.seq /\ e.id = i
        /\ e.info = s.sstables[i].info /\ e.bloom = s.sstables[i].bloom
    <2>1. PICK n : n = s.sstables[i].info
      OBVIOUS
    <2>2. PICK b : b = s.sstables[i].bloom
      OBVIOUS
    <2>3. /\ s.seq \in 0..MaxWrites /\ i \in Nat \ {0} /\ n \in Nat
          /\ b \in {"legacy", "current"} /\ (b = "legacy" => n = i)
      BY <1>2, <2>1, <2>2, SnapshotSst
    <2>4. e = Flush(s.seq, i, n, b)
      BY <1>3, <2>1, <2>2
    <2> QED
      BY <2>1, <2>2, <2>3, <2>4, FlushEntry
  <1>5. PICK a : a = ApplyEntry(r, e)
    OBVIOUS
  <1>6. Good(r) /\ r.seq <= s.seq /\ r.active = {order[n] : n \in 1..k}
    BY DEF PartOf
  <1>7. /\ Good(a) /\ a.seq = Larger(r.seq, e.seq) /\ a.active = r.active \cup {e.id}
        /\ a.sstables[e.id].info = e.info /\ a.sstables[e.id].bloom = e.bloom
        /\ \A j \in r.active \ {e.id} : a.sstables[j] = r.sstables[j]
    BY ONLY <1>4, <1>5, <1>6, ApplyFlush
  <1>8. a.seq <= s.seq
    <2>1. s.seq \in Nat /\ r.seq \in Nat
      BY <1>6, ManifestAssumption DEF Good
    <2>2. a.seq \in {r.seq, s.seq}
      BY ONLY <1>4, <1>7 DEF Larger
    <2> QED
      BY ONLY <1>6, <2>1, <2>2
  <1>9. a.active = {order[n] : n \in 1..(k + 1)}
    <2>1. a.active = {order[n] : n \in 1..k} \cup {order[k + 1]}
      BY ONLY <1>1, <1>4, <1>6, <1>7
    <2>2. 1..(k + 1) = 1..k \cup {k + 1}
      BY ONLY k \in Nat
    <2> QED
      BY ONLY <2>1, <2>2
  <1>10. \A j \in a.active : /\ a.sstables[j].info = s.sstables[j].info
                             /\ a.sstables[j].bloom = s.sstables[j].bloom
    BY <1>4, <1>7, ZenonT(60) DEF PartOf
  <1> QED
    BY <1>5, <1>7, <1>8, <1>9, <1>10 DEF PartOf

\* A snapshot replays to the state it was made from, in whatever order it lists
\* the SSTs.
THEOREM SnapshotReplays ==
    ASSUME NEW s, Good(s), NEW order \in SetToSeqs(DOMAIN s.sstables),
           NEW file, file = SnapshotLines(s, order)
    PROVE  /\ file \in File
           /\ Whole(file.lines) = s /\ Replay(file) = s
  <1>1. DOMAIN s.sstables = s.active
    BY DEF Good
  <1>2. PICK b \in Nat : s.active \subseteq 1..b
    BY DEF Good
  <1>3. PICK c \in Nat : order \in [1..c -> s.active] /\ s.active = {order[n] : n \in 1..c}
    <2>1. PICK S : S = s.active
      OBVIOUS
    <2>2. order \in SetToSeqs(S) /\ S \subseteq 1..b
      BY <1>1, <1>2, <2>1
    <2>3. \E c \in Nat : Lists(order, S, c)
      BY <2>2, OrderCovers
    <2> QED
      BY <2>1, <2>3, Zenon DEF Lists
  <1>4. PICK F : F = [n \in DOMAIN order |->
                        Flush(s.seq, order[n], s.sstables[order[n]].info,
                              s.sstables[order[n]].bloom)]
    OBVIOUS
  <1>5. \A n \in 1..c : F[n] = Flush(s.seq, order[n], s.sstables[order[n]].info,
                                     s.sstables[order[n]].bloom)
    BY <1>3, <1>4
  <1>6. F \in Seq(Line) /\ Len(F) = c
    <2>1. \A n \in 1..c : F[n] \in Line
      <3> SUFFICES ASSUME NEW n \in 1..c PROVE F[n] \in Line
        OBVIOUS
      <3>1. PICK i : i = order[n]
        OBVIOUS
      <3>2. i \in s.active
        BY <1>3, <3>1
      <3>3. F[n] = Flush(s.seq, i, s.sstables[i].info, s.sstables[i].bloom)
        BY <1>5, <3>1
      <3>4. PICK m : m = s.sstables[i].info
        OBVIOUS
      <3>5. PICK v : v = s.sstables[i].bloom
        OBVIOUS
      <3>6. /\ s.seq \in 0..MaxWrites /\ i \in Nat \ {0} /\ m \in Nat
            /\ v \in {"legacy", "current"} /\ (v = "legacy" => m = i)
        BY <3>2, <3>4, <3>5, SnapshotSst
      <3>7. F[n] = Flush(s.seq, i, m, v)
        BY <3>3, <3>4, <3>5
      <3> QED
        BY <3>6, <3>7, FlushEntry
    <2>2. DOMAIN F = 1..c /\ F = [n \in DOMAIN F |-> F[n]]
      BY <1>3, <1>4
    <2>3. F \in [1..c -> Line]
      BY <2>1, <2>2
    <2> QED
      BY <2>3
  <1>7. PICK f : f = After(F)
    OBVIOUS
  <1>8. f[0] = EmptyState /\ \A n \in 1..c : f[n] = ApplyEntry(f[n - 1], F[n])
    <2>1. Len(F) \in Nat
      BY <1>6
    <2> QED
      BY <1>6, <1>7, <2>1, AfterSteps
  <1> DEFINE G == {k \in 0..c : PartOf(f[k], s, order, k)}
  <1>9. 0 \in G
    BY <1>8, NoPart
  <1>10. \A k \in 0..c : k # c /\ k \in G => k + 1 \in G
    <2> SUFFICES ASSUME NEW k \in 0..c, k # c, PartOf(f[k], s, order, k)
                 PROVE  PartOf(f[k + 1], s, order, k + 1)
      OBVIOUS
    <2>1. k + 1 \in 1..c /\ (k + 1) - 1 = k
      OBVIOUS
    <2>2. PICK e : e = F[k + 1]
      OBVIOUS
    <2>3. f[k + 1] = ApplyEntry(f[k], e)
      BY <1>8, <2>1, <2>2
    <2>4. e = Flush(s.seq, order[k + 1], s.sstables[order[k + 1]].info,
                    s.sstables[order[k + 1]].bloom)
      BY <1>5, <2>1, <2>2
    <2>5. PICK r : r = f[k]
      OBVIOUS
    <2>6. PartOf(ApplyEntry(r, e), s, order, k + 1)
      BY <1>3, <2>4, <2>5, NextPart
    <2> QED
      BY <2>3, <2>5, <2>6
  <1>11. PartOf(Whole(F), s, order, c)
    <2>1. c \in G
      <3> HIDE DEF G
      <3> QED
        BY <1>9, <1>10, UpTo
    <2>2. PartOf(f[c], s, order, c)
      BY <2>1
    <2> QED
      BY <1>6, <1>7, <2>2 DEF Whole
  <1>12. PICK r : r = Whole(F)
    OBVIOUS
  <1>13. PICK e : e = Checkpoint(s.seq)
    OBVIOUS
  <1>14. e \in Line /\ Applies(r, e) /\ e.type = "checkpoint" /\ e.seq = s.seq
    <2>1. s.seq \in 0..MaxWrites
      BY DEF Good
    <2>2. e = [type |-> "checkpoint", seq |-> s.seq, id |-> 0, info |-> 0, bloom |-> "none",
               ids |-> {}]
      BY <1>13 DEF Checkpoint
    <2>3. e \in Line /\ e.type = "checkpoint" /\ e.seq = s.seq
      BY <2>1, <2>2 DEF Line, EntryTypes
    <2> QED
      BY <2>3 DEF Applies
  <1>15. PICK a : a = ApplyEntry(r, e)
    OBVIOUS
  <1>16. /\ Good(r) /\ r.seq <= s.seq /\ r.active = s.active
         /\ \A i \in r.active : /\ r.sstables[i].info = s.sstables[i].info
                                /\ r.sstables[i].bloom = s.sstables[i].bloom
    BY <1>3, <1>11, <1>12 DEF PartOf
  <1>17. /\ Good(a) /\ a.seq = Larger(r.seq, s.seq) /\ a.active = r.active
         /\ a.sstables = r.sstables
    BY <1>14, <1>15, <1>16, ApplyCheckpoint
  <1>18. a.seq = s.seq
    <2>1. s.seq \in Nat /\ r.seq \in Nat
      BY <1>16, ManifestAssumption DEF Good
    <2> QED
      BY <1>16, <1>17, <2>1 DEF Larger
  <1>19. a = s
    BY <1>16, <1>17, <1>18, SameState
  <1>20. file = [lines |-> Append(F, e), tail |-> NoEntry]
    BY <1>4, <1>13 DEF SnapshotLines
  <1>21. file \in File /\ file.lines = Append(F, e) /\ file.tail = NoEntry
    <2>1. Append(F, e) \in Seq(Line)
      BY <1>6, <1>14
    <2> QED
      BY <1>20, <2>1, NoEntries DEF File
  <1>22. Whole(file.lines) = s
    BY <1>6, <1>12, <1>15, <1>19, <1>21, WholeAppend
  <1> QED
    BY <1>21, <1>22, NoEntries, ReplayFile

LEMMA SnapshotOK ==
    ASSUME NEW s, Good(s), NEW file \in File, Whole(file.lines) = s, Replay(file) = s
    PROVE  FileOK(file)
  <1>1. \A i \in s.active : s.sstables[i].bloom = "legacy" => IsOld(s, i)
    BY DEF Good, IsOld
  <1> QED
    BY <1>1 DEF FileOK, File

\* The MANIFEST of an older version replays as well.
LEMMA LegacyOK ==
    ASSUME NEW file \in LegacyLogs
    PROVE  FileOK(file) /\ Len(file.lines) \in 0..MaxWrites
  <1>1. PICK k \in 0..MaxLegacy :
            file = [lines |-> [n \in 1..k |-> Flush(n, n, n, "legacy")], tail |-> NoEntry]
    BY DEF LegacyLogs
  <1>2. PICK F : F = [n \in 1..k |-> Flush(n, n, n, "legacy")]
    OBVIOUS
  <1>3. file = [lines |-> F, tail |-> NoEntry]
    BY <1>1, <1>2
  <1>4. k \in Nat /\ k <= MaxWrites
    BY ManifestAssumption
  <1>5. \A n \in 1..k : F[n] \in Line /\ \A r : Applies(r, F[n])
    <2> SUFFICES ASSUME NEW n \in 1..k PROVE F[n] \in Line /\ \A r : Applies(r, F[n])
      OBVIOUS
    <2>1. n \in 0..MaxWrites /\ n \in Nat \ {0}
      BY <1>4, ManifestAssumption
    <2>2. PICK e : e = F[n]
      OBVIOUS
    <2>3. e = Flush(n, n, n, "legacy")
      BY <1>2, <2>2
    <2>4. e \in Line /\ \A r : Applies(r, e)
      BY <2>1, <2>3, FlushEntry
    <2> QED
      BY <2>2, <2>4
  <1>6. F \in Seq(Line) /\ Len(F) = k
    <2>1. DOMAIN F = 1..k /\ F = [n \in DOMAIN F |-> F[n]]
      BY <1>2
    <2>2. F \in [1..k -> Line]
      BY <1>5, <2>1
    <2> QED
      BY <1>4, <2>2
  <1>7. PICK f : f = After(F)
    OBVIOUS
  <1>8. f[0] = EmptyState /\ \A n \in 1..k : f[n] = ApplyEntry(f[n - 1], F[n])
    <2>1. Len(F) \in Nat
      BY <1>4, <1>6
    <2> QED
      BY <1>6, <1>7, <2>1, AfterSteps
  <1> DEFINE G == {n \in 0..k : Good(f[n])}
  <1>9. 0 \in G
    BY <1>4, <1>8, EmptyGood
  <1>10. \A n \in 0..k : n # k /\ n \in G => n + 1 \in G
    <2> SUFFICES ASSUME NEW n \in 0..k, n # k, Good(f[n]) PROVE Good(f[n + 1])
      BY <1>4
    <2>1. n + 1 \in 1..k /\ (n + 1) - 1 = n
      BY <1>4
    <2>2. f[n + 1] = ApplyEntry(f[n], F[n + 1])
      BY <1>8, <2>1
    <2>3. Applies(f[n], F[n + 1])
      BY <1>5, <2>1
    <2> QED
      BY <2>2, <2>3, ApplyGood
  <1>11. Good(Whole(F))
    <2>1. k \in G
      <3> HIDE DEF G
      <3> QED
        BY <1>4, <1>9, <1>10, UpTo
    <2> QED
      BY <1>6, <1>7, <2>1 DEF Whole
  <1>12. file \in File /\ file.lines = F /\ file.tail = NoEntry
    BY <1>3, <1>6, NoEntries DEF File
  <1>13. Replay(file) = Whole(F)
    BY <1>12, NoEntries, ReplayFile
  <1>14. PICK s : s = Whole(F)
    OBVIOUS
  <1>15. FileOK(file)
    BY <1>11, <1>12, <1>13, <1>14, SnapshotOK
  <1> QED
    BY <1>4, <1>6, <1>12, <1>15

-----------------------------------------------------------------------------
(* The id of a new SST *)

\* next_sst_id is free.
LEMMA FreshId ==
    ASSUME Good(state)
    PROVE  NextSstId \in Nat \ {0} /\ NextSstId \notin state.active
  <1>1. DOMAIN state.sstables = state.active
    BY DEF Good
  <1>2. PICK b \in Nat : state.active \subseteq 1..b
    BY DEF Good
  <1>3. CASE state.sstables = <<>>
    <2>1. state.active = {}
      BY <1>1, <1>3
    <2>2. NextSstId = 1
      BY <1>3 DEF NextSstId
    <2> QED
      BY <2>1, <2>2
  <1>4. CASE state.sstables # <<>>
    <2>1. state.active # {}
      BY <1>4, SMTT(30) DEF Good
    <2>2. PICK S : S = state.active
      OBVIOUS
    <2>3. \E m \in S : \A n \in S : n <= m
      <3>1. S \in SUBSET Nat /\ S # {} /\ \A n \in S : n <= b
        BY <1>2, <2>1, <2>2
      <3> QED
        BY <3>1, GreatestNatural
    <2>4. PICK m : m = CHOOSE x \in S : \A n \in S : n <= x
      OBVIOUS
    <2>5. m \in S /\ \A n \in S : n <= m
      BY <2>3, <2>4, Zenon
    <2>6. NextSstId = 1 + m
      BY <1>1, <1>4, <2>2, <2>4 DEF NextSstId
    <2>7. m \in Nat
      BY <1>2, <2>2, <2>5
    <2> QED
      BY <2>2, <2>5, <2>6, <2>7
  <1> QED
    BY <1>3, <1>4

-----------------------------------------------------------------------------
(* The invariant holds *)

LEMMA OneFile ==
    /\ ToSet(<<>>) = {}
    /\ \A x : ToSet(<<x>>) = {x}
  BY DEF ToSet

LEMMA InitInv == Init => ManifestInv /\ CrashInv /\ BloomInv
  <1> SUFFICES ASSUME Init PROVE ManifestInv /\ CrashInv /\ BloomInv
    OBVIOUS
  <1>1. FileOK(log) /\ written \in 0..MaxWrites
    BY LegacyOK DEF Init
  <1>2. Good(state)
    BY <1>1 DEF Init, FileOK
  <1>3. FilesOK
    BY <1>1, OneFile DEF Init, FilesOK
  <1>4. RebuildOK
    BY DEF Init, RebuildOK
  <1>5. PendingOK
    BY NoEntries DEF Init, PendingOK, AppendOK, NoSst
  <1>6. Counters
    <2>1. spoiled \in BOOLEAN
      BY Zenon DEF Init
    <2> QED
      BY <1>1, <2>1, ManifestAssumption DEF Init, Counters
  <1>7. CrashInv
    BY DEF Init, CrashInv
  <1>8. BloomInv
    BY DEF Init, BloomInv, Current, IndexFirst, Known, Match
  <1> QED
    BY <1>2, <1>3, <1>4, <1>5, <1>6, <1>7, <1>8 DEF ManifestInv

\* A step that leaves the files leaves them in order.
LEMMA FilesStay ==
    ASSUME FilesOK, log' = log, previous' = previous
    PROVE  FilesOK'
  BY DEF FilesOK

LEMMA OpenInv ==
    ASSUME ManifestInv, Open
    PROVE  ManifestInv'
  <1>1. PICK s : s = Replay(log)
    OBVIOUS
  <1>2. PICK old : old = {i \in {j \in s.active : s.sstables[j].bloom # "none"} :
                            s.sstables[i].bloom # "current"}
    OBVIOUS
  <1>3. /\ state' = s /\ stale' = old /\ count' = 0
        /\ pc' = (IF old = {} THEN "idle" ELSE "rebuild")
        /\ UNCHANGED <<log, previous, flushed, pending, written, appends, crashes, failures>>
    BY <1>1, <1>2 DEF Open
  <1>4. spoiled' \in BOOLEAN
    BY Zenon DEF Open
  <1>5. FileOK(log) /\ Good(s)
    BY <1>1 DEF ManifestInv, FilesOK, FileOK
  <1>6. FilesOK'
    BY <1>3, FilesStay DEF ManifestInv
  <1>7. \A i \in old : ToRebuild(i)'
    <2> SUFFICES ASSUME NEW i \in old PROVE ToRebuild(i)'
      OBVIOUS
    <2>1. i \in s.active /\ s.sstables[i].bloom # "current"
      BY <1>2
    <2>2. s.sstables[i].bloom = "legacy"
      BY <1>5, <2>1 DEF Good, Sst
    <2>3. s.sstables[i].info = i
      BY <1>5, <2>1, <2>2 DEF Good
    <2>4. IsOld(Whole(log.lines), i) /\ IsOld(Replay(log), i)
      BY <1>1, <1>5, <2>1, <2>2, <2>3 DEF FileOK, IsOld
    <2> QED
      BY <1>3, <2>1, <2>3, <2>4 DEF ToRebuild
  <1>8. RebuildOK'
    BY <1>3, <1>7 DEF RebuildOK
  <1>9. PendingOK'
    BY <1>3 DEF ManifestInv, PendingOK, AppendOK
  <1>10. Counters'
    BY <1>3, <1>4 DEF ManifestInv, Counters
  <1> QED
    BY <1>3, <1>5, <1>6, <1>8, <1>9, <1>10 DEF ManifestInv

LEMMA RebuildFailsInv ==
    ASSUME ManifestInv, NEW id \in stale, RebuildFails(id)
    PROVE  ManifestInv'
  <1>1. /\ pc = "rebuild" /\ stale' = stale \ {id}
        /\ failures < MaxFailures /\ failures' = failures + 1
        /\ pc' = (IF stale' = {} THEN "idle" ELSE "rebuild")
        /\ UNCHANGED <<log, previous, state, count, flushed, pending, written, appends,
                       crashes>>
    BY DEF RebuildFails, MayFail
  <1>2. spoiled' = spoiled
    BY DEF RebuildFails
  <1>3. FilesOK'
    BY <1>1, FilesStay DEF ManifestInv
  <1>4. RebuildOK'
    BY <1>1 DEF ManifestInv, RebuildOK, ToRebuild
  <1>5. PendingOK'
    BY <1>1 DEF ManifestInv, PendingOK, AppendOK
  <1>6. Counters'
    <2>1. spoiled' \in BOOLEAN
      BY <1>2, Zenon DEF ManifestInv, Counters
    <2> QED
      BY <1>1, <2>1, ManifestAssumption DEF ManifestInv, Counters
  <1> QED
    BY <1>1, <1>3, <1>4, <1>5, <1>6 DEF ManifestInv

\* What every begin of an append keeps.
LEMMA BeginInv ==
    ASSUME ManifestInv, NEW e, BeginAppend(e), written' \in 0..MaxWrites,
           pc # "closed", stale' \subseteq stale
    PROVE  /\ Good(state)' /\ FilesOK' /\ Counters'
           /\ state' = state /\ log' = log /\ pending' = e /\ pc' = "append"
           /\ \A i \in stale' : ToRebuild(i)'
  <1>1. /\ appends < MaxAppends /\ appends' = appends + 1 /\ pending' = e /\ pc' = "append"
        /\ UNCHANGED <<log, previous, state, count, crashes, failures>>
    BY DEF BeginAppend
  <1>2. spoiled' = spoiled
    BY DEF BeginAppend
  <1>3. FilesOK'
    BY <1>1, FilesStay DEF ManifestInv
  <1>4. \A i \in stale' : ToRebuild(i)'
    BY <1>1 DEF ManifestInv, RebuildOK, ToRebuild
  <1>5. Counters'
    <2>1. spoiled' \in BOOLEAN
      BY <1>2, Zenon DEF ManifestInv, Counters
    <2> QED
      BY <1>1, <2>1, ManifestAssumption DEF ManifestInv, Counters
  <1> QED
    BY <1>1, <1>3, <1>4, <1>5 DEF ManifestInv

LEMMA RebuildBloomInv ==
    ASSUME ManifestInv, NEW id \in stale, RebuildBloom(id)
    PROVE  ManifestInv'
  <1>1. PICK n : n = state.sstables[id].info
    OBVIOUS
  <1>2. PICK e : e = UpdateBloom(id, n)
    OBVIOUS
  <1>3. /\ pc = "rebuild" /\ stale' = stale \ {id} /\ BeginAppend(e)
        /\ UNCHANGED <<flushed, written>>
    BY <1>1, <1>2 DEF RebuildBloom
  <1>4. ToRebuild(id) /\ n = id
    BY <1>1 DEF ManifestInv, RebuildOK, ToRebuild
  <1>5. id \in Nat
    BY <1>4 DEF ManifestInv, Good, ToRebuild
  <1>6. e = [type |-> "update_bloom", seq |-> 0, id |-> id, info |-> id, bloom |-> "current",
             ids |-> {}]
    BY <1>2, <1>4 DEF UpdateBloom
  <1>7. e.type = "update_bloom" /\ e.id = id /\ e.info = id /\ e.bloom = "current"
    BY <1>6
  <1>8. e \in Line
    BY <1>5, <1>6, ManifestAssumption DEF Line, EntryTypes
  <1>9. written' \in 0..MaxWrites
    BY <1>3 DEF ManifestInv, Counters
  <1>10. /\ Good(state)' /\ FilesOK' /\ Counters'
         /\ state' = state /\ log' = log /\ pending' = e /\ pc' = "append"
         /\ \A i \in stale' : ToRebuild(i)'
    BY <1>3, <1>9, BeginInv
  <1>11. RebuildOK'
    BY <1>7, <1>10 DEF RebuildOK
  <1>12. ToRebuild(id)'
    BY <1>4, <1>10 DEF ToRebuild
  <1>13. AppendOK'
    BY <1>7, <1>10, <1>12 DEF AppendOK, EntryTypes
  <1>14. PendingOK'
    BY <1>3, <1>8, <1>10, <1>13 DEF ManifestInv, PendingOK
  <1> QED
    BY <1>10, <1>11, <1>14 DEF ManifestInv

LEMMA AppendFlushInv ==
    ASSUME ManifestInv, AppendFlush
    PROVE  ManifestInv'
  <1>1. PICK id : id = NextSstId
    OBVIOUS
  <1>2. PICK e : e = Flush(written + 1, id, written + 1, "current")
    OBVIOUS
  <1>3. /\ pc = "idle" /\ written < MaxWrites /\ written' = written + 1 /\ BeginAppend(e)
        /\ flushed' = [id |-> id, info |-> written + 1] /\ stale' = stale
    BY <1>1, <1>2 DEF AppendFlush
  <1>4. id \in Nat \ {0} /\ id \notin state.active
    BY <1>1, FreshId DEF ManifestInv
  <1>5. written + 1 \in 0..MaxWrites /\ written + 1 \in Nat
    BY <1>3, ManifestAssumption DEF ManifestInv, Counters
  <1>6. /\ e \in Line /\ e.type = "flush" /\ e.id = id /\ e.info = written + 1
        /\ e.bloom = "current"
    <2>1. PICK n : n = written + 1
      OBVIOUS
    <2>2. n \in 0..MaxWrites /\ n \in Nat /\ e = Flush(n, id, n, "current")
      BY <1>2, <1>5, <2>1
    <2> QED
      BY <1>4, <2>1, <2>2, FlushEntry
  <1>7. stale' = {}
    BY <1>3 DEF ManifestInv, RebuildOK
  <1>8. /\ Good(state)' /\ FilesOK' /\ Counters'
        /\ state' = state /\ log' = log /\ pending' = e /\ pc' = "append"
    BY <1>3, <1>5, BeginInv
  <1>9. flushed' \in [id : Nat, info : Nat] /\ flushed'.id = id /\ flushed'.info = written + 1
    BY <1>3, <1>4, <1>5
  <1>10. AppendOK'
    BY <1>4, <1>6, <1>8, <1>9 DEF AppendOK, EntryTypes
  <1>11. PendingOK'
    BY <1>6, <1>8, <1>9, <1>10 DEF PendingOK
  <1>12. RebuildOK'
    BY <1>7 DEF RebuildOK
  <1> QED
    BY <1>8, <1>11, <1>12 DEF ManifestInv

LEMMA AppendCheckpointInv ==
    ASSUME ManifestInv, AppendCheckpoint
    PROVE  ManifestInv'
  <1>1. PICK e : e = Checkpoint(pending.seq)
    OBVIOUS
  <1>2. /\ pc = "checkpoint" /\ BeginAppend(e)
        /\ UNCHANGED <<stale, flushed, written>>
    BY <1>1 DEF AppendCheckpoint
  <1>3. pending \in Line /\ pending.type = "flush"
    BY <1>2 DEF ManifestInv, PendingOK
  <1>4. pending.seq \in 0..MaxWrites
    BY <1>3, EntryFields DEF EntryTypes
  <1>5. e = [type |-> "checkpoint", seq |-> pending.seq, id |-> 0, info |-> 0,
             bloom |-> "none", ids |-> {}]
    BY <1>1 DEF Checkpoint
  <1>6. e \in Line /\ e.type = "checkpoint" /\ e.bloom = "none"
    BY <1>4, <1>5 DEF Line, EntryTypes
  <1>7. stale' = {}
    BY <1>2 DEF ManifestInv, RebuildOK
  <1>8. written' \in 0..MaxWrites
    BY <1>2 DEF ManifestInv, Counters
  <1>9. /\ Good(state)' /\ FilesOK' /\ Counters'
        /\ state' = state /\ log' = log /\ pending' = e /\ pc' = "append"
    BY <1>2, <1>8, BeginInv
  <1>10. AppendOK'
    BY <1>6, <1>9 DEF AppendOK, EntryTypes
  <1>11. PendingOK'
    BY <1>2, <1>6, <1>9, <1>10 DEF ManifestInv, PendingOK
  <1>12. RebuildOK'
    BY <1>7 DEF RebuildOK
  <1> QED
    BY <1>9, <1>11, <1>12 DEF ManifestInv

\* The fields of a merge's entry.
LEMMA CompactionEntry ==
    ASSUME NEW ids \in SUBSET Nat, NEW id \in Nat, NEW n \in Nat,
           NEW e, e = Compaction(ids, id, n)
    PROVE  /\ e \in Line /\ e.type = "compaction" /\ e.id = id /\ e.info = n
           /\ e.bloom = "current" /\ e.ids = ids
  <1>1. e = [type |-> "compaction", seq |-> 0, id |-> id, info |-> n, bloom |-> "current",
             ids |-> ids]
    BY DEF Compaction
  <1> QED
    BY <1>1, ManifestAssumption DEF Line, EntryTypes

LEMMA AppendCompactionInv ==
    ASSUME ManifestInv, AppendCompaction
    PROVE  ManifestInv'
  <1>1. PICK id : id = NextSstId
    OBVIOUS
  <1>2. PICK n : n = written + 1
    OBVIOUS
  <1>3. PICK removed \in SUBSET state.active : BeginAppend(Compaction(removed, id, n))
    BY <1>1, <1>2 DEF AppendCompaction
  <1>4. PICK e : e = Compaction(removed, id, n)
    OBVIOUS
  <1>5. /\ pc = "idle" /\ written < MaxWrites /\ written' = n /\ BeginAppend(e)
        /\ UNCHANGED <<stale, flushed>>
    BY <1>2, <1>3, <1>4 DEF AppendCompaction
  <1>6. id \in Nat \ {0} /\ id \notin state.active
    BY <1>1, FreshId DEF ManifestInv
  <1>7. n \in 0..MaxWrites /\ n \in Nat /\ removed \in SUBSET Nat
    BY <1>2, <1>3, <1>5, ManifestAssumption DEF ManifestInv, Counters, Good
  <1>8. e \in Line /\ e.type = "compaction" /\ e.id = id /\ e.bloom = "current"
    BY <1>4, <1>6, <1>7, CompactionEntry
  <1>9. stale' = {}
    BY <1>5 DEF ManifestInv, RebuildOK
  <1>10. /\ Good(state)' /\ FilesOK' /\ Counters'
         /\ state' = state /\ log' = log /\ pending' = e /\ pc' = "append"
    BY <1>5, <1>7, BeginInv
  <1>11. AppendOK'
    BY <1>6, <1>8, <1>10 DEF AppendOK, EntryTypes
  <1>12. PendingOK'
    BY <1>5, <1>8, <1>10, <1>11 DEF ManifestInv, PendingOK
  <1>13. RebuildOK'
    BY <1>9 DEF RebuildOK
  <1> QED
    BY <1>10, <1>12, <1>13 DEF ManifestInv

LEMMA AppendGcDeleteInv ==
    ASSUME ManifestInv, AppendGcDelete
    PROVE  ManifestInv'
  <1>1. PICK id \in state.active : BeginAppend(GcDeleteSst(id))
    BY DEF AppendGcDelete
  <1>2. PICK e : e = GcDeleteSst(id)
    OBVIOUS
  <1>3. pc = "idle" /\ BeginAppend(e) /\ UNCHANGED <<stale, flushed, written>>
    BY <1>1, <1>2 DEF AppendGcDelete
  <1>4. id \in Nat
    BY DEF ManifestInv, Good
  <1>5. e = [type |-> "gc_delete_sst", seq |-> 0, id |-> id, info |-> 0, bloom |-> "none",
             ids |-> {id}]
    BY <1>2 DEF GcDeleteSst
  <1>6. e \in Line /\ e.type = "gc_delete_sst" /\ e.bloom = "none"
    BY <1>4, <1>5, ManifestAssumption DEF Line, EntryTypes
  <1>7. stale' = {}
    BY <1>3 DEF ManifestInv, RebuildOK
  <1>8. written' \in 0..MaxWrites
    BY <1>3 DEF ManifestInv, Counters
  <1>9. /\ Good(state)' /\ FilesOK' /\ Counters'
        /\ state' = state /\ log' = log /\ pending' = e /\ pc' = "append"
    BY <1>3, <1>8, BeginInv
  <1>10. AppendOK'
    BY <1>6, <1>9 DEF AppendOK, EntryTypes
  <1>11. PendingOK'
    BY <1>3, <1>6, <1>9, <1>10 DEF ManifestInv, PendingOK
  <1>12. RebuildOK'
    BY <1>7 DEF RebuildOK
  <1> QED
    BY <1>9, <1>11, <1>12 DEF ManifestInv

\* The entry being appended fits the state, and whatever the file replays to.
LEMMA PendingApplies ==
    ASSUME ManifestInv, pc = "append"
    PROVE  /\ Applies(state, pending)
           /\ Applies(Whole(log.lines), pending)
           /\ pending.type \in EntryTypes /\ pending.bloom # "legacy"
           /\ log \in File /\ FileOK(log)
  <1>1. /\ pending \in Line /\ pending.type \in EntryTypes /\ pending.bloom # "legacy"
        /\ pending.type \in {"flush", "compaction"} =>
              pending.id # 0 /\ pending.bloom = "current"
        /\ pending.type = "update_bloom" =>
              pending.bloom = "current" /\ pending.info = pending.id /\ ToRebuild(pending.id)
    BY DEF ManifestInv, PendingOK, AppendOK
  <1>2. Applies(state, pending)
    BY <1>1 DEF Applies, ToRebuild
  <1>3. Applies(Whole(log.lines), pending)
    BY <1>1 DEF Applies, ToRebuild, IsOld
  <1>4. FileOK(log) /\ log \in File
    BY DEF ManifestInv, FilesOK, FileOK, File
  <1> QED
    BY <1>1, <1>2, <1>3, <1>4

\* Whatever the write of a rebuilt filter did, the SSTs still to be rebuilt are
\* those of the older version.
LEMMA WroteOld ==
    ASSUME ManifestInv, pc = "append", pending.type = "update_bloom",
           NEW i, ToRebuild(i), NEW how \in HowFar, NEW w, w = Wrote(log, pending, how)
    PROVE  IsOld(Whole(w.lines), i) /\ IsOld(Replay(w), i)
  <1>1. PICK x : x = Whole(log.lines)
    OBVIOUS
  <1>2. PICK y : y = ApplyEntry(x, pending)
    OBVIOUS
  <1>3. Good(x) /\ Applies(x, pending) /\ log \in File /\ pending \in Line
    BY <1>1, PendingApplies DEF FileOK, Applies
  <1>4. IsOld(x, i) /\ IsOld(Replay(log), i)
    BY <1>1 DEF ToRebuild
  <1>5. y.active = x.active /\ \A j \in x.active : y.sstables[j].info = x.sstables[j].info
    BY <1>2, <1>3, ApplyUpdate
  <1>6. IsOld(y, i)
    BY <1>4, <1>5 DEF IsOld
  <1>7. \/ w = log
        \/ Whole(w.lines) = x /\ Replay(w) = x
        \/ Replay(w) = y /\ (Whole(w.lines) = x \/ Whole(w.lines) = y)
    BY <1>1, <1>2, <1>3, WroteCases
  <1> QED
    BY <1>1, <1>4, <1>6, <1>7

\* The counters after an append, done or failed.
LEMMA AppendEnds ==
    ASSUME ManifestInv, pc = "append", count' \in Nat,
           failures' = failures \/ (failures < MaxFailures /\ failures' = failures + 1),
           spoiled' \in BOOLEAN, pc' \in {"checkpoint", Callers},
           pending.type # "flush" => pc' = Callers,
           UNCHANGED <<stale, pending, written, appends, crashes>>,
           pc' = "checkpoint" => pending.type = "flush"
    PROVE  /\ Counters'
           /\ stale' # {} => pending.type = "update_bloom" /\ pc' = "rebuild"
           /\ pc' \in {"checkpoint", "idle", "rebuild"}
  <1>1. stale # {} => pending.type = "update_bloom"
    BY DEF ManifestInv, RebuildOK
  <1>2. stale' # {} => pending.type = "update_bloom" /\ pc' = "rebuild"
    BY <1>1 DEF Callers
  <1>3. pc' \in {"checkpoint", "idle", "rebuild"} /\ (pc' = "rebuild" => stale' # {})
    BY DEF Callers
  <1> QED
    BY <1>2, <1>3, ManifestAssumption DEF ManifestInv, Counters

LEMMA AppendDoneInv ==
    ASSUME ManifestInv, AppendDone
    PROVE  ManifestInv'
  <1>1. /\ pc = "append" /\ log' = Wrote(log, pending, "line") /\ previous' = <<>>
        /\ state' = ApplyEntry(state, pending) /\ count' = count + 1
        /\ pc' = (IF pending.type = "flush" THEN "checkpoint" ELSE Callers)
        /\ UNCHANGED <<stale, flushed, pending, written, appends, crashes, failures>>
    BY DEF AppendDone
  <1>2. spoiled' \in BOOLEAN
    BY Zenon DEF AppendDone
  <1>3. /\ Applies(state, pending) /\ Applies(Whole(log.lines), pending)
        /\ pending.type \in EntryTypes /\ pending.bloom # "legacy"
        /\ log \in File /\ FileOK(log)
    BY <1>1, PendingApplies
  <1>4. PICK w : w = Wrote(log, pending, "line")
    OBVIOUS
  <1>5. "line" \in HowFar
    BY DEF HowFar
  <1>6. FilesOK'
    <2>1. FileOK(w)
      BY <1>3, <1>4, <1>5, WroteOK
    <2> QED
      BY <1>1, <1>4, <2>1, OneFile DEF FilesOK
  <1>7. Good(state)'
    BY <1>1, <1>3, ApplyGood DEF ManifestInv
  <1>8. count' \in Nat
    BY <1>1 DEF ManifestInv, Counters
  <1>9. /\ Counters'
        /\ stale' # {} => pending.type = "update_bloom" /\ pc' = "rebuild"
        /\ pc' \in {"checkpoint", "idle", "rebuild"}
    <2>1. pc' \in {"checkpoint", Callers} /\ (pending.type # "flush" => pc' = Callers)
      BY <1>1
    <2>2. pc' = "checkpoint" => pending.type = "flush"
      BY <1>1 DEF Callers
    <2> QED
      BY <1>1, <1>2, <1>8, <2>1, <2>2, AppendEnds
  <1>10. RebuildOK'
    <2>1. ASSUME NEW i \in stale' PROVE ToRebuild(i)'
      <3>1. pending.type = "update_bloom" /\ i \in stale
        BY <1>1, <1>9, <2>1
      <3>2. ToRebuild(i)
        BY <3>1 DEF ManifestInv, RebuildOK
      <3>3. IsOld(Whole(w.lines), i) /\ IsOld(Replay(w), i)
        BY <1>1, <1>4, <1>5, <3>1, <3>2, WroteOld
      <3>4. /\ state'.active = state.active
            /\ \A j \in state.active : state'.sstables[j].info = state.sstables[j].info
        BY <1>1, <1>3, <3>1, ApplyUpdate DEF ManifestInv
      <3> QED
        BY <1>1, <1>4, <3>2, <3>3, <3>4 DEF ToRebuild
    <2> QED
      BY <1>9, <2>1 DEF RebuildOK
  <1>11. PendingOK'
    <2>1. pc' = "checkpoint" => pending.type = "flush"
      BY <1>1 DEF Callers
    <2>2. pending' \in Line /\ flushed' \in [id : Nat, info : Nat]
      BY <1>1 DEF ManifestInv, PendingOK
    <2> QED
      BY <1>1, <1>9, <2>1, <2>2 DEF PendingOK, AppendOK
  <1> QED
    BY <1>6, <1>7, <1>9, <1>10, <1>11 DEF ManifestInv

LEMMA AppendFailsInv ==
    ASSUME ManifestInv, AppendFails
    PROVE  ManifestInv'
  <1>1. PICK how \in HowFar : log' = Wrote(log, pending, how)
    BY DEF AppendFails
  <1>2. /\ pc = "append" /\ failures < MaxFailures /\ failures' = failures + 1
        /\ pc' = Callers
        /\ UNCHANGED <<previous, state, count, stale, pending, written, appends, crashes>>
    BY DEF AppendFails, MayFail
  <1>3. spoiled' \in BOOLEAN
    BY Zenon DEF AppendFails
  <1>4. /\ Applies(Whole(log.lines), pending)
        /\ pending.type \in EntryTypes /\ pending.bloom # "legacy"
        /\ log \in File /\ FileOK(log)
    BY <1>2, PendingApplies
  <1>5. PICK w : w = Wrote(log, pending, how)
    OBVIOUS
  <1>6. FilesOK'
    <2>1. FileOK(w)
      BY <1>4, <1>5, WroteOK
    <2> QED
      BY <1>1, <1>2, <1>5, <2>1 DEF ManifestInv, FilesOK
  <1>7. pc' \in {"idle", "rebuild"}
    BY <1>2 DEF Callers
  <1>8. /\ Counters'
        /\ stale' # {} => pending.type = "update_bloom" /\ pc' = "rebuild"
    <2>1. count' \in Nat
      BY <1>2 DEF ManifestInv, Counters
    <2> QED
      BY <1>2, <1>3, <1>7, <2>1, AppendEnds
  <1>9. RebuildOK'
    <2>1. ASSUME NEW i \in stale' PROVE ToRebuild(i)'
      <3>1. pending.type = "update_bloom" /\ i \in stale
        BY <1>2, <1>8, <2>1
      <3>2. ToRebuild(i)
        BY <3>1 DEF ManifestInv, RebuildOK
      <3>3. IsOld(Whole(w.lines), i) /\ IsOld(Replay(w), i)
        BY <1>2, <1>5, <3>1, <3>2, WroteOld
      <3> QED
        BY <1>1, <1>2, <1>5, <3>2, <3>3 DEF ToRebuild
    <2> QED
      BY <1>8, <2>1 DEF RebuildOK
  <1>10. PendingOK'
    <2>1. flushed' \in {flushed, NoSst} /\ NoSst \in [id : Nat, info : Nat]
      BY DEF AppendFails, NoSst
    <2> QED
      BY <1>2, <1>7, <2>1 DEF ManifestInv, PendingOK, AppendOK
  <1> QED
    BY <1>2, <1>6, <1>8, <1>9, <1>10 DEF ManifestInv

LEMMA FlushIndexesInv ==
    ASSUME ManifestInv, FlushIndexes
    PROVE  ManifestInv'
  <1>1. /\ UNCHANGED <<log, previous, state, count, stale, pc, pending, written, appends,
                       crashes, failures>>
        /\ flushed' = NoSst /\ flushed # NoSst
        /\ ~(pc = "append" /\ pending.type = "flush")
    BY DEF FlushIndexes, FlushAppends
  <1>2. spoiled' = spoiled
    BY DEF FlushIndexes
  <1>3. FilesOK'
    BY <1>1, FilesStay DEF ManifestInv
  <1>4. RebuildOK'
    BY <1>1 DEF ManifestInv, RebuildOK, ToRebuild
  <1>5. PendingOK'
    <2>1. flushed' \in [id : Nat, info : Nat]
      BY <1>1 DEF NoSst
    <2> QED
      BY <1>1, <2>1 DEF ManifestInv, PendingOK, AppendOK, ToRebuild
  <1>6. Counters'
    <2>1. spoiled' \in BOOLEAN
      BY <1>2, Zenon DEF ManifestInv, Counters
    <2>2. pc # "closed"
      BY <1>1 DEF ManifestInv, Counters
    <2> QED
      BY <1>1, <2>1, <2>2 DEF ManifestInv, Counters
  <1> QED
    BY <1>1, <1>3, <1>4, <1>5, <1>6 DEF ManifestInv

\* The renamed snapshot, as a file.
LEMMA Renamed ==
    ASSUME ManifestInv, SnapshotRename
    PROVE  FileOK(log') /\ Replay(log') = state
  <1>1. PICK order \in SetToSeqs(DOMAIN state.sstables) : log' = SnapshotLines(state, order)
    BY DEF SnapshotRename
  <1>2. PICK s : s = state
    OBVIOUS
  <1>3. PICK file : file = log'
    OBVIOUS
  <1>4. Good(s) /\ order \in SetToSeqs(DOMAIN s.sstables) /\ file = SnapshotLines(s, order)
    BY <1>1, <1>2, <1>3 DEF ManifestInv
  <1>5. file \in File /\ Whole(file.lines) = s /\ Replay(file) = s
    BY <1>4, SnapshotReplays
  <1>6. FileOK(file)
    BY <1>4, <1>5, SnapshotOK
  <1> QED
    BY <1>2, <1>3, <1>5, <1>6

LEMMA SnapshotInv ==
    ASSUME ManifestInv, SnapshotRename \/ SnapshotDone \/ SnapshotFails
    PROVE  ManifestInv'
  <1>1. CASE SnapshotRename
    <2>1. /\ pc = "idle" /\ previous' = <<log>> /\ pc' = "sync"
          /\ UNCHANGED <<state, count, stale, flushed, pending, written, appends, crashes,
                         failures>>
      BY <1>1 DEF SnapshotRename
    <2>2. spoiled' = spoiled
      BY <1>1 DEF SnapshotRename
    <2>3. FilesOK'
      <3>1. ToSet(previous') = {log}
        BY <2>1, OneFile
      <3> QED
        BY <1>1, <3>1, Renamed DEF ManifestInv, FilesOK
    <2>4. stale' = {}
      BY <2>1 DEF ManifestInv, RebuildOK
    <2>5. spoiled' \in BOOLEAN
      BY <2>2, Zenon DEF ManifestInv, Counters
    <2>6. Counters'
      BY <2>1, <2>5 DEF ManifestInv, Counters
    <2>7. PendingOK' /\ RebuildOK' /\ Good(state)'
      BY <2>1, <2>4 DEF ManifestInv, PendingOK, AppendOK, RebuildOK
    <2> QED
      BY <2>3, <2>6, <2>7 DEF ManifestInv
  <1>2. CASE SnapshotDone
    <2>1. /\ pc = "sync" /\ previous' = <<>> /\ pc' = "idle"
          /\ count' = Cardinality(DOMAIN state.sstables) + 1
          /\ UNCHANGED <<log, state, stale, flushed, pending, written, appends, crashes,
                         failures>>
      BY <1>2 DEF SnapshotDone
    <2>2. spoiled' \in BOOLEAN
      BY <1>2, Zenon DEF SnapshotDone
    <2>3. count' \in Nat
      <3>1. PICK b \in Nat : state.active \subseteq 1..b
        BY DEF ManifestInv, Good
      <3>2. PICK S : S = DOMAIN state.sstables
        OBVIOUS
      <3>3. S \in SUBSET (1..b)
        BY <3>1, <3>2 DEF ManifestInv, Good
      <3>4. IsFiniteSet(1..b)
        BY FS_Interval
      <3>5. IsFiniteSet(S)
        BY <3>3, <3>4, FS_Subset
      <3>6. Cardinality(S) \in Nat
        BY <3>5, FS_CardinalityType
      <3> QED
        BY <2>1, <3>2, <3>6
    <2>4. FilesOK'
      BY <2>1, OneFile DEF ManifestInv, FilesOK
    <2>5. stale' = {}
      BY <2>1 DEF ManifestInv, RebuildOK
    <2>6. Counters'
      BY <2>1, <2>2, <2>3 DEF ManifestInv, Counters
    <2>7. PendingOK' /\ RebuildOK' /\ Good(state)'
      BY <2>1, <2>5 DEF ManifestInv, PendingOK, AppendOK, RebuildOK
    <2> QED
      BY <2>4, <2>6, <2>7 DEF ManifestInv
  <1>3. CASE SnapshotFails
    <2>1. /\ pc = "sync" /\ pc' = "idle"
          /\ failures < MaxFailures /\ failures' = failures + 1
          /\ UNCHANGED <<log, previous, state, count, stale, flushed, pending, written,
                         appends, crashes>>
      BY <1>3 DEF SnapshotFails, MayFail
    <2>2. spoiled' = spoiled
      BY <1>3 DEF SnapshotFails
    <2>3. spoiled' \in BOOLEAN
      BY <2>2, Zenon DEF ManifestInv, Counters
    <2>4. FilesOK'
      BY <2>1, FilesStay DEF ManifestInv
    <2>5. stale' = {}
      BY <2>1 DEF ManifestInv, RebuildOK
    <2>6. Counters'
      BY <2>1, <2>3, ManifestAssumption DEF ManifestInv, Counters
    <2>7. PendingOK' /\ RebuildOK' /\ Good(state)'
      BY <2>1, <2>5 DEF ManifestInv, PendingOK, AppendOK, RebuildOK
    <2> QED
      BY <2>4, <2>6, <2>7 DEF ManifestInv
  <1> QED
    BY <1>1, <1>2, <1>3

LEMMA CrashStepInv ==
    ASSUME ManifestInv, Crash
    PROVE  ManifestInv'
  <1>1. /\ crashes < MaxCrashes /\ crashes' = crashes + 1
        /\ previous' = <<>> /\ pc' = "closed"
        /\ pending' = (IF pc = "append" THEN pending ELSE NoEntry)
        /\ blooms' = <<>> /\ stale' = {} /\ flushed' = NoSst
        /\ UNCHANGED <<state, count, written, appends, failures>>
    BY DEF Crash
  <1>2. spoiled' \in BOOLEAN
    BY Zenon DEF Crash
  <1>3. FileOK(log')
    <2>1. ASSUME NEW how \in HowFar, pc = "append", log' = Wrote(log, pending, how)
          PROVE  FileOK(log')
      <3>1. PICK w : w = Wrote(log, pending, how)
        OBVIOUS
      <3>2. FileOK(w)
        BY <2>1, <3>1, PendingApplies, WroteOK
      <3> QED
        BY <2>1, <3>1, <3>2
    <2>2. CASE log' = log
      BY <2>2 DEF ManifestInv, FilesOK
    <2>3. CASE \E file \in ToSet(previous) : log' = file
      BY <2>3 DEF ManifestInv, FilesOK
    <2> QED
      BY <2>1, <2>2, <2>3 DEF Crash
  <1>4. FilesOK'
    BY <1>1, <1>3, OneFile DEF FilesOK
  <1>5. RebuildOK'
    BY <1>1 DEF RebuildOK
  <1>6. PendingOK'
    <2>1. pending' \in Line
      BY <1>1, NoEntries DEF ManifestInv, PendingOK
    <2>2. flushed' \in [id : Nat, info : Nat]
      BY <1>1 DEF NoSst
    <2> QED
      BY <1>1, <2>1, <2>2 DEF PendingOK, AppendOK
  <1>7. Counters'
    BY <1>1, <1>2, ManifestAssumption DEF ManifestInv, Counters
  <1> QED
    BY <1>1, <1>4, <1>5, <1>6, <1>7 DEF ManifestInv

\* No step breaks the invariant.
LEMMA StepInv ==
    ASSUME ManifestInv, [Next]_vars
    PROVE  ManifestInv'
  <1>1. CASE Next
    BY <1>1, OpenInv, RebuildBloomInv, RebuildFailsInv, AppendFlushInv, AppendCheckpointInv,
       AppendCompactionInv, AppendGcDeleteInv, AppendDoneInv, AppendFailsInv, FlushIndexesInv,
       SnapshotInv, CrashStepInv DEF Next
  <1>2. CASE UNCHANGED vars
    <2>1. /\ UNCHANGED <<log, previous, state, count, blooms, stale, flushed, pc, pending,
                         written, appends, crashes, failures>>
      BY <1>2 DEF vars
    <2>2. spoiled' = spoiled
      BY <1>2 DEF vars
    <2>3. spoiled' \in BOOLEAN
      BY <2>2, Zenon DEF ManifestInv, Counters
    <2>4. Counters'
      BY <2>1, <2>3 DEF ManifestInv, Counters
    <2>5. FilesOK'
      BY <2>1, FilesStay DEF ManifestInv
    <2>6. RebuildOK'
      BY <2>1 DEF ManifestInv, RebuildOK, ToRebuild
    <2>7. PendingOK'
      BY <2>1 DEF ManifestInv, PendingOK, AppendOK, ToRebuild
    <2> QED
      BY <2>1, <2>4, <2>5, <2>6, <2>7 DEF ManifestInv
  <1> QED
    BY <1>1, <1>2

-----------------------------------------------------------------------------
(* A crash keeps the state *)

\* A step of an open manifest that touches neither the file nor the state.
LEMMA CrashStays ==
    ASSUME CrashInv, UNCHANGED <<log, previous, state>>, spoiled' = spoiled,
           pc # "closed", pc' # "closed", pc' = "sync" => pc = "sync"
    PROVE  CrashInv'
  <1>1. ~spoiled' => ~spoiled
    BY Zenon
  <1> QED
    BY <1>1 DEF CrashInv

LEMMA CrashInvBegins ==
    ASSUME CrashInv, NEW e, BeginAppend(e), pc # "closed"
    PROVE  CrashInv'
  <1>1. /\ UNCHANGED <<log, previous, state>> /\ pc' = "append"
    BY DEF BeginAppend
  <1>2. spoiled' = spoiled
    BY DEF BeginAppend
  <1> QED
    BY <1>1, <1>2, CrashStays

LEMMA CrashInvStep ==
    ASSUME ManifestInv, CrashInv, [Next]_vars
    PROVE  CrashInv'
  <1>1. CASE Open
    <2>1. /\ pc = "closed" /\ pc' \in {"idle", "rebuild"}
          /\ state' = Replay(log) /\ log' = log /\ previous' = previous
      BY <1>1 DEF Open
    <2>2. ToSet(previous') = {}
      BY <2>1, OneFile DEF ManifestInv, Counters
    <2> QED
      BY <2>1, <2>2 DEF CrashInv
  <1>2. ASSUME NEW id \in stale, RebuildBloom(id) PROVE CrashInv'
    BY <1>2, CrashInvBegins DEF RebuildBloom
  <1>3. ASSUME NEW id \in stale, RebuildFails(id) PROVE CrashInv'
    <2>1. /\ UNCHANGED <<log, previous, state>> /\ pc = "rebuild" /\ pc' \in {"idle", "rebuild"}
      BY <1>3 DEF RebuildFails
    <2>2. spoiled' = spoiled
      BY <1>3 DEF RebuildFails
    <2> QED
      BY <2>1, <2>2, CrashStays
  <1>4. CASE AppendFlush
    BY <1>4, CrashInvBegins DEF AppendFlush
  <1>5. CASE AppendCheckpoint
    BY <1>5, CrashInvBegins DEF AppendCheckpoint
  <1>6. CASE AppendCompaction
    BY <1>6, CrashInvBegins DEF AppendCompaction
  <1>7. CASE AppendGcDelete
    BY <1>7, CrashInvBegins DEF AppendGcDelete
  <1>8. CASE AppendDone
    <2>1. /\ pc = "append" /\ log' = Wrote(log, pending, "line") /\ previous' = <<>>
          /\ state' = ApplyEntry(state, pending)
          /\ pc' = (IF pending.type = "flush" THEN "checkpoint" ELSE Callers)
      BY <1>8 DEF AppendDone
    <2>2. pc' \in {"checkpoint", "idle", "rebuild"}
      BY <2>1 DEF Callers
    <2>3. ~spoiled' => ~spoiled /\ log.tail = NoEntry
      BY <1>8, Zenon DEF AppendDone
    <2>4. ASSUME ~spoiled' PROVE Replay(log') = state'
      <3>1. PICK w : w = Wrote(log, pending, "line")
        OBVIOUS
      <3>2. Replay(log) = state
        BY <2>1, <2>3, <2>4 DEF CrashInv
      <3>3. log \in File /\ pending \in Line
        BY <2>1, PendingApplies DEF Applies
      <3>4. Whole(log.lines) = state
        BY <2>3, <2>4, <3>2, <3>3, NoEntries, ReplayFile
      <3>5. Replay(w) = ApplyEntry(Whole(log.lines), pending)
        BY <2>3, <2>4, <3>1, <3>3, WroteCases DEF HowFar
      <3> QED
        BY <2>1, <3>1, <3>4, <3>5
    <2>5. ToSet(previous') = {}
      BY <2>1, OneFile
    <2> QED
      BY <2>2, <2>4, <2>5 DEF CrashInv
  <1>9. CASE AppendFails
    <2>1. pc' \in {"idle", "rebuild"}
      BY <1>9 DEF AppendFails, Callers
    <2>2. spoiled'
      BY <1>9, Zenon DEF AppendFails
    <2> QED
      BY <2>1, <2>2 DEF CrashInv
  <1>10. CASE SnapshotRename
    <2>1. Replay(log') = state /\ state' = state /\ pc' = "sync" /\ pc = "idle"
      BY <1>10, Renamed DEF SnapshotRename
    <2>2. ToSet(previous') = {log}
      BY <1>10, OneFile DEF SnapshotRename
    <2>3. ~spoiled' => ~spoiled
      BY <1>10, Zenon DEF SnapshotRename
    <2> QED
      BY <2>1, <2>2, <2>3 DEF CrashInv
  <1>11. CASE SnapshotDone
    <2>1. /\ pc = "sync" /\ pc' = "idle" /\ log' = log /\ state' = state
          /\ ToSet(previous') = {}
      BY <1>11, OneFile DEF SnapshotDone
    <2> QED
      BY <2>1 DEF CrashInv
  <1>12. CASE SnapshotFails
    <2>1. /\ UNCHANGED <<log, previous, state>> /\ pc = "sync" /\ pc' = "idle"
      BY <1>12 DEF SnapshotFails
    <2>2. spoiled' = spoiled
      BY <1>12 DEF SnapshotFails
    <2> QED
      BY <2>1, <2>2, CrashStays
  <1>13. CASE Crash
    <2>1. /\ pc # "closed" /\ pc' = "closed" /\ state' = state
          /\ pending' = (IF pc = "append" THEN pending ELSE NoEntry)
      BY <1>13 DEF Crash
    <2>2. ~spoiled' => ~spoiled /\ (pc = "append" => log.tail = NoEntry)
      BY <1>13, Zenon DEF Crash
    <2>3. ASSUME ~spoiled' PROVE Replay(log') \in {state, ApplyEntry(state, pending')}
      <3>1. /\ Replay(log) = state
            /\ \A file \in ToSet(previous) : Replay(file) = state
        BY <2>1, <2>2, <2>3 DEF CrashInv
      <3>2. ASSUME NEW how \in HowFar, pc = "append", log' = Wrote(log, pending, how)
            PROVE  Replay(log') \in {state, ApplyEntry(state, pending')}
        <4>1. PICK w : w = Wrote(log, pending, how)
          OBVIOUS
        <4>2. log \in File /\ pending \in Line
          BY <3>2, PendingApplies DEF Applies
        <4>3. Whole(log.lines) = state
          BY <2>2, <2>3, <3>1, <3>2, <4>2, NoEntries, ReplayFile
        <4>4. \/ w = log
              \/ Replay(w) = Whole(log.lines)
              \/ Replay(w) = ApplyEntry(Whole(log.lines), pending)
          BY <4>1, <4>2, WroteCases
        <4> QED
          BY <2>1, <3>1, <3>2, <4>1, <4>3, <4>4
      <3>3. CASE log' = log
        BY <3>1, <3>3
      <3>4. CASE \E file \in ToSet(previous) : log' = file
        BY <3>1, <3>4
      <3> QED
        BY <1>13, <3>2, <3>3, <3>4 DEF Crash
    <2> QED
      BY <2>1, <2>3 DEF CrashInv
  <1>14. CASE FlushIndexes \/ UNCHANGED vars
    <2>1. UNCHANGED <<log, previous, state, pc, pending>>
      BY <1>14 DEF FlushIndexes, vars
    <2>2. spoiled' = spoiled
      BY <1>14 DEF FlushIndexes, vars
    <2>3. ~spoiled' => ~spoiled
      BY <2>2, Zenon
    <2> QED
      BY <2>1, <2>3 DEF CrashInv
  <1> QED
    BY <1>1, <1>2, <1>3, <1>4, <1>5, <1>6, <1>7, <1>8, <1>9, <1>10, <1>11, <1>12, <1>13, <1>14
    DEF Next

\* A crash at any point of an append or of a snapshot, also one whose rename was
\* never synced: Manifest::open comes back to the state before it or to the one
\* with the entry that was being appended, for any number of entries, SSTs,
\* crashes and failing operations (unless an append failed before, or continued
\* an unterminated line, and no snapshot was made since).
THEOREM RestartKeepsState == Spec => CrashKeepsState
  <1>1. Init => ManifestInv /\ CrashInv
    BY InitInv
  <1>2. ManifestInv /\ CrashInv /\ [Next]_vars => (ManifestInv /\ CrashInv)'
    BY StepInv, CrashInvStep
  <1>3. ManifestInv /\ CrashInv /\ [Next]_vars =>
          [pc = "closed" /\ pc' # "closed" /\ ~spoiled =>
             state' \in {state, ApplyEntry(state, pending)}]_vars
    <2> SUFFICES ASSUME ManifestInv, CrashInv, [Next]_vars,
                        pc = "closed", pc' # "closed", ~spoiled
                 PROVE  state' \in {state, ApplyEntry(state, pending)}
      OBVIOUS
    <2>1. Next
      BY DEF vars
    <2>2. Open
      BY <2>1 DEF Next, RebuildBloom, RebuildFails, AppendFlush, AppendCheckpoint,
         AppendCompaction, AppendGcDelete, AppendDone, AppendFails, FlushIndexes,
         SnapshotRename, SnapshotDone, SnapshotFails, Crash
    <2>3. state' = Replay(log)
      BY <2>2 DEF Open
    <2> QED
      BY <2>3 DEF CrashInv
  <1> QED
    BY <1>1, <1>2, <1>3, PTL DEF Spec, CrashKeepsState

-----------------------------------------------------------------------------
(* The filters of the index *)

\* A step that leaves filters, state and failures, outside of an append.
LEMMA BloomsStay ==
    ASSUME BloomInv, UNCHANGED <<blooms, state, stale, flushed, overtaken>>,
           failures' \in {failures, failures + 1}, failures \in Nat,
           pc \notin {"append", "checkpoint"}, pc' \notin {"append", "checkpoint"}
    PROVE  BloomInv'
  <1>1. failures' = 0 => failures = 0
    OBVIOUS
  <1>2. failures' <= 1 => failures <= 1
    OBVIOUS
  <1>3. Current' /\ IndexFirst'
    BY DEF BloomInv, Current, IndexFirst
  <1>4. Known'
    BY <1>1 DEF BloomInv, Known
  <1>5. Match'
    BY <1>2 DEF BloomInv, Match
  <1> QED
    BY <1>3, <1>4, <1>5 DEF BloomInv

LEMMA FilterIs ==
    ASSUME NEW n
    PROVE  Filter(n).of = n /\ Filter(n).current = TRUE
  BY Zenon DEF Filter

LEMMA BloomOfIs ==
    ASSUME NEW v
    PROVE  BloomOf(v).of = v.of /\ (v.bloom = "current" => BloomOf(v).current = TRUE)
  <1>1. BloomOf(v).of = v.of
    BY DEF BloomOf
  <1>2. ASSUME v.bloom = "current" PROVE BloomOf(v).current = TRUE
    BY <1>2, Zenon DEF BloomOf
  <1> QED
    BY <1>1, <1>2

LEMMA BloomInvOpen ==
    ASSUME ManifestInv, BloomInv, Open
    PROVE  BloomInv'
  <1>1. PICK s : s = Replay(log)
    OBVIOUS
  <1>2. PICK with : with = {j \in s.active : s.sstables[j].bloom # "none"}
    OBVIOUS
  <1>3. /\ state' = s /\ blooms' = [i \in with |-> BloomOf(s.sstables[i])]
        /\ stale' = {i \in with : s.sstables[i].bloom # "current"}
        /\ pc' \in {"idle", "rebuild"}
    BY <1>1, <1>2 DEF Open
  <1>4. Good(s)
    BY <1>1 DEF ManifestInv, FilesOK, FileOK
  <1>5. DOMAIN blooms' = with /\ with \subseteq s.active /\ with \subseteq Nat
    BY <1>2, <1>3, <1>4 DEF Good
  <1>6. \A i \in with : blooms'[i] = BloomOf(s.sstables[i])
    BY <1>3
  <1>7. Current'
    BY <1>3, <1>5, <1>6, BloomOfIs DEF Current
  <1>8. IndexFirst' /\ Known'
    BY <1>3, <1>5 DEF IndexFirst, Known
  <1>9. Match'
    <2>1. \A i \in with : blooms'[i].of = s.sstables[i].info
      BY <1>4, <1>5, <1>6, BloomOfIs, ZenonT(60) DEF Good
    <2> QED
      BY <1>3, <1>5, <2>1 DEF Match
  <1> QED
    BY <1>5, <1>7, <1>8, <1>9 DEF BloomInv

LEMMA BloomInvBegins ==
    ASSUME ManifestInv, BloomInv, NEW e, BeginAppend(e), blooms' = blooms, pc # "append",
           e.ids = {}, e.type # "compaction",
           stale' = stale \/ (e.type = "update_bloom" /\ stale' = stale \ {e.id}),
           flushed' = flushed \/ flushed.id \notin state.active
    PROVE  BloomInv'
  <1>1. /\ pc' = "append" /\ pending' = e /\ state' = state /\ failures' = failures
        /\ overtaken' = overtaken
    BY DEF BeginAppend
  <1>2. Current'
    BY <1>1 DEF BloomInv, Current
  <1>3. IndexFirst'
    BY <1>1 DEF IndexFirst
  <1>4. Known'
    BY <1>1 DEF BloomInv, Known
  <1>5. Match'
    BY <1>1 DEF BloomInv, Match
  <1> QED
    BY <1>2, <1>3, <1>4, <1>5 DEF BloomInv

LEMMA BloomInvCompaction ==
    ASSUME ManifestInv, BloomInv, AppendCompaction
    PROVE  BloomInv'
  <1>1. PICK id : id = NextSstId
    OBVIOUS
  <1>2. PICK n : n = written + 1
    OBVIOUS
  <1>3. PICK removed \in SUBSET state.active :
            /\ BeginAppend(Compaction(removed, id, n))
            /\ blooms' = Set(Drop(blooms, removed), id, Filter(n))
    BY <1>1, <1>2 DEF AppendCompaction
  <1>4. PICK e : e = Compaction(removed, id, n)
    OBVIOUS
  <1>5. /\ pc = "idle" /\ pc' = "append" /\ pending' = e /\ state' = state
        /\ UNCHANGED <<failures, stale, flushed, overtaken>>
    BY <1>3, <1>4 DEF AppendCompaction, BeginAppend
  <1>6. id \in Nat /\ id \notin state.active /\ n \in Nat /\ removed \in SUBSET Nat
    BY <1>1, <1>2, <1>3, FreshId DEF ManifestInv, Good, Counters
  <1>7. e.type = "compaction" /\ e.id = id /\ e.info = n /\ e.ids = removed
    BY <1>4, <1>6, CompactionEntry
  <1>8. /\ DOMAIN blooms' = (DOMAIN blooms \ removed) \cup {id}
        /\ blooms'[id] = Filter(n)
        /\ \A i \in DOMAIN blooms' \ {id} : blooms'[i] = blooms[i]
    BY <1>3 DEF Set, Drop
  <1>9. Current'
    BY <1>5, <1>8, FilterIs, ZenonT(60) DEF BloomInv, Current
  <1>10. IndexFirst'
    BY <1>3, <1>5, <1>6, <1>7, <1>8, FilterIs, ZenonT(60) DEF IndexFirst
  <1>11. Known'
    BY <1>5, <1>7, <1>8 DEF BloomInv, Known
  <1>12. Match'
    BY <1>5, <1>6, <1>8 DEF BloomInv, Match
  <1> QED
    BY <1>6, <1>8, <1>9, <1>10, <1>11, <1>12 DEF BloomInv

LEMMA BloomInvGcDelete ==
    ASSUME ManifestInv, BloomInv, AppendGcDelete
    PROVE  BloomInv'
  <1>1. PICK id \in state.active :
            BeginAppend(GcDeleteSst(id)) /\ blooms' = Drop(blooms, {id})
    BY DEF AppendGcDelete
  <1>2. PICK e : e = GcDeleteSst(id)
    OBVIOUS
  <1>3. /\ pc = "idle" /\ pc' = "append" /\ pending' = e /\ state' = state
        /\ UNCHANGED <<failures, stale, flushed, overtaken>>
    BY <1>1, <1>2 DEF AppendGcDelete, BeginAppend
  <1>4. e.type = "gc_delete_sst" /\ e.ids = {id}
    BY <1>2 DEF GcDeleteSst
  <1>5. /\ DOMAIN blooms' = DOMAIN blooms \ {id}
        /\ \A i \in DOMAIN blooms' : blooms'[i] = blooms[i]
    BY <1>1 DEF Drop
  <1>6. Current'
    BY <1>3, <1>5 DEF BloomInv, Current
  <1>7. IndexFirst'
    BY <1>3, <1>4, <1>5 DEF IndexFirst
  <1>8. Known'
    BY <1>3, <1>5 DEF BloomInv, Known
  <1>9. Match'
    BY <1>3, <1>5 DEF BloomInv, Match
  <1> QED
    BY <1>5, <1>6, <1>7, <1>8, <1>9 DEF BloomInv

\* An entry that is applied without a new filter: all but a rebuilt one.
LEMMA BloomInvApplied ==
    ASSUME ManifestInv, BloomInv, AppendDone,
           pending.type \in {"flush", "checkpoint", "compaction", "gc_delete_sst"}
    PROVE  BloomInv'
  <1>1. /\ pc = "append" /\ state' = ApplyEntry(state, pending)
        /\ blooms' = BloomsAfter(pending)
        /\ pc' = (IF pending.type = "flush" THEN "checkpoint" ELSE Callers)
        /\ UNCHANGED <<stale, flushed, overtaken, pending, failures>>
    BY DEF AppendDone
  <1>2. blooms' = blooms
    BY <1>1 DEF BloomsAfter
  <1>3. Good(state) /\ Applies(state, pending) /\ pending.type \in EntryTypes
    BY <1>1, PendingApplies DEF ManifestInv
  <1>4. pc' # "append"
    BY <1>1 DEF Callers
  <1>5. Current'
    BY <1>1, <1>2 DEF BloomInv, Current
  <1>6. IndexFirst'
    BY <1>4 DEF IndexFirst
  <1>7. (DOMAIN blooms \ overtaken) \cap pending.ids = {}
    BY <1>1 DEF BloomInv, IndexFirst
  <1>8. CASE pending.type = "flush"
    <2>1. /\ state'.active = state.active \cup {pending.id}
          /\ \A i \in state.active \ {pending.id} : state'.sstables[i] = state.sstables[i]
      BY <1>1, <1>3, <1>8, ApplyFlush
    <2>2. pending.id = flushed.id /\ pending.id \notin state.active
      BY <1>1, <1>8 DEF ManifestInv, PendingOK, AppendOK
    <2>3. Known'
      BY <1>1, <1>2, <1>8, <2>1 DEF BloomInv, Known
    <2>4. failures = 0 => pending.id \notin DOMAIN blooms \ overtaken
      BY <1>8, <2>2 DEF BloomInv, Known
    <2>5. failures \in Nat
      BY DEF ManifestInv, Counters
    <2>6. Match'
      <3> SUFFICES ASSUME failures <= 1, NEW i \in DOMAIN blooms \ overtaken
                   PROVE  \/ i \in state'.active => blooms[i].of = state'.sstables[i].info
                          \/ failures = 1 /\ i = flushed.id
        BY <1>1, <1>2 DEF Match
      <3>1. CASE i = pending.id
        BY <2>2, <2>4, <2>5, <3>1
      <3>2. CASE i # pending.id
        BY <2>1, <3>2 DEF BloomInv, Match
      <3> QED
        BY <3>1, <3>2
    <2> QED
      BY <1>2, <1>5, <1>6, <2>3, <2>6 DEF BloomInv
  <1>9. CASE pending.type = "compaction"
    <2>1. /\ state'.active = (state.active \ pending.ids) \cup {pending.id}
          /\ state'.sstables[pending.id].info = pending.info
          /\ \A i \in (state.active \ pending.ids) \ {pending.id} :
                state'.sstables[i] = state.sstables[i]
      BY <1>1, <1>3, <1>9, ApplyCompaction
    <2>2. pending.id \in overtaken \/ blooms[pending.id].of = pending.info
      BY <1>1, <1>9 DEF BloomInv, IndexFirst
    <2>3. Known'
      BY <1>1, <1>2, <1>7, <1>9, <2>1 DEF BloomInv, Known
    <2>4. Match'
      <3> SUFFICES ASSUME failures <= 1, NEW i \in DOMAIN blooms \ overtaken,
                          i \in state'.active
                   PROVE  \/ blooms[i].of = state'.sstables[i].info
                          \/ failures = 1 /\ i = flushed.id
        BY <1>1, <1>2 DEF Match
      <3>1. \/ i \in state.active => blooms[i].of = state.sstables[i].info
            \/ failures = 1 /\ i = flushed.id
        BY DEF BloomInv, Match
      <3> QED
        BY <2>1, <2>2, <3>1
    <2> QED
      BY <1>2, <1>5, <1>6, <2>3, <2>4 DEF BloomInv
  <1>10. CASE pending.type = "gc_delete_sst"
    <2>1. /\ state'.active = state.active \ pending.ids
          /\ \A i \in state.active \ pending.ids : state'.sstables[i] = state.sstables[i]
      BY <1>1, <1>3, <1>10, ApplyGcDelete
    <2>2. Known'
      BY <1>1, <1>2, <1>7, <1>10, <2>1 DEF BloomInv, Known
    <2>3. Match'
      BY <1>1, <1>2, <2>1 DEF BloomInv, Match
    <2> QED
      BY <1>2, <1>5, <1>6, <2>2, <2>3 DEF BloomInv
  <1>11. CASE pending.type = "checkpoint"
    <2>1. state'.active = state.active /\ state'.sstables = state.sstables
      BY <1>1, <1>3, <1>11, ApplyCheckpoint
    <2>2. Known'
      BY <1>1, <1>2, <1>11, <2>1 DEF BloomInv, Known
    <2>3. Match'
      BY <1>1, <1>2, <2>1 DEF BloomInv, Match
    <2> QED
      BY <1>2, <1>5, <1>6, <2>2, <2>3 DEF BloomInv
  <1> QED
    BY <1>8, <1>9, <1>10, <1>11

\* A filter that is set.
LEMMA SetIs ==
    ASSUME NEW id, NEW n, blooms' = Set(blooms, id, Filter(n))
    PROVE  /\ DOMAIN blooms' = DOMAIN blooms \cup {id}
           /\ blooms'[id].of = n /\ blooms'[id].current = TRUE
           /\ \A i \in DOMAIN blooms \ {id} : blooms'[i] = blooms[i]
  <1>1. PICK f : f = Filter(n)
    OBVIOUS
  <1>2. /\ DOMAIN blooms' = DOMAIN blooms \cup {id}
        /\ blooms'[id] = f
        /\ \A i \in DOMAIN blooms \ {id} : blooms'[i] = blooms[i]
    BY <1>1 DEF Set
  <1>3. f.of = n /\ f.current = TRUE
    BY ONLY <1>1, FilterIs
  <1>4. blooms'[id].of = n /\ blooms'[id].current = TRUE
    BY ONLY <1>2, <1>3
  <1> QED
    BY <1>2, <1>4

\* Engine::open sets the filter it has rebuilt.
LEMMA BloomInvRebuilt ==
    ASSUME ManifestInv, BloomInv, AppendDone, pending.type = "update_bloom"
    PROVE  BloomInv'
  <1>1. /\ pc = "append" /\ UNCHANGED <<stale, flushed, overtaken, pending, failures>>
        /\ state' = ApplyEntry(state, pending)
        /\ pc' \in {"idle", "rebuild"}
    BY DEF AppendDone, Callers
  <1>2. PICK id, n : id = pending.id /\ n = pending.info
    OBVIOUS
  <1>3. blooms' = Set(blooms, id, Filter(n))
    BY <1>2 DEF AppendDone, BloomsAfter
  <1>4. Good(state) /\ Applies(state, pending) /\ pending.type \in EntryTypes
    BY <1>1, PendingApplies DEF ManifestInv
  <1>5. /\ state'.active = state.active
        /\ \A i \in state.active : state'.sstables[i].info = state.sstables[i].info
    BY <1>1, <1>4, ApplyUpdate
  <1>6. id \in state.active /\ state.sstables[id].info = n /\ id \in Nat
    BY <1>1, <1>2, <1>4 DEF ManifestInv, PendingOK, AppendOK, ToRebuild, Good
  <1>7. /\ DOMAIN blooms' = DOMAIN blooms \cup {id}
        /\ blooms'[id].of = n /\ blooms'[id].current = TRUE
        /\ \A i \in DOMAIN blooms \ {id} : blooms'[i] = blooms[i]
    BY <1>3, SetIs
  <1>8. Current'
    <2> SUFFICES ASSUME NEW i \in DOMAIN blooms', i # id, i \notin stale
                 PROVE  blooms'[i].current = TRUE
      BY <1>1, <1>7 DEF Current
    <2>1. blooms[i].current = TRUE
      BY <1>1, <1>2, <1>7 DEF BloomInv, Current
    <2> QED
      BY <1>7, <2>1
  <1>9. IndexFirst'
    BY <1>1 DEF IndexFirst
  <1>10. Known'
    BY <1>1, <1>5, <1>6, <1>7 DEF BloomInv, Known
  <1>11. Match'
    BY <1>1, <1>5, <1>6, <1>7 DEF BloomInv, Match
  <1> QED
    BY <1>6, <1>7, <1>8, <1>9, <1>10, <1>11 DEF BloomInv

LEMMA BloomInvDone ==
    ASSUME ManifestInv, BloomInv, AppendDone
    PROVE  BloomInv'
  <1>1. pending.type \in EntryTypes
    BY PendingApplies DEF AppendDone
  <1> QED
    BY <1>1, BloomInvApplied, BloomInvRebuilt DEF EntryTypes

\* do_flush sets its filter, whatever has happened to its SST in the meantime.
LEMMA BloomInvIndexes ==
    ASSUME ManifestInv, BloomInv, FlushIndexes
    PROVE  BloomInv'
  <1>1. PICK id, n : id = flushed.id /\ n = flushed.info
    OBVIOUS
  <1>2. /\ UNCHANGED <<state, stale, pc, pending, failures>>
        /\ blooms' = Set(blooms, id, Filter(n))
        /\ overtaken' = overtaken \cup (IF FlushedIsGone THEN {id} ELSE {})
    BY <1>1 DEF FlushIndexes
  <1>3. id \in Nat /\ n \in Nat
    BY <1>1 DEF ManifestInv, PendingOK
  <1>4. /\ DOMAIN blooms' = DOMAIN blooms \cup {id}
        /\ blooms'[id].of = n /\ blooms'[id].current = TRUE
        /\ \A i \in DOMAIN blooms \ {id} : blooms'[i] = blooms[i]
    BY <1>2, SetIs
  <1>5. id \notin overtaken' =>
          /\ id \in state.active /\ state.sstables[id].info = n
          /\ pc = "append" => id \notin pending.ids
    BY <1>1, <1>2 DEF FlushedIsGone, ManifestInv, Good
  <1>6. overtaken \subseteq overtaken'
    BY <1>2
  <1>7. Current'
    BY <1>2, <1>4 DEF BloomInv, Current
  <1>8. IndexFirst'
    <2>1. pc = "append" /\ pending.type = "compaction" => pending.id \notin state.active
      BY DEF ManifestInv, PendingOK, AppendOK
    <2> QED
      BY <1>2, <1>4, <1>5, <1>6, <2>1 DEF BloomInv, IndexFirst
  <1>9. Known'
    BY <1>2, <1>4, <1>5, <1>6 DEF BloomInv, Known
  <1>10. Match'
    BY <1>1, <1>2, <1>4, <1>5, <1>6 DEF BloomInv, Match
  <1> QED
    BY <1>3, <1>4, <1>7, <1>8, <1>9, <1>10 DEF BloomInv

\* A failing append or rebuild, the first one: the index loses a filter at most.
LEMMA BloomInvFails ==
    ASSUME ManifestInv, BloomInv, failures' = failures + 1,
           UNCHANGED <<state, overtaken, pending>>,
           DOMAIN blooms' \subseteq DOMAIN blooms,
           \A i \in DOMAIN blooms' : blooms'[i] = blooms[i],
           pc' # "append", Current'
    PROVE  BloomInv'
  <1>1. failures \in Nat
    BY DEF ManifestInv, Counters
  <1>2. Known' /\ IndexFirst'
    BY <1>1 DEF Known, IndexFirst
  <1>3. Match'
    <2> SUFFICES ASSUME failures' <= 1, NEW i \in DOMAIN blooms' \ overtaken,
                        i \in state.active
                 PROVE  blooms'[i].of = state.sstables[i].info
      BY DEF Match
    <2>1. failures = 0
      BY <1>1
    <2> QED
      BY <2>1 DEF BloomInv, Match
  <1> QED
    BY <1>2, <1>3 DEF BloomInv

LEMMA BloomInvStep ==
    ASSUME ManifestInv, BloomInv, [Next]_vars
    PROVE  BloomInv'
  <1>1. CASE Open
    BY <1>1, BloomInvOpen
  <1>2. ASSUME NEW id \in stale, RebuildBloom(id) PROVE BloomInv'
    <2>1. PICK e : e = UpdateBloom(id, state.sstables[id].info)
      OBVIOUS
    <2>2. e.type = "update_bloom" /\ e.ids = {} /\ e.id = id
      BY <2>1 DEF UpdateBloom
    <2>3. /\ pc = "rebuild" /\ BeginAppend(e) /\ blooms' = blooms /\ stale' = stale \ {e.id}
          /\ flushed' = flushed
      BY <1>2, <2>1, <2>2 DEF RebuildBloom
    <2> QED
      BY <2>2, <2>3, BloomInvBegins
  <1>3. ASSUME NEW id \in stale, RebuildFails(id) PROVE BloomInv'
    <2>1. /\ pc = "rebuild" /\ failures' = failures + 1
          /\ UNCHANGED <<state, overtaken, pending>>
          /\ blooms' = Drop(blooms, {id}) /\ stale' = stale \ {id} /\ pc' # "append"
      BY <1>3 DEF RebuildFails, StaleBloomGone
    <2>2. /\ DOMAIN blooms' = DOMAIN blooms \ {id}
          /\ \A i \in DOMAIN blooms' : blooms'[i] = blooms[i]
      BY <2>1 DEF Drop
    <2>3. Current'
      BY <2>1, <2>2 DEF BloomInv, Current
    <2> QED
      BY <2>1, <2>2, <2>3, BloomInvFails
  <1>4. CASE AppendFlush
    <2>1. PICK e : e = Flush(written + 1, NextSstId, written + 1, "current")
      OBVIOUS
    <2>2. e.type = "flush" /\ e.ids = {}
      BY <2>1 DEF Flush
    <2>3. /\ pc = "idle" /\ BeginAppend(e) /\ blooms' = blooms /\ stale' = stale
          /\ flushed.id = 0
      BY <1>4, <2>1 DEF AppendFlush, NoSst
    <2>4. 0 \notin state.active
      BY DEF ManifestInv, Good
    <2> QED
      BY <2>2, <2>3, <2>4, BloomInvBegins
  <1>5. CASE AppendCheckpoint
    <2>1. PICK e : e = Checkpoint(pending.seq)
      OBVIOUS
    <2>2. e.type = "checkpoint" /\ e.ids = {}
      BY <2>1 DEF Checkpoint
    <2>3. /\ pc = "checkpoint" /\ BeginAppend(e) /\ blooms' = blooms /\ stale' = stale
          /\ flushed' = flushed
      BY <1>5, <2>1 DEF AppendCheckpoint
    <2> QED
      BY <2>2, <2>3, BloomInvBegins
  <1>6. CASE AppendCompaction
    BY <1>6, BloomInvCompaction
  <1>7. CASE AppendGcDelete
    BY <1>7, BloomInvGcDelete
  <1>8. CASE AppendDone
    BY <1>8, BloomInvDone
  <1>9. CASE AppendFails
    <2>1. /\ pc = "append" /\ failures' = failures + 1
          /\ UNCHANGED <<state, stale, overtaken, pending>>
          /\ blooms' = (IF pending.type = "update_bloom" THEN Drop(blooms, {pending.id})
                        ELSE blooms)
          /\ pc' # "append"
      BY <1>9 DEF AppendFails, StaleBloomGone, Callers
    <2>2. /\ DOMAIN blooms' \subseteq DOMAIN blooms
          /\ \A i \in DOMAIN blooms' : blooms'[i] = blooms[i]
          /\ pending.type = "update_bloom" => pending.id \notin DOMAIN blooms'
      BY <2>1 DEF Drop
    <2>3. Current'
      BY <2>1, <2>2 DEF BloomInv, Current
    <2> QED
      BY <2>1, <2>2, <2>3, BloomInvFails
  <1>10. CASE SnapshotRename \/ SnapshotDone \/ SnapshotFails
    <2>1. /\ UNCHANGED <<blooms, state, stale, flushed, overtaken>>
          /\ failures' \in {failures, failures + 1}
          /\ pc \notin {"append", "checkpoint"} /\ pc' \notin {"append", "checkpoint"}
      BY <1>10 DEF SnapshotRename, SnapshotDone, SnapshotFails
    <2>2. failures \in Nat
      BY DEF ManifestInv, Counters
    <2> QED
      BY <2>1, <2>2, BloomsStay
  <1>11. CASE Crash
    <2>1. blooms' = <<>> /\ pc' = "closed"
      BY <1>11 DEF Crash
    <2>2. DOMAIN blooms' = {}
      BY <2>1
    <2> QED
      BY <2>1, <2>2 DEF BloomInv, Current, IndexFirst, Known, Match
  <1>12. CASE UNCHANGED vars
    <2>1. UNCHANGED <<state, blooms, stale, flushed, overtaken, pc, pending, failures>>
      BY <1>12 DEF vars
    <2> QED
      BY <2>1 DEF BloomInv, Current, IndexFirst, Known, Match
  <1>13. CASE FlushIndexes
    BY <1>13, BloomInvIndexes
  <1> QED
    BY <1>1, <1>2, <1>3, <1>4, <1>5, <1>6, <1>7, <1>8, <1>9, <1>10, <1>11, <1>12, <1>13
    DEF Next

\* The three invariants of the manifest's proofs, in every reachable state.
LEMMA Invariants == Spec => [](ManifestInv /\ BloomInv)
  <1>1. Init => ManifestInv /\ BloomInv
    BY InitInv
  <1>2. ManifestInv /\ BloomInv /\ [Next]_vars => (ManifestInv /\ BloomInv)'
    BY StepInv, BloomInvStep
  <1> QED
    BY <1>1, <1>2, PTL DEF Spec

\* The three maps of ManifestState describe the same SSTs in every reachable
\* state, also after a replay of torn and joined lines, and the counters keep
\* their bounds.
THEOREM TypesHold == Spec => []TypeOK
  <1>1. ManifestInv /\ BloomInv => TypeOK
    <2> SUFFICES ASSUME ManifestInv, BloomInv PROVE TypeOK
      OBVIOUS
    <2>1. spoiled \in BOOLEAN
      BY Zenon DEF ManifestInv, Counters
    <2>2. /\ state.active = DOMAIN state.sstables
          /\ state.blocks = [i \in DOMAIN state.sstables |-> state.sstables[i].info]
          /\ state.seq \in 0..MaxWrites
      BY DEF ManifestInv, Good
    <2>3. DOMAIN blooms \subseteq Nat /\ stale \subseteq state.active
      BY DEF ManifestInv, BloomInv, RebuildOK, ToRebuild
    <2> QED
      BY <2>1, <2>2, <2>3 DEF ManifestInv, Counters, TypeOK
  <1> QED
    BY <1>1, Invariants, PTL

\* With any number of legacy filters, failing rebuilds, crashes between them, ids
\* that are used again, and do_flush indexing its SST at any time after its
\* checkpoint: a filter of the index is current and was built from the SST that now
\* has the id, unless the flush was overtaken (with one failing operation, and then
\* not for the SST of a flush that has still to index it).
THEOREM FiltersSound == Spec => []BloomsSound
  <1>1. ManifestInv /\ BloomInv => BloomsSound
    <2> SUFFICES ASSUME ManifestInv, BloomInv, pc = "idle", failures <= 1,
                        NEW id \in DOMAIN blooms
                 PROVE  /\ blooms[id].current
                        /\ \/ id \in DOMAIN state.sstables =>
                                blooms[id].of = state.sstables[id].info
                           \/ id \in overtaken
                           \/ failures = 1 /\ id = flushed.id
      BY DEF BloomsSound
    <2>1. stale = {}
      BY DEF ManifestInv, RebuildOK
    <2>2. blooms[id].current = TRUE
      BY <2>1 DEF BloomInv, Current
    <2>3. DOMAIN state.sstables = state.active
      BY DEF ManifestInv, Good
    <2>4. \/ id \in DOMAIN state.sstables => blooms[id].of = state.sstables[id].info
          \/ id \in overtaken
          \/ failures = 1 /\ id = flushed.id
      BY <2>3 DEF BloomInv, Match
    <2> QED
      BY <2>2, <2>4, Zenon
  <1> QED
    BY <1>1, Invariants, PTL
=============================================================================
