------------------------ MODULE WritePipeline_proofs -------------------------
(***************************************************************************)
(* Proofs about the group-commit pipeline, for any set of threads, any     *)
(* number of submissions, both sync modes and with or without I/O faults.  *)
(***************************************************************************)
EXTENDS WritePipeline, Integers, TLAPS

-----------------------------------------------------------------------------
(* Type correctness *)

\* A sequence stays a sequence of submissions when one is pushed on it, and
\* its length grows by one: the step of Enqueue and WriteNext.
LEMMA AppendFacts ==
    ASSUME NEW S, NEW q \in Seq(S), NEW e \in S
    PROVE  /\ Append(q, e) \in Seq(S)
           /\ Len(Append(q, e)) = Len(q) + 1
           /\ \A i \in 1..Len(q) : Append(q, e)[i] = q[i]
           /\ Append(q, e)[Len(q) + 1] = e
  OBVIOUS

\* The variables of the pipeline keep their types in every reachable state, the
\* fsynced prefix never exceeds the log, and drain_and_process handles a group
\* exactly as long as its Vec is not empty, within the bounds of the Vec.
THEOREM TypeCorrect == Spec => []TypeOK
  <1>1. Init => TypeOK
    <2> SUFFICES ASSUME Init PROVE TypeOK
      OBVIOUS
    <2>1. <<>> \in Seq(Subs) /\ Len(<<>>) = 0
      OBVIOUS
    <2>2. count \in [Threads -> 0..MaxSubmits] /\ idx \in [Threads -> Nat \ {0}]
      BY PipelineAssumption DEF Init
    <2>3. pending \in [Threads -> Seq(Subs)] /\ pc \in [Threads -> Locations]
      BY <2>1 DEF Init, Locations
    <2>4. /\ done \in [Subs -> BOOLEAN]
          /\ error \in [Subs -> BOOLEAN]
          /\ ret \in [Subs -> {"none", "ok", "err"}]
          /\ result \in [Threads -> {"ok", "err"}]
          /\ committing \in BOOLEAN
          /\ worker \in Threads \cup {Other, Nobody}
      BY Zenon DEF Init
    <2>5. synced \in 0..Len(wal)
      BY <2>1 DEF Init
    <2>6. \A t \in Threads : /\ HandlesGroup(t) <=> pending[t] # <<>>
                             /\ idx[t] <= Len(pending[t]) + 1
      <3>1. ASSUME NEW t \in Threads
            PROVE  /\ HandlesGroup(t) <=> pending[t] # <<>>
                   /\ idx[t] <= Len(pending[t]) + 1
        <4>1. pc[t] = "idle" /\ pending[t] = <<>> /\ idx[t] = 1
          BY <3>1 DEF Init
        <4>2. Len(pending[t]) = 0
          BY <2>1, <4>1
        <4> QED
          BY <4>1, <4>2 DEF HandlesGroup
      <3> QED
        BY <3>1
    <2> QED
      BY <2>1, <2>2, <2>3, <2>4, <2>5, <2>6 DEF Init, TypeOK
  <1>2. TypeOK /\ [Next]_vars => TypeOK'
    <2> SUFFICES ASSUME TypeOK, [Next]_vars PROVE TypeOK'
      OBVIOUS
    <2> USE PipelineAssumption DEF TypeOK, Locations, Pushed, Role, Outcome,
                                   AfterGroup, AfterWrites, Fsynced, LoopEnds,
                                   HandlesGroup
    <2>1. ASSUME NEW t \in Threads, Enqueue(t) PROVE TypeOK'
      <3>1. Sub(t, count[t] + 1) \in Subs
        BY <2>1, SMTT(30) DEF Enqueue, Sub, Subs
      <3>2. count' \in [Threads -> 0..MaxSubmits]
        BY <2>1, SMTT(90) DEF Enqueue
      <3>3. queue' \in Seq(Subs) /\ arrivals' \in Seq(Subs)
        BY <2>1, <3>1 DEF Enqueue
      <3> QED
        BY <2>1, <3>2, <3>3 DEF Enqueue
    <2>2. ASSUME NEW t \in Threads, Elect(t) PROVE TypeOK'
      BY <2>2 DEF Elect
    <2>3. ASSUME NEW t \in Threads, Release(t) PROVE TypeOK'
      BY <2>3 DEF Release
    <2>4. ASSUME NEW t \in Threads, Return(t) PROVE TypeOK'
      BY <2>4 DEF Return
    <2>5. ASSUME NEW t \in Threads, Draining(t) PROVE TypeOK'
      <3>1. CASE TakeQueue(t)
        BY <3>1, SMTT(30) DEF TakeQueue
      <3>2. CASE QueueEmpty(t)
        BY <3>2 DEF QueueEmpty
      <3>3. CASE Signal(t)
        BY <3>3, SMTT(30) DEF Signal
      <3>4. CASE AllSignalled(t)
        BY <3>4, SMTT(30) DEF AllSignalled
      <3> QED
        BY <2>5, <3>1, <3>2, <3>3, <3>4 DEF Draining
    <2>6. ASSUME NEW t \in Threads, Processing(t) PROVE TypeOK'
      <3>1. CASE LockWorker(t)
        BY <3>1 DEF LockWorker
      <3>2. CASE WriteNext(t)
        <4>1. pending[t][idx[t]] \in Subs
          BY <3>2 DEF WriteNext
        <4>2. wal' \in Seq(Subs) /\ Len(wal') = Len(wal) + 1
          BY <3>2, <4>1 DEF WriteNext
        <4>3. synced' \in 0..Len(wal')
          BY <3>2, <4>2 DEF WriteNext
        <4>4. idx' \in [Threads -> Nat \ {0}]
          BY <3>2, SMTT(30) DEF WriteNext
        <4>5. \A u \in Threads : idx'[u] <= Len(pending'[u]) + 1
          BY <3>2, SMTT(90) DEF WriteNext
        <4> QED
          BY <3>2, <4>2, <4>3, <4>4, <4>5 DEF WriteNext
      <3>3. CASE WriteFails(t)
        BY <3>3, SMTT(30) DEF WriteFails, LeaveWorker
      <3>10. CASE RolloverFails(t)
        <4>1. pending[t][idx[t]] \in Subs
          BY <3>10 DEF RolloverFails
        <4>2. wal' \in Seq(Subs) /\ Len(wal') = Len(wal) + 1
          BY <3>10, <4>1 DEF RolloverFails
        <4>3. synced' \in 0..Len(wal')
          BY <3>10, <4>2 DEF RolloverFails
        <4>4. \A u \in Threads : /\ HandlesGroup(u)' <=> pending'[u] # <<>>
                                 /\ idx'[u] <= Len(pending'[u]) + 1
          BY <3>10, SMTT(30) DEF RolloverFails, LeaveWorker
        <4> QED
          BY <3>10, <4>2, <4>3, <4>4, SMTT(30) DEF RolloverFails, LeaveWorker
      <3>4. CASE GroupWritten(t)
        BY <3>4 DEF GroupWritten
      <3>5. CASE GroupSync(t)
        BY <3>5 DEF GroupSync
      <3>6. CASE GroupSyncFails(t)
        BY <3>6, SMTT(30) DEF GroupSyncFails, LeaveWorker
      <3>7. CASE NoFlush(t)
        BY <3>7, SMTT(30) DEF NoFlush, LeaveWorker
      <3>8. CASE GroupFlush(t)
        BY <3>8, SMTT(30) DEF GroupFlush, LeaveWorker
      <3>9. CASE GroupFlushFails(t)
        BY <3>9, SMTT(30) DEF GroupFlushFails, LeaveWorker
      <3> QED
        BY <2>6, <3>1, <3>2, <3>3, <3>4, <3>5, <3>6, <3>7, <3>8, <3>9, <3>10
        DEF Processing
    <2>7. CASE OtherLocks
      BY <2>7 DEF OtherLocks
    <2>8. CASE OtherRuns
      BY <2>8 DEF OtherRuns
    <2>9. CASE UNCHANGED vars
      BY <2>9 DEF vars
    <2> QED
      BY <2>1, <2>2, <2>3, <2>4, <2>5, <2>6, <2>7, <2>8, <2>9
      DEF Next, Submitting
  <1>3. QED
    BY <1>1, <1>2, PTL DEF Spec

-----------------------------------------------------------------------------
(* One leader *)

\* The compare-and-swap on committing elects at most one leader and the worker
\* mutex admits one thread to process_batch_group, in every reachable state.
THEOREM LeaderIsUnique == Spec => []OneLeader
  <1>1. Init => OneLeader
    BY DEF Init, OneLeader, Leading, InWorker
  <1>2. TypeOK /\ OneLeader /\ [Next]_vars => OneLeader'
    <2> SUFFICES ASSUME TypeOK, OneLeader, [Next]_vars PROVE OneLeader'
      OBVIOUS
    <2> USE PipelineAssumption DEF TypeOK, OneLeader, Leading, InWorker, Role,
                                   AfterGroup, AfterWrites
    <2>1. ASSUME NEW t \in Threads, Submitting(t) PROVE OneLeader'
      <3>1. CASE Enqueue(t)
        BY <3>1 DEF Enqueue
      <3>2. CASE Elect(t)
        BY <3>2, SMTT(90) DEF Elect
      <3>3. CASE Release(t)
        BY <3>3 DEF Release
      <3>4. CASE Return(t)
        BY <3>4 DEF Return
      <3> QED
        BY <2>1, <3>1, <3>2, <3>3, <3>4 DEF Submitting
    <2>2. ASSUME NEW t \in Threads, Draining(t) PROVE OneLeader'
      <3>1. CASE TakeQueue(t) \/ QueueEmpty(t) \/ AllSignalled(t)
        BY <3>1, ZenonT(60) DEF TakeQueue, QueueEmpty, AllSignalled
      <3>2. CASE Signal(t)
        BY <3>2 DEF Signal
      <3> QED
        BY <2>2, <3>1, <3>2 DEF Draining
    <2>3. ASSUME NEW t \in Threads, Processing(t) PROVE OneLeader'
      <3>1. CASE LockWorker(t)
        BY <3>1, SMTT(30) DEF LockWorker
      <3>2. CASE WriteNext(t) \/ GroupWritten(t) \/ GroupSync(t)
        BY <3>2, ZenonT(60) DEF WriteNext, GroupWritten, GroupSync
      <3>3. CASE \/ WriteFails(t) \/ RolloverFails(t) \/ GroupSyncFails(t) \/ NoFlush(t)
                 \/ GroupFlush(t) \/ GroupFlushFails(t)
        BY <3>3, ZenonT(60) DEF WriteFails, RolloverFails, GroupSyncFails, NoFlush, GroupFlush,
                    GroupFlushFails, LeaveWorker
      <3> QED
        BY <2>3, <3>1, <3>2, <3>3 DEF Processing
    <2>4. CASE OtherLocks
      BY <2>4 DEF OtherLocks
    <2>5. CASE OtherRuns
      BY <2>5 DEF OtherRuns
    <2>6. CASE UNCHANGED vars
      BY <2>6 DEF vars
    <2> QED
      BY <2>1, <2>2, <2>3, <2>4, <2>5, <2>6 DEF Next
  <1>3. QED
    BY <1>1, <1>2, TypeCorrect, PTL DEF Spec

-----------------------------------------------------------------------------
(* An answer Ok means committed *)

\* In the WAL and, under SyncMode::Always, in its fsynced prefix.
Safe(s) == \E i \in 1..Len(wal) : wal[i] = s /\ (Always => i <= synced)

\* What the leader has reached at each point of process_batch_group: the
\* submissions before idx are in the WAL, then all of them, then all safely.
GroupProgress ==
    \A t \in Threads : \A i \in 1..Len(pending[t]) :
        /\ pc[t] = "write" /\ i < idx[t] => InSeq(pending[t][i], wal)
        /\ pc[t] = "sync" => InSeq(pending[t][i], wal)
        /\ pc[t] = "flush" => Safe(pending[t][i])
        /\ pc[t] = "signal" /\ result[t] = "ok" => Safe(pending[t][i])

\* A completion that is signalled without an error and not collected yet, and
\* an answer Ok, belong to safe submissions.
AnswersAreSafe ==
    \A s \in Subs :
        /\ done[s] /\ ~error[s] /\ ret[s] = "none" => Safe(s)
        /\ ret[s] = "ok" => Safe(s)

\* A thread inside submit has an unanswered current submission, and the
\* submissions it has not started are unanswered.
CallsAreOpen ==
    \A t \in Threads :
        /\ pc[t] # "idle" => count[t] > 0
        /\ \A k \in 1..MaxSubmits :
            k > count[t] \/ (k = count[t] /\ pc[t] # "idle")
                => ret[<<t, k>>] = "none"

CommitInv == TypeOK /\ GroupProgress /\ AnswersAreSafe /\ CallsAreOpen

\* Once in the WAL or safe, always so: the WAL only grows, and so does its
\* fsynced prefix.
LEMMA SafeIsStable ==
    ASSUME TypeOK, NEW s,
           \/ UNCHANGED <<wal, synced>>
           \/ UNCHANGED wal /\ synced' \in {synced, Len(wal)}
           \/ UNCHANGED synced /\ \E e \in Subs : wal' = Append(wal, e)
    PROVE  /\ InSeq(s, wal) => InSeq(s, wal)'
           /\ Safe(s) => Safe(s)'
  <1>1. CASE UNCHANGED wal /\ synced' \in {synced, Len(wal)}
    <2>1. wal' = wal /\ (synced' = synced \/ synced' = Len(wal))
      BY <1>1
    <2>2. \A i \in 1..Len(wal) : i <= synced => i <= synced'
      BY <2>1 DEF TypeOK
    <2> QED
      BY <2>1, <2>2 DEF InSeq, Safe
  <1>2. CASE UNCHANGED synced /\ \E e \in Subs : wal' = Append(wal, e)
    <2>1. /\ Len(wal') = Len(wal) + 1
          /\ \A i \in 1..Len(wal) : wal'[i] = wal[i]
          /\ synced' = synced
      BY <1>2, AppendFacts DEF TypeOK
    <2>2. 1..Len(wal) \subseteq 1..Len(wal')
      BY <2>1 DEF TypeOK
    <2> QED
      BY <2>1, <2>2 DEF InSeq, Safe
  <1>3. CASE UNCHANGED <<wal, synced>>
    BY <1>3 DEF InSeq, Safe
  <1> QED
    BY <1>1, <1>2, <1>3

\* process_batch_group makes its progress before it answers: the leader only
\* signals success for submissions that are safe, and only what was signalled
\* is returned.
LEMMA CommitInvariant == Spec => []CommitInv
  <1>1. Init /\ TypeOK => CommitInv
    <2> SUFFICES ASSUME Init, TypeOK
                 PROVE  GroupProgress /\ AnswersAreSafe /\ CallsAreOpen
      BY DEF CommitInv
    <2>1. GroupProgress
      BY DEF Init, GroupProgress
    <2>2. AnswersAreSafe
      BY DEF Init, AnswersAreSafe
    <2>3. CallsAreOpen
      BY DEF Init, CallsAreOpen, Subs
    <2> QED
      BY <2>1, <2>2, <2>3
  <1>2. CommitInv /\ TypeOK' /\ [Next]_vars => CommitInv'
    <2> SUFFICES ASSUME CommitInv, TypeOK', [Next]_vars
                 PROVE  GroupProgress' /\ AnswersAreSafe' /\ CallsAreOpen'
      BY DEF CommitInv
    <2> USE DEF CommitInv, Role, Outcome, AfterGroup, AfterWrites, Fsynced
    <2>1. ASSUME NEW t \in Threads, Submitting(t)
          PROVE  GroupProgress' /\ AnswersAreSafe' /\ CallsAreOpen'
      <3>1. UNCHANGED <<wal, synced, pending, idx, result, done>>
        BY <2>1 DEF Submitting, Enqueue, Elect, Release, Return
      <3>2. \A s : Safe(s)' = Safe(s) /\ InSeq(s, wal)' = InSeq(s, wal)
        BY <3>1 DEF Safe, InSeq
      <3>3. GroupProgress'
        <4>1. \A u \in Threads : pc'[u] = pc[u]
                 \/ pc'[u] \notin {"write", "sync", "flush", "signal"}
          <5>1. \E l \in {"elect", "wait", "drain", "idle"} :
                  pc' = [pc EXCEPT ![t] = l]
            BY <2>1 DEF Submitting, Enqueue, Elect, Release, Return
          <5> QED
            BY <5>1 DEF TypeOK
        <4> SUFFICES ASSUME NEW u \in Threads, NEW i \in 1..Len(pending[u])
                     PROVE  /\ pc'[u] = "write" /\ i < idx[u]
                                 => InSeq(pending[u][i], wal)
                            /\ pc'[u] = "sync" => InSeq(pending[u][i], wal)
                            /\ pc'[u] = "flush" => Safe(pending[u][i])
                            /\ pc'[u] = "signal" /\ result[u] = "ok"
                                 => Safe(pending[u][i])
          BY <3>1, <3>2 DEF GroupProgress, InSeq, Safe
        <4>2. pc'[u] = pc[u] \/ pc'[u] \notin {"write", "sync", "flush", "signal"}
          BY <4>1
        <4> QED
          BY <4>2 DEF GroupProgress
      <3>4. CASE Enqueue(t) \/ Elect(t) \/ Release(t)
        <4>1. AnswersAreSafe'
          BY <3>1, <3>2, <3>4 DEF AnswersAreSafe, Enqueue, Elect, Release
        <4>2. CallsAreOpen'
          <5>1. CASE Enqueue(t)
            <6>1. /\ count' = [count EXCEPT ![t] = @ + 1] /\ ret' = ret
                  /\ pc' = [pc EXCEPT ![t] = "elect"]
              BY <5>1 DEF Enqueue
            <6> SUFFICES ASSUME NEW u \in Threads
                         PROVE  /\ pc'[u] # "idle" => count'[u] > 0
                                /\ \A k \in 1..MaxSubmits :
                                     k > count'[u] \/ (k = count'[u] /\ pc'[u] # "idle")
                                       => ret'[<<u, k>>] = "none"
              BY DEF CallsAreOpen
            <6>2. CASE u = t
              <7>1. count'[u] = count[u] + 1 /\ count[u] \in Nat
                BY <6>1, <6>2 DEF TypeOK
              <7> QED
                BY <6>1, <7>1 DEF CallsAreOpen
            <6>3. CASE u # t
              <7>1. count'[u] = count[u] /\ pc'[u] = pc[u]
                BY <6>1, <6>3 DEF TypeOK
              <7> QED
                BY <6>1, <7>1 DEF CallsAreOpen
            <6> QED
              BY <6>2, <6>3
          <5>2. CASE Elect(t) \/ Release(t)
            <6>1. count' = count /\ ret' = ret /\ pc[t] # "idle"
              BY <5>2 DEF Elect, Release
            <6>2. \A u \in Threads : pc'[u] # "idle" => pc[u] # "idle"
              BY <5>2, <6>1 DEF Elect, Release, TypeOK
            <6> QED
              BY <6>1, <6>2 DEF CallsAreOpen
          <5> QED
            BY <3>4, <5>1, <5>2
        <4> QED
          BY <3>3, <4>1, <4>2
      <3>5. CASE Return(t)
        <4>1. /\ Current(t) = <<t, count[t]>>
              /\ Current(t) \in Subs
              /\ ret[Current(t)] = "none"
          BY <3>5 DEF Return, CallsAreOpen, Current, Sub, Subs, TypeOK
        <4>2. AnswersAreSafe'
          <5> SUFFICES ASSUME NEW s \in Subs
                       PROVE  /\ done'[s] /\ ~error'[s] /\ ret'[s] = "none"
                                    => Safe(s)
                              /\ ret'[s] = "ok" => Safe(s)
            BY <3>2 DEF AnswersAreSafe
          <5>1. CASE s = Current(t)
            BY <3>5, <4>1, <5>1 DEF Return, AnswersAreSafe, TypeOK
          <5>2. CASE s # Current(t)
            <6>1. ret'[s] = ret[s] /\ error'[s] = error[s] /\ done'[s] = done[s]
              BY <3>5, <5>2 DEF Return, TypeOK
            <6> QED
              BY <6>1 DEF AnswersAreSafe
          <5> QED
            BY <5>1, <5>2
        <4>3. CallsAreOpen'
          <5> SUFFICES ASSUME NEW u \in Threads
                       PROVE  /\ pc'[u] # "idle" => count'[u] > 0
                              /\ \A k \in 1..MaxSubmits :
                                   k > count'[u] \/ (k = count'[u] /\ pc'[u] # "idle")
                                     => ret'[<<u, k>>] = "none"
            BY DEF CallsAreOpen
          <5>1. count' = count /\ pc' = [pc EXCEPT ![t] = "idle"]
            BY <3>5 DEF Return
          <5>2. \A k \in 1..MaxSubmits :
                  <<u, k>> # Current(t) => ret'[<<u, k>>] = ret[<<u, k>>]
            BY <3>5 DEF Return, TypeOK, Subs
          <5>3. \A k \in 1..MaxSubmits :
                  k > count[u] => <<u, k>> # Current(t)
            BY <4>1 DEF TypeOK
          <5>4. CASE u = t
            BY <5>1, <5>2, <5>3, <5>4 DEF CallsAreOpen, TypeOK
          <5>5. CASE u # t
            <6>1. \A k \in 1..MaxSubmits : <<u, k>> # Current(t)
              BY <4>1, <5>5
            <6>2. pc'[u] = pc[u]
              BY <5>1, <5>5 DEF TypeOK
            <6> QED
              BY <5>1, <5>2, <6>1, <6>2 DEF CallsAreOpen
          <5> QED
            BY <5>4, <5>5
        <4> QED
          BY <3>3, <4>2, <4>3
      <3> QED
        BY <2>1, <3>4, <3>5 DEF Submitting
    <2>2. ASSUME NEW t \in Threads, Draining(t)
          PROVE  GroupProgress' /\ AnswersAreSafe' /\ CallsAreOpen'
      <3>1. UNCHANGED <<wal, synced, ret, count>>
        BY <2>2 DEF Draining, TakeQueue, QueueEmpty, Signal, AllSignalled
      <3>2. \A s : Safe(s)' = Safe(s) /\ InSeq(s, wal)' = InSeq(s, wal)
        BY <3>1 DEF Safe, InSeq
      <3>3. CallsAreOpen'
        <4>1. \A u \in Threads : pc'[u] # "idle" => pc[u] # "idle"
          BY <2>2 DEF Draining, TakeQueue, QueueEmpty, Signal, AllSignalled,
                      TypeOK
        <4> QED
          BY <3>1, <4>1 DEF CallsAreOpen
      <3>4. CASE TakeQueue(t) \/ QueueEmpty(t) \/ AllSignalled(t)
        <4>1. AnswersAreSafe'
          BY <3>1, <3>2, <3>4 DEF TakeQueue, QueueEmpty, AllSignalled,
                                  AnswersAreSafe
        <4>2. \A u \in Threads :
                \/ /\ pc'[u] = pc[u] /\ pending'[u] = pending[u]
                   /\ idx'[u] = idx[u] /\ result'[u] = result[u]
                \/ pc'[u] \notin {"write", "sync", "flush", "signal"}
          BY <3>4, ZenonT(60) DEF TakeQueue, QueueEmpty, AllSignalled, TypeOK
        <4>3. GroupProgress'
          BY <3>2, <4>2 DEF GroupProgress
        <4> QED
          BY <3>3, <4>1, <4>3
      <3>5. CASE Signal(t)
        <4>1. pending[t][idx[t]] \in Subs /\ idx[t] \in 1..Len(pending[t])
          BY <3>5 DEF Signal, TypeOK
        <4>2. GroupProgress'
          <5>1. /\ pc' = pc /\ pending' = pending /\ result' = result
                /\ \A u \in Threads : u # t => idx'[u] = idx[u]
                /\ pc[t] = "signal"
            BY <3>5 DEF Signal, TypeOK
          <5> QED
            BY <3>2, <5>1 DEF GroupProgress
        <4>3. AnswersAreSafe'
          <5> SUFFICES ASSUME NEW s \in Subs
                       PROVE  /\ done'[s] /\ ~error'[s] /\ ret'[s] = "none"
                                    => Safe(s)
                              /\ ret'[s] = "ok" => Safe(s)
            BY <3>2 DEF AnswersAreSafe
          <5>1. CASE s = pending[t][idx[t]]
            <6>1. error'[s] = (result[t] = "err")
              BY <3>5, <5>1 DEF Signal, TypeOK
            <6>2. result[t] = "ok" => Safe(s)
              BY <3>5, <4>1, <5>1 DEF Signal, GroupProgress
            <6> QED
              BY <3>1, <6>1, <6>2 DEF AnswersAreSafe, TypeOK
          <5>2. CASE s # pending[t][idx[t]]
            <6>1. error'[s] = error[s] /\ done'[s] = done[s]
              BY <3>5, <5>2 DEF Signal, TypeOK
            <6> QED
              BY <3>1, <6>1 DEF AnswersAreSafe
          <5> QED
            BY <5>1, <5>2
        <4> QED
          BY <3>3, <4>2, <4>3
      <3> QED
        BY <2>2, <3>4, <3>5 DEF Draining
    <2>3. ASSUME NEW t \in Threads, Processing(t)
          PROVE  GroupProgress' /\ AnswersAreSafe' /\ CallsAreOpen'
      <3>1. /\ UNCHANGED <<ret, count, pending, done, error>>
            /\ \A u \in Threads \ {t} :
                 pc'[u] = pc[u] /\ idx'[u] = idx[u] /\ result'[u] = result[u]
            /\ pc[t] # "idle" /\ pc'[t] # "idle"
        BY <2>3, ZenonT(60) DEF Processing, LockWorker, WriteNext, WriteFails, RolloverFails, GroupWritten,
                    GroupSync, GroupSyncFails, NoFlush, GroupFlush,
                    GroupFlushFails, LeaveWorker, TypeOK
      <3>2. \A s : (Safe(s) => Safe(s)') /\ (InSeq(s, wal) => InSeq(s, wal)')
        <4>1. \/ UNCHANGED <<wal, synced>>
              \/ UNCHANGED wal /\ synced' \in {synced, Len(wal)}
              \/ UNCHANGED synced /\ \E e \in Subs : wal' = Append(wal, e)
          BY <2>3, SMTT(30) DEF Processing, LockWorker, WriteNext, WriteFails, RolloverFails,
                      GroupWritten, GroupSync, GroupSyncFails, NoFlush,
                      GroupFlush, GroupFlushFails, TypeOK
        <4> QED
          BY <4>1, SafeIsStable
      <3>3. CallsAreOpen'
        <4>1. \A u \in Threads : pc'[u] # "idle" => pc[u] # "idle"
          BY <3>1
        <4> QED
          BY <3>1, <4>1 DEF CallsAreOpen
      <3>4. AnswersAreSafe'
        BY <3>1, <3>2 DEF AnswersAreSafe
      <3>5. ASSUME \A i \in 1..Len(pending[t]) :
                     /\ pc'[t] = "write" /\ i < idx'[t]
                          => InSeq(pending[t][i], wal)'
                     /\ pc'[t] = "sync" => InSeq(pending[t][i], wal)'
                     /\ pc'[t] = "flush" => Safe(pending[t][i])'
                     /\ pc'[t] = "signal" /\ result'[t] = "ok"
                          => Safe(pending[t][i])'
            PROVE  GroupProgress'
        BY <3>1, <3>2, <3>5 DEF GroupProgress
      <3>6. CASE LockWorker(t)
        <4>1. pc'[t] = "write" /\ idx'[t] = 1
          BY <3>6 DEF LockWorker, TypeOK
        <4> QED
          BY <3>3, <3>4, <3>5, <4>1
      <3>7. CASE WriteNext(t)
        <4>1. /\ pc[t] = "write" /\ pc'[t] = "write"
              /\ idx[t] \in 1..Len(pending[t])
              /\ idx'[t] = idx[t] + 1
              /\ pending[t][idx[t]] \in Subs
              /\ wal' = Append(wal, pending[t][idx[t]])
          BY <3>7 DEF WriteNext, TypeOK
        <4>2. InSeq(pending[t][idx[t]], wal')
          <5>1. /\ Len(wal') = Len(wal) + 1 /\ Len(wal) \in Nat
                /\ wal'[Len(wal) + 1] = pending[t][idx[t]]
            <6>1. wal \in Seq(Subs) /\ Len(wal) \in Nat
              BY DEF TypeOK
            <6> QED
              BY <4>1, <6>1, AppendFacts
          <5>2. Len(wal) + 1 \in 1..Len(wal')
            BY <5>1
          <5> QED
            BY <5>1, <5>2 DEF InSeq
        <4>3. \A i \in 1..Len(pending[t]) :
                i < idx'[t] => i < idx[t] \/ i = idx[t]
          BY <4>1, SMTT(30) DEF TypeOK
        <4>4. \A i \in 1..Len(pending[t]) :
                i < idx'[t] => InSeq(pending[t][i], wal)'
          BY <3>1, <3>2, <4>1, <4>2, <4>3 DEF GroupProgress, InSeq
        <4> QED
          BY <3>3, <3>4, <3>5, <4>1, <4>4
      <3>8. CASE GroupWritten(t)
        <4>1. /\ pc[t] = "write" /\ UNCHANGED <<wal, synced>>
              /\ pc'[t] = IF Always THEN "sync" ELSE "flush"
              /\ \A i \in 1..Len(pending[t]) : i < idx[t]
          BY <3>8 DEF GroupWritten, TypeOK
        <4>2. \A i \in 1..Len(pending[t]) : InSeq(pending[t][i], wal)
          BY <4>1 DEF GroupProgress
        <4>3. ~Always => \A i \in 1..Len(pending[t]) : Safe(pending[t][i])
          BY <4>2 DEF InSeq, Safe
        <4>4. \A i \in 1..Len(pending[t]) :
                /\ InSeq(pending[t][i], wal)'
                /\ ~Always => Safe(pending[t][i])'
          BY <3>1, <4>1, <4>2, <4>3 DEF InSeq, Safe
        <4> QED
          BY <3>3, <3>4, <3>5, <4>1, <4>4
      <3>9. CASE GroupSync(t)
        <4>1. /\ pc[t] = "sync" /\ pc'[t] = "flush"
              /\ wal' = wal /\ synced' = Len(wal)
          BY <3>9 DEF GroupSync, TypeOK
        <4>2. \A i \in 1..Len(pending[t]) : InSeq(pending[t][i], wal)
          BY <4>1 DEF GroupProgress
        <4>3. \A s : InSeq(s, wal) => Safe(s)'
          BY <4>1 DEF InSeq, Safe, TypeOK
        <4>4. \A i \in 1..Len(pending[t]) : Safe(pending[t][i])'
          BY <3>1, <4>2, <4>3 DEF Safe
        <4> QED
          BY <3>3, <3>4, <3>5, <4>1, <4>4
      <3>10. CASE NoFlush(t) \/ GroupFlush(t)
        <4>1. pc[t] = "flush" /\ pc'[t] = "signal"
          BY <3>10 DEF NoFlush, GroupFlush, LeaveWorker, TypeOK
        <4>2. \A i \in 1..Len(pending[t]) : Safe(pending[t][i])
          BY <4>1 DEF GroupProgress
        <4>3. \A i \in 1..Len(pending[t]) : Safe(pending[t][i])'
          BY <3>1, <3>2, <4>2 DEF Safe
        <4> QED
          BY <3>3, <3>4, <3>5, <4>1, <4>3
      <3>11. CASE \/ WriteFails(t) \/ RolloverFails(t) \/ GroupSyncFails(t)
                  \/ GroupFlushFails(t)
        <4>1. pc'[t] = "signal" /\ result'[t] = "err"
          BY <3>11 DEF WriteFails, RolloverFails, GroupSyncFails, GroupFlushFails, LeaveWorker,
                       TypeOK
        <4> QED
          BY <3>3, <3>4, <3>5, <4>1
      <3> QED
        BY <2>3, <3>6, <3>7, <3>8, <3>9, <3>10, <3>11 DEF Processing
    <2>4. CASE OtherLocks \/ OtherRuns \/ UNCHANGED vars
      <3>1. /\ UNCHANGED <<pc, count, ret, pending, idx, result, done, error>>
            /\ wal' = wal /\ synced' \in {synced, Len(wal)}
        BY <2>4 DEF OtherLocks, OtherRuns, vars
      <3>2. \A s : (Safe(s) => Safe(s)') /\ (InSeq(s, wal) => InSeq(s, wal)')
        BY <3>1, SafeIsStable
      <3> QED
        BY <3>1, <3>2 DEF GroupProgress, AnswersAreSafe, CallsAreOpen
    <2> QED
      BY <2>1, <2>2, <2>3, <2>4 DEF Next
  <1> QED
    BY <1>1, <1>2, TypeCorrect, PTL DEF Spec

\* WritePipeline::submit returns Ok only for a batch that is in the WAL and the
\* memtable, and under SyncMode::Always in the fsynced WAL: for every number of
\* threads and every interleaving, with I/O faults at any point of the group.
THEOREM OkMeansCommitted == Spec => []OkIsCommitted
  <1>1. CommitInv => OkIsCommitted
    BY DEF CommitInv, AnswersAreSafe, OkIsCommitted, Safe
  <1> QED
    BY <1>1, CommitInvariant, PTL

-----------------------------------------------------------------------------
(* Where a submission is: every one that was pushed has its place in        *)
(* arrivals; the queue is the end of that sequence and the group of the     *)
(* leader the part in front of it.                                          *)

\* Submissions that a leader has taken from the queue.
Taken == Len(arrivals) - Len(queue)

\* The place in arrivals in front of the group of t.
Base(t) == Taken - Len(pending[t])

InGroup == {"lock", "write", "sync", "flush", "signal"}

\* The leader's Vec is only filled between mem::take and the last signal.
GroupAtHome ==
    \A t \in Threads : pc[t] \notin InGroup => pending[t] = <<>>

\* Every submission is pushed once, when its call starts.
PushedOnce ==
    /\ \A a, b \in 1..Len(arrivals) : arrivals[a] = arrivals[b] => a = b
    /\ \A a \in 1..Len(arrivals) : arrivals[a][2] <= count[arrivals[a][1]]

QueueIsLast ==
    /\ Taken \in Nat
    /\ \A i \in 1..Len(queue) : queue[i] = arrivals[Taken + i]

GroupIsNext ==
    \A t \in Threads : pending[t] # <<>> =>
        /\ Base(t) \in Nat
        /\ \A i \in 1..Len(pending[t]) : pending[t][i] = arrivals[Base(t) + i]

\* a is in front of what the leader has not written yet.
WrittenPlace(a) ==
    /\ a <= Taken
    /\ \A t \in Threads : /\ pc[t] = "lock" => a <= Base(t)
                          /\ pc[t] = "write" => a < Base(t) + idx[t]

\* a is in front of what the leader has not signalled yet.
SignalledPlace(a) ==
    /\ a <= Taken
    /\ \A t \in Threads :
        /\ pc[t] \in {"lock", "write", "sync", "flush"} => a <= Base(t)
        /\ pc[t] = "signal" => a < Base(t) + idx[t]

\* What is in the WAL was pushed, and lies in front of what is still to be
\* written; the WAL has the order of arrivals.
WalInOrder ==
    /\ \A i \in 1..Len(wal) : \E a \in 1..Len(arrivals) : arrivals[a] = wal[i]
    /\ \A i \in 1..Len(wal), a \in 1..Len(arrivals) :
        arrivals[a] = wal[i] => WrittenPlace(a)
    /\ \A i, j \in 1..Len(wal), a, b \in 1..Len(arrivals) :
        i < j /\ arrivals[a] = wal[i] /\ arrivals[b] = wal[j] => a < b

\* Completions are signalled in that order too, each of a started call, and
\* only a signalled call has returned.
DoneInOrder ==
    /\ \A a \in 1..Len(arrivals) : done[arrivals[a]] => SignalledPlace(a)
    /\ \A s \in Subs : done[s] => s[2] <= count[s[1]]
    /\ \A s \in Subs : ret[s] # "none" => done[s]

OrderInv ==
    /\ GroupAtHome /\ PushedOnce /\ QueueIsLast /\ GroupIsNext
    /\ WalInOrder /\ DoneInOrder

\* A step that leaves the queue, the group, the WAL and the completions alone
\* and moves no thread into or out of a group keeps every place.
LEMMA OrderFrame ==
    ASSUME TypeOK, OrderInv,
           UNCHANGED <<arrivals, queue, pending, wal, done, count, idx>>,
           \A u \in Threads : \/ pc'[u] = pc[u]
                              \/ pc[u] \notin InGroup /\ pc'[u] \notin InGroup,
           \A s \in Subs : ret'[s] # "none" => ret[s] # "none" \/ done[s]
    PROVE  OrderInv'
  <1> USE DEF OrderInv
  <1>1. Taken' = Taken /\ \A u \in Threads : Base(u)' = Base(u)
    BY DEF Taken, Base
  <1>2. \A a : (WrittenPlace(a) => WrittenPlace(a)')
              /\ (SignalledPlace(a) => SignalledPlace(a)')
    BY <1>1 DEF WrittenPlace, SignalledPlace, InGroup
  <1>3. GroupAtHome'
    BY DEF GroupAtHome
  <1>4. PushedOnce'
    BY DEF PushedOnce
  <1>5. QueueIsLast'
    BY <1>1 DEF QueueIsLast
  <1>6. GroupIsNext'
    BY <1>1 DEF GroupIsNext
  <1>7. WalInOrder'
    BY <1>2 DEF WalInOrder
  <1>8. DoneInOrder'
    BY <1>2 DEF DoneInOrder
  <1> QED
    BY <1>3, <1>4, <1>5, <1>6, <1>7, <1>8

\* The push of Enqueue: the submission is new, and gets the last place.
LEMMA OrderEnqueue ==
    ASSUME TypeOK, OrderInv, NEW t \in Threads, Enqueue(t)
    PROVE  OrderInv'
  <1> DEFINE s == Sub(t, count[t] + 1)
  <1> USE PipelineAssumption DEF OrderInv
  <1>1. /\ queue' = Append(queue, s) /\ arrivals' = Append(arrivals, s)
        /\ s = <<t, count[t] + 1>> /\ s \in Subs
        /\ count' = [count EXCEPT ![t] = @ + 1]
        /\ pc' = [pc EXCEPT ![t] = "elect"] /\ pc[t] = "idle"
        /\ UNCHANGED <<pending, idx, wal, done, ret>>
    BY SMTT(30) DEF Enqueue, Pushed, Sub, Subs, TypeOK
  <1>2. /\ Len(arrivals') = Len(arrivals) + 1 /\ Len(queue') = Len(queue) + 1
        /\ \A a \in 1..Len(arrivals) : arrivals'[a] = arrivals[a]
        /\ arrivals'[Len(arrivals) + 1] = s
        /\ \A i \in 1..Len(queue) : queue'[i] = queue[i]
        /\ queue'[Len(queue) + 1] = s
        /\ Len(arrivals) \in Nat /\ Len(queue) \in Nat
    <2>1. arrivals \in Seq(Subs) /\ queue \in Seq(Subs)
      BY DEF TypeOK
    <2> HIDE DEF s
    <2> QED
      BY <1>1, <2>1, AppendFacts
  <1>3. Taken' = Taken /\ \A u \in Threads : Base(u)' = Base(u)
    BY <1>1, <1>2 DEF Taken, Base
  <1>4. \A u \in Threads :
          /\ pc'[u] = pc[u] \/ (pc[u] \notin InGroup /\ pc'[u] \notin InGroup)
          /\ count[u] <= count'[u] /\ count[u] \in Nat /\ count'[u] \in Nat
    <2>1. \A u \in Threads : count[u] \in Nat
      BY DEF TypeOK
    <2>2. \A u \in Threads : count'[u] = IF u = t THEN count[u] + 1 ELSE count[u]
      BY <1>1 DEF TypeOK
    <2>3. \A u \in Threads : pc'[u] = IF u = t THEN "elect" ELSE pc[u]
      BY <1>1 DEF TypeOK
    <2>4. \A u \in Threads :
            pc'[u] = pc[u] \/ (pc[u] \notin InGroup /\ pc'[u] \notin InGroup)
      BY <1>1, <2>3 DEF InGroup
    <2> QED
      BY <2>1, <2>2, <2>4
  <1>5. count'[t] = count[t] + 1
    BY <1>1 DEF TypeOK
  <1>6. \A a \in 1..Len(arrivals) : arrivals[a] # s /\ arrivals[a] \in Subs
    <2> SUFFICES ASSUME NEW a \in 1..Len(arrivals)
                 PROVE  arrivals[a] # s /\ arrivals[a] \in Subs
      OBVIOUS
    <2>1. arrivals[a] \in Subs
      BY DEF TypeOK
    <2>2. arrivals[a][2] <= count[arrivals[a][1]]
      BY DEF PushedOnce
    <2>3. s[1] = t /\ s[2] = count[t] + 1
      BY <1>1
    <2>4. ~(count[t] + 1 <= count[t])
      BY DEF TypeOK
    <2> HIDE DEF s
    <2> QED
      BY <2>1, <2>2, <2>3, <2>4
  <1>7. \A a : (WrittenPlace(a) => WrittenPlace(a)')
              /\ (SignalledPlace(a) => SignalledPlace(a)')
    BY <1>1, <1>3, <1>4 DEF WrittenPlace, SignalledPlace, InGroup
  <1>8. GroupAtHome'
    BY <1>1, <1>4 DEF GroupAtHome
  <1>9. PushedOnce'
    <2>1. \A a \in 1..Len(arrivals') : a \in 1..Len(arrivals) \/ a = Len(arrivals) + 1
      BY <1>2
    <2>2. ASSUME NEW a \in 1..Len(arrivals'), NEW b \in 1..Len(arrivals'),
                 arrivals'[a] = arrivals'[b]
          PROVE  a = b
      BY <1>2, <1>6, <2>1, <2>2 DEF PushedOnce
    <2>3. ASSUME NEW a \in 1..Len(arrivals')
          PROVE  arrivals'[a][2] <= count'[arrivals'[a][1]]
      <3>1. CASE a \in 1..Len(arrivals)
        <4>1. arrivals[a][2] <= count[arrivals[a][1]]
          BY <3>1 DEF PushedOnce
        <4>2. arrivals[a][1] \in Threads /\ arrivals[a][2] \in Nat
          BY <1>6, <3>1 DEF Subs
        <4> QED
          BY <1>2, <1>4, <3>1, <4>1, <4>2, SMTT(30)
      <3>2. CASE a = Len(arrivals) + 1
        BY <1>1, <1>2, <1>4, <1>5, <3>2
      <3> QED
        BY <2>1, <3>1, <3>2
    <2> QED
      BY <2>2, <2>3 DEF PushedOnce
  <1>10. QueueIsLast'
    <2>1. Taken \in Nat /\ Taken + Len(queue) = Len(arrivals)
      BY <1>2 DEF QueueIsLast, Taken
    <2>2. ASSUME NEW i \in 1..Len(queue') PROVE queue'[i] = arrivals'[Taken + i]
      <3>1. CASE i \in 1..Len(queue)
        <4>1. Taken + i \in 1..Len(arrivals)
          BY <1>2, <2>1, <3>1
        <4> QED
          BY <1>2, <3>1, <4>1 DEF QueueIsLast
      <3>2. CASE i = Len(queue) + 1
        <4>1. Taken + i = Len(arrivals) + 1
          BY <1>2, <2>1, <3>2, SMTT(30)
        <4> QED
          BY <1>2, <3>2, <4>1
      <3> QED
        BY <1>2, <2>2, <3>1, <3>2
    <2> QED
      BY <1>3, <2>1, <2>2 DEF QueueIsLast
  <1>11. GroupIsNext'
    <2> SUFFICES ASSUME NEW u \in Threads, pending[u] # <<>>
                 PROVE  /\ Base(u) \in Nat
                        /\ \A i \in 1..Len(pending[u]) :
                             pending[u][i] = arrivals'[Base(u) + i]
      BY <1>1, <1>3, ZenonT(60) DEF GroupIsNext
    <2>1. /\ Base(u) \in Nat
          /\ \A i \in 1..Len(pending[u]) :
               pending[u][i] = arrivals[Base(u) + i]
      BY DEF GroupIsNext
    <2>2. Len(pending[u]) \in Nat /\ Base(u) + Len(pending[u]) <= Len(arrivals)
      BY <1>2, <2>1, SMTT(90) DEF Base, Taken, TypeOK
    <2>3. \A i \in 1..Len(pending[u]) : Base(u) + i \in 1..Len(arrivals)
      BY <1>2, <2>1, <2>2
    <2> QED
      BY <1>2, <2>1, <2>3
  <1>12. \A i \in 1..Len(wal) : wal[i] # s
    <2> SUFFICES ASSUME NEW i \in 1..Len(wal) PROVE wal[i] # s
      OBVIOUS
    <2>1. \E a \in 1..Len(arrivals) : arrivals[a] = wal[i]
      BY DEF WalInOrder
    <2> QED
      BY <1>6, <2>1
  <1>13. WalInOrder'
    <2>1. \A i \in 1..Len(wal), a \in 1..Len(arrivals') :
            arrivals'[a] = wal[i] => a \in 1..Len(arrivals) /\ arrivals[a] = wal[i]
      BY <1>2, <1>12
    <2>2. 1..Len(arrivals) \subseteq 1..Len(arrivals')
      BY <1>2
    <2>3. \A i \in 1..Len(wal) : \E a \in 1..Len(arrivals') : arrivals'[a] = wal[i]
      BY <1>2, <2>2 DEF WalInOrder
    <2> QED
      BY <1>1, <1>7, <2>1, <2>3, SMTT(30) DEF WalInOrder
  <1>14. DoneInOrder'
    <2>1. ~done[s]
      BY <1>1 DEF DoneInOrder, TypeOK
    <2>2. \A a \in 1..Len(arrivals') :
            done[arrivals'[a]] => a \in 1..Len(arrivals) /\ done[arrivals[a]]
      BY <1>2, <2>1
    <2>3. \A r \in Subs : done[r] => r[2] <= count'[r[1]]
      BY <1>4 DEF DoneInOrder, Subs
    <2> QED
      BY <1>1, <1>7, <2>2, <2>3 DEF DoneInOrder
  <1> QED
    BY <1>8, <1>9, <1>10, <1>11, <1>13, <1>14

\* mem::take: the whole queue becomes the group, in the same places.
LEMMA OrderTakeQueue ==
    ASSUME TypeOK, OneLeader, OrderInv, NEW t \in Threads, TakeQueue(t)
    PROVE  OrderInv'
  <1> USE DEF OrderInv
  <1>1. /\ pc[t] = "drain" /\ queue' = <<>>
        /\ UNCHANGED <<count, idx, done, ret, wal, arrivals>>
        /\ \A u \in Threads : pc'[u] = IF u = t THEN "lock" ELSE pc[u]
        /\ \A u \in Threads : pending'[u] = IF u = t THEN queue ELSE pending[u]
    BY DEF TakeQueue, TypeOK
  <1>2. Len(queue) \in Nat /\ Len(arrivals) \in Nat /\ Len(<<>>) = 0
    BY DEF TypeOK
  <1>3. \A u \in Threads : u # t => pc[u] \notin InGroup /\ pending[u] = <<>>
    BY <1>1 DEF OneLeader, Leading, GroupAtHome, InGroup
  <1>4. Taken' = Len(arrivals) /\ Base(t)' = Taken
    BY <1>1, <1>2 DEF Taken, Base
  <1>5. Taken \in Nat /\ Taken <= Len(arrivals)
    BY <1>2 DEF QueueIsLast, Taken
  <1>6. \A a : a \in Nat /\ a <= Taken => WrittenPlace(a)' /\ SignalledPlace(a)'
    BY <1>1, <1>2, <1>3, <1>4, <1>5 DEF WrittenPlace, SignalledPlace, InGroup
  <1>7. GroupAtHome'
    BY <1>1 DEF GroupAtHome, InGroup
  <1>8. PushedOnce'
    BY <1>1 DEF PushedOnce
  <1>9. QueueIsLast'
    BY <1>1, <1>2, <1>4 DEF QueueIsLast
  <1>10. GroupIsNext'
    BY <1>1, <1>3, <1>4, <1>5 DEF GroupIsNext, QueueIsLast
  <1>11. WalInOrder'
    <2>1. \A a \in 1..Len(arrivals) : WrittenPlace(a) => WrittenPlace(a)'
      BY <1>2, <1>6 DEF WrittenPlace
    <2> QED
      BY <1>1, <2>1 DEF WalInOrder
  <1>12. DoneInOrder'
    <2>1. \A a \in 1..Len(arrivals) : SignalledPlace(a) => SignalledPlace(a)'
      BY <1>2, <1>6 DEF SignalledPlace
    <2> QED
      BY <1>1, <2>1 DEF DoneInOrder
  <1> QED
    BY <1>7, <1>8, <1>9, <1>10, <1>11, <1>12

\* The steps of the leader from the lock to the first signal, except the
\* appends: what was in front of the group stays in front of it.
LEMMA OrderProcessing ==
    ASSUME TypeOK, OneLeader, OrderInv, NEW t \in Threads, Processing(t),
           ~WriteNext(t), ~RolloverFails(t)
    PROVE  OrderInv'
  <1> USE DEF OrderInv
  <1>1. /\ UNCHANGED <<count, queue, pending, done, ret, wal, arrivals>>
        /\ pc[t] \in {"lock", "write", "sync", "flush"}
        /\ \A u \in Threads : u # t => pc'[u] = pc[u] /\ idx'[u] = idx[u]
        /\ \/ pc[t] = "lock" /\ pc'[t] = "write" /\ idx'[t] = 1
           \/ pc'[t] \in {"sync", "flush"}
           \/ pc'[t] = "signal" /\ idx'[t] = 1
    BY DEF Processing, LockWorker, WriteFails, GroupWritten, GroupSync,
           GroupSyncFails, NoFlush, GroupFlush, GroupFlushFails, LeaveWorker,
           AfterGroup, AfterWrites, TypeOK
  <1>2. Taken' = Taken /\ \A u \in Threads : Base(u)' = Base(u)
    BY <1>1 DEF Taken, Base
  <1>3. /\ Taken \in Nat
        /\ \A u \in Threads : Len(pending[u]) \in Nat /\ Base(u) \in Int
    BY DEF QueueIsLast, Base, TypeOK
  <1>4. \A u \in Threads : u # t => pc[u] \notin InGroup
    BY <1>1 DEF OneLeader, Leading, InGroup
  <1>5. \A a \in Nat : (WrittenPlace(a) => WrittenPlace(a)')
                     /\ (SignalledPlace(a) => SignalledPlace(a)')
    BY <1>1, <1>2, <1>3, <1>4 DEF WrittenPlace, SignalledPlace, InGroup
  <1>6. GroupAtHome'
    BY <1>1 DEF GroupAtHome, InGroup
  <1>7. PushedOnce'
    BY <1>1 DEF PushedOnce
  <1>8. QueueIsLast'
    BY <1>1, <1>2 DEF QueueIsLast
  <1>9. GroupIsNext'
    BY <1>1, <1>2 DEF GroupIsNext
  <1>10. WalInOrder'
    BY <1>1, <1>5 DEF WalInOrder
  <1>11. DoneInOrder'
    BY <1>1, <1>5 DEF DoneInOrder
  <1> QED
    BY <1>6, <1>7, <1>8, <1>9, <1>10, <1>11

\* An append: either the loop goes on with the next submission, or the
\* signalling starts.
AppendStep(t) ==
    /\ pc[t] = "write" /\ idx[t] <= Len(pending[t])
    /\ UNCHANGED <<count, queue, pending, done, ret, arrivals>>
    /\ wal' = Append(wal, pending[t][idx[t]])
    /\ \A u \in Threads \ {t} : pc'[u] = pc[u] /\ idx'[u] = idx[u]
    /\ \/ pc'[t] = "write" /\ idx'[t] = idx[t] + 1
       \/ pc'[t] = "signal" /\ idx'[t] = 1

\* The submission has the next place, behind all of the WAL.
LEMMA OrderAppend ==
    ASSUME TypeOK, OneLeader, OrderInv, NEW t \in Threads, AppendStep(t)
    PROVE  /\ OrderInv'
           /\ \A i \in 1..Len(wal) : wal[i] # pending[t][idx[t]]
  <1> DEFINE s == pending[t][idx[t]]
             here == Base(t) + idx[t]
  <1> USE DEF OrderInv
  <1>1. /\ pc[t] = "write" /\ idx[t] \in 1..Len(pending[t])
        /\ UNCHANGED <<count, queue, pending, done, ret, arrivals>>
        /\ wal' = Append(wal, s) /\ s \in Subs /\ wal \in Seq(Subs)
        /\ \A u \in Threads : u # t => pc'[u] = pc[u] /\ idx'[u] = idx[u]
        /\ \/ pc'[t] = "write" /\ idx'[t] = idx[t] + 1
           \/ pc'[t] = "signal" /\ idx'[t] = 1
        /\ idx[t] \in Nat
    BY DEF AppendStep, TypeOK
  <1>2. /\ Len(wal') = Len(wal) + 1 /\ Len(wal) \in Nat
        /\ \A i \in 1..Len(wal) : wal'[i] = wal[i]
        /\ wal'[Len(wal) + 1] = s
    <2> HIDE DEF s
    <2> QED
      BY <1>1, AppendFacts
  <1>3. /\ Len(arrivals) \in Nat /\ Len(queue) \in Nat
        /\ Len(pending[t]) \in Nat /\ pending[t] # <<>>
    BY <1>1 DEF TypeOK
  <1>4. Base(t) \in Nat /\ s = arrivals[here]
    BY <1>1, <1>3 DEF GroupIsNext
  <1>5. here \in 1..Len(arrivals) /\ here <= Taken /\ Taken \in Nat
    <2>1. Taken \in Nat /\ Base(t) = Taken - Len(pending[t])
      BY DEF QueueIsLast, Base
    <2>2. Taken <= Len(arrivals)
      BY <1>3 DEF Taken
    <2> QED
      BY <1>1, <1>3, <1>4, <2>1, <2>2, SMTT(30)
  <1>6. Taken' = Taken /\ \A u \in Threads : Base(u)' = Base(u)
    BY <1>1 DEF Taken, Base
  <1>7. \A u \in Threads : u # t => pc[u] \notin InGroup
    BY <1>1 DEF OneLeader, Leading, InGroup
  <1> HIDE DEF s, here
  <1>8. \A i \in 1..Len(wal), a \in 1..Len(arrivals) :
          arrivals[a] = wal[i] => a < here
    BY <1>1 DEF WalInOrder, WrittenPlace, here
  <1>9. \A i \in 1..Len(wal) : wal[i] # s
    BY <1>4, <1>5, <1>8
  <1>10. \A a \in 1..Len(arrivals) : arrivals[a] = s => a = here
    BY <1>4, <1>5 DEF PushedOnce
  <1>11. \A a \in 1..Len(arrivals) :
           /\ (a < here \/ a = here) => WrittenPlace(a)'
           /\ SignalledPlace(a) => SignalledPlace(a)'
    <2>1. pc'[t] = "write" => here' = here + 1
      BY <1>1, <1>4, <1>6, SMTT(30) DEF here
    <2>2. \A a \in 1..Len(arrivals) : (a < here \/ a = here) =>
            a <= Taken' /\ (pc'[t] = "write" => a < here')
      BY <1>3, <1>4, <1>5, <1>6, <2>1
    <2>3. \A u \in Threads : pc'[u] \in {"lock", "write"} => u = t
      BY <1>1, <1>7 DEF InGroup
    <2>4. \A a \in 1..Len(arrivals) : (a < here \/ a = here) => WrittenPlace(a)'
      BY <1>1, <2>2, <2>3 DEF WrittenPlace, here
    <2>5. \A a \in 1..Len(arrivals) : SignalledPlace(a) => SignalledPlace(a)'
      BY <1>1, <1>4, <1>6, <1>7 DEF SignalledPlace, InGroup
    <2> QED
      BY <2>4, <2>5
  <1>12. WalInOrder'
    <2>1. \A i \in 1..Len(wal') : i \in 1..Len(wal) \/ (i = Len(wal) + 1 /\ wal'[i] = s)
      BY <1>2
    <2>2. \A i \in 1..Len(wal') : \E a \in 1..Len(arrivals) : arrivals[a] = wal'[i]
      BY <1>2, <1>4, <1>5, <2>1 DEF WalInOrder
    <2>3. \A i \in 1..Len(wal'), a \in 1..Len(arrivals) :
            arrivals[a] = wal'[i] => WrittenPlace(a)'
      BY <1>2, <1>8, <1>10, <1>11, <2>1
    <2>4. ASSUME NEW i \in 1..Len(wal'), NEW j \in 1..Len(wal'),
                 NEW a \in 1..Len(arrivals), NEW b \in 1..Len(arrivals),
                 i < j, arrivals[a] = wal'[i], arrivals[b] = wal'[j]
          PROVE  a < b
      <3>1. i \in 1..Len(wal)
        BY <1>2, <2>4
      <3>2. CASE j \in 1..Len(wal)
        BY <1>2, <2>4, <3>1, <3>2 DEF WalInOrder
      <3>3. CASE wal'[j] = s
        BY <1>2, <1>8, <1>10, <2>4, <3>1, <3>3
      <3> QED
        BY <2>1, <3>2, <3>3
    <2>5. \A i, j \in 1..Len(wal'), a, b \in 1..Len(arrivals) :
            i < j /\ arrivals[a] = wal'[i] /\ arrivals[b] = wal'[j] => a < b
      BY <2>4
    <2>6. arrivals' = arrivals
      BY <1>1
    <2> QED
      BY <2>2, <2>3, <2>5, <2>6 DEF WalInOrder
  <1>13. GroupAtHome' /\ PushedOnce' /\ QueueIsLast' /\ GroupIsNext'
    BY <1>1, <1>6, <1>7 DEF GroupAtHome, PushedOnce, QueueIsLast, GroupIsNext, InGroup
  <1>14. DoneInOrder'
    BY <1>1, <1>11 DEF DoneInOrder
  <1> QED
    BY <1>9, <1>12, <1>13, <1>14 DEF s

\* The append of process_batch_inner, followed by the next iteration.
LEMMA OrderWriteNext ==
    ASSUME TypeOK, OneLeader, OrderInv, NEW t \in Threads, WriteNext(t)
    PROVE  /\ OrderInv'
           /\ \A i \in 1..Len(wal) : wal[i] # pending[t][idx[t]]
  <1>1. AppendStep(t)
    BY DEF AppendStep, WriteNext, TypeOK
  <1> QED
    BY <1>1, OrderAppend

\* The append whose rollover fails, followed by the signals.
LEMMA OrderRolloverFails ==
    ASSUME TypeOK, OneLeader, OrderInv, NEW t \in Threads, RolloverFails(t)
    PROVE  /\ OrderInv'
           /\ \A i \in 1..Len(wal) : wal[i] # pending[t][idx[t]]
  <1>1. AppendStep(t)
    BY DEF AppendStep, RolloverFails, LeaveWorker, AfterGroup, TypeOK
  <1> QED
    BY <1>1, OrderAppend

\* One iteration of the signalling loop: the next submission in the order.
LEMMA OrderSignal ==
    ASSUME TypeOK, OneLeader, OrderInv, NEW t \in Threads, Signal(t)
    PROVE  OrderInv'
  <1> DEFINE s == pending[t][idx[t]]
             here == Base(t) + idx[t]
  <1> USE DEF OrderInv
  <1>1. /\ pc[t] = "signal" /\ idx[t] \in 1..Len(pending[t])
        /\ UNCHANGED <<pc, count, queue, pending, wal, ret, arrivals>>
        /\ s \in Subs
        /\ \A r \in Subs : done'[r] = IF r = s THEN TRUE ELSE done[r]
        /\ \A u \in Threads : idx'[u] = IF u = t THEN idx[u] + 1 ELSE idx[u]
        /\ idx[t] \in Nat
    BY DEF Signal, TypeOK
  <1>2. /\ Len(arrivals) \in Nat /\ Len(queue) \in Nat
        /\ Len(pending[t]) \in Nat /\ pending[t] # <<>>
    BY <1>1, SMTT(30) DEF TypeOK
  <1>3. Base(t) \in Nat /\ s = arrivals[here]
    BY <1>1, <1>2 DEF GroupIsNext
  <1>4. here \in 1..Len(arrivals) /\ here <= Taken /\ Taken \in Nat
    <2>1. Taken \in Nat /\ Base(t) = Taken - Len(pending[t])
      BY DEF QueueIsLast, Base
    <2>2. Taken <= Len(arrivals)
      BY <1>2 DEF Taken
    <2> QED
      BY <1>1, <1>2, <1>3, <2>1, <2>2, SMTT(30)
  <1>5. Taken' = Taken /\ \A u \in Threads : Base(u)' = Base(u)
    BY <1>1 DEF Taken, Base
  <1>6. \A u \in Threads : u # t => pc[u] \notin InGroup
    BY <1>1 DEF OneLeader, Leading, InGroup
  <1>7. here' = here + 1
    BY <1>1, <1>3, <1>5
  <1> HIDE DEF s, here
  <1>8. \A a \in 1..Len(arrivals) : arrivals[a] = s => a = here
    BY <1>3, <1>4 DEF PushedOnce
  <1>9. \A a \in 1..Len(arrivals) :
           (SignalledPlace(a) \/ a = here) => SignalledPlace(a)'
    <2>1. \A a \in 1..Len(arrivals) :
            (SignalledPlace(a) \/ a = here) => a <= Taken' /\ a < here'
      BY <1>1, <1>2, <1>3, <1>4, <1>5, <1>7 DEF SignalledPlace, here
    <2>2. \A u \in Threads : pc'[u] \in InGroup => u = t
      BY <1>1, <1>6
    <2> QED
      BY <1>1, <2>1, <2>2 DEF SignalledPlace, here, InGroup
  <1>10. \A a \in 1..Len(arrivals) : WrittenPlace(a) => WrittenPlace(a)'
    BY <1>1, <1>5 DEF WrittenPlace
  <1>11. DoneInOrder'
    <2>1. \A a \in 1..Len(arrivals) : done'[arrivals[a]] => SignalledPlace(a)'
      <3>1. \A a \in 1..Len(arrivals) : arrivals[a] \in Subs
        BY DEF TypeOK
      <3> QED
        BY <1>1, <1>8, <1>9, <3>1 DEF DoneInOrder
    <2>2. s[2] <= count[s[1]]
      BY <1>3, <1>4 DEF PushedOnce
    <2>3. \A r \in Subs : done'[r] => r[2] <= count[r[1]]
      BY <1>1, <2>2 DEF DoneInOrder
    <2>4. \A r \in Subs : ret[r] # "none" => done'[r]
      BY <1>1 DEF DoneInOrder
    <2> QED
      BY <1>1, <2>1, <2>3, <2>4 DEF DoneInOrder
  <1>12. WalInOrder'
    BY <1>1, <1>10 DEF WalInOrder
  <1>13. GroupAtHome' /\ PushedOnce' /\ QueueIsLast' /\ GroupIsNext'
    BY <1>1, <1>5 DEF GroupAtHome, PushedOnce, QueueIsLast, GroupIsNext
  <1> QED
    BY <1>11, <1>12, <1>13

\* The group is over: the leader's Vec is dropped.
LEMMA OrderAllSignalled ==
    ASSUME TypeOK, OrderInv, NEW t \in Threads, AllSignalled(t)
    PROVE  OrderInv'
  <1> USE DEF OrderInv
  <1>1. /\ UNCHANGED <<count, queue, done, ret, wal, arrivals>>
        /\ \A u \in Threads : pc'[u] = IF u = t THEN "drain" ELSE pc[u]
        /\ \A u \in Threads : pending'[u] = IF u = t THEN <<>> ELSE pending[u]
        /\ \A u \in Threads : u # t => idx'[u] = idx[u]
    BY DEF AllSignalled, TypeOK
  <1>2. Taken' = Taken /\ \A u \in Threads : u # t => Base(u)' = Base(u)
    BY <1>1 DEF Taken, Base
  <1>3. \A a : (WrittenPlace(a) => WrittenPlace(a)')
              /\ (SignalledPlace(a) => SignalledPlace(a)')
    BY <1>1, <1>2 DEF WrittenPlace, SignalledPlace
  <1>4. GroupAtHome' /\ PushedOnce' /\ QueueIsLast' /\ GroupIsNext'
    BY <1>1, <1>2 DEF GroupAtHome, PushedOnce, QueueIsLast, GroupIsNext
  <1>5. WalInOrder' /\ DoneInOrder'
    BY <1>1, <1>3 DEF WalInOrder, DoneInOrder
  <1> QED
    BY <1>4, <1>5

\* Queue, group and WAL keep their places in every reachable state.
LEMMA OrderInvariant == Spec => []OrderInv
  <1>1. Init /\ TypeOK => OrderInv
    <2> SUFFICES ASSUME Init, TypeOK PROVE OrderInv
      OBVIOUS
    <2>1. Len(<<>>) = 0 /\ 1..0 = {}
      OBVIOUS
    <2>2. Taken = 0
      BY <2>1 DEF Init, Taken
    <2>3. GroupAtHome /\ PushedOnce /\ QueueIsLast /\ GroupIsNext
      BY <2>1, <2>2 DEF Init, GroupAtHome, PushedOnce, QueueIsLast, GroupIsNext
    <2>4. WalInOrder /\ DoneInOrder
      BY <2>1 DEF Init, WalInOrder, DoneInOrder
    <2> QED
      BY <2>3, <2>4 DEF OrderInv
  <1>2. TypeOK /\ OneLeader /\ OrderInv /\ [Next]_vars => OrderInv'
    <2> SUFFICES ASSUME TypeOK, OneLeader, OrderInv, [Next]_vars PROVE OrderInv'
      OBVIOUS
    <2>1. ASSUME NEW t \in Threads, Submitting(t) PROVE OrderInv'
      <3>1. CASE Enqueue(t)
        BY <3>1, OrderEnqueue
      <3>2. CASE Elect(t) \/ Release(t) \/ Return(t)
        <4>1. /\ UNCHANGED <<arrivals, queue, pending, wal, done, count, idx>>
              /\ pc[t] \notin InGroup /\ pc'[t] \notin InGroup
              /\ \A u \in Threads : u # t => pc'[u] = pc[u]
          BY <3>2 DEF Elect, Release, Return, Role, InGroup, TypeOK
        <4>2. \A s \in Subs : ret'[s] # "none" => ret[s] # "none" \/ done[s]
          BY <3>2 DEF Elect, Release, Return, TypeOK
        <4> QED
          BY <4>1, <4>2, OrderFrame
      <3> QED
        BY <2>1, <3>1, <3>2 DEF Submitting
    <2>2. ASSUME NEW t \in Threads, Draining(t) PROVE OrderInv'
      <3>1. CASE TakeQueue(t)
        BY <3>1, OrderTakeQueue
      <3>2. CASE QueueEmpty(t)
        <4>1. /\ UNCHANGED <<arrivals, queue, pending, wal, done, count, idx, ret>>
              /\ pc[t] \notin InGroup /\ pc'[t] \notin InGroup
              /\ \A u \in Threads : u # t => pc'[u] = pc[u]
          BY <3>2 DEF QueueEmpty, InGroup, TypeOK
        <4> QED
          BY <4>1, OrderFrame
      <3>3. CASE Signal(t)
        BY <3>3, OrderSignal
      <3>4. CASE AllSignalled(t)
        BY <3>4, OrderAllSignalled
      <3> QED
        BY <2>2, <3>1, <3>2, <3>3, <3>4 DEF Draining
    <2>3. ASSUME NEW t \in Threads, Processing(t) PROVE OrderInv'
      BY <2>3, OrderProcessing, OrderWriteNext, OrderRolloverFails
    <2>4. CASE OtherLocks \/ OtherRuns \/ UNCHANGED vars
      <3>1. UNCHANGED <<arrivals, queue, pending, wal, done, count, idx, pc, ret>>
        BY <2>4 DEF OtherLocks, OtherRuns, vars
      <3> QED
        BY <3>1, OrderFrame
    <2> QED
      BY <2>1, <2>2, <2>3, <2>4 DEF Next
  <1> QED
    BY <1>1, <1>2, TypeCorrect, LeaderIsUnique, PTL DEF Spec

\* Batches reach the WAL in the order in which their callers pushed them, each
\* at most once, whichever leader and group they ended in and whatever failed:
\* mem::take and the loop of process_batch_group keep the order of the queue.
THEOREM CommitsInOrder == Spec => []CommitOrder
  <1>1. TypeOK /\ OrderInv => CommitOrder
    <2> SUFFICES ASSUME TypeOK, OrderInv, NEW i \in 1..Len(wal),
                        NEW j \in 1..Len(wal), i < j
                 PROVE  \E a, b \in 1..Len(arrivals) :
                          a < b /\ arrivals[a] = wal[i] /\ arrivals[b] = wal[j]
      BY DEF CommitOrder
    <2> USE DEF OrderInv, WalInOrder
    <2>1. PICK a \in 1..Len(arrivals) : arrivals[a] = wal[i]
      OBVIOUS
    <2>2. PICK b \in 1..Len(arrivals) : arrivals[b] = wal[j]
      OBVIOUS
    <2>3. a < b
      BY <2>1, <2>2
    <2> QED
      BY <2>1, <2>2, <2>3
  <1> QED
    BY <1>1, TypeCorrect, OrderInvariant, PTL

-----------------------------------------------------------------------------
(* No submission is dropped *)

\* Still queued, or in the hands of a leader that will signal it.
Tracked(s) ==
    \/ InSeq(s, queue)
    \/ \E u \in Threads :
        /\ Leading(u)
        /\ \E i \in 1..Len(pending[u]) :
            pending[u][i] = s /\ (pc[u] = "signal" => idx[u] <= i)

\* No submission is lost between the queue, mem::take, an early error return
\* of process_batch_group and the signalling loop: until its completion is
\* set, a leader still has it or will find it in the queue.
THEOREM NoneDropped == Spec => []NothingDropped
  <1>1. Init => NothingDropped
    BY DEF Init, NothingDropped
  <1>2. TypeOK /\ OrderInv /\ NothingDropped /\ [Next]_vars => NothingDropped'
    <2> SUFFICES ASSUME TypeOK, OrderInv, NothingDropped, [Next]_vars
                 PROVE  NothingDropped'
      OBVIOUS
    <2> USE PipelineAssumption
    <2>1. \A t \in Threads : \A k \in 1..count[t] :
            ~done[Sub(t, k)] => Tracked(Sub(t, k))
      BY DEF NothingDropped, Tracked
    <2>2. SUFFICES ASSUME NEW t \in Threads, NEW k \in 1..count'[t],
                          ~done'[Sub(t, k)]
                   PROVE  Tracked(Sub(t, k))'
      BY DEF NothingDropped, Tracked
    <2> DEFINE s == Sub(t, k)
    <2>3. ASSUME NEW u \in Threads, Enqueue(u) PROVE Tracked(s)'
      <3>1. /\ queue' = Append(queue, Sub(u, count[u] + 1))
            /\ Sub(u, count[u] + 1) \in Subs /\ queue \in Seq(Subs)
            /\ \A v \in Threads :
                 count'[v] = IF v = u THEN count[v] + 1 ELSE count[v]
            /\ \A v \in Threads : v # u => pc'[v] = pc[v]
            /\ pc[u] = "idle" /\ UNCHANGED <<pending, idx, done>>
        BY <2>3, SMTT(90) DEF Enqueue, Pushed, TypeOK, Sub, Subs
      <3>2. /\ Len(queue') = Len(queue) + 1 /\ Len(queue) \in Nat
            /\ \A i \in 1..Len(queue) : queue'[i] = queue[i]
            /\ queue'[Len(queue) + 1] = Sub(u, count[u] + 1)
        BY <3>1, AppendFacts
      <3>3. CASE k \in 1..count[t]
        <4>1. Tracked(s)
          BY <2>1, <2>2, <3>1, <3>3
        <4>2. \A v \in Threads : Leading(v) => v # u
          BY <3>1 DEF Leading
        <4>3. InSeq(s, queue) => InSeq(s, queue)'
          BY <3>2 DEF InSeq
        <4> QED
          BY <3>1, <4>1, <4>2, <4>3 DEF Tracked, Leading
      <3>4. CASE k \notin 1..count[t]
        <4>1. t = u /\ k = count[u] + 1
          <5>1. count[t] \in Nat
            BY DEF TypeOK
          <5>2. count'[t] = IF t = u THEN count[t] + 1 ELSE count[t]
            BY <3>1
          <5>3. k \in 1..count'[t]
            OBVIOUS
          <5> QED
            BY <3>4, <5>1, <5>2, <5>3
        <4>2. Len(queue) + 1 \in 1..Len(queue')
          BY <3>2
        <4>3. InSeq(s, queue)'
          BY <3>2, <4>1, <4>2 DEF InSeq
        <4> QED
          BY <4>3 DEF Tracked
      <3> QED
        BY <3>3, <3>4
    <2>4. ASSUME count' = count,
                 \A r \in Subs : done[r] => done'[r],
                 \A r \in Subs : Tracked(r) => Tracked(r)' \/ done'[r]
          PROVE  Tracked(s)'
      <3>1. s \in Subs /\ k \in 1..count[t]
        BY <2>4 DEF Sub, Subs, TypeOK
      <3> QED
        BY <2>1, <2>2, <2>4, <3>1
    <2>5. ASSUME NEW u \in Threads, Elect(u) \/ Release(u) \/ Return(u)
          PROVE  Tracked(s)'
      <3>1. /\ UNCHANGED <<count, queue, pending, idx, done>>
            /\ pc[u] \notin InGroup
            /\ \A v \in Threads : v # u => pc'[v] = pc[v]
        BY <2>5 DEF Elect, Release, Return, InGroup, TypeOK
      <3>2. pending[u] = <<>>
        BY <3>1 DEF OrderInv, GroupAtHome
      <3>3. \A r : Tracked(r) => Tracked(r)'
        BY <3>1, <3>2 DEF Tracked, InSeq, Leading
      <3> QED
        BY <2>4, <3>1, <3>3
    <2>6. ASSUME NEW u \in Threads, Draining(u) PROVE Tracked(s)'
      <3>1. CASE TakeQueue(u)
        <4>1. /\ UNCHANGED <<count, idx, done>> /\ pc[u] \notin InGroup
              /\ \A v \in Threads : v # u => pc'[v] = pc[v] /\ pending'[v] = pending[v]
              /\ pending'[u] = queue /\ pc'[u] = "lock"
          BY <3>1 DEF TakeQueue, InGroup, TypeOK
        <4>2. pending[u] = <<>>
          BY <4>1 DEF OrderInv, GroupAtHome
        <4>3. ASSUME NEW r, Tracked(r) PROVE Tracked(r)'
          <5>1. CASE InSeq(r, queue)
            BY <4>1, <5>1 DEF InSeq, Tracked, Leading
          <5>2. CASE ~InSeq(r, queue)
            BY <4>1, <4>2, <4>3, <5>2 DEF Tracked, Leading
          <5> QED
            BY <5>1, <5>2
        <4> QED
          BY <2>4, <4>1, <4>3
      <3>2. CASE QueueEmpty(u)
        <4>1. /\ UNCHANGED <<count, queue, pending, idx, done>>
              /\ pc[u] \notin InGroup
              /\ \A v \in Threads : v # u => pc'[v] = pc[v]
          BY <3>2 DEF QueueEmpty, InGroup, TypeOK
        <4>2. pending[u] = <<>>
          BY <4>1 DEF OrderInv, GroupAtHome
        <4>3. \A r : Tracked(r) => Tracked(r)'
          BY <4>1, <4>2 DEF Tracked, InSeq, Leading
        <4> QED
          BY <2>4, <4>1, <4>3
      <3>3. CASE Signal(u)
        <4>1. /\ UNCHANGED <<count, queue, pending, pc>>
              /\ idx[u] \in 1..Len(pending[u]) /\ pc[u] = "signal"
              /\ \A r \in Subs : done'[r] = IF r = pending[u][idx[u]] THEN TRUE
                                           ELSE done[r]
              /\ \A v \in Threads : idx'[v] = IF v = u THEN idx[v] + 1 ELSE idx[v]
              /\ idx[u] \in Nat /\ Len(pending[u]) \in Nat
          BY <3>3, SMTT(30) DEF Signal, TypeOK
        <4>2. \A i \in 1..Len(pending[u]) : idx[u] <= i => idx'[u] <= i \/ i = idx[u]
          BY <4>1
        <4>3. ASSUME NEW r \in Subs, Tracked(r), ~done'[r] PROVE Tracked(r)'
          <5>1. r # pending[u][idx[u]]
            BY <4>1, <4>3
          <5>2. CASE InSeq(r, queue)
            BY <4>1, <5>2 DEF InSeq, Tracked
          <5>3. CASE ~InSeq(r, queue)
            <6>1. PICK v \in Threads :
                    /\ Leading(v)
                    /\ \E i \in 1..Len(pending[v]) :
                         pending[v][i] = r /\ (pc[v] = "signal" => idx[v] <= i)
              BY <4>3, <5>3 DEF Tracked
            <6>2. PICK i \in 1..Len(pending[v]) :
                    pending[v][i] = r /\ (pc[v] = "signal" => idx[v] <= i)
              BY <6>1
            <6>3. pc[v] = "signal" => idx'[v] <= i
              BY <4>1, <4>2, <5>1, <6>2
            <6> QED
              BY <4>1, <6>1, <6>2, <6>3 DEF Tracked, Leading
          <5> QED
            BY <5>2, <5>3
        <4> QED
          BY <2>4, <4>1, <4>3
      <3>4. CASE AllSignalled(u)
        <4>1. /\ UNCHANGED <<count, queue, done>>
              /\ pc[u] = "signal" /\ idx[u] > Len(pending[u])
              /\ \A v \in Threads : v # u => /\ pc'[v] = pc[v] /\ idx'[v] = idx[v]
                                            /\ pending'[v] = pending[v]
              /\ idx[u] \in Nat /\ Len(pending[u]) \in Nat
          BY <3>4 DEF AllSignalled, LoopEnds, TypeOK
        <4>2. \A i \in 1..Len(pending[u]) : ~(idx[u] <= i)
          BY <4>1
        <4>3. \A r : Tracked(r) => Tracked(r)'
          BY <4>1, <4>2 DEF Tracked, InSeq, Leading
        <4> QED
          BY <2>4, <4>1, <4>3
      <3> QED
        BY <2>6, <3>1, <3>2, <3>3, <3>4 DEF Draining
    <2>7. ASSUME NEW u \in Threads, Processing(u) PROVE Tracked(s)'
      <3>1. /\ UNCHANGED <<count, queue, pending, done>>
            /\ \A v \in Threads : v # u => pc'[v] = pc[v] /\ idx'[v] = idx[v]
            /\ pc[u] # "signal"
            /\ pc'[u] \in {"write", "sync", "flush", "signal"}
            /\ pc'[u] = "signal" => idx'[u] = 1
        BY <2>7 DEF Processing, LockWorker, WriteNext, WriteFails, RolloverFails, GroupWritten,
                    GroupSync, GroupSyncFails, NoFlush, GroupFlush,
                    GroupFlushFails, LeaveWorker, AfterGroup, AfterWrites, TypeOK
      <3>2. \A i \in 1..Len(pending[u]) : 1 <= i
        BY DEF TypeOK
      <3>3. \A r : Tracked(r) => Tracked(r)'
        BY <3>1, <3>2 DEF Tracked, InSeq, Leading
      <3> QED
        BY <2>4, <3>1, <3>3
    <2>8. CASE OtherLocks \/ OtherRuns \/ UNCHANGED vars
      <3>1. UNCHANGED <<count, queue, pending, done, pc, idx>>
        BY <2>8 DEF OtherLocks, OtherRuns, vars
      <3>2. \A r : Tracked(r) => Tracked(r)'
        BY <3>1 DEF Tracked, InSeq, Leading
      <3> QED
        BY <2>4, <3>1, <3>2
    <2> QED
      BY <2>3, <2>5, <2>6, <2>7, <2>8 DEF Next, Submitting
  <1> QED
    BY <1>1, <1>2, TypeCorrect, OrderInvariant, PTL DEF Spec

-----------------------------------------------------------------------------
(* The pipeline implements GroupCommit *)

\* A step that starts and answers no call keeps what the callers know.
LEMMA StatusFrame ==
    ASSUME UNCHANGED <<ret, count>> PROVE Status' = Status
  BY DEF Status

\* The whole machinery of submit, drain_and_process and process_batch_group
\* does what GroupCommit says and nothing else: a push is Submit, an append is
\* the Commit of a pending submission that was not committed before, an fsync
\* is Force, a return from wait_for_completion is Answer, and every other step
\* changes nothing a caller or the log could show.
THEOREM RefinesGroupCommit == Spec => ImplementsGroupCommit
  <1>1. Init /\ TypeOK => Abstract!GInit
    <2> SUFFICES ASSUME Init, TypeOK PROVE Abstract!GInit
      OBVIOUS
    <2>1. \A s \in Subs : ~(s[2] <= count[s[1]]) /\ ret[s] = "none"
      BY DEF Init, Subs
    <2>2. Status = [s \in Subs |-> "none"]
      BY <2>1 DEF Status
    <2> QED
      BY <2>2 DEF Init, Abstract!GInit
  <1>2. CommitInv /\ OneLeader /\ OrderInv /\ [Next]_vars
          => [Abstract!GNext]_(Abstract!gvars)
    <2> SUFFICES ASSUME CommitInv, OneLeader, OrderInv, [Next]_vars
                 PROVE  Abstract!GNext \/ UNCHANGED <<Status, wal, synced>>
      BY DEF Abstract!gvars
    <2> USE PipelineAssumption
    <2>1. TypeOK
      BY DEF CommitInv
    <2>2. ASSUME NEW t \in Threads, Enqueue(t) PROVE Abstract!GNext
      <3> DEFINE s == Sub(t, count[t] + 1)
      <3>1. /\ count[t] \in Nat /\ count[t] < MaxSubmits
            /\ \A u \in Threads : count'[u] = IF u = t THEN count[u] + 1 ELSE count[u]
            /\ UNCHANGED <<ret, wal, synced>>
        BY <2>1, <2>2 DEF Enqueue, TypeOK
      <3>2. s = <<t, count[t] + 1>> /\ s \in Subs
        BY <3>1 DEF Sub, Subs
      <3>3. ret[s] = "none"
        BY <2>2, <3>1, <3>2 DEF CommitInv, CallsAreOpen
      <3>4. Status[s] = "none"
        BY <3>1, <3>2, <3>3 DEF Status
      <3>5. Status' = [Status EXCEPT ![s] = "pending"]
        <4>1. \A r \in Subs : Status'[r] = IF r = s THEN "pending" ELSE Status[r]
          <5> SUFFICES ASSUME NEW r \in Subs
                       PROVE  Status'[r] = IF r = s THEN "pending" ELSE Status[r]
            OBVIOUS
          <5>1. CASE r = s
            BY <3>1, <3>2, <3>3, <5>1 DEF Status
          <5>2. CASE r # s
            <6>1. PICK u \in Threads, k \in 1..MaxSubmits : r = <<u, k>>
              BY DEF Subs
            <6>2. u = t => k # count[t] + 1
              BY <3>2, <5>2, <6>1
            <6>3. k <= count'[u] <=> k <= count[u]
              BY <2>1, <3>1, <6>2, SMTT(90) DEF TypeOK
            <6> QED
              BY <3>1, <5>2, <6>1, <6>3 DEF Status
          <5> QED
            BY <5>1, <5>2
        <4> HIDE DEF s
        <4> QED
          BY <4>1 DEF Status
      <3> HIDE DEF s
      <3>6. Abstract!Submit(s)
        BY <3>1, <3>4, <3>5 DEF Abstract!Submit
      <3> QED
        BY <3>2, <3>6 DEF Abstract!GNext
    <2>3. ASSUME NEW t \in Threads, Return(t) PROVE Abstract!GNext
      <3> DEFINE s == Current(t)
                 r == Outcome(s)
      <3>1. s = <<t, count[t]>> /\ s \in Subs /\ ret[s] = "none"
        <4>1. s = <<t, count[t]>>
          BY DEF Current, Sub
        <4>2. pc[t] = "wait" /\ count[t] \in 0..MaxSubmits
          BY <2>1, <2>3 DEF Return, TypeOK
        <4>3. count[t] > 0
          BY <4>2 DEF CommitInv, CallsAreOpen
        <4>4. count[t] \in 1..MaxSubmits
          BY <4>2, <4>3
        <4> HIDE DEF s
        <4> QED
          BY <4>1, <4>2, <4>4 DEF CommitInv, CallsAreOpen, Subs
      <3>2. /\ done[s] /\ UNCHANGED <<count, wal, synced>>
            /\ ret' = [ret EXCEPT ![s] = r]
            /\ r = (IF error[s] THEN "err" ELSE "ok")
        BY <2>3 DEF Return, Outcome
      <3> HIDE DEF s, r
      <3>3. Status[s] = "pending"
        BY <2>1, <3>1 DEF Status, TypeOK
      <3>4. r = "ok" => Safe(s)
        BY <2>1, <3>1, <3>2 DEF CommitInv, AnswersAreSafe, TypeOK
      <3>5. Status' = [Status EXCEPT ![s] = r]
        <4>1. \A q \in Subs : ret'[q] = IF q = s THEN r ELSE ret[q]
          BY <2>1, <3>2 DEF TypeOK
        <4>2. r # "none" /\ count' = count
          BY <3>2
        <4>3. \A q \in Subs : Status'[q] = IF q = s THEN r ELSE Status[q]
          BY <4>1, <4>2 DEF Status
        <4> QED
          BY <4>3 DEF Status
      <3>6. Safe(s) => Abstract!Committed(s) /\ (Always => Abstract!Stable(s))
        BY <2>1 DEF Safe, Abstract!Committed, Abstract!Stable, TypeOK
      <3>7. Abstract!Answer(s, r)
        BY <3>2, <3>3, <3>4, <3>5, <3>6 DEF Abstract!Answer
      <3>8. r \in Abstract!Outcomes
        BY <3>2 DEF Abstract!Outcomes
      <3> QED
        BY <3>1, <3>7, <3>8 DEF Abstract!GNext
    <2>4. ASSUME NEW t \in Threads, Elect(t) \/ Release(t) \/ Draining(t)
          PROVE  UNCHANGED <<Status, wal, synced>>
      <3>1. UNCHANGED <<ret, count, wal, synced>>
        BY <2>4 DEF Elect, Release, Draining, TakeQueue, QueueEmpty, Signal,
                    AllSignalled
      <3> QED
        BY <3>1, StatusFrame
    <2>5. ASSUME NEW t \in Threads, WriteNext(t) \/ RolloverFails(t)
          PROVE  Abstract!GNext
      <3> DEFINE s == pending[t][idx[t]]
      <3>1. /\ pc[t] = "write" /\ idx[t] \in 1..Len(pending[t]) /\ s \in Subs
            /\ UNCHANGED <<ret, count, synced>> /\ wal' = Append(wal, s)
            /\ idx[t] \in Nat /\ Len(pending[t]) \in Nat /\ pending[t] # <<>>
        BY <2>1, <2>5, SMTT(30) DEF WriteNext, RolloverFails, TypeOK
      <3>2. \A i \in 1..Len(wal) : wal[i] # s
        BY <2>1, <2>5, OrderWriteNext, OrderRolloverFails
      <3>3. /\ Base(t) \in Nat /\ s = arrivals[Base(t) + idx[t]]
            /\ Base(t) + idx[t] \in 1..Len(arrivals)
        <4>1. Taken \in Nat /\ Base(t) = Taken - Len(pending[t])
          BY DEF OrderInv, QueueIsLast, Base
        <4>2. Taken <= Len(arrivals) /\ Len(arrivals) \in Nat
          BY <2>1 DEF Taken, TypeOK
        <4>3. Base(t) \in Nat /\ s = arrivals[Base(t) + idx[t]]
          BY <3>1 DEF OrderInv, GroupIsNext
        <4> QED
          BY <3>1, <4>1, <4>2, <4>3
      <3> HIDE DEF s
      <3>4. ~done[s]
        <4>1. ~SignalledPlace(Base(t) + idx[t])
          BY <3>1, <3>3 DEF SignalledPlace
        <4> QED
          BY <3>3, <4>1 DEF OrderInv, DoneInOrder
      <3>5. ret[s] = "none" /\ s[2] <= count[s[1]]
        BY <3>1, <3>3, <3>4 DEF OrderInv, DoneInOrder, PushedOnce
      <3>6. Status[s] = "pending"
        BY <3>1, <3>5 DEF Status
      <3>7. Abstract!Commit(s)
        BY <3>1, <3>2, <3>6, StatusFrame DEF Abstract!Commit, Abstract!Committed
      <3> QED
        BY <3>1, <3>7 DEF Abstract!GNext
    <2>6. ASSUME NEW t \in Threads, Processing(t), ~WriteNext(t),
                 ~RolloverFails(t)
          PROVE  Abstract!GNext \/ UNCHANGED <<Status, wal, synced>>
      <3>1. UNCHANGED <<ret, count, wal>> /\ (synced' = synced \/ synced' = Len(wal))
        BY <2>6 DEF Processing, LockWorker, WriteFails, GroupWritten, GroupSync,
                    Fsynced, GroupSyncFails, NoFlush, GroupFlush,
                    GroupFlushFails
      <3> QED
        BY <3>1, StatusFrame DEF Abstract!GNext, Abstract!Force
    <2>7. CASE OtherLocks \/ OtherRuns \/ UNCHANGED vars
      <3>1. UNCHANGED <<ret, count, wal>> /\ (synced' = synced \/ synced' = Len(wal))
        BY <2>7 DEF OtherLocks, OtherRuns, vars
      <3> QED
        BY <3>1, StatusFrame DEF Abstract!GNext, Abstract!Force
    <2> QED
      BY <2>2, <2>3, <2>4, <2>5, <2>6, <2>7 DEF Next, Submitting
  <1> QED
    BY <1>1, <1>2, TypeCorrect, LeaderIsUnique, CommitInvariant, OrderInvariant, PTL
    DEF Spec, ImplementsGroupCommit, Abstract!GSpec
=============================================================================
