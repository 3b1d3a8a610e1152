---------------------------- MODULE WritePipeline ----------------------------
(***************************************************************************)
(* The group-commit pipeline of FlowDB: WritePipeline::submit,             *)
(* drain_and_process and wait_for_completion, with the steps of            *)
(* WriteWorker::process_batch_group that decide the answer of a group      *)
(* (src/src/write_worker.rs).                                              *)
(*                                                                         *)
(* Application threads push submissions on a shared queue; the thread that *)
(* wins the compare-and-swap on `committing` becomes the commit leader,    *)
(* takes the whole queue, processes it under the worker mutex and signals  *)
(* every submission it took, until it finds the queue empty.  The worker   *)
(* mutex is also taken by Engine::flush, close and shutdown and by the     *)
(* maintenance thread: they are the one actor Other.                       *)
(*                                                                         *)
(* Left out here: sequence numbers, WAL segments, what a flush does to the *)
(* memtable and the files (module Durability).  `wal` is the history of    *)
(* the appends; the append to the WAL and the insertion into the memtable  *)
(* that follows it under the same mutex are one step (RolloverFails is the *)
(* append that no insertion follows).                                      *)
(***************************************************************************)
EXTENDS Naturals, Sequences

CONSTANTS Threads,      \* application threads calling Engine::do_write
          Other,        \* any other holder of the worker mutex
          Nobody,       \* the worker mutex is free
          MaxSubmits,   \* bound: submissions per thread
          Always,       \* config.wal_sync_mode = SyncMode::Always
          IoFaults      \* TRUE: file operations may fail

ASSUME PipelineAssumption ==
    /\ Other \notin Threads
    /\ Nobody \notin Threads \cup {Other}
    /\ MaxSubmits \in Nat \ {0}
    /\ Always \in BOOLEAN
    /\ IoFaults \in BOOLEAN

\* The k-th submission of thread t.
Subs == Threads \X (1..MaxSubmits)

Sub(t, k) == <<t, k>>

VARIABLES
    pc,          \* [Threads -> where the thread is in submit]
    count,       \* [Threads -> submissions started by the thread]
    queue,       \* WritePipeline::queue
    committing,  \* WritePipeline::committing
    worker,      \* holder of the WritePipeline::worker mutex
    pending,     \* [Threads -> the leader's local Vec of taken submissions]
    idx,         \* [Threads -> loop position in pending]
    result,      \* [Threads -> outcome of process_batch_group]
    done,        \* [Subs -> Completion::done]
    error,       \* [Subs -> Completion::error_msg is Some]
    ret,         \* [Subs -> what submit returned]
    wal,         \* submissions appended to the WAL, in order (history)
    synced,      \* length of the prefix of wal that has been fsynced
    arrivals     \* submissions in the order they were pushed (history)

vars == <<pc, count, queue, committing, worker, pending, idx, result, done,
          error, ret, wal, synced, arrivals>>

Locations == {"idle", "elect", "drain", "lock", "write", "sync", "flush",
              "signal", "release", "wait"}

Current(t) == Sub(t, count[t])

InSeq(s, q) == \E i \in 1..Len(q) : q[i] = s

Init ==
    /\ pc = [t \in Threads |-> "idle"]
    /\ count = [t \in Threads |-> 0]
    /\ queue = <<>>
    /\ committing = FALSE
    /\ worker = Nobody
    /\ pending = [t \in Threads |-> <<>>]
    /\ idx = [t \in Threads |-> 1]
    /\ result = [t \in Threads |-> "ok"]
    /\ done = [s \in Subs |-> FALSE]
    /\ error = [s \in Subs |-> FALSE]
    /\ ret = [s \in Subs |-> "none"]
    /\ wal = <<>>
    /\ synced = 0
    /\ arrivals = <<>>

-----------------------------------------------------------------------------
(* WritePipeline::submit *)

\* Mutant: in front of the waiting submissions.
PushedInFront(s) == <<s>> \o queue

\* Vec::push
Pushed(s) == Append(queue, s)

\* 1. The submission is pushed under the queue mutex.
Enqueue(t) ==
    LET s == Sub(t, count[t] + 1) IN
    /\ pc[t] = "idle"
    /\ count[t] < MaxSubmits
    /\ count' = [count EXCEPT ![t] = @ + 1]
    /\ queue' = Pushed(s)
    /\ arrivals' = Append(arrivals, s)
    /\ pc' = [pc EXCEPT ![t] = "elect"]
    /\ UNCHANGED <<committing, worker, pending, idx, result, done, error, ret,
                   wal, synced>>

\* Mutant: the old value of the flag is not looked at.
RoleUnchecked == "drain"

\* The winner of the compare_exchange leads, the others wait.
Role == IF committing THEN "wait" ELSE "drain"

\* 2. compare_exchange(false, true) on committing: the winner leads, every
\* other thread goes straight to wait_for_completion.
Elect(t) ==
    /\ pc[t] = "elect"
    /\ committing' = TRUE
    /\ pc' = [pc EXCEPT ![t] = Role]
    /\ UNCHANGED <<count, queue, worker, pending, idx, result, done, error, ret,
                   wal, synced, arrivals>>

\* The leader stores false into committing after drain_and_process returned.
Release(t) ==
    /\ pc[t] = "release"
    /\ committing' = FALSE
    /\ pc' = [pc EXCEPT ![t] = "wait"]
    /\ UNCHANGED <<count, queue, worker, pending, idx, result, done, error, ret,
                   wal, synced, arrivals>>

\* Mutant: the error message is not looked at.
OutcomeOk(s) == "ok"

\* Err if there is an error message, Ok otherwise.
Outcome(s) == IF error[s] THEN "err" ELSE "ok"

\* 3. wait_for_completion: blocks on the condition variable until done, then
\* takes the error message.
Return(t) ==
    LET s == Current(t) IN
    /\ pc[t] = "wait"
    /\ done[s]
    /\ ret' = [ret EXCEPT ![s] = Outcome(s)]
    /\ error' = [error EXCEPT ![s] = FALSE]
    /\ pc' = [pc EXCEPT ![t] = "idle"]
    /\ UNCHANGED <<count, queue, committing, worker, pending, idx, result, done,
                   wal, synced, arrivals>>

-----------------------------------------------------------------------------
(* WritePipeline::drain_and_process *)

\* Mutant: no look at q.is_empty(), an empty group is processed too.
TakeQueueUnchecked(t) ==
    /\ pc[t] = "drain"
    /\ pending' = [pending EXCEPT ![t] = queue]
    /\ queue' = <<>>
    /\ pc' = [pc EXCEPT ![t] = "lock"]
    /\ UNCHANGED <<count, committing, worker, idx, result, done, error, ret,
                   wal, synced, arrivals>>

\* mem::take of the whole queue, under the queue mutex.
TakeQueue(t) ==
    /\ pc[t] = "drain"
    /\ queue # <<>>
    /\ pending' = [pending EXCEPT ![t] = queue]
    /\ queue' = <<>>
    /\ pc' = [pc EXCEPT ![t] = "lock"]
    /\ UNCHANGED <<count, committing, worker, idx, result, done, error, ret,
                   wal, synced, arrivals>>

\* The queue is empty: the loop breaks, the queue mutex is released.
QueueEmpty(t) ==
    /\ pc[t] = "drain"
    /\ queue = <<>>
    /\ pc' = [pc EXCEPT ![t] = "release"]
    /\ UNCHANGED <<count, queue, committing, worker, pending, idx, result, done,
                   error, ret, wal, synced, arrivals>>

LockWorker(t) ==
    /\ pc[t] = "lock"
    /\ worker = Nobody
    /\ worker' = t
    /\ idx' = [idx EXCEPT ![t] = 1]
    /\ pc' = [pc EXCEPT ![t] = "write"]
    /\ UNCHANGED <<count, queue, committing, pending, result, done, error, ret,
                   wal, synced, arrivals>>

\* Mutant: an error goes back to the queue without signalling the group.
AfterGroupOnError(r) == IF r = "err" THEN "drain" ELSE "signal"

\* The group is signalled whatever its outcome.
AfterGroup(r) == "signal"

\* process_batch_group returns r: the worker mutex is released, and the
\* signalling loop starts.
LeaveWorker(t, r) ==
    /\ worker' = Nobody
    /\ result' = [result EXCEPT ![t] = r]
    /\ idx' = [idx EXCEPT ![t] = 1]
    /\ pc' = [pc EXCEPT ![t] = AfterGroup(r)]

\* process_batch_inner for the next submission: WAL append, memtable insert.
WriteNext(t) ==
    /\ pc[t] = "write"
    /\ idx[t] <= Len(pending[t])
    /\ wal' = Append(wal, pending[t][idx[t]])
    /\ idx' = [idx EXCEPT ![t] = @ + 1]
    /\ UNCHANGED <<pc, count, queue, committing, worker, pending, result, done,
                   error, ret, synced, arrivals>>

\* Wal::write_encoded fails before the batch is in the segment: `?` leaves
\* process_batch_group at once, with the submissions before this one written
\* and the ones after it untouched.
WriteFails(t) ==
    /\ IoFaults
    /\ pc[t] = "write"
    /\ idx[t] <= Len(pending[t])
    /\ LeaveWorker(t, "err")
    /\ UNCHANGED <<count, queue, committing, pending, done, error, ret, wal,
                   synced, arrivals>>

\* write_encoded fails after the append: the segment is full and cannot be
\* flushed, or the next one not created.  The batch is in the log, is not
\* inserted into the memtable, and its group is answered with the error.
RolloverFails(t) ==
    /\ IoFaults
    /\ pc[t] = "write"
    /\ idx[t] <= Len(pending[t])
    /\ wal' = Append(wal, pending[t][idx[t]])
    /\ LeaveWorker(t, "err")
    /\ UNCHANGED <<count, queue, committing, pending, done, error, ret, synced,
                   arrivals>>

\* Mutant: the group is answered without its fsync.
AfterWritesUnsynced == "flush"

AfterWrites == IF Always THEN "sync" ELSE "flush"

\* Every submission is written: one fsync for the group if any of them asks
\* for it (sync_mode is the engine's, so all of them do or none does).
GroupWritten(t) ==
    /\ pc[t] = "write"
    /\ idx[t] > Len(pending[t])
    /\ pc' = [pc EXCEPT ![t] = AfterWrites]
    /\ UNCHANGED <<count, queue, committing, worker, pending, idx, result, done,
                   error, ret, wal, synced, arrivals>>

\* sync_all covers everything appended so far.
Fsynced == Len(wal)

\* Wal::sync_all for the group.
GroupSync(t) ==
    /\ pc[t] = "sync"
    /\ synced' = Fsynced
    /\ pc' = [pc EXCEPT ![t] = "flush"]
    /\ UNCHANGED <<count, queue, committing, worker, pending, idx, result, done,
                   error, ret, wal, arrivals>>

GroupSyncFails(t) ==
    /\ IoFaults
    /\ pc[t] = "sync"
    /\ LeaveWorker(t, "err")
    /\ UNCHANGED <<count, queue, committing, pending, done, error, ret, wal,
                   synced, arrivals>>

\* should_flush is false: the group succeeded.
NoFlush(t) ==
    /\ pc[t] = "flush"
    /\ LeaveWorker(t, "ok")
    /\ UNCHANGED <<count, queue, committing, pending, done, error, ret, wal,
                   synced, arrivals>>

\* should_flush is true and do_flush succeeds; its closing Wal::sync_all only
\* warns when it fails.
GroupFlush(t) ==
    /\ pc[t] = "flush"
    /\ synced' = Len(wal) \/ (IoFaults /\ synced' = synced)
    /\ LeaveWorker(t, "ok")
    /\ UNCHANGED <<count, queue, committing, pending, done, error, ret, wal,
                   arrivals>>

\* do_flush fails: the group is answered with the error although it is
\* written (and synced).
GroupFlushFails(t) ==
    /\ IoFaults
    /\ pc[t] = "flush"
    /\ LeaveWorker(t, "err")
    /\ UNCHANGED <<count, queue, committing, pending, done, error, ret, wal,
                   synced, arrivals>>

\* One iteration of the signalling loop: error_msg and done are set under the
\* done mutex, then the waiter is notified.
Signal(t) ==
    LET s == pending[t][idx[t]] IN
    /\ pc[t] = "signal"
    /\ idx[t] <= Len(pending[t])
    /\ error' = [error EXCEPT ![s] = (result[t] = "err")]
    /\ done' = [done EXCEPT ![s] = TRUE]
    /\ idx' = [idx EXCEPT ![t] = @ + 1]
    /\ UNCHANGED <<pc, count, queue, committing, worker, pending, result, ret,
                   wal, synced, arrivals>>

\* Mutant: the loop ends before the last submission.
LoopEndsEarly(t) == idx[t] >= Len(pending[t])

LoopEnds(t) == idx[t] > Len(pending[t])

\* The whole group is signalled: the locals of the iteration are dropped, back
\* to the queue.
AllSignalled(t) ==
    /\ pc[t] = "signal"
    /\ LoopEnds(t)
    /\ pending' = [pending EXCEPT ![t] = <<>>]
    /\ idx' = [idx EXCEPT ![t] = 1]
    /\ result' = [result EXCEPT ![t] = "ok"]
    /\ pc' = [pc EXCEPT ![t] = "drain"]
    /\ UNCHANGED <<count, queue, committing, worker, done, error, ret, wal,
                   synced, arrivals>>

-----------------------------------------------------------------------------
(* Engine::flush, close, shutdown and the maintenance thread *)

OtherLocks ==
    /\ worker = Nobody
    /\ worker' = Other
    /\ UNCHANGED <<pc, count, queue, committing, pending, idx, result, done,
                   error, ret, wal, synced, arrivals>>

\* do_flush or Wal::sync_all, successful or not, then unlock.
OtherRuns ==
    /\ worker = Other
    /\ worker' = Nobody
    /\ synced' \in {synced, Len(wal)}
    /\ UNCHANGED <<pc, count, queue, committing, pending, idx, result, done,
                   error, ret, wal, arrivals>>

-----------------------------------------------------------------------------
Submitting(t) == Enqueue(t) \/ Elect(t) \/ Release(t) \/ Return(t)

Processing(t) ==
    \/ LockWorker(t) \/ WriteNext(t) \/ WriteFails(t) \/ RolloverFails(t)
    \/ GroupWritten(t) \/ GroupSync(t) \/ GroupSyncFails(t)
    \/ NoFlush(t) \/ GroupFlush(t) \/ GroupFlushFails(t)

Draining(t) ==
    TakeQueue(t) \/ QueueEmpty(t) \/ Signal(t) \/ AllSignalled(t)

Next ==
    \/ \E t \in Threads : Submitting(t) \/ Draining(t) \/ Processing(t)
    \/ OtherLocks
    \/ OtherRuns

Spec == Init /\ [][Next]_vars

\* The scheduler runs every thread that can run.  parking_lot mutexes are
\* eventually fair, so a thread that keeps asking for the worker mutex gets
\* it although others keep taking it: strong fairness on LockWorker.  Nothing
\* obliges a caller to submit, so Enqueue has no fairness.
Fairness ==
    /\ \A t \in Threads :
        /\ WF_vars(Elect(t) \/ Release(t) \/ Return(t))
        /\ WF_vars(Draining(t))
        /\ WF_vars(Processing(t))
        /\ SF_vars(LockWorker(t))
    /\ WF_vars(OtherRuns)

FairSpec == Spec /\ Fairness

-----------------------------------------------------------------------------
(* Properties *)

\* The thread is in the iteration of drain_and_process for a group it took.
HandlesGroup(t) == pc[t] \in {"lock", "write", "sync", "flush", "signal"}

\* The types, and the shape of the loop: the leader's Vec is never empty while
\* a group is handled and is gone afterwards, and no loop runs past its end.
TypeOK ==
    /\ pc \in [Threads -> Locations]
    /\ count \in [Threads -> 0..MaxSubmits]
    /\ queue \in Seq(Subs)
    /\ committing \in BOOLEAN
    /\ worker \in Threads \cup {Other, Nobody}
    /\ pending \in [Threads -> Seq(Subs)]
    /\ idx \in [Threads -> Nat \ {0}]
    /\ result \in [Threads -> {"ok", "err"}]
    /\ done \in [Subs -> BOOLEAN]
    /\ error \in [Subs -> BOOLEAN]
    /\ ret \in [Subs -> {"none", "ok", "err"}]
    /\ wal \in Seq(Subs)
    /\ synced \in 0..Len(wal)
    /\ arrivals \in Seq(Subs)
    /\ \A t \in Threads : /\ HandlesGroup(t) <=> pending[t] # <<>>
                          /\ idx[t] <= Len(pending[t]) + 1

\* Between the won compare-and-swap and the store of false.
Leading(t) == pc[t] \in {"drain", "lock", "write", "sync", "flush", "signal",
                         "release"}

InWorker(t) == pc[t] \in {"write", "sync", "flush"}

\* The flag and the mutex do their work: at most one thread leads, only while
\* committing is set, and a thread inside process_batch_group holds the worker.
OneLeader ==
    /\ \A t, u \in Threads : Leading(t) /\ Leading(u) => t = u
    /\ (\E t \in Threads : Leading(t)) => committing
    /\ \A t \in Threads : InWorker(t) => worker = t

\* Wal::write_encoded, sync_all and the completion hand-shake together: a
\* caller told Ok finds its batch in the WAL, and under SyncMode::Always in the
\* fsynced part of it, also when groups before it failed halfway.
OkIsCommitted ==
    \A s \in Subs : ret[s] = "ok" =>
        \E i \in 1..Len(wal) : wal[i] = s /\ (Always => i <= synced)

\* The queue is first-in first-out across groups and leaders: batches reach
\* the WAL in the order their callers pushed them, each at most once, whatever
\* group or leader they ended in and whichever of them failed.
CommitOrder ==
    \A i, j \in 1..Len(wal) : i < j =>
        \E a, b \in 1..Len(arrivals) :
            a < b /\ arrivals[a] = wal[i] /\ arrivals[b] = wal[j]

\* No submission is dropped between the queue, the leader's Vec and its
\* completion: one that is not answered yet is still queued or still in the
\* hands of a leader that will signal it.
NothingDropped ==
    \A t \in Threads : \A k \in 1..count[t] :
        LET s == Sub(t, k) IN
        ~done[s] =>
            \/ InSeq(s, queue)
            \/ \E u \in Threads :
                /\ Leading(u)
                /\ \E i \in 1..Len(pending[u]) :
                    pending[u][i] = s /\ (pc[u] = "signal" => idx[u] <= i)

\* The pipeline implements the abstract group commit: the caller of an
\* unreturned submission is "pending".
Status ==
    [s \in Subs |-> IF ret[s] # "none" THEN ret[s]
                    ELSE IF s[2] <= count[s[1]] THEN "pending" ELSE "none"]

Abstract == INSTANCE GroupCommit WITH status <- Status, log <- wal,
                                      stable <- synced

ImplementsGroupCommit == Abstract!GSpec

\* drain_and_process keeps its word: a submission that is in the queue while a
\* leader is about to look at the queue is answered.
DrainedIsAnswered ==
    \A s \in Subs :
        (InSeq(s, queue) /\ \E t \in Threads : pc[t] = "drain")
            ~> (ret[s] # "none")

\* What the comment of submit says of every call: "Enqueue a write and wait
\* for it to be committed."  A thread that pushes after the leader has seen
\* the queue empty and before the leader clears committing loses the election
\* and nobody signals it.
EverySubmitReturns ==
    \A s \in Subs : InSeq(s, queue) ~> (ret[s] # "none")
=============================================================================
