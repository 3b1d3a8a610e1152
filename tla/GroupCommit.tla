----------------------------- MODULE GroupCommit -----------------------------
(***************************************************************************)
(* What the write pipeline of FlowDB promises its callers, without the     *)
(* queue, the commit leader and the worker mutex that implement it         *)
(* (src/src/write_worker.rs, WritePipeline::submit).                       *)
(*                                                                         *)
(* A submission is a batch of records handed over by one call of           *)
(* Engine::do_write.  The pipeline commits submissions one at a time to a  *)
(* log (the WAL, and the memtable with it), forces a prefix of the log to  *)
(* disk, and answers every submission at most once.  "ok" is only answered *)
(* to a committed submission, and under SyncMode::Always only once the     *)
(* submission lies in the forced prefix.                                   *)
(***************************************************************************)
EXTENDS Naturals, Sequences

CONSTANTS Subs,       \* the submissions that may ever be made
          Always      \* TRUE: SyncMode::Always, FALSE: SyncMode::IntervalMs

VARIABLES status,     \* [Subs -> what the caller of the submission knows]
          log,        \* the committed submissions, in commit order
          stable      \* length of the prefix of log known to be on disk

gvars == <<status, log, stable>>

Outcomes == {"ok", "err"}

Committed(s) == \E i \in 1..Len(log) : log[i] = s

Stable(s) == \E i \in 1..stable : i <= Len(log) /\ log[i] = s

GInit ==
    /\ status = [s \in Subs |-> "none"]
    /\ log = <<>>
    /\ stable = 0

\* A caller hands a submission over and starts to wait.
Submit(s) ==
    /\ status[s] = "none"
    /\ status' = [status EXCEPT ![s] = "pending"]
    /\ UNCHANGED <<log, stable>>

\* A pending submission reaches the log, once.
Commit(s) ==
    /\ status[s] = "pending"
    /\ ~Committed(s)
    /\ log' = Append(log, s)
    /\ UNCHANGED <<status, stable>>

\* The log is forced to disk up to its end.
Force ==
    /\ stable' = Len(log)
    /\ UNCHANGED <<status, log>>

\* The caller learns the outcome.  "err" is possible for a committed
\* submission as well: one failing batch fails its whole group.
Answer(s, r) ==
    /\ status[s] = "pending"
    /\ r = "ok" => Committed(s) /\ (Always => Stable(s))
    /\ status' = [status EXCEPT ![s] = r]
    /\ UNCHANGED <<log, stable>>

GNext ==
    \/ \E s \in Subs : Submit(s) \/ Commit(s)
    \/ \E s \in Subs, r \in Outcomes : Answer(s, r)
    \/ Force

GSpec == GInit /\ [][GNext]_gvars
=============================================================================
