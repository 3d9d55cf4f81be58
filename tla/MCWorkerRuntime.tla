-------------------------- MODULE MCWorkerRuntime --------------------------
(***************************************************************************)
(* Small instances of WorkerRuntime: one run, of a task that is resumable, *)
(* retried by callers, or neither; one or two workers; up to three         *)
(* attempts; and adapters that succeed, fail retryably, time out or report *)
(* that they were cancelled.                                               *)
(***************************************************************************)
EXTENDS WorkerRuntime, TLC

MCTaskId == [t \in Tasks |-> t]
MCOnce == [t \in Tasks |-> 1]
MCTwice == [t \in Tasks |-> 2]
MCUnit == [t \in Tasks |-> 1]
MCReports == {[status |-> "succeeded", retryable |-> FALSE],
              [status |-> "failed", retryable |-> TRUE]}
MCAllReports == MCReports \cup {[status |-> "cancelled", retryable |-> FALSE],
                                [status |-> "timed_out", retryable |-> TRUE]}
WorkerSymmetry == Permutations(Workers)
==========================================================================
