--------------------------- MODULE RuntimeStore ---------------------------
(***************************************************************************)
(* The durable runtime store (core/runtime/.../store.py): the tables of    *)
(* runs, stages, attempts and resource reservations, and one action for    *)
(* every SQLite transaction, or autocommitted statement, that changes      *)
(* them.  A call that the store refuses raises and rolls back, so it is    *)
(* a step that changes nothing; modules that compose the store with its    *)
(* callers use the *Allowed operators to see a refusal.                    *)
(*                                                                         *)
(* A run has exactly one stage (submit_run creates it; nothing appends     *)
(* another), so the stage row is indexed by its run, and an attempt is     *)
(* identified by its run and its attempt_number.  Wall-clock time is       *)
(* abstracted to whether a lease is still live.                            *)
(***************************************************************************)
EXTENDS RunStatus, Integers, Sequences, FiniteSets

CONSTANTS
    Runs,             \* the run ids that may ever be generated
    Tasks,            \* immutable TaskSpecs
    TaskId,           \* the task_id a TaskSpec carries
    MaxAttempts,      \* TaskSpec.max_attempts
    Resumable,        \* the tasks whose plugin manifest says resumable
    Cpu, Memory,      \* what RuntimeConfig.reservation_for reserves for a task
    CapacityCpu, CapacityMemory, FractionPercent,
    Keys, NoKey,      \* idempotency keys, and submitting without one
    Workers,          \* worker ids
    Workspaces,       \* attempt directories, attempt-1, attempt-2, ...
    AttemptBound,     \* bound: attempts that workers start, of all runs
    NoTask            \* the task of a run id that was never generated

ASSUME TaskAssumption ==
    /\ NoTask \notin Tasks
    /\ NoKey \notin Keys
    /\ MaxAttempts \in [Tasks -> Nat \ {0}]
    /\ Cpu \in [Tasks -> Nat \ {0}]
    /\ Memory \in [Tasks -> Nat \ {0}]
    /\ Resumable \subseteq Tasks
    /\ AttemptBound \in Nat

ASSUME CapacityAssumption ==
    /\ CapacityCpu \in Nat \ {0}
    /\ CapacityMemory \in Nat \ {0}
    /\ FractionPercent \in 1..100

VARIABLES
    runStatus,      \* runtime_runs.status, or "absent"
    stageStatus,    \* runtime_stage_runs.status of the run's stage
    taskOf,         \* runtime_runs.task_spec_json
    keyOf,          \* runtime_runs.idempotency_key
    attempts,       \* runtime_attempts of the stage, by attempt_number
    reservations    \* runtime_resource_reservations, as <<run, number>>

storeVars == <<runStatus, stageStatus, taskOf, keyOf, attempts, reservations>>

-----------------------------------------------------------------------------
(* Tables                                                                  *)

\* failure is what failure_json says of a retry; lease is lease_expires_at
\* against the clock ("none" is NULL); attached is process_id IS NOT NULL.
Attempt ==
    [status: AttemptStatus, worker: Workers, workspace: Workspaces,
     lease: {"live", "expired", "none"}, attached: BOOLEAN,
     failure: {"none", "retryable", "final"}]

Exists(r) == runStatus[r] # "absent"

AttemptIds == {a \in Runs \X (Nat \ {0}) : a[2] <= Len(attempts[a[1]])}

\* The bound on attempts; no table counts them.
BelowAttemptBound ==
    Cardinality(UNION {{r} \X (1..Len(attempts[r])) : r \in Runs}) < AttemptBound

Ended(r, n) == attempts[r][n].status \in EndedAttemptStatus

\* max(1, ceil(capacity * platform_fraction)).
Budget(capacity) ==
    LET share == (capacity * FractionPercent + 99) \div 100
    IN  IF share < 1 THEN 1 ELSE share

\* SUM(...) over the reservation rows, as the number of units they hold.
Units(need, held) ==
    UNION {{a} \X (1..need[taskOf[a[1]]]) : a \in held}

ReservedCpu == Cardinality(Units(Cpu, reservations))
ReservedMemory == Cardinality(Units(Memory, reservations))

\* Mutant: admission forgets what is already reserved.
FitsAlone(t) ==
    /\ Cpu[t] <= Budget(CapacityCpu)
    /\ Memory[t] <= Budget(CapacityMemory)

Fits(t) ==
    /\ ReservedCpu + Cpu[t] <= Budget(CapacityCpu)
    /\ ReservedMemory + Memory[t] <= Budget(CapacityMemory)

TypeOK ==
    /\ runStatus \in [Runs -> RuntimeStatus \cup {"absent"}]
    /\ stageStatus \in [Runs -> RuntimeStatus \cup {"absent"}]
    /\ taskOf \in [Runs -> Tasks \cup {NoTask}]
    /\ keyOf \in [Runs -> Keys \cup {NoKey}]
    /\ attempts \in [Runs -> Seq(Attempt)]
    /\ reservations \subseteq AttemptIds

Init ==
    /\ runStatus = [r \in Runs |-> "absent"]
    /\ stageStatus = [r \in Runs |-> "absent"]
    /\ taskOf = [r \in Runs |-> NoTask]
    /\ keyOf = [r \in Runs |-> NoKey]
    /\ attempts = [r \in Runs |-> << >>]
    /\ reservations = {}

-----------------------------------------------------------------------------
(* Submission                                                              *)

\* The row submit_run looks up in the transaction that would insert a new
\* one.  Finding it returns it, or refuses a different TaskSpec: either way
\* nothing is written.
Existing(t, k, idempotent) ==
    {r \in Runs :
        /\ Exists(r)
        /\ IF k # NoKey THEN keyOf[r] = k
           ELSE idempotent /\ TaskId[taskOf[r]] = TaskId[t]}

SubmitRun(r, t, k, idempotent) ==
    /\ ~ Exists(r)
    /\ Existing(t, k, idempotent) = {}
    /\ runStatus' = [runStatus EXCEPT ![r] = "queued"]
    /\ stageStatus' = [stageStatus EXCEPT ![r] = "queued"]
    /\ taskOf' = [taskOf EXCEPT ![r] = t]
    /\ keyOf' = [keyOf EXCEPT ![r] = k]
    /\ UNCHANGED <<attempts, reservations>>

-----------------------------------------------------------------------------
(* The run's state machine                                                 *)

\* "UPDATE runtime_stage_runs ... AND status NOT IN (terminal statuses)".
MoveStage(r, target) ==
    stageStatus' = [stageStatus EXCEPT ![r] =
                        IF @ \in TerminalStatus THEN @ ELSE target]

\* transition_run returns at once when the run already has the status.
TransitionAllowed(r, target) ==
    /\ Exists(r)
    /\ \/ runStatus[r] = target
       \/ RunTransitionAllowed(runStatus[r], target)

TransitionRun(r, target) ==
    /\ TransitionAllowed(r, target)
    /\ \/ /\ runStatus[r] = target
          /\ UNCHANGED <<runStatus, stageStatus>>
       \/ /\ runStatus[r] # target
          /\ runStatus' = [runStatus EXCEPT ![r] = target]
          /\ MoveStage(r, target)
    /\ UNCHANGED <<taskOf, keyOf, attempts, reservations>>

\* The guard of fail_queued_run: otherwise it returns False.
NotStarted(r) == runStatus[r] \in {"queued", "preparing", "retry_wait"}

FailQueuedRun(r) ==
    /\ NotStarted(r)
    /\ runStatus' = [runStatus EXCEPT ![r] = "failed"]
    /\ MoveStage(r, "failed")
    /\ UNCHANGED <<taskOf, keyOf, attempts, reservations>>

\* Mutant: a run that was asked to stop may be retried.
ScheduleRetryStopping(r) ==
    /\ Exists(r)
    /\ stageStatus[r] \in {"running", "cancel_requested"}

ScheduleRetryAllowed(r) ==
    /\ Exists(r)
    /\ stageStatus[r] = "running"
    /\ RunTransitionAllowed(runStatus[r], "retry_wait")

\* Mutant: the retry moves the run and forgets its stage.
ScheduleRetryRunOnly(r) ==
    /\ ScheduleRetryAllowed(r)
    /\ runStatus' = [runStatus EXCEPT ![r] = "retry_wait"]
    /\ UNCHANGED <<stageStatus, taskOf, keyOf, attempts, reservations>>

ScheduleRetry(r) ==
    /\ ScheduleRetryAllowed(r)
    /\ stageStatus' = [stageStatus EXCEPT ![r] = "retry_wait"]
    /\ runStatus' = [runStatus EXCEPT ![r] = "retry_wait"]
    /\ UNCHANGED <<taskOf, keyOf, attempts, reservations>>

\* Mutant: the caller's retry does not count attempts.
RequestRetryAlways(r) ==
    /\ runStatus[r] = "failed"
    /\ attempts[r] # << >>
    /\ attempts[r][Len(attempts[r])].failure = "retryable"
    /\ runStatus' = [runStatus EXCEPT ![r] = "retry_wait"]
    /\ stageStatus' = [stageStatus EXCEPT ![r] = "retry_wait"]
    /\ UNCHANGED <<taskOf, keyOf, attempts, reservations>>

\* The caller's retry of a failed run (POST /kernel/runs/{id}/retry).
RequestRetry(r) ==
    /\ runStatus[r] = "failed"
    /\ LET n == Len(attempts[r])
       IN  /\ n > 0
           /\ attempts[r][n].failure = "retryable"
           /\ n < MaxAttempts[taskOf[r]]
    /\ runStatus' = [runStatus EXCEPT ![r] = "retry_wait"]
    /\ stageStatus' = [stageStatus EXCEPT ![r] = "retry_wait"]
    /\ UNCHANGED <<taskOf, keyOf, attempts, reservations>>

-----------------------------------------------------------------------------
(* Attempts and their leases                                               *)

\* Mutant: a stage that is running may be claimed again.
StageReadyOrRunning(r) == stageStatus[r] \in {"queued", "retry_wait", "running"}

\* Mutant: a stage that waits for its retry is not among the candidates.
StageReadyNew(r) == stageStatus[r] = "queued"

\* A stage a worker may claim (runnable_runs, _next_ready_stage).
StageReady(r) == stageStatus[r] \in {"queued", "retry_wait"}

Runnable(r) ==
    /\ StageReady(r)
    /\ runStatus[r] \in {"queued", "preparing", "running", "retry_wait"}

StartAllowed(r) == Exists(r) /\ StageReady(r) /\ Fits(taskOf[r])

NewAttempt(w, ws) ==
    [status |-> "running", worker |-> w, workspace |-> ws, lease |-> "live",
     attached |-> FALSE, failure |-> "none"]

StartAttempt(r, w, ws) ==
    /\ StartAllowed(r)
    /\ attempts' = [attempts EXCEPT ![r] = Append(@, NewAttempt(w, ws))]
    /\ reservations' = reservations \cup {<<r, Len(attempts[r]) + 1>>}
    /\ stageStatus' = [stageStatus EXCEPT ![r] = "running"]
    /\ runStatus' = [runStatus EXCEPT ![r] =
                        IF NotStarted(r) THEN "running" ELSE @]
    /\ UNCHANGED <<taskOf, keyOf>>

\* Time passes the attempt's lease_expires_at.
LeaseExpires(r, n) ==
    /\ attempts[r][n].lease = "live"
    /\ attempts' = [attempts EXCEPT ![r][n].lease = "expired"]
    /\ UNCHANGED <<runStatus, stageStatus, taskOf, keyOf, reservations>>

\* The conditional UPDATE that heartbeat and attach_process share.
OwnedBy(r, n, w) ==
    /\ attempts[r][n].status = "running"
    /\ attempts[r][n].worker = w

Heartbeat(r, n, w) ==
    /\ OwnedBy(r, n, w)
    /\ attempts' = [attempts EXCEPT ![r][n].lease = "live"]
    /\ UNCHANGED <<runStatus, stageStatus, taskOf, keyOf, reservations>>

AttachProcess(r, n, w) ==
    /\ OwnedBy(r, n, w)
    /\ attempts' = [attempts EXCEPT ![r][n].attached = TRUE]
    /\ UNCHANGED <<runStatus, stageStatus, taskOf, keyOf, reservations>>

\* Mutant: finish_attempt does not consult the transition table.
FinishAlways(r, n, status) == status \in AttemptStatus

FinishAllowed(r, n, status) ==
    AttemptTransitionAllowed(attempts[r][n].status, status)

\* Mutant: finish_attempt keeps the reservation.
FinishAttemptKeeping(r, n, status, failure) ==
    /\ FinishAllowed(r, n, status)
    /\ attempts' = [attempts EXCEPT ![r][n] =
           [@ EXCEPT !.status = status, !.failure = failure, !.lease = "none"]]
    /\ UNCHANGED <<runStatus, stageStatus, taskOf, keyOf, reservations>>

FinishAttempt(r, n, status, failure) ==
    /\ FinishAllowed(r, n, status)
    /\ attempts' = [attempts EXCEPT ![r][n] =
           [@ EXCEPT !.status = status, !.failure = failure, !.lease = "none"]]
    /\ reservations' = reservations \ {<<r, n>>}
    /\ UNCHANGED <<runStatus, stageStatus, taskOf, keyOf>>

-----------------------------------------------------------------------------
(* Reclaiming an expired attempt: two autocommitted statements             *)

Expired(r, n) ==
    /\ attempts[r][n].status = "running"
    /\ attempts[r][n].lease = "expired"

ReclaimUpdate(r, n) ==
    /\ Expired(r, n)
    /\ attempts' = [attempts EXCEPT ![r][n] =
           [@ EXCEPT !.status = "lost", !.failure = "retryable",
                     !.lease = "none"]]
    /\ UNCHANGED <<runStatus, stageStatus, taskOf, keyOf, reservations>>

\* Mutant: the reservation is given back before the attempt is marked lost.
ReclaimDeleteFirst(r, n) ==
    /\ Expired(r, n)
    /\ reservations' = reservations \ {<<r, n>>}
    /\ UNCHANGED <<runStatus, stageStatus, taskOf, keyOf, attempts>>

\* Runs only after the UPDATE above marked the attempt lost.
ReclaimDelete(r, n) ==
    /\ attempts[r][n].status = "lost"
    /\ reservations' = reservations \ {<<r, n>>}
    /\ UNCHANGED <<runStatus, stageStatus, taskOf, keyOf, attempts>>

-----------------------------------------------------------------------------
(* Any caller, in any order                                                *)

\* The targets the code asks transition_run for.
Targets == {"cancel_requested", "succeeded", "failed", "cancelled",
            "timed_out", "lost"}

\* What finish_attempt records: a success, or a failure and its retryability.
Outcomes == {<<"succeeded", "none">>, <<"failed", "retryable">>,
             <<"failed", "final">>}

AttemptStep(r, n) ==
    \/ LeaseExpires(r, n)
    \/ \E w \in Workers : Heartbeat(r, n, w) \/ AttachProcess(r, n, w)
    \/ \E o \in Outcomes : FinishAttempt(r, n, o[1], o[2])
    \/ ReclaimUpdate(r, n)
    \/ ReclaimDelete(r, n)

RunStep(r) ==
    \/ \E t \in Tasks, k \in Keys \cup {NoKey}, idempotent \in BOOLEAN :
          SubmitRun(r, t, k, idempotent)
    \/ \E target \in Targets : TransitionRun(r, target)
    \/ FailQueuedRun(r)
    \/ ScheduleRetry(r)
    \/ RequestRetry(r)
    \/ /\ BelowAttemptBound
       /\ \E w \in Workers, ws \in Workspaces : StartAttempt(r, w, ws)
    \/ \E n \in 1..Len(attempts[r]) : AttemptStep(r, n)

Next == \E r \in Runs : RunStep(r)

Spec == Init /\ [][Next]_storeVars

-----------------------------------------------------------------------------
(* Properties                                                              *)

\* Whatever the callers do, and in whatever order, the run row and its stage
\* row carry the same status.  schedule_retry's comment says why it must: "a
\* run left in retry_wait with a running stage is a retry nothing can ever
\* pick up".
StageMirrorsRun == \A r \in Runs : stageStatus[r] = runStatus[r]

\* An attempt that is still running holds its reservation, so no later
\* start_attempt can hand its cores to another attempt.
RunningHoldsReservation ==
    \A r \in Runs : \A n \in 1..Len(attempts[r]) :
        attempts[r][n].status = "running" => <<r, n>> \in reservations

\* The reservations that are held never exceed the platform's share of the
\* host, whatever mix of tasks was admitted (the check in start_attempt).
ReservationsWithinBudget ==
    /\ ReservedCpu <= Budget(CapacityCpu)
    /\ ReservedMemory <= Budget(CapacityMemory)

\* A reservation without a running attempt can only be one whose attempt was
\* just marked lost: finish_attempt gives it back in its own transaction, and
\* only the reclaim path has a moment between the two.
LeftoverReservationIsLost ==
    \A a \in reservations : attempts[a[1]][a[2]].status \in {"running", "lost"}

\* One run per idempotency key, however the submissions interleave.
KeysAreUnique ==
    \A r, s \in Runs : keyOf[r] # NoKey /\ keyOf[r] = keyOf[s] => r = s

\* A lease is what separates a running attempt from evidence: an attempt has
\* one exactly while it is running, so an ended attempt is never reclaimed.
LeaseIffRunning ==
    \A r \in Runs : \A n \in 1..Len(attempts[r]) :
        (attempts[r][n].lease # "none") <=> (attempts[r][n].status = "running")

\* An ended attempt is evidence: no later call -- no late worker, no
\* reclaimer -- changes anything recorded about it, and no attempt disappears.
EvidenceIsImmutable ==
    [][\A r \in Runs : \A n \in 1..Len(attempts[r]) :
          /\ n <= Len(attempts'[r])
          /\ Ended(r, n) => attempts'[r][n] = attempts[r][n]]_storeVars

\* A terminal run changes only by a caller's retry of a failed run, and only
\* while its task still has attempts left.
TerminalUntilRetried ==
    [][\A r \in Runs :
          runStatus[r] \in TerminalStatus /\ runStatus'[r] # runStatus[r] =>
              /\ runStatus[r] = "failed"
              /\ runStatus'[r] = "retry_wait"
              /\ Len(attempts[r]) < MaxAttempts[taskOf[r]]]_storeVars

\* The store is a run lifecycle as its clients see one: whichever worker,
\* reclaimer or caller takes a step, a run is submitted once, ends once, and
\* once asked to stop never succeeds.
Lifecycle ==
    INSTANCE RunLifecycle
        WITH RunIds <- Runs,
             status <- [r \in Runs |-> ViewOf(runStatus[r])]

ImplementsLifecycle == Lifecycle!Spec
==========================================================================
