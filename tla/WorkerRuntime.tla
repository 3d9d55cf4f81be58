--------------------------- MODULE WorkerRuntime ---------------------------
(***************************************************************************)
(* Worker processes over one runtime store: RuntimeWorker.serve_forever    *)
(* (worker.py), WorkflowRuntime.execute_once_reporting (runtime.py), the   *)
(* reclaim loop of the store (store.py), process_fence.py, and the callers *)
(* of the API that cancel or retry a run.                                  *)
(*                                                                         *)
(* Each worker process has an attempt thread, which takes one run through  *)
(* execute_once_reporting, and a maintenance thread, which reclaims        *)
(* expired leases and finishes abandoned cancellations.  A step is one     *)
(* store transaction (an action of RuntimeStore), or the work between two  *)
(* of them.  A worker may stop at any step and go on later, its lease may  *)
(* expire meanwhile, and it may crash: its threads are gone, but the       *)
(* adapter process it started, in a session of its own, lives on.          *)
(***************************************************************************)
EXTENDS RuntimeStore

CONSTANTS
    Reports,         \* the PluginResults the adapters of an instance report
    PreflightFails,  \* whether resolving a plugin may fail
    WorkFails,       \* whether staging or collecting may raise
    Retried,         \* the tasks whose runs callers retry (POST .../retry)
    CallerCancels,   \* bound: cancellations callers ask for
    MaxCrashes       \* bound: worker crashes

ASSUME WorkerAssumption ==
    /\ Reports \subseteq [status: {"succeeded", "failed", "cancelled",
                                   "timed_out"},
                          retryable: BOOLEAN]
    /\ 1..(AttemptBound + 1) \subseteq Workspaces
    /\ Retried \subseteq Tasks
    /\ CallerCancels \in Nat
    /\ MaxCrashes \in Nat

VARIABLES
    thread,       \* the attempt thread of each worker
    maint,        \* the maintenance thread of each worker
    alive,        \* attempts whose adapter process group is alive
    cancelling,   \* runs whose cancel request has been read but not written
    cancels,      \* cancellations asked for so far
    crashes       \* crashes so far

workerVars == <<thread, maint, alive, cancelling, cancels, crashes>>
vars == <<storeVars, workerVars>>

-----------------------------------------------------------------------------
(* Local state of the threads                                              *)

NoRun == "none"
NoResult == [status |-> "failed", retryable |-> FALSE]

IdleThread ==
    [pc |-> "idle", run |-> NoRun, number |-> 0, workspace |-> 0,
     result |-> NoResult]

IdleMaint ==
    [pc |-> "idle", rows |-> {}, row |-> <<>>, runs |-> {}, run |-> NoRun]

Goto(w, pc) == thread' = [thread EXCEPT ![w].pc = pc]
Done(w) == thread' = [thread EXCEPT ![w] = IdleThread]

\* The store's RLock, held by the maintenance thread from the SELECT of
\* expired attempts to the last DELETE, keeps this process's attempt thread
\* out of the store; other processes have locks of their own.
Locked(w) == maint[w].pc \in {"fence", "update", "delete"}

At(w, pc) == thread[w].pc = pc /\ ~ Locked(w)

MyRun(w) == thread[w].run
MyAttempt(w) == <<thread[w].run, thread[w].number>>

WorkerInit ==
    /\ Init
    /\ thread = [w \in Workers |-> IdleThread]
    /\ maint = [w \in Workers |-> IdleMaint]
    /\ alive = {}
    /\ cancelling = {}
    /\ cancels = 0
    /\ crashes = 0

-----------------------------------------------------------------------------
(* execute_once_reporting: claiming a stage                                *)

\* The workspace is chosen from the attempts listed before the claim: the
\* last attempt's directory for a resumable capability, else attempt-N.
ChosenWorkspace(r) ==
    IF taskOf[r] \in Resumable /\ attempts[r] # << >>
    THEN attempts[r][Len(attempts[r])].workspace
    ELSE Len(attempts[r]) + 1

\* A candidate of runnable_runs whose run is not terminal and whose stage is
\* ready; its plugin is resolved, and its attempts are listed.
Examine(w, r) ==
    /\ At(w, "idle")
    /\ Runnable(r)
    /\ \/ thread' = [thread EXCEPT ![w] =
              [IdleThread EXCEPT !.pc = "claim", !.run = r,
                                 !.workspace = ChosenWorkspace(r)]]
       \/ /\ PreflightFails
          /\ thread' = [thread EXCEPT ![w] =
                 [IdleThread EXCEPT !.pc = "preflight", !.run = r]]
    /\ UNCHANGED <<storeVars, maint, alive, cancelling, cancels, crashes>>

\* _run_async's handler: the run fails only if it has not started meanwhile.
Preflight(w) ==
    /\ At(w, "preflight")
    /\ \/ FailQueuedRun(MyRun(w))
       \/ ~ NotStarted(MyRun(w)) /\ UNCHANGED storeVars
    /\ Done(w)
    /\ UNCHANGED <<maint, alive, cancelling, cancels, crashes>>

\* start_attempt: refused when the stage has moved on, None when the host
\* has no room.
Claim(w) ==
    LET r == MyRun(w) IN
    /\ At(w, "claim")
    /\ BelowAttemptBound
    /\ \/ /\ StartAttempt(r, w, thread[w].workspace)
          /\ thread' = [thread EXCEPT ![w].pc = "prepare",
                                      ![w].number = Len(attempts[r]) + 1]
       \/ ~ StartAllowed(r) /\ Done(w) /\ UNCHANGED storeVars
    /\ UNCHANGED <<maint, alive, cancelling, cancels, crashes>>

-----------------------------------------------------------------------------
(* _run_attempt: preparing, supervising and collecting one attempt         *)

\* The workspace is made, inputs are staged and recorded, the receipt is
\* written -- with no heartbeat in between -- and the guardian starts the
\* adapter.  No thread step of its own touches the lease.
Prepare(w) ==
    /\ At(w, "prepare")
    /\ \/ alive' = alive \cup {MyAttempt(w)} /\ Goto(w, "attach")
       \/ WorkFails /\ Goto(w, "fail") /\ UNCHANGED alive
    /\ UNCHANGED <<storeVars, maint, cancelling, cancels, crashes>>

\* Mutant: a refused attach leaves the process running.
AttachLeaving(w) ==
    LET r == MyRun(w)  n == thread[w].number IN
    /\ At(w, "attach")
    /\ \/ AttachProcess(r, n, w) /\ Goto(w, "supervise")
       \/ ~ OwnedBy(r, n, w) /\ Goto(w, "fail") /\ UNCHANGED storeVars
    /\ UNCHANGED <<maint, alive, cancelling, cancels, crashes>>

\* on_started: the process is recorded, or the guardian stops it and raises.
Attach(w) ==
    LET r == MyRun(w)  n == thread[w].number IN
    /\ At(w, "attach")
    /\ \/ AttachProcess(r, n, w) /\ Goto(w, "supervise") /\ UNCHANGED alive
       \/ /\ ~ OwnedBy(r, n, w)
          /\ alive' = alive \ {MyAttempt(w)}
          /\ Goto(w, "fail")
          /\ UNCHANGED storeVars
    /\ UNCHANGED <<maint, cancelling, cancels, crashes>>

\* _LeasePulse, when no cancellation is wanted: extend the lease, or learn
\* that the attempt is no longer ours, stop the process and raise.
Pulse(w) ==
    LET r == MyRun(w)  n == thread[w].number IN
    /\ At(w, "supervise")
    /\ runStatus[r] # "cancel_requested"
    /\ \/ Heartbeat(r, n, w) /\ UNCHANGED <<thread, alive>>
       \/ /\ ~ OwnedBy(r, n, w)
          /\ alive' = alive \ {MyAttempt(w)}
          /\ Goto(w, "fail")
          /\ UNCHANGED storeVars
    /\ UNCHANGED <<maint, cancelling, cancels, crashes>>

Stopped(w, result) ==
    /\ alive' = alive \ {MyAttempt(w)}
    /\ thread' = [thread EXCEPT ![w].pc = "collect", ![w].result = result]
    /\ UNCHANGED <<storeVars, maint, cancelling, cancels, crashes>>

\* _LeasePulse sees the cancellation; the guardian stops the process tree.
ObserveCancel(w) ==
    /\ At(w, "supervise")
    /\ runStatus[MyRun(w)] = "cancel_requested"
    /\ Stopped(w, [status |-> "cancelled", retryable |-> FALSE])

\* The process ends by itself or is fenced, and its result file is read; or
\* it reached its deadline; or it broke the protocol or a resource limit.
ProcessEnds(w) ==
    /\ thread[w].pc = "supervise"
    /\ \E result \in Reports \cup
                     {[status |-> "timed_out", retryable |-> FALSE],
                      [status |-> "failed", retryable |-> FALSE]} :
           Stopped(w, result)

\* Forged authority, a changed receipt, a rejected evaluation, an artifact
\* that cannot be registered: _run_attempt raises before finish_attempt.
CollectRaises(w) ==
    /\ thread[w].pc = "collect"
    /\ WorkFails
    /\ Goto(w, "fail")
    /\ UNCHANGED <<storeVars, maint, alive, cancelling, cancels, crashes>>

\* Mutant: the mapping's default is a success.
AttemptOutcomeDefault(result) ==
    <<IF result.status \in {"cancelled", "timed_out"} THEN "failed" ELSE "succeeded",
      IF result.retryable THEN "retryable" ELSE "final">>

\* _attempt_status, and what the result's failure says of a retry.
AttemptOutcome(result) ==
    <<IF result.status = "succeeded" THEN "succeeded" ELSE "failed",
      IF result.status = "succeeded" THEN "none"
      ELSE IF result.retryable THEN "retryable" ELSE "final">>

ShouldRetry(w) ==
    /\ thread[w].result.status = "failed"
    /\ thread[w].result.retryable
    /\ thread[w].number < MaxAttempts[taskOf[MyRun(w)]]

\* Mutant: the retry is scheduled before the attempt is finished.
FinishRetryFirst(w) ==
    LET r == MyRun(w)  n == thread[w].number
        o == AttemptOutcome(thread[w].result) IN
    /\ At(w, "collect")
    /\ IF ShouldRetry(w) /\ ScheduleRetryAllowed(r)
       THEN ScheduleRetry(r) /\ Goto(w, "settle")
       ELSE \/ FinishAttempt(r, n, o[1], o[2]) /\ Goto(w, "settle")
            \/ ~ FinishAllowed(r, n, o[1]) /\ Goto(w, "fail") /\ UNCHANGED storeVars
    /\ UNCHANGED <<maint, alive, cancelling, cancels, crashes>>

Finish(w) ==
    LET r == MyRun(w)  n == thread[w].number
        o == AttemptOutcome(thread[w].result) IN
    /\ At(w, "collect")
    /\ \/ FinishAttempt(r, n, o[1], o[2]) /\ Goto(w, "settle")
       \/ ~ FinishAllowed(r, n, o[1]) /\ Goto(w, "fail") /\ UNCHANGED storeVars
    /\ UNCHANGED <<maint, alive, cancelling, cancels, crashes>>

\* A second transaction settles the run; refused, it raises.
SettleRun(w) ==
    LET r == MyRun(w)  target == thread[w].result.status IN
    /\ At(w, "settle")
    /\ IF ShouldRetry(w)
       THEN \/ ScheduleRetry(r) /\ Done(w)
            \/ ~ ScheduleRetryAllowed(r) /\ Goto(w, "fail") /\ UNCHANGED storeVars
       ELSE \/ TransitionRun(r, target) /\ Done(w)
            \/ ~ TransitionAllowed(r, target) /\ Goto(w, "fail")
               /\ UNCHANGED storeVars
    /\ UNCHANGED <<maint, alive, cancelling, cancels, crashes>>

-----------------------------------------------------------------------------
(* _record_runtime_failure                                                 *)

FailAttempt(w) ==
    LET r == MyRun(w)  n == thread[w].number IN
    /\ At(w, "fail")
    /\ \/ FinishAttempt(r, n, "failed", "final")
       \/ ~ FinishAllowed(r, n, "failed") /\ UNCHANGED storeVars
    /\ Goto(w, "failread")
    /\ UNCHANGED <<maint, alive, cancelling, cancels, crashes>>

FailRead(w) ==
    /\ At(w, "failread")
    /\ IF runStatus[MyRun(w)] = "running" THEN Goto(w, "failrun") ELSE Done(w)
    /\ UNCHANGED <<storeVars, maint, alive, cancelling, cancels, crashes>>

\* Mutant: the run is failed without asking the transition table.
FailRunBlindly(w) ==
    /\ At(w, "failrun")
    /\ runStatus' = [runStatus EXCEPT ![MyRun(w)] = "failed"]
    /\ MoveStage(MyRun(w), "failed")
    /\ UNCHANGED <<taskOf, keyOf, attempts, reservations>>
    /\ Done(w)
    /\ UNCHANGED <<maint, alive, cancelling, cancels, crashes>>

FailRun(w) ==
    LET r == MyRun(w) IN
    /\ At(w, "failrun")
    /\ \/ TransitionRun(r, "failed")
       \/ ~ TransitionAllowed(r, "failed") /\ UNCHANGED storeVars
    /\ Done(w)
    /\ UNCHANGED <<maint, alive, cancelling, cancels, crashes>>

-----------------------------------------------------------------------------
(* The maintenance thread: reclaim_expired_attempts                        *)

ExpiredRows ==
    {row \in [run: Runs, number: 1..AttemptBound, attached: BOOLEAN] :
        /\ row.number <= Len(attempts[row.run])
        /\ Expired(row.run, row.number)
        /\ row.attached = attempts[row.run][row.number].attached}

\* Where the loop goes once the rows in rest and the runs in todo remain.
Continue(w, rest, todo) ==
    maint' = [maint EXCEPT ![w] =
        [IdleMaint EXCEPT !.rows = rest, !.runs = todo,
                          !.pc = CASE rest # {} -> "fence"
                                   [] rest = {} /\ todo # {} -> "settle"
                                   [] OTHER -> "sweep"]]

\* The SELECT; each row keeps the process identity it had at that moment.
ReclaimSelect(w) ==
    /\ maint[w].pc = "idle"
    /\ ExpiredRows # {}
    /\ Continue(w, ExpiredRows, {})
    /\ UNCHANGED <<storeVars, thread, alive, cancelling, cancels, crashes>>

\* Mutant: the expired row's process is not looked at.
FenceNothing(w, row) ==
    /\ maint[w].pc = "fence"
    /\ maint' = [maint EXCEPT ![w].pc = "update", ![w].row = row]
    /\ UNCHANGED <<storeVars, thread, alive, cancelling, cancels, crashes>>

\* fence_expired_process: a row without a process counts as dead; a living
\* group is signalled, and the row is skipped if it still looks alive.
Fence(w, row) ==
    LET id == <<row.run, row.number>>
        living == row.attached /\ id \in alive
        proceed == maint' = [maint EXCEPT ![w].pc = "update", ![w].row = row]
    IN
    /\ maint[w].pc = "fence"
    /\ \/ ~ living /\ proceed /\ UNCHANGED alive
       \/ /\ living
          /\ alive' = alive \ {id}
          /\ proceed \/ Continue(w, maint[w].rows \ {row}, maint[w].runs)
    /\ UNCHANGED <<storeVars, thread, cancelling, cancels, crashes>>

\* The conditional UPDATE; rowcount 0 when the lease was renewed or the
\* attempt ended since the SELECT.
Reclaim(w) ==
    LET row == maint[w].row  r == row.run  n == row.number IN
    /\ maint[w].pc = "update"
    /\ \/ ReclaimUpdate(r, n) /\ maint' = [maint EXCEPT ![w].pc = "delete"]
       \/ /\ ~ Expired(r, n)
          /\ Continue(w, maint[w].rows \ {row}, maint[w].runs)
          /\ UNCHANGED storeVars
    /\ UNCHANGED <<thread, alive, cancelling, cancels, crashes>>

Release(w) ==
    LET row == maint[w].row IN
    /\ maint[w].pc = "delete"
    /\ ReclaimDelete(row.run, row.number)
    /\ Continue(w, maint[w].rows \ {row}, maint[w].runs \cup {row.run})
    /\ UNCHANGED <<thread, alive, cancelling, cancels, crashes>>

\* Mutant: the lost attempt is not counted.
MayResumeOnceMore(r) ==
    /\ taskOf[r] \in Resumable
    /\ Len(attempts[r]) <= MaxAttempts[taskOf[r]]

\* _may_resume reads the budget before it calls schedule_retry.
MayResume(r) ==
    /\ taskOf[r] \in Resumable
    /\ Len(attempts[r]) < MaxAttempts[taskOf[r]]

SettleLost(w, r) ==
    /\ maint[w].pc = "settle"
    /\ maint' = [maint EXCEPT ![w].pc = IF MayResume(r) THEN "resume" ELSE "lose",
                              ![w].run = r]
    /\ UNCHANGED <<storeVars, thread, alive, cancelling, cancels, crashes>>

Settled(w) == Continue(w, {}, maint[w].runs \ {maint[w].run})

Resume(w) ==
    LET r == maint[w].run IN
    /\ maint[w].pc = "resume"
    /\ \/ ScheduleRetry(r) /\ Settled(w)
       \/ /\ ~ ScheduleRetryAllowed(r)
          /\ maint' = [maint EXCEPT ![w].pc = "lose"]
          /\ UNCHANGED storeVars
    /\ UNCHANGED <<thread, alive, cancelling, cancels, crashes>>

Lose(w) ==
    LET r == maint[w].run IN
    /\ maint[w].pc = "lose"
    /\ \/ TransitionRun(r, "lost")
       \/ ~ TransitionAllowed(r, "lost") /\ UNCHANGED storeVars
    /\ Settled(w)
    /\ UNCHANGED <<thread, alive, cancelling, cancels, crashes>>

-----------------------------------------------------------------------------
(* The maintenance thread: _finish_abandoned_cancellations                 *)

HasRunningAttempt(r) ==
    \E n \in 1..Len(attempts[r]) : attempts[r][n].status = "running"

\* Mutant: only runs that never had an attempt count as abandoned.
UnstartedCancellations ==
    {r \in Runs : runStatus[r] = "cancel_requested" /\ attempts[r] = << >>}

\* The query's limit is the worker's batch; no instance has more runs.
AbandonedCancellations ==
    {r \in Runs : runStatus[r] = "cancel_requested" /\ ~ HasRunningAttempt(r)}

\* Follows every reclaim; a cycle that reclaims nothing starts here.
Sweep(w) ==
    LET found == AbandonedCancellations IN
    /\ \/ maint[w].pc = "sweep"
       \/ maint[w].pc = "idle" /\ found # {}
    /\ maint' = [maint EXCEPT ![w] =
           IF found = {} THEN IdleMaint
           ELSE [IdleMaint EXCEPT !.pc = "cancel", !.runs = found]]
    /\ UNCHANGED <<storeVars, thread, alive, cancelling, cancels, crashes>>

FinishCancellation(w, r) ==
    /\ maint[w].pc = "cancel"
    /\ \/ TransitionRun(r, "cancelled")
       \/ ~ TransitionAllowed(r, "cancelled") /\ UNCHANGED storeVars
    /\ maint' = [maint EXCEPT ![w] =
           IF @.runs = {r} THEN IdleMaint ELSE [@ EXCEPT !.runs = @ \ {r}]]
    /\ UNCHANGED <<thread, alive, cancelling, cancels, crashes>>

-----------------------------------------------------------------------------
(* Callers of the API, time, and crashes                                   *)

Submit ==
    /\ \E r \in Runs, t \in Tasks : SubmitRun(r, t, NoKey, TRUE)
    /\ UNCHANGED workerVars

\* request_cancel reads the run, and writes in a later transaction.
CancelRead(r) ==
    /\ cancels < CallerCancels
    /\ Exists(r)
    /\ runStatus[r] \notin TerminalStatus \cup {"cancel_requested"}
    /\ cancelling' = cancelling \cup {r}
    /\ cancels' = cancels + 1
    /\ UNCHANGED <<storeVars, thread, maint, alive, crashes>>

CancelWrite(r) ==
    /\ r \in cancelling
    /\ \/ TransitionRun(r, "cancel_requested")
       \/ ~ TransitionAllowed(r, "cancel_requested") /\ UNCHANGED storeVars
    /\ cancelling' = cancelling \ {r}
    /\ UNCHANGED <<thread, maint, alive, cancels, crashes>>

CallerRetry(r) ==
    /\ taskOf[r] \in Retried
    /\ RequestRetry(r)
    /\ UNCHANGED workerVars

Expire(r, n) ==
    /\ LeaseExpires(r, n)
    /\ UNCHANGED workerVars

\* An adapter process nobody supervises ends by itself.
OrphanEnds(a) ==
    /\ a \in alive
    /\ \A w \in Workers : MyAttempt(w) # a
    /\ alive' = alive \ {a}
    /\ UNCHANGED <<storeVars, thread, maint, cancelling, cancels, crashes>>

Crash(w) ==
    /\ crashes < MaxCrashes
    /\ crashes' = crashes + 1
    /\ thread' = [thread EXCEPT ![w] = IdleThread]
    /\ maint' = [maint EXCEPT ![w] = IdleMaint]
    /\ UNCHANGED <<storeVars, alive, cancelling, cancels>>

-----------------------------------------------------------------------------
(* The specification                                                       *)

ThreadStep(w) ==
    \/ \E r \in Runs : Examine(w, r)
    \/ Preflight(w) \/ Claim(w) \/ Prepare(w) \/ Attach(w)
    \/ Pulse(w) \/ ObserveCancel(w) \/ ProcessEnds(w)
    \/ CollectRaises(w) \/ Finish(w) \/ SettleRun(w)
    \/ FailAttempt(w) \/ FailRead(w) \/ FailRun(w)

MaintStep(w) ==
    \/ ReclaimSelect(w)
    \/ \E row \in maint[w].rows : Fence(w, row)
    \/ Reclaim(w) \/ Release(w)
    \/ \E r \in maint[w].runs : SettleLost(w, r)
    \/ Resume(w) \/ Lose(w) \/ Sweep(w)
    \/ \E r \in maint[w].runs : FinishCancellation(w, r)

Environment ==
    \/ Submit
    \/ \E r \in Runs : CancelRead(r) \/ CancelWrite(r) \/ CallerRetry(r)
    \/ \E r \in Runs : \E n \in 1..Len(attempts[r]) : Expire(r, n)
    \/ \E a \in alive : OrphanEnds(a)
    \/ \E w \in Workers : Crash(w)

WorkerNext ==
    \/ \E w \in Workers : ThreadStep(w) \/ MaintStep(w)
    \/ Environment

WorkerSpec == WorkerInit /\ [][WorkerNext]_vars

\* An attempt whose worker is gone: nobody renews its lease.
Orphaned(r, n) == \A w \in Workers : MyAttempt(w) # <<r, n>>

OrphanExpires(r, n) ==
    /\ n <= Len(attempts[r])
    /\ Orphaned(r, n)
    /\ Expire(r, n)

\* Threads are scheduled and the serve loop never stops cycling; an adapter
\* process ends, at the latest at the deadline the guardian enforces; time
\* passes the lease of an attempt that nobody renews.  Nothing is assumed of
\* callers, of crashes, or of leases that a worker still renews.
Fairness ==
    /\ \A w \in Workers :
          /\ WF_vars(ThreadStep(w))
          /\ WF_vars(ProcessEnds(w))
          /\ WF_vars(MaintStep(w))
    /\ \A r \in Runs, n \in 1..AttemptBound : WF_vars(OrphanExpires(r, n))

FairSpec == WorkerSpec /\ Fairness

-----------------------------------------------------------------------------
(* Properties                                                              *)

\* What the workers do to the store, whatever their interleaving and wherever
\* they crash, is a sequence of store transactions: the properties of
\* RuntimeStore!Spec are properties of the whole.
RefinesStore == Spec

\* Two workers never run the same experiment at once: a run has at most one
\* running attempt.  Claiming requires a waiting stage, and every path that
\* makes a stage wait again has ended the attempt before it.
OneAttemptAtATime ==
    \A r \in Runs : \A m, n \in 1..Len(attempts[r]) :
        attempts[r][m].status = "running" /\ attempts[r][n].status = "running"
            => m = n

\* A run whose status says that nobody works on it has no attempt left running.
\* schedule_retry and the resume path only put back a run whose attempt has
\* ended; the sweep of abandoned cancellations and the worker that observes the
\* request do not settle a cancelled run while an attempt goes on; and no late
\* worker, reclaimer or sweep ends a run over the attempt of a task that is
\* neither resumable nor retried by callers.
AtRestMeansStopped ==
    \A r \in Runs :
        \/ runStatus[r] \in {"queued", "retry_wait", "cancelled"}
        \/ runStatus[r] \in TerminalStatus /\ taskOf[r] \notin Resumable \cup Retried
        => ~ HasRunningAttempt(r)

\* However attempts fail, are lost, or are resumed, a task never gets more
\* attempts than max_attempts ("A lost lease counts against max_attempts").
BudgetRespected ==
    \A r \in Runs :
        attempts[r] # << >> => Len(attempts[r]) <= MaxAttempts[taskOf[r]]

\* A run says succeeded only on the evidence of its last attempt, which
\* succeeded; and it does not say failed against that evidence, unless the task
\* is resumable: there, a worker that lost its attempt fails the run.
SettledByEvidence ==
    \A r \in Runs :
        LET succeeded == /\ attempts[r] # << >>
                         /\ attempts[r][Len(attempts[r])].status = "succeeded"
        IN  /\ runStatus[r] = "succeeded" => succeeded
            /\ runStatus[r] = "failed" /\ taskOf[r] \notin Resumable => ~ succeeded

\* When the reservation of a reclaimed attempt is given back, the process
\* group that was recorded for it is gone.
ReleasedMeansDead ==
    \A w \in Workers :
        maint[w].pc = "delete" /\ maint[w].row.attached =>
            <<maint[w].row.run, maint[w].row.number>> \notin alive

\* Two living adapter processes never share a workspace: the reclaim loop
\* keeps a replacement worker out of the workspace of a living process.
OneProcessPerWorkspace ==
    \A a, b \in alive :
        a # b => \/ a[1] # b[1]
                 \/ attempts[a[1]][a[2]].workspace # attempts[b[1]][b[2]].workspace

\* The same of the tasks that cannot be resumed, whose retries get a fresh
\* workspace.
OneProcessPerFreshWorkspace ==
    \A a, b \in alive :
        a # b /\ a[1] = b[1] /\ taskOf[a[1]] \notin Resumable =>
            attempts[a[1]][a[2]].workspace # attempts[b[1]][b[2]].workspace

\* Every submitted run is eventually settled.
EveryRunSettles ==
    \A r \in Runs : Exists(r) ~> runStatus[r] \in TerminalStatus

\* Every submitted run is eventually settled, whatever is retried, resumed or
\* cancelled, unless a worker crashes.
RunsSettleUnlessCrashed ==
    \A r \in Runs : Exists(r) ~> (runStatus[r] \in TerminalStatus \/ crashes > 0)

\* A requested cancellation is eventually settled, whoever was running the
\* run, and even if that worker crashes.
CancellationSettles ==
    \A r \in Runs :
        runStatus[r] = "cancel_requested" ~> runStatus[r] \in TerminalStatus

\* The cores of an attempt that ended or was lost become available again,
\* unless a worker crashes between the two transactions that do it.
ReservationsReturned ==
    \A r \in Runs : \A n \in 1..AttemptBound :
        <<r, n>> \in reservations ~> (<<r, n>> \notin reservations \/ crashes > 0)
==========================================================================
