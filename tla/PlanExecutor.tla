---------------------------- MODULE PlanExecutor ----------------------------
(***************************************************************************)
(* The plan service (apps/plan_executor): the plan store, the executor     *)
(* thread that advances each active plan by one kernel call per cycle, and *)
(* the HTTP handlers that create and cancel plans, over a kernel that is a *)
(* RunLifecycle behind a client whose calls may fail.                      *)
(*                                                                         *)
(* A step is one SQLite transaction of the plan store or one kernel call.  *)
(* A call may time out after the kernel has done the work, be answered     *)
(* with an error after the work was done, or never arrive; the service may *)
(* stop and be restarted between any two steps.                            *)
(***************************************************************************)
EXTENDS RunStatus, Integers, Sequences, FiniteSets, SequencesExt

CONSTANTS
    Plans,          \* plan ids
    Payloads,       \* the step lists callers post
    MAX_STEPS,
    Unmatched,      \* step ids whose runs do not have exactly one match
    MaxRuns,        \* bound: runs the kernel creates
    Endings,        \* the terminal statuses runs of an instance end in
    MaxOutages,     \* bound: calls that raise KernelUnavailable
    MaxRefusals,    \* bound: calls that raise KernelError
    MaxCancels,     \* bound: cancellations callers ask for
    MaxCrashes,     \* bound: restarts of the plan service
    MaxReopens      \* bound: retries other clients ask the kernel for

NoRun == 0
KernelRuns == 1..MaxRuns

ASSUME PlanAssumption ==
    /\ MAX_STEPS \in Nat \ {0}
    /\ MaxRuns \in Nat
    /\ Endings \subseteq TerminalStatus
    /\ {MaxOutages, MaxRefusals, MaxCancels, MaxCrashes, MaxReopens} \subseteq Nat

VARIABLES
    order,        \* the plan ids, by created_at
    planStatus,   \* plans.status, or "absent"
    steps,        \* plan_steps of a plan, by ordinal
    exec,         \* the executor thread
    delayed,      \* plans whose _kernel_retry_at is still in the future
    cancelling,   \* plans a cancel handler has read and not yet written
    accepted,     \* plans whose cancellation was answered with 202
    kernelStatus, \* the kernel's runs, as a RunLifecycle
    kernelKey,    \* the idempotency key of each kernel run
    count         \* faults and calls so far, for the bounds

planVars == <<order, planStatus, steps>>
kernelVars == <<kernelStatus, kernelKey>>
callerVars == <<cancelling, accepted>>
vars == <<planVars, exec, delayed, callerVars, kernelVars, count>>

Kernel == INSTANCE RunLifecycle WITH RunIds <- KernelRuns, status <- kernelStatus

-----------------------------------------------------------------------------
(* The plan store                                                          *)

FAILED == {"failed", "cancelled", "timed_out", "lost"}
PlanTerminal == FAILED \cup {"succeeded"}
PlanActive == {"queued", "running", "retry_wait", "cancel_requested"}

\* _validate: step ids are unique, tasks are TaskSpecs, and a binding names
\* a step that comes before its own.
Validated(payload) ==
    /\ Len(payload) \in 1..MAX_STEPS
    /\ \A i, j \in 1..Len(payload) : payload[i].id = payload[j].id => i = j
    /\ \A i \in 1..Len(payload) :
          /\ payload[i].valid
          /\ payload[i].from \subseteq {payload[j].id : j \in 1..(i - 1)}

NewStep(entry) ==
    [id |-> entry.id, from |-> entry.from, status |-> "queued", run |-> NoRun]

\* POST /plans: the plan and its steps are inserted in one transaction, and
\* a plan id is used once.
CreateOwned(p, payload) ==
    /\ planStatus[p] = "absent"
    /\ Validated(payload)
    /\ order' = Append(order, p)
    /\ planStatus' = [planStatus EXCEPT ![p] = "queued"]
    /\ steps' = [steps EXCEPT ![p] =
                     [i \in 1..Len(payload) |-> NewStep(payload[i])]]
    /\ UNCHANGED <<exec, delayed, callerVars, kernelVars, count>>

\* _update_plan overwrites whatever status the plan has.
UpdatePlan(p, status) ==
    /\ planStatus' = [planStatus EXCEPT ![p] = status]
    /\ UNCHANGED <<order, steps>>

UpdateStep(p, i, status) ==
    /\ steps' = [steps EXCEPT ![p][i].status = status]
    /\ UNCHANGED <<order, planStatus>>

Submitted(p, i, r) ==
    /\ steps' = [steps EXCEPT ![p][i] = [@ EXCEPT !.status = "queued", !.run = r]]
    /\ planStatus' = [planStatus EXCEPT ![p] =
                          IF @ = "cancel_requested" THEN @ ELSE "running"]
    /\ UNCHANGED order

\* Mutant: a step that has not ended is preferred to one that failed.
PendingUnended(p) ==
    LET open == SelectInSeq(steps[p], LAMBDA s : s.status \notin PlanTerminal)
    IN  IF open # 0 THEN open
        ELSE SelectInSeq(steps[p], LAMBDA s : s.status # "succeeded")

\* The first step that has not succeeded; 0 when there is none.
Pending(p) == SelectInSeq(steps[p], LAMBDA s : s.status # "succeeded")

RunsOf(p) == {steps[p][i].run : i \in 1..Len(steps[p])} \ {NoRun}

-----------------------------------------------------------------------------
(* POST /plans/{id}/cancel: a read, then an unconditional write            *)

CancelRead(p) ==
    /\ count.cancels < MaxCancels
    /\ p \notin cancelling
    /\ planStatus[p] \notin PlanTerminal \cup {"absent"}
    /\ cancelling' = cancelling \cup {p}
    /\ count' = [count EXCEPT !.cancels = @ + 1]
    /\ UNCHANGED <<planVars, exec, delayed, accepted, kernelVars>>

CancelWrite(p) ==
    /\ p \in cancelling
    /\ UpdatePlan(p, "cancel_requested")
    /\ cancelling' = cancelling \ {p}
    /\ accepted' = accepted \cup {p}
    /\ UNCHANGED <<exec, delayed, kernelVars, count>>

-----------------------------------------------------------------------------
(* PlanExecutor.cycle and _advance                                         *)

NoVerdict == "none"

IdleExec ==
    [pc |-> "idle", todo |-> << >>, run |-> NoRun, writes |-> << >>,
     verdict |-> NoVerdict]

MyPlan == Head(exec.todo)
MyStep == steps[MyPlan][Pending(MyPlan)]
KeyOf(p, i) == <<p, steps[p][i].id>>

Goto(pc) == exec' = [exec EXCEPT !.pc = pc]
NextPlan == exec' = [IdleExec EXCEPT !.todo = Tail(exec.todo)]

\* The step_status calls that follow, one transaction each, and then finish.
Write(writes, verdict) ==
    exec' = [exec EXCEPT !.pc = "write", !.writes = writes, !.verdict = verdict]

\* Mutant: plans waiting for the kernel are not among the active ones.
StartCycleForgets ==
    /\ exec.pc = "idle" /\ exec.todo = << >>
    /\ \E p \in Plans : planStatus[p] \in PlanActive
    /\ exec' = [IdleExec EXCEPT !.todo =
                    SelectSeq(order, LAMBDA p : planStatus[p] \in PlanActive \ {"retry_wait"})]
    /\ UNCHANGED <<planVars, delayed, callerVars, kernelVars, count>>

\* store.active().
StartCycle ==
    /\ exec.pc = "idle" /\ exec.todo = << >>
    /\ \E p \in Plans : planStatus[p] \in PlanActive
    /\ exec' = [IdleExec EXCEPT !.todo =
                    SelectSeq(order, LAMBDA p : planStatus[p] \in PlanActive)]
    /\ UNCHANGED <<planVars, delayed, callerVars, kernelVars, count>>

\* time.monotonic() < retry_at.
SkipDelayed ==
    /\ exec.pc = "idle" /\ exec.todo # << >>
    /\ MyPlan \in delayed
    /\ NextPlan
    /\ UNCHANGED <<planVars, delayed, callerVars, kernelVars, count>>

DelayPasses(p) ==
    /\ p \in delayed
    /\ delayed' = delayed \ {p}
    /\ UNCHANGED <<planVars, exec, callerVars, kernelVars, count>>

\* The steps that have not succeeded, in order, except one.
Remaining(p, except) ==
    SelectSeq([i \in 1..Len(steps[p]) |-> i],
              LAMBDA i : i # except /\ steps[p][i].status # "succeeded")

Cancelled(p, except) ==
    LET rest == Remaining(p, except)
    IN  [k \in 1..Len(rest) |-> <<rest[k], "cancelled">>]

\* _task_for: the source run of every binding has exactly one match.
BindingsMatch(step) == step.from \cap Unmatched = {}

\* _advance reads the plan and chooses what to do; _cancel, when the plan's
\* status is cancel_requested.
Advance ==
    /\ exec.pc = "idle" /\ exec.todo # << >>
    /\ MyPlan \notin delayed
    /\ LET i == Pending(MyPlan) IN
       \/ i = 0 /\ Write(<< >>, "succeeded")
       \/ /\ i # 0 /\ planStatus[MyPlan] = "cancel_requested"
          /\ IF MyStep.run = NoRun
             THEN Write(Cancelled(MyPlan, 0), "cancelled")
             ELSE Goto("stop")
       \/ /\ i # 0 /\ planStatus[MyPlan] # "cancel_requested"
          /\ IF MyStep.run # NoRun THEN Goto("poll")
             ELSE IF BindingsMatch(MyStep) THEN Goto("submit")
             ELSE Write(<< >>, "failed")
    /\ UNCHANGED <<planVars, delayed, callerVars, kernelVars, count>>

-----------------------------------------------------------------------------
(* Calls of the kernel                                                     *)

\* KernelUnavailable, and the handler's retry_wait as its own transaction.
Unreachable ==
    /\ count.outages < MaxOutages
    /\ count' = [count EXCEPT !.outages = @ + 1]
    /\ Goto("unavailable")

\* KernelError: the plan is finished as failed.
Refused ==
    /\ count.refusals < MaxRefusals
    /\ count' = [count EXCEPT !.refusals = @ + 1]
    /\ Write(<< >>, "failed")

\* Mutant: each submission makes a new run.
KernelSubmitNew(key, r) ==
    /\ \A s \in 1..(r - 1) : kernelKey[s] # << >>
    /\ Kernel!Submit(r)
    /\ kernelKey' = [kernelKey EXCEPT ![r] = key]

\* submit with idempotent=True and a key: the run of that key, or a new one.
KernelSubmit(key, r) ==
    IF \E s \in KernelRuns : kernelKey[s] = key
    THEN kernelKey[r] = key /\ UNCHANGED kernelVars
    ELSE /\ \A s \in 1..(r - 1) : kernelKey[s] # << >>
         /\ Kernel!Submit(r)
         /\ kernelKey' = [kernelKey EXCEPT ![r] = key]

\* The kernel may have done the work whatever the client is told.
Submit ==
    /\ exec.pc = "submit"
    /\ LET key == KeyOf(MyPlan, Pending(MyPlan)) IN
       \/ \E r \in KernelRuns :
             /\ KernelSubmit(key, r)
             /\ \/ exec' = [exec EXCEPT !.pc = "record", !.run = r]
                   /\ UNCHANGED count
                \/ Unreachable
                \/ Refused
       \/ UNCHANGED kernelVars /\ (Unreachable \/ Refused)
    /\ UNCHANGED <<planVars, delayed, callerVars>>

Record ==
    /\ exec.pc = "record"
    /\ Submitted(MyPlan, Pending(MyPlan), exec.run)
    /\ NextPlan
    /\ UNCHANGED <<delayed, callerVars, kernelVars, count>>

\* Mutant: the success of a step is taken for that of the plan.
ObservedDone(i, s) ==
    IF s \in {"active", "stopping"} THEN Write(<<<<i, s>>>>, NoVerdict)
    ELSE IF s = "succeeded"
    THEN Write(<<<<i, s>>>>, "succeeded")
    ELSE Write(<<<<i, s>>>>, s)

\* What _advance makes of the status it is told.
Observed(i, s) ==
    IF s \in {"active", "stopping"} THEN Write(<<<<i, s>>>>, NoVerdict)
    ELSE IF s = "succeeded"
    THEN Write(<<<<i, s>>>>,
               IF Remaining(MyPlan, i) = << >> THEN "succeeded" ELSE NoVerdict)
    ELSE Write(<<<<i, s>>>>, s)

Poll ==
    /\ exec.pc = "poll"
    /\ \/ /\ Observed(Pending(MyPlan), kernelStatus[MyStep.run])
          /\ UNCHANGED count
       \/ Unreachable
       \/ Refused
    /\ UNCHANGED <<planVars, delayed, callerVars, kernelVars>>

\* client.cancel: the store reads the run and returns at once when there is
\* nothing to do; else it writes, and is refused if the run ended meanwhile.
Stop ==
    /\ exec.pc = "stop"
    /\ \/ /\ Goto(IF kernelStatus[MyStep.run] = "active" THEN "stopping"
                  ELSE "confirm")
          /\ UNCHANGED count
       \/ Unreachable
       \/ Refused
    /\ UNCHANGED <<planVars, delayed, callerVars, kernelVars>>

Stopping ==
    /\ exec.pc = "stopping"
    /\ IF kernelStatus[MyStep.run] = "active"
       THEN /\ Kernel!Stop(MyStep.run)
            /\ UNCHANGED kernelKey
            /\ (Goto("confirm") /\ UNCHANGED count) \/ Unreachable
       ELSE /\ UNCHANGED <<kernelVars, count>>
            /\ Write(<< >>, "failed")
    /\ UNCHANGED <<planVars, delayed, callerVars>>

\* Mutant: a run that was asked to stop is taken for stopped.
ConfirmedEarly(i, s) ==
    CASE s = "active" -> Write(<<<<i, s>>>>, NoVerdict)
      [] s = "succeeded" ->
            Write(<<<<i, s>>>> \o Cancelled(MyPlan, i),
                  IF Remaining(MyPlan, i) = << >> THEN "succeeded"
                  ELSE "cancelled")
      [] s \in {"stopping", "cancelled"} -> Write(Cancelled(MyPlan, 0), "cancelled")
      [] OTHER -> Write(<<<<i, s>>>>, s)

\* What _cancel makes of the status it is told.
Confirmed(i, s) ==
    CASE s \in {"active", "stopping"} -> Write(<<<<i, s>>>>, NoVerdict)
      [] s = "succeeded" ->
            Write(<<<<i, s>>>> \o Cancelled(MyPlan, i),
                  IF Remaining(MyPlan, i) = << >> THEN "succeeded"
                  ELSE "cancelled")
      [] s = "cancelled" -> Write(Cancelled(MyPlan, 0), "cancelled")
      [] OTHER -> Write(<<<<i, s>>>>, s)

Confirm ==
    /\ exec.pc = "confirm"
    /\ \/ /\ Confirmed(Pending(MyPlan), kernelStatus[MyStep.run])
          /\ UNCHANGED count
       \/ Unreachable
       \/ Refused
    /\ UNCHANGED <<planVars, delayed, callerVars, kernelVars>>

WriteStep ==
    /\ exec.pc = "write" /\ exec.writes # << >>
    /\ UpdateStep(MyPlan, Head(exec.writes)[1], Head(exec.writes)[2])
    /\ exec' = [exec EXCEPT !.writes = Tail(@)]
    /\ UNCHANGED <<delayed, callerVars, kernelVars, count>>

Finish ==
    /\ exec.pc = "write" /\ exec.writes = << >>
    /\ IF exec.verdict = NoVerdict THEN UNCHANGED planVars
       ELSE UpdatePlan(MyPlan, exec.verdict)
    /\ NextPlan
    /\ UNCHANGED <<delayed, callerVars, kernelVars, count>>

\* store.retry_wait, and a retry_at in the future.
RetryWait ==
    /\ exec.pc = "unavailable"
    /\ UpdatePlan(MyPlan, "retry_wait")
    /\ delayed' = delayed \cup {MyPlan}
    /\ NextPlan
    /\ UNCHANGED <<callerVars, kernelVars, count>>

\* The service stops; its tables stay, and so does whatever the kernel does.
Restart ==
    /\ count.crashes < MaxCrashes
    /\ count' = [count EXCEPT !.crashes = @ + 1]
    /\ exec' = IdleExec
    /\ delayed' = {}
    /\ cancelling' = {}
    /\ UNCHANGED <<planVars, accepted, kernelVars>>

-----------------------------------------------------------------------------
(* The kernel, and the whole system                                        *)

KernelEnds(r) ==
    /\ \E s \in Endings : Kernel!End(r, s)
    /\ UNCHANGED <<planVars, exec, delayed, callerVars, kernelKey, count>>

KernelReopens(r) ==
    /\ count.reopens < MaxReopens
    /\ Kernel!Reopen(r)
    /\ count' = [count EXCEPT !.reopens = @ + 1]
    /\ UNCHANGED <<planVars, exec, delayed, callerVars, kernelKey>>

Init ==
    /\ order = << >>
    /\ planStatus = [p \in Plans |-> "absent"]
    /\ steps = [p \in Plans |-> << >>]
    /\ exec = IdleExec
    /\ delayed = {}
    /\ cancelling = {}
    /\ accepted = {}
    /\ Kernel!Init
    /\ kernelKey = [r \in KernelRuns |-> << >>]
    /\ count = [outages |-> 0, refusals |-> 0, cancels |-> 0, crashes |-> 0,
                reopens |-> 0]

ExecStep ==
    \/ StartCycle \/ SkipDelayed \/ Advance
    \/ Submit \/ Record \/ Poll \/ Stop \/ Stopping \/ Confirm
    \/ WriteStep \/ Finish \/ RetryWait

Next ==
    \/ \E p \in Plans : \E payload \in Payloads : CreateOwned(p, payload)
    \/ \E p \in Plans : CancelRead(p) \/ CancelWrite(p) \/ DelayPasses(p)
    \/ ExecStep
    \/ Restart
    \/ \E r \in KernelRuns : KernelEnds(r) \/ KernelReopens(r)

\* The executor thread loops for as long as the service is up, a handler that
\* has read the plan writes it, time passes, and the kernel ends each run.
Fairness ==
    /\ WF_vars(ExecStep)
    /\ \A p \in Plans : WF_vars(DelayPasses(p)) /\ WF_vars(CancelWrite(p))
    /\ \A r \in KernelRuns : WF_vars(KernelEnds(r))

Spec == Init /\ [][Next]_vars
FairSpec == Spec /\ Fairness

-----------------------------------------------------------------------------
(* Properties                                                              *)

\* However often an answer is lost, a poll fails or the service restarts, a
\* step of a plan has at most one run: the plan-scoped idempotency key of
\* _advance finds the run that an earlier, unanswered submission made.
OneRunPerStep ==
    \A r, s \in KernelRuns :
        kernelKey[r] # << >> /\ kernelKey[r] = kernelKey[s] => r = s

\* A step is submitted only when the kernel's own record says that every step
\* before it succeeded: a failed, cancelled or unfinished step stops all later
\* ones, however the plan's status was overwritten in between.
StepsInOrder ==
    \A p \in Plans : \A i \in 1..Len(steps[p]) : \A j \in 1..(i - 1) :
        (\E r \in KernelRuns : kernelKey[r] = KeyOf(p, i)) =>
            \E s \in KernelRuns : kernelKey[s] = KeyOf(p, j)
                                  /\ kernelStatus[s] = "succeeded"

\* execution_valid is true only of a plan all of whose runs succeeded, even if
\* a late cancellation reopened the plan after it had ended.
PlanSuccessIsEarned ==
    \A p \in Plans : planStatus[p] = "succeeded" =>
        \A i \in 1..Len(steps[p]) :
            /\ steps[p][i].run # NoRun
            /\ kernelStatus[steps[p][i].run] = "succeeded"

\* A plan that ends as cancelled leaves no run that it knows of at work: the
\* service waits for the kernel to say that the run stopped.
CancelledRunsStopped ==
    \A p \in Plans : planStatus[p] = "cancelled" =>
        \A r \in RunsOf(p) : kernelStatus[r] \in TerminalStatus

\* Starting a step of a plan whose cancellation was already accepted.
StartsAfterCancel == exec'.pc = "submit" /\ exec.pc # "submit" /\ MyPlan \in accepted

\* "Cancelling a plan cancels its active child run and never starts the next
\* step" (docs/EXECUTION_PLAN_PROTOCOL.md).  retry_wait overwrites the plan's
\* cancel_requested, and the next cycle goes on as if nobody had asked.
CancelStartsNothing == [][~ StartsAfterCancel]_vars

\* Every plan comes to rest, through outages, refusals, restarts and the
\* cancellation that is written after the plan has already ended.
PlansSettle ==
    \A p \in Plans :
        planStatus[p] # "absent" ~> [](planStatus[p] \in PlanTerminal)
=============================================================================
