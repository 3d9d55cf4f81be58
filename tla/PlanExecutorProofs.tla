------------------------- MODULE PlanExecutorProofs -------------------------
(***************************************************************************)
(* What the idempotency key of the plan service gives for any plans, runs  *)
(* and faults.                                                             *)
(***************************************************************************)
EXTENDS PlanExecutor, TLAPS

\* OneRunPerStep, and the shape of the kernel's table of keys.
KeysInv == DOMAIN kernelKey = KernelRuns /\ OneRunPerStep

\* The kernel looks its key up and creates the run in one transaction.
LEMMA SubmitKeepsKeys ==
  ASSUME KeysInv, NEW key, NEW r \in KernelRuns, KernelSubmit(key, r)
  PROVE  KeysInv'
<1>1. CASE UNCHANGED kernelKey
  BY <1>1 DEF KeysInv, OneRunPerStep
<1>2. CASE /\ \A s \in KernelRuns : kernelKey[s] # key
           /\ kernelKey' = [kernelKey EXCEPT ![r] = key]
  <2>1. /\ DOMAIN kernelKey' = KernelRuns /\ kernelKey'[r] = key
        /\ \A s \in KernelRuns : s # r => kernelKey'[s] = kernelKey[s]
    BY <1>2 DEF KeysInv
  <2>2. QED
    BY <1>2, <2>1 DEF KeysInv, OneRunPerStep
<1>3. QED
  BY <1>1, <1>2 DEF KernelSubmit, kernelVars

\* Nothing but a submission touches the keys, and every submission of a step
\* carries the step's own key.
LEMMA KeysStep ==
  ASSUME KeysInv, [Next]_vars
  PROVE  KeysInv'
<1>1. ASSUME UNCHANGED kernelKey PROVE KeysInv'
  BY <1>1 DEF KeysInv, OneRunPerStep
<1>2. CASE Submit
  <2>1. CASE UNCHANGED kernelVars
    BY <1>1, <2>1 DEF kernelVars
  <2>2. ASSUME NEW r \in KernelRuns, KernelSubmit(KeyOf(MyPlan, Pending(MyPlan)), r)
        PROVE  KeysInv'
    <3>1. PICK key : key = KeyOf(MyPlan, Pending(MyPlan))
      OBVIOUS
    <3>2. KernelSubmit(key, r)
      BY <2>2, <3>1, Zenon
    <3>3. QED
      BY <3>2, SubmitKeepsKeys
  <2>3. QED
    BY <1>2, <2>1, <2>2, Zenon DEF Submit
<1>3. CASE StartCycle \/ SkipDelayed \/ Advance
  BY <1>1, <1>3 DEF StartCycle, SkipDelayed, Advance, kernelVars
<1>4. CASE Record \/ Poll \/ Stop \/ Confirm
  BY <1>1, <1>4 DEF Record, Poll, Stop, Confirm, kernelVars
<1>5. CASE Stopping
  BY <1>1, <1>5 DEF Stopping, kernelVars
<1>6. CASE WriteStep \/ Finish \/ RetryWait \/ Restart
  BY <1>1, <1>6 DEF WriteStep, Finish, RetryWait, Restart, kernelVars
<1>7. ASSUME NEW p, NEW payload, CreateOwned(p, payload) PROVE KeysInv'
  BY <1>1, <1>7 DEF CreateOwned, kernelVars
<1>8. ASSUME NEW p, CancelRead(p) \/ CancelWrite(p) \/ DelayPasses(p) PROVE KeysInv'
  BY <1>1, <1>8 DEF CancelRead, CancelWrite, DelayPasses, kernelVars
<1>9. ASSUME NEW r, KernelEnds(r) \/ KernelReopens(r) PROVE KeysInv'
  BY <1>1, <1>9 DEF KernelEnds, KernelReopens
<1>10. CASE UNCHANGED vars
  BY <1>1, <1>10 DEF vars, kernelVars
<1>11. QED
  BY <1>2, <1>3, <1>4, <1>5, <1>6, <1>7, <1>8, <1>9, <1>10 DEF Next, ExecStep

\* For any plans, any number of outages, refusals and restarts, and any order in
\* which callers, the executor and the kernel act: the submissions of one step
\* of a plan, repeated because an answer was lost, made at most one run.
THEOREM StepHasOneRun == Spec => []OneRunPerStep
<1>1. Init => KeysInv
  BY DEF Init, KeysInv, OneRunPerStep
<1>2. KeysInv => OneRunPerStep
  BY DEF KeysInv
<1>3. QED
  BY <1>1, <1>2, KeysStep, PTL DEF Spec
=============================================================================
