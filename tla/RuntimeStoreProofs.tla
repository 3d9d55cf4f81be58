------------------------ MODULE RuntimeStoreProofs ------------------------
(***************************************************************************)
(* Proofs about RuntimeStore, for any sets of runs, tasks and workers, any  *)
(* capacity and any attempt bound.                                          *)
(***************************************************************************)
EXTENDS RuntimeStore, TLAPS, SequenceTheorems, FiniteSetTheorems

-----------------------------------------------------------------------------
(* Editing and appending attempts                                          *)

\* Replacing one attempt of one run keeps the table's type and leaves every
\* other attempt as it was.
LEMMA EditAttempt ==
  ASSUME attempts \in [Runs -> Seq(Attempt)],
         NEW r \in Runs, NEW n \in 1..Len(attempts[r]), NEW e \in Attempt,
         attempts' = [attempts EXCEPT ![r][n] = e]
  PROVE  /\ attempts' \in [Runs -> Seq(Attempt)]
         /\ \A s \in Runs : Len(attempts'[s]) = Len(attempts[s])
         /\ \A s \in Runs : \A m \in 1..Len(attempts[s]) :
               attempts'[s][m] = IF s = r /\ m = n THEN e ELSE attempts[s][m]
<1> DEFINE row == [attempts[r] EXCEPT ![n] = e]
<1>1. attempts' = [attempts EXCEPT ![r] = row]
  OBVIOUS
<1>2. attempts[r] \in Seq(Attempt)
  OBVIOUS
<1>3. /\ row \in Seq(Attempt)
      /\ Len(row) = Len(attempts[r])
      /\ \A j \in 1..Len(attempts[r]) : row[j] = IF j = n THEN e ELSE attempts[r][j]
  BY <1>2, ExceptSeq
<1> HIDE DEF row
<1>4. QED
  BY <1>1, <1>3

\* Appending one attempt to one run keeps the table's type and every earlier
\* attempt.
LEMMA AppendAttempt ==
  ASSUME attempts \in [Runs -> Seq(Attempt)],
         NEW r \in Runs, NEW e \in Attempt,
         attempts' = [attempts EXCEPT ![r] = Append(@, e)]
  PROVE  /\ attempts' \in [Runs -> Seq(Attempt)]
         /\ Len(attempts'[r]) = Len(attempts[r]) + 1
         /\ attempts'[r][Len(attempts[r]) + 1] = e
         /\ \A s \in Runs : s # r => attempts'[s] = attempts[s]
         /\ \A s \in Runs : \A m \in 1..Len(attempts[s]) :
               /\ attempts'[s][m] = attempts[s][m]
               /\ m \in 1..Len(attempts'[s])
<1>1. attempts[r] \in Seq(Attempt)
  OBVIOUS
<1> DEFINE row == Append(attempts[r], e)
<1>2. /\ row \in Seq(Attempt)
      /\ Len(row) = Len(attempts[r]) + 1
      /\ \A i \in 1..Len(attempts[r]) : row[i] = attempts[r][i]
      /\ row[Len(attempts[r]) + 1] = e
  BY <1>1, AppendProperties
<1>3. attempts' = [attempts EXCEPT ![r] = row]
  OBVIOUS
<1>4. Len(attempts[r]) \in Nat
  BY <1>1, LenProperties
<1> HIDE DEF row
<1>5. QED
  BY <1>2, <1>3, <1>4

\* A table that keeps at least the attempts it had keeps their identities.
LEMMA IdsKept ==
  ASSUME attempts \in [Runs -> Seq(Attempt)], attempts' \in [Runs -> Seq(Attempt)],
         \A s \in Runs : Len(attempts[s]) <= Len(attempts'[s])
  PROVE  AttemptIds \subseteq AttemptIds'
<1>1. \A s \in Runs : Len(attempts[s]) \in Nat /\ Len(attempts'[s]) \in Nat
  BY LenProperties
<1>2. ASSUME NEW a \in AttemptIds PROVE a \in AttemptIds'
  <2>1. /\ a \in Runs \X (Nat \ {0})
        /\ a[2] <= Len(attempts[a[1]])
    BY DEF AttemptIds
  <2>2. a[1] \in Runs /\ a[2] \in Nat
    BY <2>1
  <2>3. a[2] <= Len(attempts'[a[1]])
    BY <1>1, <2>1, <2>2
  <2>4. QED
    BY <2>1, <2>3 DEF AttemptIds
<1>3. QED
  BY <1>2

-----------------------------------------------------------------------------
(* Type correctness                                                        *)

\* An edit of one existing attempt, with or without giving back
\* reservations, preserves TypeOK.
LEMMA EditKeepsType ==
  ASSUME TypeOK,
         NEW r \in Runs, NEW n \in 1..Len(attempts[r]), NEW e \in Attempt,
         attempts' = [attempts EXCEPT ![r][n] = e],
         reservations' \subseteq reservations,
         UNCHANGED <<runStatus, stageStatus, taskOf, keyOf>>
  PROVE  TypeOK'
<1>1. attempts \in [Runs -> Seq(Attempt)] /\ reservations \subseteq AttemptIds
  BY DEF TypeOK
<1>2. /\ attempts' \in [Runs -> Seq(Attempt)]
      /\ \A s \in Runs : Len(attempts'[s]) = Len(attempts[s])
  BY <1>1, EditAttempt
<1>3. \A s \in Runs : Len(attempts[s]) \in Nat
  BY <1>1, LenProperties
<1>4. AttemptIds \subseteq AttemptIds'
  BY <1>1, <1>2, <1>3, IdsKept
<1>5. QED
  BY <1>1, <1>2, <1>4 DEF TypeOK

\* The empty store that _initialise creates has the right type.
LEMMA TypeOKInit == Init => TypeOK
<1> SUFFICES ASSUME Init PROVE TypeOK
  OBVIOUS
<1>1. << >> \in Seq(Attempt)
  BY EmptySeq
<1>2. QED
  BY <1>1 DEF Init, TypeOK

-----------------------------------------------------------------------------
(* What a call on one attempt can do                                       *)

\* What an attempt a may become (e) in one call, and what becomes of its
\* reservation: an ended attempt stays as it is, a lease is there exactly
\* while the attempt runs, and a reservation is kept while it runs.
AttemptEdit(r, n, e) ==
    LET a == attempts[r][n] IN
    /\ attempts' = [attempts EXCEPT ![r][n] = e]
    /\ reservations' \in {reservations, reservations \ {<<r, n>>}}
    /\ UNCHANGED <<runStatus, stageStatus, taskOf, keyOf>>
    /\ a.status \in EndedAttemptStatus => e = a
    /\ (e.lease # "none") <=> (e.status = "running")
    /\ e.status = "running" => a.status = "running" /\ reservations' = reservations
    /\ e.status \notin {"running", "lost"} /\ e # a => <<r, n>> \notin reservations'

\* Every call on an attempt is such an edit: heartbeat and attach_process
\* touch only a running attempt, finish_attempt and the reclaim loop end only
\* a running one, and a lease expires only while it runs.
LEMMA AttemptStepIsEdit ==
  ASSUME TypeOK, LeaseIffRunning,
         NEW r \in Runs, NEW n \in 1..Len(attempts[r]), AttemptStep(r, n)
  PROVE  \E e \in Attempt : AttemptEdit(r, n, e)
<1> DEFINE a == attempts[r][n]
<1>1. a \in Attempt
  <2>1. attempts[r] \in Seq(Attempt)
    BY DEF TypeOK
  <2>2. QED
    BY <2>1, ElementOfSeq
<1>2. (a.lease # "none") <=> (a.status = "running")
  BY DEF LeaseIffRunning
<1>3. a.status = "running" => a.status \notin EndedAttemptStatus
  BY DEF EndedAttemptStatus
<1>4. CASE LeaseExpires(r, n)
  <2> DEFINE e == [a EXCEPT !.lease = "expired"]
  <2>1. attempts' = [attempts EXCEPT ![r][n] = e]
    BY <1>4 DEF LeaseExpires
  <2>2. a.lease = "live" /\ a.status = "running"
    BY <1>2, <1>4 DEF LeaseExpires
  <2>3. e \in Attempt /\ e.lease = "expired" /\ e.status = "running"
    <3> HIDE DEF a
    <3>1. QED
      BY <1>1, <2>2 DEF Attempt
  <2>4. reservations' = reservations /\ UNCHANGED <<runStatus, stageStatus, taskOf, keyOf>>
    BY <1>4 DEF LeaseExpires
  <2> HIDE DEF e
  <2>5. AttemptEdit(r, n, e)
    BY <1>3, <2>1, <2>2, <2>3, <2>4 DEF AttemptEdit
  <2>6. QED
    BY <2>3, <2>5
<1>5. ASSUME NEW w \in Workers, Heartbeat(r, n, w)
      PROVE  \E e \in Attempt : AttemptEdit(r, n, e)
  <2> DEFINE e == [a EXCEPT !.lease = "live"]
  <2>1. attempts' = [attempts EXCEPT ![r][n] = e]
    BY <1>5 DEF Heartbeat
  <2>2. a.status = "running"
    BY <1>5 DEF Heartbeat, OwnedBy
  <2>3. e \in Attempt /\ e.lease = "live" /\ e.status = "running"
    <3> HIDE DEF a
    <3>1. QED
      BY <1>1, <2>2 DEF Attempt
  <2>4. reservations' = reservations /\ UNCHANGED <<runStatus, stageStatus, taskOf, keyOf>>
    BY <1>5 DEF Heartbeat
  <2> HIDE DEF e
  <2>5. AttemptEdit(r, n, e)
    BY <1>3, <2>1, <2>2, <2>3, <2>4 DEF AttemptEdit
  <2>6. QED
    BY <2>3, <2>5
<1>6. ASSUME NEW w \in Workers, AttachProcess(r, n, w)
      PROVE  \E e \in Attempt : AttemptEdit(r, n, e)
  <2> DEFINE e == [a EXCEPT !.attached = TRUE]
  <2>1. attempts' = [attempts EXCEPT ![r][n] = e]
    BY <1>6 DEF AttachProcess
  <2>2. a.status = "running" /\ a.lease # "none"
    BY <1>2, <1>6 DEF AttachProcess, OwnedBy
  <2>3. e \in Attempt /\ e.lease = a.lease /\ e.status = "running"
    <3> HIDE DEF a
    <3>1. QED
      BY <1>1, <2>2 DEF Attempt
  <2>4. reservations' = reservations /\ UNCHANGED <<runStatus, stageStatus, taskOf, keyOf>>
    BY <1>6 DEF AttachProcess
  <2> HIDE DEF e
  <2>5. AttemptEdit(r, n, e)
    BY <1>3, <2>1, <2>2, <2>3, <2>4 DEF AttemptEdit
  <2>6. QED
    BY <2>3, <2>5
<1>7. ASSUME NEW o \in Outcomes, FinishAttempt(r, n, o[1], o[2])
      PROVE  \E e \in Attempt : AttemptEdit(r, n, e)
  <2> DEFINE e == [a EXCEPT !.status = o[1], !.failure = o[2], !.lease = "none"]
  <2>1. attempts' = [attempts EXCEPT ![r][n] = e]
    BY <1>7 DEF FinishAttempt
  <2>2. o[1] \in {"succeeded", "failed"} /\ o[2] \in {"none", "retryable", "final"}
    BY DEF Outcomes
  <2>3. a.status \notin EndedAttemptStatus
    <3>1. o[1] \in ATTEMPT_TRANSITIONS[a.status] /\ a.status \in AttemptStatus
      BY <1>1, <1>7 DEF FinishAttempt, FinishAllowed, AttemptTransitionAllowed, Attempt
    <3> HIDE DEF a
    <3>2. QED
      BY <3>1 DEF ATTEMPT_TRANSITIONS, EndedAttemptStatus, AttemptStatus
  <2>4. /\ e \in Attempt /\ e.lease = "none" /\ e.status \in {"succeeded", "failed"}
    <3> HIDE DEF a
    <3>1. QED
      BY <1>1, <2>2 DEF Attempt, AttemptStatus
  <2>5. /\ reservations' = reservations \ {<<r, n>>}
        /\ UNCHANGED <<runStatus, stageStatus, taskOf, keyOf>>
    BY <1>7 DEF FinishAttempt
  <2> HIDE DEF e
  <2>6. AttemptEdit(r, n, e)
    BY <2>1, <2>3, <2>4, <2>5 DEF AttemptEdit
  <2>7. QED
    BY <2>4, <2>6
<1>8. CASE ReclaimUpdate(r, n)
  <2> DEFINE e == [a EXCEPT !.status = "lost", !.failure = "retryable", !.lease = "none"]
  <2>1. attempts' = [attempts EXCEPT ![r][n] = e]
    BY <1>8 DEF ReclaimUpdate
  <2>2. a.status = "running"
    BY <1>8 DEF ReclaimUpdate, Expired
  <2>3. e \in Attempt /\ e.lease = "none" /\ e.status = "lost"
    <3> HIDE DEF a
    <3>1. QED
      BY <1>1 DEF Attempt, AttemptStatus
  <2>4. reservations' = reservations /\ UNCHANGED <<runStatus, stageStatus, taskOf, keyOf>>
    BY <1>8 DEF ReclaimUpdate
  <2> HIDE DEF e
  <2>5. AttemptEdit(r, n, e)
    BY <1>3, <2>1, <2>2, <2>3, <2>4 DEF AttemptEdit
  <2>6. QED
    BY <2>3, <2>5
<1>9. CASE ReclaimDelete(r, n)
  <2>1. attempts' = [attempts EXCEPT ![r][n] = a]
    <3>1. attempts' = attempts /\ attempts \in [Runs -> Seq(Attempt)]
      BY <1>9 DEF ReclaimDelete, TypeOK
    <3>2. attempts[r] \in [1..Len(attempts[r]) -> Attempt]
      BY <3>1, LenProperties
    <3>3. [attempts[r] EXCEPT ![n] = a] = attempts[r]
      BY <3>2
    <3>4. QED
      BY <3>1, <3>3
  <2>2. a.status = "lost"
    BY <1>9 DEF ReclaimDelete
  <2>3. /\ reservations' = reservations \ {<<r, n>>}
        /\ UNCHANGED <<runStatus, stageStatus, taskOf, keyOf>>
    BY <1>9 DEF ReclaimDelete
  <2>4. AttemptEdit(r, n, a)
    BY <1>2, <2>1, <2>2, <2>3 DEF AttemptEdit
  <2>5. QED
    BY <1>1, <2>4
<1>10. QED
  BY <1>4, <1>5, <1>6, <1>7, <1>8, <1>9 DEF AttemptStep

-----------------------------------------------------------------------------
(* Attempts, leases and reservations                                       *)

\* The inductive invariant about attempts.  LeaseIffRunning is what makes a
\* lease's expiry harmless to an ended attempt; RunningHoldsReservation needs
\* it to know that no call gives back the reservation of a running attempt.
AttemptInv ==
    /\ TypeOK
    /\ LeaseIffRunning
    /\ RunningHoldsReservation
    /\ LeftoverReservationIsLost

\* The calls that touch only the run and its stage.
RunOnlyStep(r) ==
    \/ \E t \in Tasks, k \in Keys \cup {NoKey}, idempotent \in BOOLEAN :
          SubmitRun(r, t, k, idempotent)
    \/ \E target \in Targets : TransitionRun(r, target)
    \/ FailQueuedRun(r)
    \/ ScheduleRetry(r)
    \/ RequestRetry(r)

\* start_attempt, within the bound on attempts.
StartStep(r) ==
    /\ BelowAttemptBound
    /\ \E w \in Workers, ws \in Workspaces : StartAttempt(r, w, ws)

\* Next, grouped by what a call touches.
LEMMA NextCases ==
  ASSUME Next
  PROVE  \E r \in Runs :
            \/ RunOnlyStep(r)
            \/ StartStep(r)
            \/ \E n \in 1..Len(attempts[r]) : AttemptStep(r, n)
BY DEF Next, RunStep, RunOnlyStep, StartStep

\* submit_run, transition_run, fail_queued_run and the two retries write no
\* attempt and no reservation.
LEMMA RunOnlyStepFacts ==
  ASSUME TypeOK, NEW r \in Runs, RunOnlyStep(r)
  PROVE  UNCHANGED <<attempts, reservations>> /\ TypeOK'
<1>1. ASSUME NEW t \in Tasks, NEW k \in Keys \cup {NoKey}, NEW idempotent \in BOOLEAN,
             SubmitRun(r, t, k, idempotent)
      PROVE  UNCHANGED <<attempts, reservations>> /\ TypeOK'
  BY <1>1 DEF SubmitRun, TypeOK, AttemptIds, RuntimeStatus
<1>2. ASSUME NEW target \in Targets, TransitionRun(r, target)
      PROVE  UNCHANGED <<attempts, reservations>> /\ TypeOK'
  BY <1>2 DEF TransitionRun, MoveStage, Targets, TypeOK, AttemptIds, RuntimeStatus
<1>3. CASE FailQueuedRun(r)
  BY <1>3 DEF FailQueuedRun, MoveStage, TypeOK, AttemptIds, RuntimeStatus
<1>4. CASE ScheduleRetry(r)
  BY <1>4 DEF ScheduleRetry, TypeOK, AttemptIds, RuntimeStatus
<1>5. CASE RequestRetry(r)
  BY <1>5 DEF RequestRetry, TypeOK, AttemptIds, RuntimeStatus
<1>6. QED
  BY <1>1, <1>2, <1>3, <1>4, <1>5 DEF RunOnlyStep

\* start_attempt appends a running attempt with a live lease and reserves
\* for it in the same transaction.
LEMMA StartStepFacts ==
  ASSUME TypeOK, NEW r \in Runs, StartStep(r)
  PROVE  \E e \in Attempt :
            /\ e.status = "running" /\ e.lease = "live"
            /\ attempts' = [attempts EXCEPT ![r] = Append(@, e)]
            /\ reservations' = reservations \cup {<<r, Len(attempts[r]) + 1>>}
            /\ StartAllowed(r)
            /\ stageStatus' = [stageStatus EXCEPT ![r] = "running"]
            /\ runStatus' = [runStatus EXCEPT ![r] = IF NotStarted(r) THEN "running" ELSE @]
            /\ UNCHANGED <<taskOf, keyOf>>
<1>1. PICK w \in Workers, ws \in Workspaces : StartAttempt(r, w, ws)
  BY DEF StartStep
<1>2. /\ NewAttempt(w, ws) \in Attempt
      /\ NewAttempt(w, ws).status = "running"
      /\ NewAttempt(w, ws).lease = "live"
  BY DEF NewAttempt, Attempt, AttemptStatus
<1>3. QED
  BY <1>1, <1>2 DEF StartAttempt

\* start_attempt reserves for an attempt that is in the table.
LEMMA StartKeepsType ==
  ASSUME TypeOK, NEW r \in Runs, StartStep(r)
  PROVE  TypeOK'
<1>1. PICK e \in Attempt :
          /\ attempts' = [attempts EXCEPT ![r] = Append(@, e)]
          /\ reservations' = reservations \cup {<<r, Len(attempts[r]) + 1>>}
          /\ stageStatus' = [stageStatus EXCEPT ![r] = "running"]
          /\ runStatus' = [runStatus EXCEPT ![r] = IF NotStarted(r) THEN "running" ELSE @]
          /\ UNCHANGED <<taskOf, keyOf>>
  BY StartStepFacts
<1>2. attempts \in [Runs -> Seq(Attempt)]
  BY DEF TypeOK
<1>3. /\ attempts' \in [Runs -> Seq(Attempt)]
      /\ Len(attempts'[r]) = Len(attempts[r]) + 1
      /\ \A s \in Runs : s # r => attempts'[s] = attempts[s]
  BY <1>1, <1>2, AppendAttempt
<1>4. \A s \in Runs : Len(attempts[s]) \in Nat
  BY <1>2, LenProperties
<1>5. AttemptIds \subseteq AttemptIds'
  BY <1>2, <1>3, <1>4, IdsKept
<1>6. <<r, Len(attempts[r]) + 1>> \in AttemptIds'
  BY <1>3, <1>4 DEF AttemptIds
<1>7. reservations' \subseteq AttemptIds'
  BY <1>1, <1>5, <1>6 DEF TypeOK
<1>8. QED
  BY <1>1, <1>3, <1>7 DEF TypeOK, RuntimeStatus

\* An ended attempt and its lease, seen from the reservation it may leave.
LEMMA EditKeepsAttemptInv ==
  ASSUME AttemptInv,
         NEW r \in Runs, NEW n \in 1..Len(attempts[r]), NEW e \in Attempt,
         AttemptEdit(r, n, e)
  PROVE  AttemptInv'
<1>1. attempts \in [Runs -> Seq(Attempt)] /\ reservations \subseteq AttemptIds
  BY DEF AttemptInv, TypeOK
<1>2. /\ attempts' = [attempts EXCEPT ![r][n] = e]
      /\ reservations' \in {reservations, reservations \ {<<r, n>>}}
      /\ UNCHANGED <<runStatus, stageStatus, taskOf, keyOf>>
  BY DEF AttemptEdit
<1>3. /\ \A s \in Runs : Len(attempts'[s]) = Len(attempts[s])
      /\ \A s \in Runs : \A m \in 1..Len(attempts[s]) :
            attempts'[s][m] = IF s = r /\ m = n THEN e ELSE attempts[s][m]
  BY <1>1, <1>2, EditAttempt
<1>4. TypeOK'
  BY <1>2, EditKeepsType DEF AttemptInv
<1>5. LeaseIffRunning'
  <2>1. (e.lease # "none") <=> (e.status = "running")
    BY DEF AttemptEdit
  <2>2. QED
    BY <1>3, <2>1 DEF AttemptInv, LeaseIffRunning
<1>6. RunningHoldsReservation'
  <2>1. e.status = "running" => attempts[r][n].status = "running" /\ reservations' = reservations
    BY DEF AttemptEdit
  <2>2. ASSUME NEW s \in Runs, NEW m \in 1..Len(attempts'[s]), attempts'[s][m].status = "running"
        PROVE  <<s, m>> \in reservations'
    <3>1. CASE s = r /\ m = n
      <4>1. attempts[r][n].status = "running" /\ reservations' = reservations
        BY <1>3, <2>1, <2>2, <3>1
      <4>2. QED
        BY <3>1, <4>1 DEF AttemptInv, RunningHoldsReservation
    <3>2. CASE ~ (s = r /\ m = n)
      <4>1. m \in 1..Len(attempts[s]) /\ attempts[s][m].status = "running"
        BY <1>3, <2>2, <3>2
      <4>2. <<s, m>> \in reservations
        BY <4>1 DEF AttemptInv, RunningHoldsReservation
      <4>3. <<s, m>> # <<r, n>>
        BY <3>2
      <4>4. QED
        BY <1>2, <4>2, <4>3
    <3>3. QED
      BY <3>1, <3>2
  <2>3. QED
    BY <2>2 DEF RunningHoldsReservation
<1>7. LeftoverReservationIsLost'
  <2>1. ASSUME NEW a \in reservations'
        PROVE  attempts'[a[1]][a[2]].status \in {"running", "lost"}
    <3>1. a \in reservations
      BY <1>2
    <3>2. a \in Runs \X (Nat \ {0}) /\ a[2] <= Len(attempts[a[1]])
      BY <1>1, <3>1 DEF AttemptIds
    <3>3. a[1] \in Runs /\ a[2] \in 1..Len(attempts[a[1]]) /\ a = <<a[1], a[2]>>
      <4>1. a[1] \in Runs /\ a[2] \in Nat \ {0} /\ a = <<a[1], a[2]>>
        BY <3>2
      <4>2. Len(attempts[a[1]]) \in Nat
        BY <1>1, <4>1, LenProperties
      <4>3. QED
        BY <3>2, <4>1, <4>2
    <3>4. attempts[a[1]][a[2]].status \in {"running", "lost"}
      BY <3>1 DEF AttemptInv, LeftoverReservationIsLost
    <3>5. CASE a = <<r, n>>
      <4>1. e.status \notin {"running", "lost"} => e = attempts[r][n]
        BY <3>5 DEF AttemptEdit
      <4>2. attempts[r][n].status \in {"running", "lost"}
        BY <3>4, <3>5
      <4>3. e.status \in {"running", "lost"}
        BY <4>1, <4>2
      <4>4. a[1] = r /\ a[2] = n
        BY <3>5
      <4>5. QED
        BY <1>3, <4>3, <4>4
    <3>6. CASE a # <<r, n>>
      <4>1. ~ (a[1] = r /\ a[2] = n)
        BY <3>3, <3>6
      <4>2. QED
        BY <1>3, <3>3, <3>4, <4>1
    <3>7. QED
      BY <3>5, <3>6
  <2>2. QED
    BY <2>1 DEF LeftoverReservationIsLost
<1>8. QED
  BY <1>4, <1>5, <1>6, <1>7 DEF AttemptInv

\* start_attempt inserts the attempt and its reservation in one transaction.
LEMMA StartKeepsAttemptInv ==
  ASSUME AttemptInv, NEW r \in Runs, StartStep(r)
  PROVE  AttemptInv'
<1>1. PICK e \in Attempt :
          /\ e.status = "running" /\ e.lease = "live"
          /\ attempts' = [attempts EXCEPT ![r] = Append(@, e)]
          /\ reservations' = reservations \cup {<<r, Len(attempts[r]) + 1>>}
  BY StartStepFacts DEF AttemptInv
<1>2. attempts \in [Runs -> Seq(Attempt)] /\ reservations \subseteq AttemptIds
  BY DEF AttemptInv, TypeOK
<1>3. /\ Len(attempts'[r]) = Len(attempts[r]) + 1
      /\ attempts'[r][Len(attempts[r]) + 1] = e
      /\ \A s \in Runs : s # r => attempts'[s] = attempts[s]
      /\ \A s \in Runs : \A m \in 1..Len(attempts[s]) :
            attempts'[s][m] = attempts[s][m]
  BY <1>1, <1>2, AppendAttempt
<1>4. \A s \in Runs : Len(attempts[s]) \in Nat
  BY <1>2, LenProperties
<1>5. \A s \in Runs : \A m \in 1..Len(attempts'[s]) :
          \/ m \in 1..Len(attempts[s]) /\ attempts'[s][m] = attempts[s][m]
          \/ s = r /\ m = Len(attempts[r]) + 1 /\ attempts'[s][m] = e
  BY <1>3, <1>4
<1>6. TypeOK'
  BY StartKeepsType DEF AttemptInv
<1>7. LeaseIffRunning'
  BY <1>1, <1>5 DEF AttemptInv, LeaseIffRunning
<1>8. RunningHoldsReservation'
  BY <1>1, <1>5 DEF AttemptInv, RunningHoldsReservation
<1>9. LeftoverReservationIsLost'
  <2>1. ASSUME NEW a \in reservations'
        PROVE  attempts'[a[1]][a[2]].status \in {"running", "lost"}
    <3>1. CASE a = <<r, Len(attempts[r]) + 1>>
      <4>1. a[1] = r /\ a[2] = Len(attempts[r]) + 1
        BY <3>1
      <4>2. QED
        BY <1>1, <1>3, <4>1
    <3>2. CASE a \in reservations
      <4>1. a \in Runs \X (Nat \ {0}) /\ a[2] <= Len(attempts[a[1]])
        BY <1>2, <3>2 DEF AttemptIds
      <4>2. a[1] \in Runs /\ a[2] \in 1..Len(attempts[a[1]])
        BY <1>4, <4>1
      <4>3. attempts[a[1]][a[2]].status \in {"running", "lost"}
        BY <3>2 DEF AttemptInv, LeftoverReservationIsLost
      <4>4. QED
        BY <1>3, <4>2, <4>3
    <3>3. QED
      BY <1>1, <3>1, <3>2
  <2>2. QED
    BY <2>1 DEF LeftoverReservationIsLost
<1>10. QED
  BY <1>6, <1>7, <1>8, <1>9 DEF AttemptInv

\* AttemptInv is inductive.
LEMMA AttemptInvInit == Init => AttemptInv
<1> SUFFICES ASSUME Init PROVE AttemptInv
  OBVIOUS
<1>1. TypeOK
  BY TypeOKInit
<1>2. \A r \in Runs : attempts[r] = << >> /\ Len(attempts[r]) = 0
  BY EmptySeq DEF Init
<1>3. LeaseIffRunning /\ RunningHoldsReservation
  BY <1>2 DEF LeaseIffRunning, RunningHoldsReservation
<1>4. LeftoverReservationIsLost
  BY DEF Init, LeftoverReservationIsLost
<1>5. QED
  BY <1>1, <1>3, <1>4 DEF AttemptInv

\* Every call, by any caller, preserves AttemptInv.
LEMMA AttemptInvStep ==
  ASSUME AttemptInv, [Next]_storeVars
  PROVE  AttemptInv'
<1>1. ASSUME NEW r \in Runs, RunOnlyStep(r) PROVE AttemptInv'
  <2>1. UNCHANGED <<attempts, reservations>> /\ TypeOK'
    BY <1>1, RunOnlyStepFacts DEF AttemptInv
  <2>2. QED
    BY <2>1 DEF AttemptInv, LeaseIffRunning, RunningHoldsReservation,
                LeftoverReservationIsLost
<1>2. ASSUME NEW r \in Runs, StartStep(r) PROVE AttemptInv'
  BY <1>2, StartKeepsAttemptInv
<1>3. ASSUME NEW r \in Runs, NEW n \in 1..Len(attempts[r]), AttemptStep(r, n)
      PROVE  AttemptInv'
  BY <1>3, AttemptStepIsEdit, EditKeepsAttemptInv DEF AttemptInv
<1>4. CASE UNCHANGED storeVars
  BY <1>4 DEF storeVars, AttemptInv, TypeOK, AttemptIds, LeaseIffRunning,
              RunningHoldsReservation, LeftoverReservationIsLost
<1>5. QED
  BY <1>1, <1>2, <1>3, <1>4, NextCases

\* AttemptInv holds in every reachable state.
LEMMA AttemptInvHolds == Spec => []AttemptInv
<1>1. QED
  BY AttemptInvInit, AttemptInvStep, PTL DEF Spec

\* The store's tables are well typed in every reachable state, for any sets
\* of runs, tasks and workers: in particular every reservation row belongs to
\* an attempt row.
THEOREM StoreIsTyped == Spec => []TypeOK
<1>1. AttemptInv => TypeOK
  BY DEF AttemptInv
<1>2. QED
  BY <1>1, AttemptInvHolds, PTL

\* A running attempt holds its reservation, and only a running attempt has a
\* lease, in every reachable state: whatever heartbeats, late finishes and
\* reclaims interleave, no other attempt is admitted on its cores.
THEOREM RunningIsReserved == Spec => [](RunningHoldsReservation /\ LeaseIffRunning)
<1>1. AttemptInv => RunningHoldsReservation /\ LeaseIffRunning
  BY DEF AttemptInv
<1>2. QED
  BY <1>1, AttemptInvHolds, PTL

\* A reservation outlives its running attempt only through the reclaim loop,
\* between its UPDATE and its DELETE.
THEOREM LeftoversAreLost == Spec => []LeftoverReservationIsLost
<1>1. AttemptInv => LeftoverReservationIsLost
  BY DEF AttemptInv
<1>2. QED
  BY <1>1, AttemptInvHolds, PTL

\* What EvidenceIsImmutable says of one step.
Kept(r, n) ==
    /\ n <= Len(attempts'[r])
    /\ Ended(r, n) => attempts'[r][n] = attempts[r][n]

\* No call changes an ended attempt or removes one.
LEMMA EvidenceStep ==
  ASSUME AttemptInv, [Next]_storeVars
  PROVE  \A s \in Runs : \A m \in 1..Len(attempts[s]) : Kept(s, m)
<1>1. attempts \in [Runs -> Seq(Attempt)]
  BY DEF AttemptInv, TypeOK
<1>2. \A s \in Runs : Len(attempts[s]) \in Nat
  BY <1>1, LenProperties
<1>3. CASE UNCHANGED attempts
  BY <1>2, <1>3 DEF Kept
<1>4. ASSUME NEW r \in Runs, StartStep(r)
      PROVE  \A s \in Runs : \A m \in 1..Len(attempts[s]) : Kept(s, m)
  <2>1. PICK e \in Attempt : attempts' = [attempts EXCEPT ![r] = Append(@, e)]
    BY <1>4, StartStepFacts DEF AttemptInv
  <2>2. /\ Len(attempts'[r]) = Len(attempts[r]) + 1
        /\ \A s \in Runs : s # r => attempts'[s] = attempts[s]
        /\ \A s \in Runs : \A m \in 1..Len(attempts[s]) :
              attempts'[s][m] = attempts[s][m]
    BY <1>1, <2>1, AppendAttempt
  <2>3. QED
    BY <1>2, <2>2 DEF Kept
<1>5. ASSUME NEW r \in Runs, NEW n \in 1..Len(attempts[r]), AttemptStep(r, n)
      PROVE  \A s \in Runs : \A m \in 1..Len(attempts[s]) : Kept(s, m)
  <2>1. PICK e \in Attempt : AttemptEdit(r, n, e)
    BY <1>5, AttemptStepIsEdit DEF AttemptInv
  <2>2. /\ attempts' = [attempts EXCEPT ![r][n] = e]
        /\ Ended(r, n) => e = attempts[r][n]
    BY <2>1 DEF AttemptEdit, Ended
  <2>3. /\ \A s \in Runs : Len(attempts'[s]) = Len(attempts[s])
        /\ \A s \in Runs : \A m \in 1..Len(attempts[s]) :
              attempts'[s][m] = IF s = r /\ m = n THEN e ELSE attempts[s][m]
    BY <1>1, <2>2, EditAttempt
  <2>4. QED
    BY <1>2, <2>2, <2>3 DEF Kept
<1>6. ASSUME NEW r \in Runs, RunOnlyStep(r) PROVE UNCHANGED attempts
  BY <1>6, RunOnlyStepFacts DEF AttemptInv
<1>7. CASE UNCHANGED storeVars
  BY <1>3, <1>7 DEF storeVars
<1>8. QED
  BY <1>3, <1>4, <1>5, <1>6, <1>7, NextCases

\* What an attempt recorded when it ended is never rewritten, by any
\* interleaving of workers, reclaimers and callers of the store.
THEOREM EvidenceIsNeverRewritten == Spec => EvidenceIsImmutable
<1>1. AttemptInv /\ [Next]_storeVars =>
        [\A r \in Runs : \A n \in 1..Len(attempts[r]) :
            /\ n <= Len(attempts'[r])
            /\ Ended(r, n) => attempts'[r][n] = attempts[r][n]]_storeVars
  BY EvidenceStep DEF Kept
<1>2. QED
  BY <1>1, AttemptInvHolds, PTL DEF Spec, EvidenceIsImmutable

-----------------------------------------------------------------------------
(* Runs and their stages                                                   *)

\* A run id that submit_run has not handed out yet has no task, no key and no
\* attempts; one that it has handed out carries its task for good.
UnusedIsBlank ==
    \A r \in Runs :
        /\ ~ Exists(r) => taskOf[r] = NoTask /\ keyOf[r] = NoKey /\ attempts[r] = << >>
        /\ Exists(r) => taskOf[r] \in Tasks

\* The inductive invariant about runs.  UnusedIsBlank is what keeps a new
\* run's key distinct from the keys of the runs before it.
RunInv == StageMirrorsRun /\ UnusedIsBlank /\ KeysAreUnique

\* RunInv holds of the empty store.
LEMMA RunInvInit == Init => RunInv
BY DEF Init, RunInv, StageMirrorsRun, UnusedIsBlank, KeysAreUnique, Exists

\* submit_run inserts a key only after it found no run with that key.
LEMMA SubmitKeepsRunInv ==
  ASSUME TypeOK, RunInv, NEW r \in Runs, NEW t \in Tasks,
         NEW k \in Keys \cup {NoKey}, NEW idempotent \in BOOLEAN,
         SubmitRun(r, t, k, idempotent)
  PROVE  RunInv'
<1>1. /\ runStatus' = [runStatus EXCEPT ![r] = "queued"]
      /\ stageStatus' = [stageStatus EXCEPT ![r] = "queued"]
      /\ taskOf' = [taskOf EXCEPT ![r] = t]
      /\ keyOf' = [keyOf EXCEPT ![r] = k]
      /\ attempts' = attempts
  BY DEF SubmitRun
<1>2. StageMirrorsRun'
  BY <1>1 DEF TypeOK, RunInv, StageMirrorsRun
<1>3. UnusedIsBlank'
  BY <1>1 DEF TypeOK, RunInv, UnusedIsBlank, Exists
<1>4. k # NoKey => \A s \in Runs : keyOf[s] # k
  BY DEF SubmitRun, Existing, RunInv, UnusedIsBlank
<1>5. KeysAreUnique'
  BY <1>1, <1>4 DEF TypeOK, RunInv, KeysAreUnique
<1>6. QED
  BY <1>2, <1>3, <1>5 DEF RunInv

\* A step that moves a run that exists and its stage to the same status
\* preserves RunInv.
LEMMA MoveKeepsRunInv ==
  ASSUME TypeOK, RunInv, NEW r \in Runs, NEW status \in RuntimeStatus,
         Exists(r),
         runStatus' = [runStatus EXCEPT ![r] = status],
         stageStatus' = [stageStatus EXCEPT ![r] = status],
         UNCHANGED <<taskOf, keyOf>>,
         \A s \in Runs : s # r => attempts'[s] = attempts[s]
  PROVE  RunInv'
<1>1. status # "absent"
  BY DEF RuntimeStatus
<1>2. StageMirrorsRun'
  BY DEF TypeOK, RunInv, StageMirrorsRun
<1>3. UnusedIsBlank'
  BY <1>1 DEF TypeOK, RunInv, UnusedIsBlank, Exists
<1>4. KeysAreUnique'
  BY DEF RunInv, KeysAreUnique
<1>5. QED
  BY <1>2, <1>3, <1>4 DEF RunInv

\* The two rows move together through every call.
LEMMA RunInvStep ==
  ASSUME AttemptInv, RunInv, [Next]_storeVars
  PROVE  RunInv'
<1> USE DEF AttemptInv
<1>1. ASSUME NEW r \in Runs, RunOnlyStep(r) PROVE RunInv'
  <2>1. ASSUME NEW t \in Tasks, NEW k \in Keys \cup {NoKey}, NEW idempotent \in BOOLEAN,
               SubmitRun(r, t, k, idempotent)
        PROVE  RunInv'
    BY <2>1, SubmitKeepsRunInv
  <2>2. ASSUME NEW target \in Targets, TransitionRun(r, target) PROVE RunInv'
    <3>1. CASE UNCHANGED <<runStatus, stageStatus>>
      BY <2>2, <3>1 DEF TransitionRun, RunInv, StageMirrorsRun, UnusedIsBlank,
                        KeysAreUnique, Exists
    <3>2. CASE runStatus[r] # target
      <4>1. /\ Exists(r)
            /\ runStatus[r] \notin TerminalStatus
            /\ runStatus' = [runStatus EXCEPT ![r] = target]
            /\ UNCHANGED <<taskOf, keyOf, attempts>>
        BY <2>2, <3>2 DEF TransitionRun, TransitionAllowed, RunTransitionAllowed
      <4>2. stageStatus' = [stageStatus EXCEPT ![r] = target]
        BY <2>2, <3>2, <4>1 DEF TransitionRun, MoveStage, RunInv, StageMirrorsRun, TypeOK
      <4>3. target \in RuntimeStatus
        BY DEF Targets, RuntimeStatus
      <4>4. QED
        BY <4>1, <4>2, <4>3, MoveKeepsRunInv
    <3>3. QED
      BY <2>2, <3>1, <3>2 DEF TransitionRun
  <2>3. CASE FailQueuedRun(r)
    <3>1. /\ Exists(r)
          /\ runStatus[r] \notin TerminalStatus
          /\ runStatus' = [runStatus EXCEPT ![r] = "failed"]
          /\ UNCHANGED <<taskOf, keyOf, attempts>>
      BY <2>3 DEF FailQueuedRun, NotStarted, Exists, TerminalStatus
    <3>2. stageStatus' = [stageStatus EXCEPT ![r] = "failed"]
      BY <2>3, <3>1 DEF FailQueuedRun, MoveStage, RunInv, StageMirrorsRun, TypeOK
    <3>3. QED
      BY <3>1, <3>2, MoveKeepsRunInv DEF RuntimeStatus
  <2>4. CASE ScheduleRetry(r)
    <3>1. /\ Exists(r)
          /\ runStatus' = [runStatus EXCEPT ![r] = "retry_wait"]
          /\ stageStatus' = [stageStatus EXCEPT ![r] = "retry_wait"]
          /\ UNCHANGED <<taskOf, keyOf, attempts>>
      BY <2>4 DEF ScheduleRetry, ScheduleRetryAllowed
    <3>2. QED
      BY <3>1, MoveKeepsRunInv DEF RuntimeStatus
  <2>5. CASE RequestRetry(r)
    <3>1. /\ Exists(r)
          /\ runStatus' = [runStatus EXCEPT ![r] = "retry_wait"]
          /\ stageStatus' = [stageStatus EXCEPT ![r] = "retry_wait"]
          /\ UNCHANGED <<taskOf, keyOf, attempts>>
      BY <2>5 DEF RequestRetry, Exists
    <3>2. QED
      BY <3>1, MoveKeepsRunInv DEF RuntimeStatus
  <2>6. QED
    BY <1>1, <2>1, <2>2, <2>3, <2>4, <2>5 DEF RunOnlyStep
<1>2. ASSUME NEW r \in Runs, StartStep(r) PROVE RunInv'
  <2>1. PICK e \in Attempt :
            /\ attempts' = [attempts EXCEPT ![r] = Append(@, e)]
            /\ StartAllowed(r)
            /\ stageStatus' = [stageStatus EXCEPT ![r] = "running"]
            /\ runStatus' = [runStatus EXCEPT ![r] = IF NotStarted(r) THEN "running" ELSE @]
            /\ UNCHANGED <<taskOf, keyOf>>
    BY <1>2, StartStepFacts
  <2>2. Exists(r) /\ NotStarted(r)
    BY <2>1 DEF StartAllowed, StageReady, NotStarted, RunInv, StageMirrorsRun
  <2>3. runStatus' = [runStatus EXCEPT ![r] = "running"]
    BY <2>1, <2>2
  <2>4. \A s \in Runs : s # r => attempts'[s] = attempts[s]
    BY <2>1 DEF TypeOK
  <2>5. QED
    BY <2>1, <2>2, <2>3, <2>4, MoveKeepsRunInv DEF RuntimeStatus
<1>3. ASSUME NEW r \in Runs, NEW n \in 1..Len(attempts[r]), AttemptStep(r, n)
      PROVE  RunInv'
  <2>1. PICK e \in Attempt : AttemptEdit(r, n, e)
    BY <1>3, AttemptStepIsEdit
  <2>2. /\ attempts' = [attempts EXCEPT ![r][n] = e]
        /\ UNCHANGED <<runStatus, stageStatus, taskOf, keyOf>>
    BY <2>1 DEF AttemptEdit
  <2>3. Exists(r)
    <3>1. attempts[r] # << >>
      BY EmptySeq
    <3>2. QED
      BY <3>1 DEF RunInv, UnusedIsBlank
  <2>4. \A s \in Runs : s # r => attempts'[s] = attempts[s]
    BY <2>2 DEF TypeOK
  <2>5. QED
    BY <2>2, <2>3, <2>4 DEF RunInv, StageMirrorsRun, UnusedIsBlank, KeysAreUnique, Exists
<1>4. CASE UNCHANGED storeVars
  BY <1>4 DEF storeVars, RunInv, StageMirrorsRun, UnusedIsBlank, KeysAreUnique, Exists
<1>5. QED
  BY <1>1, <1>2, <1>3, <1>4, NextCases

\* RunInv holds in every reachable state.
LEMMA RunInvHolds == Spec => []RunInv
<1>1. QED
  BY AttemptInvHolds, RunInvInit, RunInvStep, PTL DEF Spec

\* The run row and the stage row always carry the same status, whoever calls
\* what in which order: a run in retry_wait has a stage a worker can claim.
THEOREM RunAndStageAgree == Spec => []StageMirrorsRun
<1>1. RunInv => StageMirrorsRun
  BY DEF RunInv
<1>2. QED
  BY <1>1, RunInvHolds, PTL

\* submit_run never gives one idempotency key to two runs.
THEOREM OneRunPerKey == Spec => []KeysAreUnique
<1>1. RunInv => KeysAreUnique
  BY DEF RunInv
<1>2. QED
  BY <1>1, RunInvHolds, PTL

\* What TerminalUntilRetried says of one run in one step.
OnlyRetried(r) ==
    runStatus[r] \in TerminalStatus /\ runStatus'[r] # runStatus[r] =>
        /\ runStatus[r] = "failed"
        /\ runStatus'[r] = "retry_wait"
        /\ Len(attempts[r]) < MaxAttempts[taskOf[r]]

\* RUN_TRANSITIONS has no way out of a terminal status, fail_queued_run and
\* start_attempt move only a run that has not started, and the caller's retry
\* counts the attempts in its own transaction.
LEMMA TerminalStep ==
  ASSUME AttemptInv, [Next]_storeVars
  PROVE  \A s \in Runs : OnlyRetried(s)
<1> USE DEF OnlyRetried
<1>1. runStatus \in [Runs -> RuntimeStatus \cup {"absent"}]
  BY DEF AttemptInv, TypeOK
<1>2. CASE UNCHANGED runStatus
  BY <1>2
<1>3. ASSUME NEW r \in Runs, RunOnlyStep(r) PROVE \A s \in Runs : OnlyRetried(s)
  <2>1. ASSUME NEW t \in Tasks, NEW k \in Keys \cup {NoKey}, NEW idempotent \in BOOLEAN,
               SubmitRun(r, t, k, idempotent)
        PROVE  \A s \in Runs : OnlyRetried(s)
    BY <1>1, <2>1 DEF SubmitRun, Exists, TerminalStatus
  <2>2. ASSUME NEW target \in Targets, TransitionRun(r, target)
        PROVE  \A s \in Runs : OnlyRetried(s)
    BY <1>1, <2>2 DEF TransitionRun, TransitionAllowed, RunTransitionAllowed
  <2>3. CASE FailQueuedRun(r)
    BY <1>1, <2>3 DEF FailQueuedRun, NotStarted, TerminalStatus
  <2>4. CASE ScheduleRetry(r)
    BY <1>1, <2>4 DEF ScheduleRetry, ScheduleRetryAllowed, RunTransitionAllowed
  <2>5. CASE RequestRetry(r)
    BY <1>1, <2>5 DEF RequestRetry
  <2>6. QED
    BY <1>3, <2>1, <2>2, <2>3, <2>4, <2>5 DEF RunOnlyStep
<1>4. ASSUME NEW r \in Runs, StartStep(r) PROVE \A s \in Runs : OnlyRetried(s)
  <2>1. runStatus' = [runStatus EXCEPT ![r] = IF NotStarted(r) THEN "running" ELSE @]
    BY <1>4, StartStepFacts DEF AttemptInv
  <2>2. NotStarted(r) => runStatus[r] \notin TerminalStatus
    BY DEF NotStarted, TerminalStatus
  <2>3. QED
    BY <1>1, <2>1, <2>2
<1>5. ASSUME NEW r \in Runs, NEW n \in 1..Len(attempts[r]), AttemptStep(r, n)
      PROVE  UNCHANGED runStatus
  <2>1. PICK e \in Attempt : AttemptEdit(r, n, e)
    BY <1>5, AttemptStepIsEdit DEF AttemptInv
  <2>2. QED
    BY <2>1 DEF AttemptEdit
<1>6. CASE UNCHANGED storeVars
  BY <1>2, <1>6 DEF storeVars
<1>7. QED
  BY <1>2, <1>3, <1>4, <1>5, <1>6, NextCases

\* Nothing but a caller's retry of a failed run with attempts left moves a
\* run out of a terminal status, whatever the number of attempts and callers.
THEOREM TerminalIsFinal == Spec => TerminalUntilRetried
<1>1. AttemptInv /\ [Next]_storeVars =>
        [\A r \in Runs :
            runStatus[r] \in TerminalStatus /\ runStatus'[r] # runStatus[r] =>
                /\ runStatus[r] = "failed"
                /\ runStatus'[r] = "retry_wait"
                /\ Len(attempts[r]) < MaxAttempts[taskOf[r]]]_storeVars
  BY TerminalStep DEF OnlyRetried
<1>2. QED
  BY <1>1, AttemptInvHolds, PTL DEF Spec, TerminalUntilRetried

-----------------------------------------------------------------------------
(* Capacity                                                                *)

\* What start_attempt's sum must not exceed, for one resource.
Bounded(need, capacity) ==
    /\ IsFiniteSet(Units(need, reservations))
    /\ Cardinality(Units(need, reservations)) <= Budget(capacity)

\* Giving reservations back, while the tasks that hold the rest keep their
\* demand, cannot raise the sum.
LEMMA ShrinkKeepsBound ==
  ASSUME NEW need, NEW capacity, capacity \in Nat \ {0},
         Bounded(need, capacity),
         reservations' \subseteq reservations,
         \A a \in reservations : taskOf'[a[1]] = taskOf[a[1]]
  PROVE  Bounded(need, capacity)'
<1> DEFINE U == Units(need, reservations)
<1> DEFINE V == Units(need, reservations)'
<1>1. V \in SUBSET U
  BY DEF Units
<1>2. IsFiniteSet(U) /\ Cardinality(U) <= Budget(capacity)
  BY DEF Bounded
<1>3. Budget(capacity) \in Int
  BY CapacityAssumption DEF Budget
<1> HIDE DEF U, V
<1>4. IsFiniteSet(V) /\ Cardinality(V) <= Cardinality(U)
  BY <1>1, <1>2, FS_Subset
<1>5. Cardinality(U) \in Nat /\ Cardinality(V) \in Nat
  BY <1>2, <1>4, FS_CardinalityType
<1>6. Cardinality(V) <= Budget(capacity)
  BY <1>2, <1>3, <1>4, <1>5
<1>7. QED
  BY <1>4, <1>6 DEF Bounded, V, Budget

\* Admitting one more attempt adds at most its own demand to the sum.
LEMMA GrowKeepsBound ==
  ASSUME NEW need \in [Tasks -> Nat \ {0}], NEW capacity, capacity \in Nat \ {0},
         IsFiniteSet(Units(need, reservations)),
         NEW r, NEW m, taskOf[r] \in Tasks,
         Cardinality(Units(need, reservations)) + need[taskOf[r]] <= Budget(capacity),
         reservations' = reservations \cup {<<r, m>>},
         UNCHANGED taskOf
  PROVE  Bounded(need, capacity)'
<1> DEFINE U == Units(need, reservations)
<1> DEFINE k == need[taskOf[r]]
<1> DEFINE W == {<<r, m>>} \X (1..k)
<1>1. Units(need, reservations)' = U \cup W
  <2>1. Units(need, reservations)' =
          UNION {{a} \X (1..need[taskOf[a[1]]]) : a \in reservations \cup {<<r, m>>}}
    BY DEF Units
  <2>2. <<r, m>>[1] = r
    OBVIOUS
  <2>3. QED
    BY <2>1, <2>2 DEF Units
<1>2. k \in Nat \ {0}
  OBVIOUS
<1>3. IsFiniteSet(W) /\ Cardinality(W) = k
  <2>1. IsFiniteSet({<<r, m>>}) /\ Cardinality({<<r, m>>}) = 1
    BY FS_Singleton
  <2>2. IsFiniteSet(1..k) /\ Cardinality(1..k) = k
    <3> HIDE DEF k
    <3>1. 1 \in Int /\ k \in Int /\ ~ (1 > k) /\ k - 1 + 1 = k
      BY <1>2
    <3>2. QED
      BY <3>1, FS_Interval
  <2>3. IsFiniteSet(W) /\ Cardinality(W) = 1 * Cardinality(1..k)
    BY <2>1, <2>2, FS_Product
  <2> HIDE DEF k
  <2>4. QED
    BY <1>2, <2>2, <2>3
<1>4. Cardinality(U) + k <= Budget(capacity) /\ IsFiniteSet(U)
  OBVIOUS
<1>5. Budget(capacity) \in Int
  BY CapacityAssumption DEF Budget
<1> HIDE DEF U, W, k
<1>6. /\ IsFiniteSet(U \cup W)
      /\ Cardinality(U \cup W) = Cardinality(U) + Cardinality(W) - Cardinality(U \cap W)
  BY <1>3, <1>4, FS_Union
<1>7. IsFiniteSet(U \cap W)
  <2>1. U \cap W \in SUBSET U
    OBVIOUS
  <2>2. QED
    BY <1>4, <2>1, FS_Subset
<1>8. Cardinality(U) \in Nat /\ Cardinality(U \cap W) \in Nat
  BY <1>4, <1>7, FS_CardinalityType
<1>9. Cardinality(U \cup W) <= Budget(capacity)
  BY <1>2, <1>3, <1>4, <1>5, <1>6, <1>8
<1>10. QED
  BY <1>1, <1>6, <1>9 DEF Bounded, Budget

\* The inductive invariant about capacity: both sums are within budget, and
\* finite, so that they can be compared at all.
CapacityInv == Bounded(Cpu, CapacityCpu) /\ Bounded(Memory, CapacityMemory)

\* The empty reservation table fits any budget.
LEMMA CapacityInvInit == Init => CapacityInv
<1> SUFFICES ASSUME Init PROVE CapacityInv
  OBVIOUS
<1>1. Units(Cpu, reservations) = {} /\ Units(Memory, reservations) = {}
  BY DEF Init, Units
<1>2. Budget(CapacityCpu) >= 0 /\ Budget(CapacityMemory) >= 0
  BY CapacityAssumption DEF Budget
<1>3. QED
  BY <1>1, <1>2, FS_EmptySet DEF CapacityInv, Bounded

\* The sum is read and the reservation inserted in one transaction, so what
\* was checked is still true when it is written.
LEMMA CapacityInvStep ==
  ASSUME AttemptInv, RunInv, CapacityInv, [Next]_storeVars
  PROVE  CapacityInv'
<1>1. ASSUME reservations' \subseteq reservations,
             \A a \in reservations : taskOf'[a[1]] = taskOf[a[1]]
      PROVE  CapacityInv'
  BY <1>1, ShrinkKeepsBound, CapacityAssumption DEF CapacityInv
<1>2. ASSUME NEW r \in Runs, RunOnlyStep(r) PROVE CapacityInv'
  <2>1. reservations' = reservations
    BY <1>2, RunOnlyStepFacts DEF AttemptInv
  <2>2. ASSUME NEW a \in reservations PROVE taskOf'[a[1]] = taskOf[a[1]]
    <3>1. a[1] \in Runs /\ attempts[a[1]] # << >>
      <4>1. a \in Runs \X (Nat \ {0}) /\ a[2] <= Len(attempts[a[1]])
        BY DEF AttemptInv, TypeOK, AttemptIds
      <4>2. a[1] \in Runs /\ a[2] \in Nat \ {0}
        BY <4>1
      <4>3. Len(<< >>) = 0
        OBVIOUS
      <4>4. QED
        BY <4>1, <4>2, <4>3
    <3>2. Exists(a[1])
      BY <3>1 DEF RunInv, UnusedIsBlank
    <3>3. QED
      BY <1>2, <3>1, <3>2 DEF RunOnlyStep, SubmitRun, TransitionRun, FailQueuedRun,
                              ScheduleRetry, RequestRetry, AttemptInv, TypeOK
  <2>3. QED
    BY <1>1, <2>1, <2>2
<1>3. ASSUME NEW r \in Runs, StartStep(r) PROVE CapacityInv'
  <2>1. /\ reservations' = reservations \cup {<<r, Len(attempts[r]) + 1>>}
        /\ StartAllowed(r)
        /\ UNCHANGED taskOf
    BY <1>3, StartStepFacts DEF AttemptInv
  <2>2. taskOf[r] \in Tasks
    BY <2>1 DEF StartAllowed, RunInv, UnusedIsBlank
  <2>3. /\ Cardinality(Units(Cpu, reservations)) + Cpu[taskOf[r]] <= Budget(CapacityCpu)
        /\ Cardinality(Units(Memory, reservations)) + Memory[taskOf[r]] <= Budget(CapacityMemory)
    BY <2>1 DEF StartAllowed, Fits, ReservedCpu, ReservedMemory
  <2>4. /\ IsFiniteSet(Units(Cpu, reservations))
        /\ IsFiniteSet(Units(Memory, reservations))
    BY DEF CapacityInv, Bounded
  <2>5. Bounded(Cpu, CapacityCpu)'
    BY <2>1, <2>2, <2>3, <2>4, GrowKeepsBound, TaskAssumption, CapacityAssumption
  <2>6. Bounded(Memory, CapacityMemory)'
    BY <2>1, <2>2, <2>3, <2>4, GrowKeepsBound, TaskAssumption, CapacityAssumption
  <2>7. QED
    BY <2>5, <2>6 DEF CapacityInv
<1>4. ASSUME NEW r \in Runs, NEW n \in 1..Len(attempts[r]), AttemptStep(r, n)
      PROVE  CapacityInv'
  <2>1. PICK e \in Attempt : AttemptEdit(r, n, e)
    BY <1>4, AttemptStepIsEdit DEF AttemptInv
  <2>2. reservations' \subseteq reservations /\ UNCHANGED taskOf
    BY <2>1 DEF AttemptEdit
  <2>3. QED
    BY <1>1, <2>2
<1>5. CASE UNCHANGED storeVars
  BY <1>1, <1>5 DEF storeVars
<1>6. QED
  BY <1>2, <1>3, <1>4, <1>5, NextCases

\* However many runs, tasks and workers there are, and whatever the capacity
\* and the platform's fraction of it, the attempts that hold reservations
\* never exceed it: start_attempt cannot oversell the host.
THEOREM HostIsNeverOversold == Spec => []ReservationsWithinBudget
<1>1. CapacityInv => ReservationsWithinBudget
  BY DEF CapacityInv, Bounded, ReservationsWithinBudget, ReservedCpu, ReservedMemory
<1>2. QED
  BY <1>1, CapacityInvInit, CapacityInvStep, AttemptInvHolds, RunInvHolds, PTL DEF Spec

-----------------------------------------------------------------------------
(* The store implements the run lifecycle                                  *)

\* What a client sees of the runs.
View == [r \in Runs |-> ViewOf(runStatus[r])]

\* The moves of RunLifecycle, and the moves no client sees.
LifecycleMove(from, to) ==
    \/ ViewOf(to) = ViewOf(from)
    \/ from = "absent" /\ ViewOf(to) = "active"
    \/ ViewOf(from) = "active" /\ ViewOf(to) = "stopping"
    \/ /\ to \in TerminalStatus
       /\ ViewOf(from) \in IF to \in {"succeeded", "timed_out"} THEN {"active"}
                           ELSE {"active", "stopping"}
    \/ from = "failed" /\ ViewOf(to) = "active"

\* A step that moves one run in one of these ways is a step of the lifecycle,
\* or stutters.
LEMMA MoveIsLifecycleStep ==
  ASSUME TypeOK, NEW r \in Runs, NEW to \in RuntimeStatus,
         runStatus' = [runStatus EXCEPT ![r] = to],
         LifecycleMove(runStatus[r], to)
  PROVE  Lifecycle!Next \/ UNCHANGED View
<1>1. View' = [View EXCEPT ![r] = ViewOf(to)]
  BY DEF View, TypeOK
<1>2. View[r] = ViewOf(runStatus[r])
  BY DEF View
<1>3. CASE ViewOf(to) = ViewOf(runStatus[r])
  BY <1>1, <1>2, <1>3 DEF View
<1>4. CASE runStatus[r] = "absent" /\ ViewOf(to) = "active"
  <2>1. View[r] = "absent"
    BY <1>2, <1>4 DEF ViewOf
  <2>2. Lifecycle!Submit(r)
    BY <1>1, <1>4, <2>1 DEF View, Lifecycle!Submit, Lifecycle!Move
  <2>3. QED
    BY <2>2 DEF Lifecycle!Next
<1>5. CASE ViewOf(runStatus[r]) = "active" /\ ViewOf(to) = "stopping"
  <2>1. Lifecycle!Stop(r)
    BY <1>1, <1>2, <1>5 DEF View, Lifecycle!Stop, Lifecycle!Move
  <2>2. QED
    BY <2>1 DEF Lifecycle!Next
<1>6. CASE /\ to \in TerminalStatus
           /\ ViewOf(runStatus[r]) \in IF to \in {"succeeded", "timed_out"} THEN {"active"}
                                       ELSE {"active", "stopping"}
  <2>1. ViewOf(to) = to
    BY <1>6 DEF ViewOf, TerminalStatus
  <2>2. Lifecycle!End(r, to)
    BY <1>1, <1>2, <1>6, <2>1 DEF View, Lifecycle!End, Lifecycle!Move,
                                  Lifecycle!TerminalStatus, TerminalStatus
  <2>3. QED
    BY <1>6, <2>2 DEF Lifecycle!Next, Lifecycle!TerminalStatus, TerminalStatus
<1>7. CASE runStatus[r] = "failed" /\ ViewOf(to) = "active"
  <2>1. View[r] = "failed"
    BY <1>2, <1>7 DEF ViewOf
  <2>2. Lifecycle!Reopen(r)
    BY <1>1, <1>7, <2>1 DEF View, Lifecycle!Reopen, Lifecycle!Move
  <2>3. QED
    BY <2>2 DEF Lifecycle!Next
<1>8. QED
  BY <1>3, <1>4, <1>5, <1>6, <1>7 DEF LifecycleMove

\* RUN_TRANSITIONS allows only moves of the lifecycle.
LEMMA TransitionIsLifecycleMove ==
  ASSUME NEW from \in RuntimeStatus, NEW to \in RuntimeStatus,
         RunTransitionAllowed(from, to)
  PROVE  LifecycleMove(from, to)
BY DEF RunTransitionAllowed, RUN_TRANSITIONS, RuntimeStatus, TerminalStatus,
       LifecycleMove, ViewOf

\* Every call of the store is a step of the lifecycle or is invisible.  That
\* start_attempt never brings back a run that has ended rests on RunInv: the
\* stage it looks at has the status of the run.
LEMMA LifecycleStep ==
  ASSUME AttemptInv, RunInv, [Next]_storeVars
  PROVE  Lifecycle!Next \/ UNCHANGED View
<1> USE DEF AttemptInv
<1>1. ASSUME NEW r \in Runs, RunOnlyStep(r)
      PROVE  Lifecycle!Next \/ UNCHANGED View
  <2>1. ASSUME NEW t \in Tasks, NEW k \in Keys \cup {NoKey}, NEW idempotent \in BOOLEAN,
               SubmitRun(r, t, k, idempotent)
        PROVE  Lifecycle!Next \/ UNCHANGED View
    <3>1. LifecycleMove(runStatus[r], "queued")
      BY <2>1 DEF SubmitRun, Exists, LifecycleMove, ViewOf
    <3>2. QED
      BY <2>1, <3>1, MoveIsLifecycleStep DEF SubmitRun, RuntimeStatus
  <2>2. ASSUME NEW target \in Targets, TransitionRun(r, target)
        PROVE  Lifecycle!Next \/ UNCHANGED View
    <3>1. CASE UNCHANGED runStatus
      BY <3>1 DEF View
    <3>2. CASE runStatus[r] # target
      <4>1. /\ runStatus[r] \in RuntimeStatus
            /\ RunTransitionAllowed(runStatus[r], target)
            /\ runStatus' = [runStatus EXCEPT ![r] = target]
        BY <2>2, <3>2 DEF TransitionRun, TransitionAllowed, Exists, TypeOK
      <4>2. target \in RuntimeStatus
        BY DEF Targets, RuntimeStatus
      <4>3. LifecycleMove(runStatus[r], target)
        BY <4>1, <4>2, TransitionIsLifecycleMove
      <4>4. QED
        BY <4>1, <4>2, <4>3, MoveIsLifecycleStep
    <3>3. QED
      BY <2>2, <3>1, <3>2 DEF TransitionRun
  <2>3. CASE FailQueuedRun(r)
    <3>1. LifecycleMove(runStatus[r], "failed")
      BY <2>3 DEF FailQueuedRun, NotStarted, LifecycleMove, ViewOf, TerminalStatus
    <3>2. QED
      BY <2>3, <3>1, MoveIsLifecycleStep DEF FailQueuedRun, RuntimeStatus
  <2>4. CASE ScheduleRetry(r)
    <3>1. /\ runStatus[r] \in RuntimeStatus
          /\ RunTransitionAllowed(runStatus[r], "retry_wait")
      BY <2>4 DEF ScheduleRetry, ScheduleRetryAllowed, Exists, TypeOK
    <3>2. LifecycleMove(runStatus[r], "retry_wait")
      BY <3>1, TransitionIsLifecycleMove DEF RuntimeStatus
    <3>3. QED
      BY <2>4, <3>2, MoveIsLifecycleStep DEF ScheduleRetry, RuntimeStatus
  <2>5. CASE RequestRetry(r)
    <3>1. LifecycleMove(runStatus[r], "retry_wait")
      BY <2>5 DEF RequestRetry, LifecycleMove, ViewOf
    <3>2. QED
      BY <2>5, <3>1, MoveIsLifecycleStep DEF RequestRetry, RuntimeStatus
  <2>6. QED
    BY <1>1, <2>1, <2>2, <2>3, <2>4, <2>5 DEF RunOnlyStep
<1>2. ASSUME NEW r \in Runs, StartStep(r)
      PROVE  Lifecycle!Next \/ UNCHANGED View
  <2>1. /\ StartAllowed(r)
        /\ runStatus' = [runStatus EXCEPT ![r] = IF NotStarted(r) THEN "running" ELSE @]
    BY <1>2, StartStepFacts
  <2>2. NotStarted(r)
    BY <2>1 DEF StartAllowed, StageReady, NotStarted, RunInv, StageMirrorsRun
  <2>3. LifecycleMove(runStatus[r], "running")
    BY <2>2 DEF NotStarted, LifecycleMove, ViewOf
  <2>4. QED
    BY <2>1, <2>2, <2>3, MoveIsLifecycleStep DEF RuntimeStatus
<1>3. ASSUME NEW r \in Runs, NEW n \in 1..Len(attempts[r]), AttemptStep(r, n)
      PROVE  UNCHANGED View
  <2>1. PICK e \in Attempt : AttemptEdit(r, n, e)
    BY <1>3, AttemptStepIsEdit
  <2>2. QED
    BY <2>1 DEF AttemptEdit, View
<1>4. CASE UNCHANGED storeVars
  BY <1>4 DEF storeVars, View
<1>5. QED
  BY <1>1, <1>2, <1>3, <1>4, NextCases

\* The store implements RunLifecycle, for any runs, tasks and workers: as
\* clients see it, a run is submitted once, ends once, never succeeds after it
\* was asked to stop, and comes back only from a failure.
THEOREM StoreImplementsLifecycle == Spec => ImplementsLifecycle
<1>1. Init => Lifecycle!Init
  BY DEF Init, Lifecycle!Init, ViewOf
<1>2. AttemptInv /\ RunInv /\ [Next]_storeVars =>
        [Lifecycle!Next]_([r \in Runs |-> ViewOf(runStatus[r])])
  BY LifecycleStep DEF View
<1>3. QED
  BY <1>1, <1>2, AttemptInvHolds, RunInvHolds, PTL DEF Spec, ImplementsLifecycle, Lifecycle!Spec

==========================================================================
