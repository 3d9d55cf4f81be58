--------------------------- MODULE CustodyProofs ---------------------------
(***************************************************************************)
(* What Custody promises for any contents, runs, outputs and faults: no    *)
(* object is foreign to its digest, every row has its bytes, and an        *)
(* adapter starts on the bytes that were submitted.                        *)
(***************************************************************************)
EXTENDS Custody, TLAPS

IsSeq(s) == \E S : s \in Seq(S)

\* A digest that a row may name.
Held(d) == d \in Contents /\ (~ damaged => Intact(d))

ObjectInv ==
    /\ object \in [Contents -> Contents \cup {Missing, Garbage}]
    /\ NoForeignObject

RowsInv ==
    /\ inputRows \in Seq(Contents)
    /\ \A i \in 1..Len(inputRows) : Held(inputRows[i])
    /\ IsSeq(artifactRows)
    /\ \A i \in 1..Len(artifactRows) : Held(artifactRows[i].digest)

\* The rows of a transaction that has not committed are held already.
Pending(w) ==
    /\ DOMAIN w = DOMAIN IdleWork
    /\ IsSeq(w.rows)
    /\ \A i \in 1..Len(w.rows) : Held(w.rows[i].digest)
    /\ w.pc = "publish" => w.digest \in Contents

WorkInv == DOMAIN work = Attempts /\ \A a \in Attempts : Pending(work[a])

SubmitterInv ==
    /\ host \in Contents \cup {Missing}
    /\ DOMAIN submitter = Runs
    /\ \A r \in Runs : submitter[r].pc = "freeze" => submitter[r].digest \in Contents

BytesInv == ObjectInv /\ RowsInv /\ WorkInv /\ SubmitterInv

-----------------------------------------------------------------------------
(* Sequences                                                               *)

\* A sequence has one more element after Append, the others stay.
LEMMA AppendIsSeq ==
  ASSUME NEW s, IsSeq(s), NEW x
  PROVE  /\ IsSeq(Append(s, x))
         /\ Len(Append(s, x)) = Len(s) + 1 /\ Len(s) \in Nat
         /\ \A i \in 1..Len(s) : Append(s, x)[i] = s[i]
         /\ Append(s, x)[Len(s) + 1] = x
<1>1. PICK S : s \in Seq(S)
  BY DEF IsSeq
<1>2. s \in Seq(S \cup {x})
  BY <1>1
<1>3. Append(s, x) \in Seq(S \cup {x})
  BY <1>2
<1>4. QED
  BY <1>2, <1>3 DEF IsSeq

\* Every element of a concatenation is an element of one of its parts.
LEMMA ConcatIsSeq ==
  ASSUME NEW s, IsSeq(s), NEW t, IsSeq(t)
  PROVE  /\ IsSeq(s \o t)
         /\ \A i \in 1..Len(s \o t) :
               \/ i \in 1..Len(s) /\ (s \o t)[i] = s[i]
               \/ \E j \in 1..Len(t) : (s \o t)[i] = t[j]
<1>1. PICK S, T : s \in Seq(S) /\ t \in Seq(T)
  BY DEF IsSeq
<1>2. s \in Seq(S \cup T) /\ t \in Seq(S \cup T)
  BY <1>1
<1>3. s \o t \in Seq(S \cup T) /\ Len(s \o t) = Len(s) + Len(t)
  BY <1>2
<1>4. ASSUME NEW i \in 1..Len(s \o t)
      PROVE  \/ i \in 1..Len(s) /\ (s \o t)[i] = s[i]
             \/ \E j \in 1..Len(t) : (s \o t)[i] = t[j]
  <2>1. CASE i <= Len(s)
    BY <1>2, <1>3, <2>1
  <2>2. CASE i > Len(s)
    <3>1. i - Len(s) \in 1..Len(t)
      BY <1>2, <1>3, <2>2
    <3>2. (s \o t)[i] = t[i - Len(s)]
      BY <1>2, <1>3, <2>2
    <3>3. QED
      BY <3>1, <3>2
  <2>3. QED
    BY <1>2, <1>3, <2>1, <2>2
<1>5. QED
  BY <1>3, <1>4 DEF IsSeq

-----------------------------------------------------------------------------
(* The object store                                                        *)

\* Publishing adds the object of d or finds it, and disturbs no other.
LEMMA PublishKeeps ==
  ASSUME ObjectInv, NEW source, NEW d \in Contents, Publish(source, d), UNCHANGED damaged
  PROVE  /\ ObjectInv' /\ Held(d)'
         /\ \A e : Held(e) => Held(e)'
BY DEF ObjectInv, NoForeignObject, Publish, Held, Intact

\* With the objects as they were, what was held is held.
LEMMA StillHeld ==
  ASSUME UNCHANGED <<object, damaged>>
  PROVE  /\ ObjectInv => ObjectInv'
         /\ \A e : Held(e) => Held(e)'
BY DEF ObjectInv, NoForeignObject, Held, Intact

\* Damage is marked, and is never another file.
LEMMA DamageKeeps ==
  ASSUME ObjectInv, NEW d \in Contents, NEW c \in {Missing, Garbage}, Damage(d, c)
  PROVE  /\ ObjectInv'
         /\ \A e : Held(e) => Held(e)'
BY DEF ObjectInv, NoForeignObject, Damage, Held

-----------------------------------------------------------------------------
(* What a step leaves alone                                                *)

\* Rows that do not change stay held.
LEMMA RowsKept ==
  ASSUME RowsInv, \A e : Held(e) => Held(e)', UNCHANGED <<inputRows, artifactRows>>
  PROVE  RowsInv'
<1>1. /\ inputRows' \in Seq(Contents) /\ IsSeq(artifactRows)'
      /\ \A i \in 1..Len(inputRows') : Held(inputRows[i])
      /\ \A i \in 1..Len(artifactRows') : Held(artifactRows[i].digest)
  BY DEF RowsInv, IsSeq
<1>2. ASSUME NEW i \in 1..Len(inputRows') PROVE Held(inputRows[i])'
  <2>1. PICK e : e = inputRows[i]
    OBVIOUS
  <2>2. Held(e)'
    BY <1>1, <2>1
  <2>3. QED
    BY <2>1, <2>2 DEF Held, Intact
<1>3. ASSUME NEW i \in 1..Len(artifactRows') PROVE Held(artifactRows[i].digest)'
  <2>1. PICK e : e = artifactRows[i].digest
    OBVIOUS
  <2>2. Held(e)'
    BY <1>1, <2>1
  <2>3. QED
    BY <2>1, <2>2 DEF Held, Intact
<1>4. QED
  BY <1>1, <1>2, <1>3 DEF RowsInv

\* Rows of another attempt's transaction stay held.
LEMMA PendingKept ==
  ASSUME NEW a \in Attempts, Pending(work[a]), \A e : Held(e) => Held(e)',
         DOMAIN work'[a] = DOMAIN IdleWork, work'[a].rows = work[a].rows,
         work'[a].pc = "publish" => work'[a].digest \in Contents
  PROVE  Pending(work[a])'
<1>1. ASSUME NEW i \in 1..Len(work[a].rows) PROVE Held(work[a].rows[i].digest)'
  <2>1. PICK e : e = work[a].rows[i].digest
    OBVIOUS
  <2>2. Held(e)'
    BY <2>1 DEF Pending
  <2>3. QED
    BY <2>1, <2>2 DEF Held, Intact
<1>2. QED
  BY <1>1 DEF Pending, IsSeq, IdleWork

\* No worker moves.
LEMMA WorkKept ==
  ASSUME WorkInv, \A e : Held(e) => Held(e)', UNCHANGED work
  PROVE  WorkInv'
<1>1. ASSUME NEW a \in Attempts PROVE Pending(work[a])'
  BY <1>1, PendingKept DEF WorkInv, Pending
<1>2. Attempts' = Attempts
  BY DEF Attempts
<1>3. QED
  BY <1>1, <1>2 DEF WorkInv

\* One worker moves.
LEMMA WorkEdited ==
  ASSUME WorkInv, \A e : Held(e) => Held(e)', NEW a \in Attempts, NEW w,
         work' = [work EXCEPT ![a] = w], Pending(work[a])'
  PROVE  WorkInv'
<1>1. ASSUME NEW b \in Attempts, b # a PROVE Pending(work[b])'
  <2>1. work'[b] = work[b] /\ Pending(work[b])
    BY <1>1 DEF WorkInv
  <2>2. QED
    BY <2>1, PendingKept DEF Pending
<1>2. DOMAIN work' = Attempts
  BY DEF WorkInv
<1>3. QED
  BY <1>1, <1>2 DEF WorkInv

\* One worker moves, and adds no row.
LEMMA WorkMoved ==
  ASSUME WorkInv, \A e : Held(e) => Held(e)', NEW a \in Attempts, NEW w,
         work' = [work EXCEPT ![a] = w],
         DOMAIN w = DOMAIN IdleWork, w.rows = work[a].rows,
         w.pc = "publish" => w.digest \in Contents
  PROVE  WorkInv'
<1>1. work'[a] = w
  BY DEF WorkInv
<1>2. Pending(work[a])'
  BY <1>1, PendingKept DEF WorkInv
<1>3. QED
  BY <1>2, WorkEdited

\* No request of a client moves, and the host file stays.
LEMMA SubmitterKept ==
  ASSUME SubmitterInv, UNCHANGED <<host, submitter>>
  PROVE  SubmitterInv'
BY DEF SubmitterInv

-----------------------------------------------------------------------------
(* Every row has its bytes                                                 *)

\* A step that changes neither objects nor rows: a worker moves, and its
\* transaction keeps the rows it has.
LEMMA QuietStep ==
  ASSUME BytesInv,
         UNCHANGED <<object, damaged, inputRows, artifactRows, host, submitter>>,
         NEW a \in Attempts, NEW w, work' = [work EXCEPT ![a] = w],
         DOMAIN w = DOMAIN IdleWork, w.rows = work[a].rows,
         w.pc = "publish" => w.digest \in Contents
  PROVE  BytesInv'
BY StillHeld, RowsKept, WorkMoved, SubmitterKept DEF BytesInv

\* register_artifacts publishes one declared file, or fails.
LEMMA PublishDeclaredStep ==
  ASSUME BytesInv, NEW a \in Attempts, PublishDeclared(a)
  PROVE  BytesInv'
<1> DEFINE k == Head(work[a].todo)
<1>1. PICK d \in Contents : d = work[a].digest
  BY DEF PublishDeclared, BytesInv, WorkInv, Pending
<1>2. /\ UNCHANGED <<damaged, inputRows, artifactRows, host, submitter>>
      /\ DOMAIN work = Attempts /\ Pending(work[a])
  BY DEF PublishDeclared, WorkUnchanged, BytesInv, WorkInv
<1>3. Raised(a) # "publish"
  BY DEF Raised
<1>4. DOMAIN [work[a] EXCEPT !.pc = Raised(a)] = DOMAIN IdleWork
  BY <1>2 DEF Pending
<1>5. [work[a] EXCEPT !.pc = Raised(a)].rows = work[a].rows
  BY <1>2 DEF Pending, IdleWork
<1>6. [work[a] EXCEPT !.pc = Raised(a)].pc = Raised(a)
  BY <1>2 DEF Pending, IdleWork
<1>7. CASE PublishFails(workspace[a][k], d) /\ Goto(a, Raised(a)) /\ UNCHANGED object
  BY <1>2, <1>3, <1>4, <1>5, <1>6, <1>7, QuietStep DEF Goto
<1>8. CASE Publish(workspace[a][k], d)
  <2>1. /\ ObjectInv' /\ Held(d)'
        /\ \A e : Held(e) => Held(e)'
    BY <1>2, <1>8, PublishKeeps DEF BytesInv
  <2>2. RowsInv' /\ SubmitterInv'
    BY <1>2, <2>1, RowsKept, SubmitterKept DEF BytesInv
  <2>3. CASE Goto(a, Raised(a))
    <3>1. WorkInv'
      BY <1>3, <1>4, <1>5, <1>6, <2>1, <2>3, WorkMoved DEF Goto, BytesInv
    <3>2. QED
      BY <2>1, <2>2, <3>1 DEF BytesInv
  <2>4. CASE work' = [work EXCEPT ![a] =
                 [work[a] EXCEPT !.pc = "declare", !.todo = Tail(@),
                           !.rows = Append(@, [attempt |-> a, key |-> k, digest |-> d])]]
    <3> DEFINE row == [attempt |-> a, key |-> k, digest |-> d]
               w == [work[a] EXCEPT !.pc = "declare", !.todo = Tail(@),
                                    !.rows = Append(@, row)]
    <3>1. PICK v : v = w
      OBVIOUS
    <3>2. work' = [work EXCEPT ![a] = v] /\ work'[a] = v
      <4>1. work' = [work EXCEPT ![a] = w]
        BY <1>2, <2>4
      <4>2. work' = [work EXCEPT ![a] = v]
        BY <3>1, <4>1, Zenon
      <4>3. QED
        BY <1>2, <4>2
    <3>3. /\ DOMAIN v = DOMAIN IdleWork
          /\ v.pc = "declare" /\ v.rows = Append(work[a].rows, row)
      BY <1>2, <3>1 DEF Pending, IdleWork
    <3>4. /\ IsSeq(v.rows) /\ Len(v.rows) = Len(work[a].rows) + 1
          /\ Len(work[a].rows) \in Nat
          /\ \A i \in 1..Len(work[a].rows) : v.rows[i] = work[a].rows[i]
          /\ v.rows[Len(work[a].rows) + 1] = row
      BY <1>2, <3>3, AppendIsSeq DEF Pending
    <3>5. ASSUME NEW i \in 1..Len(v.rows)
          PROVE  \E e : e = v.rows[i].digest /\ Held(e)'
      <4>1. CASE i = Len(work[a].rows) + 1
        BY <2>1, <3>4, <4>1
      <4>2. CASE i # Len(work[a].rows) + 1
        <5>1. i \in 1..Len(work[a].rows)
          BY <3>4, <4>2
        <5>2. v.rows[i] = work[a].rows[i] /\ Held(work[a].rows[i].digest)
          BY <1>2, <3>4, <5>1 DEF Pending
        <5>3. PICK e : e = work[a].rows[i].digest
          OBVIOUS
        <5>4. Held(e)'
          BY <2>1, <5>2, <5>3
        <5>5. QED
          BY <5>2, <5>3, <5>4
      <4>3. QED
        BY <4>1, <4>2
    <3>6. Pending(work[a])'
      <4>1. DOMAIN work'[a] = DOMAIN IdleWork /\ IsSeq(work[a].rows)' /\ work'[a].pc # "publish"
        BY <3>2, <3>3, <3>4 DEF IsSeq
      <4>2. ASSUME NEW i \in 1..Len(work'[a].rows) PROVE Held(work[a].rows[i].digest)'
        <5>1. PICK e : e = v.rows[i].digest /\ Held(e)'
          BY <3>2, <3>5
        <5>2. QED
          BY <3>2, <5>1 DEF Held, Intact
      <4>3. QED
        BY <4>1, <4>2 DEF Pending, IdleWork
    <3>7. WorkInv'
      BY <2>1, <3>2, <3>6, WorkEdited DEF BytesInv
    <3>8. QED
      BY <2>1, <2>2, <3>7 DEF BytesInv
  <2>5. QED
    BY <1>1, <1>8, <2>3, <2>4 DEF PublishDeclared
<1>9. QED
  BY <1>1, <1>7, <1>8 DEF PublishDeclared

\* The COMMIT of register_artifacts makes the rows of its loop visible.
LEMMA CommitStep ==
  ASSUME BytesInv, NEW a \in Attempts, Commit(a)
  PROVE  BytesInv'
<1>1. /\ UNCHANGED <<object, damaged, inputRows, host, submitter>>
      /\ artifactRows' = artifactRows \o work[a].rows
      /\ DOMAIN work = Attempts /\ Pending(work[a])
  BY DEF Commit, WorkUnchanged, BytesInv, WorkInv
<1>2. ObjectInv' /\ SubmitterInv' /\ \A e : Held(e) => Held(e)'
  BY <1>1, StillHeld, SubmitterKept DEF BytesInv
<1>3. PICK pc : pc \in {"evidence", "finish"} /\ work' = [work EXCEPT ![a].pc = pc]
  BY DEF Commit, Goto
<1>4. PICK w : w = [work[a] EXCEPT !.pc = pc]
  OBVIOUS
<1>5. /\ work' = [work EXCEPT ![a] = w]
      /\ DOMAIN w = DOMAIN IdleWork /\ w.rows = work[a].rows /\ w.pc # "publish"
  BY <1>1, <1>3, <1>4 DEF Pending, IdleWork
<1>6. WorkInv'
  BY <1>2, <1>5, WorkMoved DEF BytesInv
<1>7. /\ IsSeq(artifactRows) /\ IsSeq(work[a].rows)
      /\ \A i \in 1..Len(artifactRows) : Held(artifactRows[i].digest)
      /\ \A i \in 1..Len(work[a].rows) : Held(work[a].rows[i].digest)
  BY <1>1 DEF BytesInv, RowsInv, Pending
<1>8. /\ IsSeq(artifactRows')
      /\ \A i \in 1..Len(artifactRows') : Held(artifactRows'[i].digest)
  BY <1>1, <1>7, ConcatIsSeq
<1>9. RowsInv'
  BY <1>1, <1>2, <1>8 DEF BytesInv, RowsInv, Held, Intact, IsSeq
<1>10. QED
  BY <1>2, <1>6, <1>9 DEF BytesInv

\* The steps of a worker that neither publish nor commit.
LEMMA AttemptingStep ==
  ASSUME BytesInv, NEW a \in Attempts, Attempting(a)
  PROVE  BytesInv'
<1>1. /\ DOMAIN work = Attempts /\ Pending(work[a])
      /\ DOMAIN work[a] = DOMAIN IdleWork
  BY DEF BytesInv, WorkInv, Pending
<1>2. ASSUME NEW pc, pc # "publish", Goto(a, pc),
             UNCHANGED <<object, damaged, inputRows, artifactRows, host, submitter>>
      PROVE  BytesInv'
  <2>1. PICK w : w = [work[a] EXCEPT !.pc = pc]
    OBVIOUS
  <2>2. work' = [work EXCEPT ![a] = w]
    BY <1>2, <2>1, Zenon DEF Goto
  <2>3. DOMAIN w = DOMAIN IdleWork /\ w.rows = work[a].rows /\ w.pc = pc
    BY <1>1, <2>1 DEF IdleWork
  <2>4. QED
    BY <1>2, <2>2, <2>3, QuietStep
<1>3. ASSUME UNCHANGED <<object, damaged, inputRows, artifactRows, host, submitter, work>>
      PROVE  BytesInv'
  BY <1>3, StillHeld, RowsKept, WorkKept, SubmitterKept DEF BytesInv
<1>4. CASE StartAttempt(a[1], a[2])
  <2>1. a = <<a[1], a[2]>>
    BY DEF Attempts
  <2>2. Goto(a, "stage")
    BY <1>4, <2>1, Zenon DEF StartAttempt, Goto
  <2>3. UNCHANGED <<object, damaged, inputRows, artifactRows, host, submitter>>
    BY <1>4 DEF StartAttempt, WorkUnchanged
  <2>4. QED
    BY <1>2, <2>2, <2>3
<1>5. CASE StageInputs(a)
  <2>1. UNCHANGED <<object, damaged, inputRows, artifactRows, host, submitter>>
    BY <1>5 DEF StageInputs, WorkUnchanged
  <2>2. Goto(a, "fail") \/ \E content : Staged(a, content)
    BY <1>5, Zenon DEF StageInputs, StageFromInput, StageFromArtifact
  <2>3. ASSUME NEW content, Staged(a, content) PROVE BytesInv'
    <3>1. PICK pc \in {"fail", "verify"} :
             work' = [work EXCEPT ![a] = [@ EXCEPT !.staged = content, !.pc = pc]]
      BY <2>3, Zenon DEF Staged
    <3>2. PICK w : w = [work[a] EXCEPT !.staged = content, !.pc = pc]
      OBVIOUS
    <3>3. work' = [work EXCEPT ![a] = w]
      BY <3>1, <3>2, Zenon
    <3>4. DOMAIN w = DOMAIN IdleWork /\ w.rows = work[a].rows /\ w.pc = pc
      BY <1>1, <3>2 DEF IdleWork
    <3>5. QED
      BY <2>1, <3>1, <3>3, <3>4, QuietStep
  <2>4. QED
    BY <1>2, <2>1, <2>2, <2>3
<1>6. CASE VerifyInputManifest(a)
  <2>1. UNCHANGED <<object, damaged, inputRows, artifactRows, host, submitter>>
    BY <1>6 DEF VerifyInputManifest, WorkUnchanged
  <2>2. Goto(a, "execute") \/ Goto(a, "fail")
    BY <1>6, Zenon DEF VerifyInputManifest
  <2>3. QED
    BY <1>2, <2>1, <2>2
<1>7. CASE Execute(a)
  <2>1. UNCHANGED <<object, damaged, inputRows, artifactRows, host, submitter>>
    BY <1>7 DEF Execute, WorkUnchanged
  <2>2. PICK good : work' = [work EXCEPT ![a] =
                        [@ EXCEPT !.pc = "begin", !.good = good, !.todo = OutputsOf[a[1]]]]
    BY <1>7, Zenon DEF Execute
  <2>3. PICK w : w = [work[a] EXCEPT !.pc = "begin", !.good = good, !.todo = OutputsOf[a[1]]]
    OBVIOUS
  <2>4. work' = [work EXCEPT ![a] = w]
    BY <2>2, <2>3, Zenon
  <2>5. DOMAIN w = DOMAIN IdleWork /\ w.rows = work[a].rows /\ w.pc = "begin"
    BY <1>1, <2>3 DEF IdleWork
  <2>6. QED
    BY <2>1, <2>4, <2>5, QuietStep
<1>8. CASE Begin(a)
  <2>1. UNCHANGED <<object, damaged, inputRows, artifactRows, host, submitter>>
    BY <1>8 DEF Begin, WorkUnchanged
  <2>2. PICK w : w = [work[a] EXCEPT !.pc = "declare", !.rows = << >>]
    OBVIOUS
  <2>3. work' = [work EXCEPT ![a] = w]
    BY <1>8, <2>2, Zenon DEF Begin
  <2>4. work'[a] = w
    BY <1>1, <2>3
  <2>5. DOMAIN w = DOMAIN IdleWork /\ w.rows = << >> /\ w.pc = "declare"
    BY <1>1, <2>2 DEF IdleWork
  <2>6. IsSeq(<< >>) /\ Len(<< >>) = 0
    BY DEF IsSeq
  <2>7. Pending(work[a])'
    BY <2>4, <2>5, <2>6 DEF Pending, IsSeq, IdleWork
  <2>8. ObjectInv' /\ RowsInv' /\ SubmitterInv' /\ \A e : Held(e) => Held(e)'
    BY <2>1, StillHeld, RowsKept, SubmitterKept DEF BytesInv
  <2>9. WorkInv'
    BY <2>3, <2>7, <2>8, WorkEdited DEF BytesInv
  <2>10. QED
    BY <2>8, <2>9 DEF BytesInv
<1>9. CASE Declare(a)
  <2>1. UNCHANGED <<object, damaged, inputRows, artifactRows, host, submitter>>
    BY <1>9 DEF Declare, WorkUnchanged
  <2>2. CASE Goto(a, Raised(a))
    <3>1. Goto(a, "finish") \/ Goto(a, "fail")
      BY <2>2, Zenon DEF Raised
    <3>2. QED
      BY <1>2, <2>1, <3>1
  <2>3. ASSUME NEW file \in Contents,
               work' = [work EXCEPT ![a] = [@ EXCEPT !.pc = "publish", !.digest = file]]
        PROVE  BytesInv'
    <3>1. PICK w : w = [work[a] EXCEPT !.pc = "publish", !.digest = file]
      OBVIOUS
    <3>2. work' = [work EXCEPT ![a] = w]
      BY <2>3, <3>1, Zenon
    <3>3. DOMAIN w = DOMAIN IdleWork /\ w.rows = work[a].rows /\ w.digest = file
      BY <1>1, <3>1 DEF IdleWork
    <3>4. QED
      BY <2>1, <3>2, <3>3, QuietStep
  <2>4. QED
    BY <1>9, <2>2, <2>3, Zenon DEF Declare
<1>10. CASE PublishDeclared(a)
  BY <1>10, PublishDeclaredStep
<1>11. CASE Commit(a)
  BY <1>11, CommitStep
<1>12. CASE RegisterFailureEvidence(a)
  <2>1. UNCHANGED <<object, damaged, inputRows, artifactRows, host, submitter>>
    BY <1>12 DEF RegisterFailureEvidence, WorkUnchanged
  <2>2. PICK pc, mode, files :
           /\ pc = IF EvidenceOf(a) = << >> THEN "finish" ELSE "begin"
           /\ mode = IF work[a].pc = "fail" THEN "raised" ELSE "failed"
           /\ files = EvidenceOf(a)
    OBVIOUS
  <2>3. pc # "publish"
    BY <2>2
  <2>4. work' = [work EXCEPT ![a] = [@ EXCEPT !.pc = pc, !.mode = mode, !.todo = files]]
    BY <1>12, <2>2, Zenon DEF RegisterFailureEvidence
  <2>5. PICK w : w = [work[a] EXCEPT !.pc = pc, !.mode = mode, !.todo = files]
    OBVIOUS
  <2>6. work' = [work EXCEPT ![a] = w]
    BY <2>4, <2>5, Zenon
  <2>7. DOMAIN w = DOMAIN IdleWork /\ w.rows = work[a].rows /\ w.pc = pc
    BY <1>1, <2>5 DEF IdleWork
  <2>8. QED
    BY <2>1, <2>3, <2>6, <2>7, QuietStep
<1>13. CASE Finish(a)
  <2>1. UNCHANGED <<object, damaged, inputRows, artifactRows, host, submitter>>
    BY <1>13 DEF Finish, WorkUnchanged
  <2>2. Goto(a, "fail") \/ Goto(a, "done")
    BY <1>13, Zenon DEF Finish
  <2>3. QED
    BY <1>2, <2>1, <2>2
<1>14. CASE Reclaim(a)
  BY <1>3, <1>14 DEF Reclaim, WorkUnchanged
<1>15. CASE Crash(a)
  BY <1>2, <1>15 DEF Crash, WorkUnchanged
<1>16. ASSUME NEW k, NEW c, StrayWrite(a, k, c) PROVE BytesInv'
  BY <1>3, <1>16 DEF StrayWrite, WorkUnchanged
<1>17. QED
  BY <1>4, <1>5, <1>6, <1>7, <1>8, <1>9, <1>10, <1>11, <1>12, <1>13, <1>14, <1>15, <1>16
  DEF Attempting

\* A new row of an uploaded input comes after its bytes.
LEMMA InputRowAdded ==
  ASSUME BytesInv, NEW source, NEW d \in Contents, Publish(source, d),
         inputRows' = Append(inputRows, d), UNCHANGED <<damaged, artifactRows, work>>,
         SubmitterInv'
  PROVE  BytesInv'
<1>1. ObjectInv' /\ Held(d)' /\ \A e : Held(e) => Held(e)'
  BY PublishKeeps DEF BytesInv
<1>2. WorkInv'
  BY <1>1, WorkKept DEF BytesInv
<1>3. /\ inputRows \in Seq(Contents) /\ IsSeq(artifactRows)
      /\ \A i \in 1..Len(inputRows) : Held(inputRows[i])
      /\ \A i \in 1..Len(artifactRows) : Held(artifactRows[i].digest)
  BY DEF BytesInv, RowsInv
<1>4. inputRows' \in Seq(Contents)
  BY <1>3
<1>5. ASSUME NEW i \in 1..Len(inputRows') PROVE Held(inputRows[i])'
  <2>1. PICK e : e = inputRows'[i]
    OBVIOUS
  <2>2. Held(e)'
    <3>1. CASE i = Len(inputRows) + 1
      BY <1>1, <1>3, <2>1, <3>1
    <3>2. CASE i # Len(inputRows) + 1
      <4>1. i \in 1..Len(inputRows) /\ e = inputRows[i]
        BY <1>3, <2>1, <3>2
      <4>2. QED
        BY <1>1, <1>3, <4>1
    <3>3. QED
      BY <3>1, <3>2
  <2>3. QED
    BY <2>1, <2>2 DEF Held, Intact
<1>6. ASSUME NEW i \in 1..Len(artifactRows) PROVE Held(artifactRows[i].digest)'
  <2>1. PICK e : e = artifactRows[i].digest
    OBVIOUS
  <2>2. Held(e)'
    BY <1>1, <1>3, <2>1
  <2>3. QED
    BY <2>1, <2>2 DEF Held, Intact
<1>7. RowsInv'
  BY <1>3, <1>4, <1>5, <1>6 DEF RowsInv, IsSeq
<1>8. QED
  BY <1>1, <1>2, <1>7 DEF BytesInv

\* Every step keeps the objects and the rows together.
LEMMA BytesStep ==
  ASSUME BytesInv, [Next]_vars
  PROVE  BytesInv'
<1>1. ASSUME UNCHANGED <<object, damaged, inputRows, artifactRows, host, submitter, work>>
      PROVE  BytesInv'
  BY <1>1, StillHeld, RowsKept, WorkKept, SubmitterKept DEF BytesInv
<1>2. ASSUME UNCHANGED <<object, damaged, inputRows, artifactRows, work>>, SubmitterInv'
      PROVE  BytesInv'
  BY <1>2, StillHeld, RowsKept, WorkKept DEF BytesInv
<1>3. ASSUME NEW c \in Uploads, IngestInput(c) PROVE BytesInv'
  <2>1. c \in Contents
    BY CustodyAssumption
  <2>2. SubmitterInv'
    BY <1>3, SubmitterKept DEF IngestInput, BytesInv
  <2>3. QED
    BY <1>3, <2>1, <2>2, InputRowAdded DEF IngestInput
<1>4. ASSUME NEW r \in Runs, CheckInputs(r) PROVE BytesInv'
  <2>1. UNCHANGED <<object, damaged, inputRows, artifactRows, work, host>>
    BY <1>4 DEF CheckInputs, SubmitUnchanged
  <2>2. ASSUME NEW pc, NEW decl, NEW digest, Submitting(r, pc, decl, digest),
               pc = "freeze" => digest \in Contents
        PROVE  SubmitterInv'
    BY <2>1, <2>2 DEF BytesInv, SubmitterInv, Submitting
  <2>3. SubmitterInv'
    <3>1. CASE Submitting(r, IF host = Missing THEN "manifest" ELSE "freeze", HostPath, host)
      <4>1. PICK pc, digest : /\ pc = IF host = Missing THEN "manifest" ELSE "freeze"
                              /\ digest = host
        OBVIOUS
      <4>2. pc = "freeze" => digest \in Contents
        BY <4>1 DEF BytesInv, SubmitterInv
      <4>3. Submitting(r, pc, HostPath, digest)
        BY <3>1, <4>1, Zenon
      <4>4. QED
        BY <2>2, <4>2, <4>3
    <3>2. CASE \E decl, digest : Submitting(r, "insert", decl, digest)
      BY <2>2, <3>2
    <3>3. QED
      BY <1>4, <3>1, <3>2, Zenon DEF CheckInputs
  <2>4. QED
    BY <1>2, <2>1, <2>3
<1>5. ASSUME NEW r \in Runs, FreezeHostInputs(r) PROVE BytesInv'
  <2>1. PICK d \in Contents : d = submitter[r].digest
    BY <1>5 DEF FreezeHostInputs, BytesInv, SubmitterInv
  <2>2. UNCHANGED <<damaged, artifactRows, work, host>>
    BY <1>5 DEF FreezeHostInputs, SubmitUnchanged
  <2>3. SubmitterInv'
    BY <1>5, <2>2 DEF FreezeHostInputs, Submitting, BytesInv, SubmitterInv
  <2>4. CASE Publish(host, d) /\ inputRows' = Append(inputRows, d)
    <3>1. PICK source : source = host
      OBVIOUS
    <3>2. Publish(source, d)
      BY <2>4, <3>1
    <3>3. QED
      BY <2>2, <2>3, <2>4, <3>2, InputRowAdded
  <2>5. CASE UNCHANGED <<object, inputRows>>
    BY <1>2, <2>2, <2>3, <2>5
  <2>6. QED
    BY <1>5, <2>1, <2>4, <2>5 DEF FreezeHostInputs
<1>6. ASSUME NEW r \in Runs, InputManifestDigest(r) \/ SubmitRun(r) PROVE BytesInv'
  <2>1. UNCHANGED <<object, damaged, inputRows, artifactRows, work, host>>
    BY <1>6 DEF InputManifestDigest, SubmitRun, SubmitUnchanged
  <2>2. PICK pc, decl, digest : Submitting(r, pc, decl, digest) /\ pc # "freeze"
    BY <1>6 DEF InputManifestDigest, SubmitRun
  <2>3. SubmitterInv'
    BY <2>1, <2>2 DEF BytesInv, SubmitterInv, Submitting
  <2>4. QED
    BY <1>2, <2>1, <2>3
<1>7. ASSUME NEW r \in Runs, ViewRun(r) PROVE BytesInv'
  BY <1>1, <1>7 DEF ViewRun, ExportUnchanged, fileVars, rowVars
<1>8. CASE StoreBundle
  BY <1>1, <1>8 DEF StoreBundle, ExportUnchanged, fileVars, rowVars
<1>9. ASSUME NEW c \in Contents \cup {Missing}, EditHost(c) PROVE BytesInv'
  <2>1. SubmitterInv'
    BY <1>9 DEF EditHost, BytesInv, SubmitterInv
  <2>2. QED
    BY <1>2, <1>9, <2>1 DEF EditHost, rowVars
<1>10. ASSUME NEW d \in Contents, NEW c \in {Missing, Garbage}, Damage(d, c) PROVE BytesInv'
  <2>1. UNCHANGED <<inputRows, artifactRows, host, submitter, work>>
    BY <1>10 DEF Damage, rowVars
  <2>2. QED
    BY <1>10, <2>1, DamageKeeps, RowsKept, WorkKept, SubmitterKept DEF BytesInv
<1>11. CASE UNCHANGED vars
  BY <1>1, <1>11 DEF vars, fileVars, rowVars
<1>12. QED
  BY <1>3, <1>4, <1>5, <1>6, <1>7, <1>8, <1>9, <1>10, <1>11, AttemptingStep
  DEF Next, Submission

\* At the start there are the objects of the artifacts of earlier runs.
LEMMA BytesInit == Init => BytesInv
<1> SUFFICES ASSUME Init PROVE BytesInv
  OBVIOUS
<1>1. ObjectInv
  BY DEF Init, ObjectInv, NoForeignObject
<1>2. ASSUME NEW i \in 1..Len(Earlier) PROVE Held(Earlier[i])
  <2>1. Earlier[i] \in Contents /\ Earlier[i] \in ToSet(Earlier)
    BY CustodyAssumption DEF ToSet
  <2>2. QED
    BY <2>1 DEF Init, Held, Intact
<1>3. artifactRows \in Seq([attempt : {EarlierAttempt}, key : {"out"}, digest : Contents])
  BY CustodyAssumption DEF Init
<1>4. /\ Len(artifactRows) = Len(Earlier)
      /\ \A i \in 1..Len(Earlier) : artifactRows[i].digest = Earlier[i]
  BY CustodyAssumption DEF Init
<1>5. RowsInv
  <2>1. inputRows \in Seq(Contents) /\ Len(inputRows) = 0
    BY DEF Init
  <2>2. QED
    BY <1>2, <1>3, <1>4, <2>1 DEF RowsInv, IsSeq
<1>6. WorkInv
  <2>1. ASSUME NEW a \in Attempts PROVE Pending(work[a])
    <3>1. work[a] = IdleWork
      BY DEF Init
    <3>2. IsSeq(<< >>) /\ Len(<< >>) = 0
      BY DEF IsSeq
    <3>3. IdleWork.rows = << >> /\ IdleWork.pc = "none"
      BY DEF IdleWork
    <3>4. QED
      BY <3>1, <3>2, <3>3 DEF Pending
  <2>2. QED
    BY <2>1 DEF Init, WorkInv
<1>7. SubmitterInv
  BY CustodyAssumption DEF Init, SubmitterInv
<1>8. QED
  BY <1>1, <1>5, <1>6, <1>7 DEF BytesInv

\* Objects, rows and the rows that wait for their COMMIT agree at all times.
LEMMA BytesInvHolds == Spec => []BytesInv
BY BytesInit, BytesStep, PTL DEF Spec

\* Whatever a row of runtime_uploaded_inputs or runtime_artifacts names is in
\* the object store under its own digest, for any interleaving of registrations,
\* failures, crashes and reclaims, unless the disk damages it.
THEOREM RowsAlwaysHaveTheirBytes == Spec => []RowsHaveTheirBytes
<1>1. BytesInv => RowsHaveTheirBytes
  BY DEF BytesInv, RowsInv, Held, RowsHaveTheirBytes
<1>2. QED
  BY <1>1, BytesInvHolds, PTL

\* _store_object never publishes a file at the path of another digest, even on
\* a disk that damages objects and with files that change while they are copied.
THEOREM ObjectsAreNeverForeign == Spec => []NoForeignObject
<1>1. BytesInv => NoForeignObject
  BY DEF BytesInv, ObjectInv
<1>2. QED
  BY <1>1, BytesInvHolds, PTL

-----------------------------------------------------------------------------
(* An adapter starts on the bytes that were submitted                      *)

RunFields == {"status", "decl", "manifest"}

Bound(w, r) ==
    w.pc \in {"execute", "begin"} /\ w.mode = "result" => w.staged = run[r].manifest

\* The manifest of a run is written once, before any worker takes it up.
ManifestInv ==
    /\ DOMAIN submitter = Runs
    /\ DOMAIN run = Runs /\ \A r \in Runs : DOMAIN run[r] = RunFields
    /\ DOMAIN work = Attempts /\ \A a \in Attempts : DOMAIN work[a] = DOMAIN IdleWork
    /\ \A r \in Runs : run[r].status # "absent" => submitter[r].pc = "done"
    /\ \A a \in Attempts : work[a].pc # "none" => submitter[a[1]].pc = "done"
    /\ \A a \in Attempts : Bound(work[a], a[1])

\* An attempt is an attempt of a run.
LEMMA AttemptRun ==
  ASSUME NEW a \in Attempts
  PROVE  a[1] \in Runs /\ a = <<a[1], a[2]>>
BY DEF Attempts

\* A step of one worker that keeps what the run was submitted with.
LEMMA WorkerKeepsManifest ==
  ASSUME ManifestInv, NEW a \in Attempts, NEW w,
         work' = [work EXCEPT ![a] = w] \/ (UNCHANGED work /\ w = work[a]),
         DOMAIN w = DOMAIN IdleWork, Bound(w, a[1]),
         UNCHANGED submitter, submitter[a[1]].pc = "done",
         UNCHANGED run \/ \E s : run' = [run EXCEPT ![a[1]].status = s]
  PROVE  ManifestInv'
<1>1. a[1] \in Runs /\ \A b \in Attempts : b[1] \in Runs
  BY AttemptRun
<1>2. /\ DOMAIN run' = Runs
      /\ \A r \in Runs : DOMAIN run'[r] = RunFields /\ run'[r].manifest = run[r].manifest
      /\ \A r \in Runs : r # a[1] => run'[r].status = run[r].status
  <2>1. CASE UNCHANGED run
    BY <2>1 DEF ManifestInv
  <2>2. ASSUME NEW s, run' = [run EXCEPT ![a[1]].status = s]
        PROVE  /\ DOMAIN run' = Runs
               /\ \A r \in Runs : DOMAIN run'[r] = RunFields /\ run'[r].manifest = run[r].manifest
               /\ \A r \in Runs : r # a[1] => run'[r].status = run[r].status
    <3>1. DOMAIN run = Runs /\ \A r \in Runs : DOMAIN run[r] = RunFields
      BY DEF ManifestInv
    <3>2. PICK t : t = [run[a[1]] EXCEPT !.status = s]
      OBVIOUS
    <3>3. DOMAIN t = RunFields /\ t.manifest = run[a[1]].manifest
      BY <1>1, <3>1, <3>2 DEF RunFields
    <3>4. run' = [run EXCEPT ![a[1]] = t]
      BY <2>2, <3>2, Zenon
    <3>5. QED
      BY <1>1, <3>1, <3>3, <3>4
  <2>3. QED
    BY <2>1, <2>2
<1>3. /\ DOMAIN work' = Attempts /\ work'[a] = w
      /\ \A b \in Attempts : b # a => work'[b] = work[b]
  BY DEF ManifestInv
<1>4. \A r \in Runs : run'[r].status # "absent" => submitter[r].pc = "done"
  BY <1>2 DEF ManifestInv
<1>5. \A b \in Attempts : work'[b].pc # "none" => submitter[b[1]].pc = "done"
  BY <1>3 DEF ManifestInv
<1>6. ASSUME NEW b \in Attempts PROVE Bound(work[b], b[1])'
  BY <1>1, <1>2, <1>3 DEF ManifestInv, Bound
<1>7. \A b \in Attempts : DOMAIN work'[b] = DOMAIN IdleWork
  BY <1>3 DEF ManifestInv
<1>8. Attempts' = Attempts /\ IdleWork' = IdleWork
  BY DEF Attempts, IdleWork, Missing
<1>9. QED
  BY <1>2, <1>3, <1>4, <1>5, <1>6, <1>7, <1>8 DEF ManifestInv

\* A step that moves no worker and writes no run that is submitted.
LEMMA OthersKeepManifest ==
  ASSUME ManifestInv, UNCHANGED work,
         UNCHANGED <<submitter, run>>
         \/ \E r \in Runs : \E s :
               /\ submitter[r].pc # "done"
               /\ submitter' = [submitter EXCEPT ![r] = s]
               /\ \/ UNCHANGED run
                  \/ s.pc = "done" /\ \E t : DOMAIN t = RunFields /\ run' = [run EXCEPT ![r] = t]
  PROVE  ManifestInv'
<1>1. CASE UNCHANGED <<submitter, run>>
  BY <1>1 DEF ManifestInv, Bound
<1>2. ASSUME NEW r \in Runs, NEW s, submitter[r].pc # "done",
             submitter' = [submitter EXCEPT ![r] = s],
             \/ UNCHANGED run
             \/ s.pc = "done" /\ \E t : DOMAIN t = RunFields /\ run' = [run EXCEPT ![r] = t]
      PROVE  ManifestInv'
  <2>1. /\ run[r].status = "absent"
        /\ \A a \in Attempts : a[1] = r => work[a].pc = "none"
    BY <1>2 DEF ManifestInv
  <2>2. /\ DOMAIN submitter' = Runs /\ DOMAIN run' = Runs
        /\ \A q \in Runs : DOMAIN run'[q] = RunFields
        /\ \A q \in Runs : q # r => run'[q] = run[q] /\ submitter'[q] = submitter[q]
        /\ run'[r] = run[r] \/ submitter'[r].pc = "done"
    BY <1>2 DEF ManifestInv
  <2>3. \A q \in Runs : run'[q].status # "absent" => submitter'[q].pc = "done"
    BY <2>1, <2>2 DEF ManifestInv
  <2>4. \A a \in Attempts : work[a].pc # "none" => submitter'[a[1]].pc = "done"
    BY <2>1, <2>2, AttemptRun DEF ManifestInv
  <2>5. ASSUME NEW a \in Attempts PROVE Bound(work[a], a[1])'
    BY <2>1, <2>2, AttemptRun DEF ManifestInv, Bound
  <2>6. QED
    BY <2>2, <2>3, <2>4, <2>5 DEF ManifestInv
<1>3. QED
  BY <1>1, <1>2

\* No step of a worker starts an adapter on other bytes: _verify_input_manifest
\* compares them, and only a failure begins a registration after that.
LEMMA AttemptingKeepsManifest ==
  ASSUME ManifestInv, NEW a \in Attempts, Attempting(a)
  PROVE  ManifestInv'
<1>1. /\ DOMAIN work = Attempts /\ DOMAIN work[a] = DOMAIN IdleWork
      /\ Bound(work[a], a[1]) /\ a[1] \in Runs
      /\ work[a].pc # "none" => submitter[a[1]].pc = "done"
  BY AttemptRun DEF ManifestInv
<1>2. ASSUME NEW w, work' = [work EXCEPT ![a] = w], DOMAIN w = DOMAIN IdleWork,
             w.pc \notin {"execute", "begin"},
             UNCHANGED submitter, submitter[a[1]].pc = "done",
             UNCHANGED run \/ \E s : run' = [run EXCEPT ![a[1]].status = s]
      PROVE  ManifestInv'
  BY <1>2, WorkerKeepsManifest DEF Bound
<1>3. ASSUME NEW pc, Goto(a, pc), pc \notin {"execute", "begin"},
             UNCHANGED submitter, submitter[a[1]].pc = "done",
             UNCHANGED run \/ \E s : run' = [run EXCEPT ![a[1]].status = s]
      PROVE  ManifestInv'
  <2>1. PICK w : w = [work[a] EXCEPT !.pc = pc]
    OBVIOUS
  <2>2. work' = [work EXCEPT ![a] = w]
    BY <1>3, <2>1, Zenon DEF Goto
  <2>3. DOMAIN w = DOMAIN IdleWork /\ w.pc = pc
    BY <1>1, <2>1 DEF IdleWork
  <2>4. QED
    BY <1>2, <1>3, <2>2, <2>3
<1>4. CASE StartAttempt(a[1], a[2])
  <2>1. Goto(a, "stage")
    BY <1>4, AttemptRun, Zenon DEF StartAttempt, Goto
  <2>2. submitter[a[1]].pc = "done"
    BY <1>1, <1>4 DEF StartAttempt, ManifestInv
  <2>3. UNCHANGED submitter /\ \E s : run' = [run EXCEPT ![a[1]].status = s]
    BY <1>4, Zenon DEF StartAttempt, WorkUnchanged
  <2>4. QED
    BY <1>3, <2>1, <2>2, <2>3
<1>5. CASE StageInputs(a)
  <2>1. UNCHANGED <<run, submitter>> /\ submitter[a[1]].pc = "done"
    BY <1>1, <1>5 DEF StageInputs, WorkUnchanged
  <2>2. Goto(a, "fail") \/ \E content : Staged(a, content)
    BY <1>5, Zenon DEF StageInputs, StageFromInput, StageFromArtifact
  <2>3. ASSUME NEW content, Staged(a, content) PROVE ManifestInv'
    <3>1. PICK pc \in {"fail", "verify"} :
             work' = [work EXCEPT ![a] = [@ EXCEPT !.staged = content, !.pc = pc]]
      BY <2>3, Zenon DEF Staged
    <3>2. PICK w : w = [work[a] EXCEPT !.staged = content, !.pc = pc]
      OBVIOUS
    <3>3. work' = [work EXCEPT ![a] = w]
      BY <3>1, <3>2, Zenon
    <3>4. DOMAIN w = DOMAIN IdleWork /\ w.pc = pc
      BY <1>1, <3>2 DEF IdleWork
    <3>5. QED
      BY <1>2, <2>1, <3>1, <3>3, <3>4
  <2>4. QED
    BY <1>3, <2>1, <2>2, <2>3
<1>6. CASE VerifyInputManifest(a)
  <2>1. UNCHANGED <<run, submitter>> /\ submitter[a[1]].pc = "done"
    BY <1>1, <1>6 DEF VerifyInputManifest, WorkUnchanged
  <2>2. CASE Goto(a, "fail")
    BY <1>3, <2>1, <2>2
  <2>3. CASE work[a].staged = run[a[1]].manifest /\ Goto(a, "execute")
    <3>1. PICK w : w = [work[a] EXCEPT !.pc = "execute"]
      OBVIOUS
    <3>2. work' = [work EXCEPT ![a] = w]
      BY <2>3, <3>1, Zenon DEF Goto
    <3>3. DOMAIN w = DOMAIN IdleWork /\ w.staged = run[a[1]].manifest
      BY <1>1, <2>3, <3>1 DEF IdleWork
    <3>4. QED
      BY <2>1, <3>2, <3>3, WorkerKeepsManifest DEF Bound
  <2>4. QED
    BY <1>6, <2>2, <2>3, Zenon DEF VerifyInputManifest
<1>7. CASE Execute(a)
  <2>1. /\ UNCHANGED <<run, submitter>> /\ submitter[a[1]].pc = "done"
        /\ work[a].pc = "execute"
    BY <1>1, <1>7 DEF Execute, WorkUnchanged
  <2>2. PICK good : work' = [work EXCEPT ![a] =
                        [@ EXCEPT !.pc = "begin", !.good = good, !.todo = OutputsOf[a[1]]]]
    BY <1>7, Zenon DEF Execute
  <2>3. PICK w : w = [work[a] EXCEPT !.pc = "begin", !.good = good, !.todo = OutputsOf[a[1]]]
    OBVIOUS
  <2>4. work' = [work EXCEPT ![a] = w]
    BY <2>2, <2>3, Zenon
  <2>5. DOMAIN w = DOMAIN IdleWork /\ w.staged = work[a].staged /\ w.mode = work[a].mode
    BY <1>1, <2>3 DEF IdleWork
  <2>6. Bound(w, a[1])
    BY <1>1, <2>1, <2>5 DEF Bound
  <2>7. QED
    BY <2>1, <2>4, <2>5, <2>6, WorkerKeepsManifest
<1>8. CASE Begin(a)
  <2>1. UNCHANGED <<run, submitter>> /\ submitter[a[1]].pc = "done"
    BY <1>1, <1>8 DEF Begin, WorkUnchanged
  <2>2. PICK w : w = [work[a] EXCEPT !.pc = "declare", !.rows = << >>]
    OBVIOUS
  <2>3. work' = [work EXCEPT ![a] = w]
    BY <1>8, <2>2, Zenon DEF Begin
  <2>4. DOMAIN w = DOMAIN IdleWork /\ w.pc = "declare"
    BY <1>1, <2>2 DEF IdleWork
  <2>5. QED
    BY <1>2, <2>1, <2>3, <2>4
<1>9. ASSUME Goto(a, Raised(a)), UNCHANGED <<run, submitter>>, submitter[a[1]].pc = "done"
      PROVE  ManifestInv'
  <2>1. Goto(a, "finish") \/ Goto(a, "fail")
    BY <1>9, Zenon DEF Raised
  <2>2. QED
    BY <1>3, <1>9, <2>1
<1>10. CASE Declare(a)
  <2>1. UNCHANGED <<run, submitter>> /\ submitter[a[1]].pc = "done"
    BY <1>1, <1>10 DEF Declare, WorkUnchanged
  <2>2. ASSUME NEW file,
               work' = [work EXCEPT ![a] = [@ EXCEPT !.pc = "publish", !.digest = file]]
        PROVE  ManifestInv'
    <3>1. PICK w : w = [work[a] EXCEPT !.pc = "publish", !.digest = file]
      OBVIOUS
    <3>2. work' = [work EXCEPT ![a] = w]
      BY <2>2, <3>1, Zenon
    <3>3. DOMAIN w = DOMAIN IdleWork /\ w.pc = "publish"
      BY <1>1, <3>1 DEF IdleWork
    <3>4. QED
      BY <1>2, <2>1, <3>2, <3>3
  <2>3. CASE Goto(a, Raised(a))
    BY <1>9, <2>1, <2>3
  <2>4. QED
    BY <1>10, <2>2, <2>3, Zenon DEF Declare
<1>11. CASE PublishDeclared(a)
  <2>1. UNCHANGED <<run, submitter>> /\ submitter[a[1]].pc = "done"
    BY <1>1, <1>11 DEF PublishDeclared, WorkUnchanged
  <2>2. CASE Goto(a, Raised(a))
    BY <1>9, <2>1, <2>2
  <2>3. ASSUME NEW row,
               work' = [work EXCEPT ![a] =
                   [work[a] EXCEPT !.pc = "declare", !.todo = Tail(@), !.rows = Append(@, row)]]
        PROVE  ManifestInv'
    <3>1. PICK w : w = [work[a] EXCEPT !.pc = "declare", !.todo = Tail(@), !.rows = Append(@, row)]
      OBVIOUS
    <3>2. work' = [work EXCEPT ![a] = w]
      BY <2>3, <3>1, Zenon
    <3>3. DOMAIN w = DOMAIN IdleWork /\ w.pc = "declare"
      BY <1>1, <3>1 DEF IdleWork
    <3>4. QED
      BY <1>2, <2>1, <3>2, <3>3
  <2>4. QED
    BY <1>11, <2>2, <2>3, Zenon DEF PublishDeclared
<1>12. CASE Commit(a)
  <2>1. UNCHANGED <<run, submitter>> /\ submitter[a[1]].pc = "done"
    BY <1>1, <1>12 DEF Commit, WorkUnchanged
  <2>2. Goto(a, "evidence") \/ Goto(a, "finish")
    BY <1>12, Zenon DEF Commit
  <2>3. QED
    BY <1>3, <2>1, <2>2
<1>13. CASE RegisterFailureEvidence(a)
  <2>1. UNCHANGED <<run, submitter>> /\ submitter[a[1]].pc = "done"
    BY <1>1, <1>13 DEF RegisterFailureEvidence, WorkUnchanged
  <2>2. PICK pc, mode, files :
           /\ pc = IF EvidenceOf(a) = << >> THEN "finish" ELSE "begin"
           /\ mode = IF work[a].pc = "fail" THEN "raised" ELSE "failed"
           /\ files = EvidenceOf(a)
    OBVIOUS
  <2>3. work' = [work EXCEPT ![a] = [@ EXCEPT !.pc = pc, !.mode = mode, !.todo = files]]
    BY <1>13, <2>2, Zenon DEF RegisterFailureEvidence
  <2>4. PICK w : w = [work[a] EXCEPT !.pc = pc, !.mode = mode, !.todo = files]
    OBVIOUS
  <2>5. work' = [work EXCEPT ![a] = w]
    BY <2>3, <2>4, Zenon
  <2>6. DOMAIN w = DOMAIN IdleWork /\ w.mode = mode /\ mode # "result"
    BY <1>1, <2>2, <2>4 DEF IdleWork
  <2>7. QED
    BY <2>1, <2>5, <2>6, WorkerKeepsManifest DEF Bound
<1>14. CASE Finish(a)
  <2>1. UNCHANGED submitter /\ submitter[a[1]].pc = "done"
    BY <1>1, <1>14 DEF Finish, WorkUnchanged
  <2>2. Goto(a, "fail") \/ Goto(a, "done")
    BY <1>14, Zenon DEF Finish
  <2>3. UNCHANGED run \/ \E s : run' = [run EXCEPT ![a[1]].status = s]
    BY <1>14, Zenon DEF Finish
  <2>4. QED
    BY <1>3, <2>1, <2>2, <2>3
<1>15. CASE Reclaim(a)
  <2>1. UNCHANGED <<work, submitter>> /\ submitter[a[1]].pc = "done"
    BY <1>1, <1>15 DEF Reclaim, WorkUnchanged
  <2>2. \E s : run' = [run EXCEPT ![a[1]].status = s]
    BY <1>15, Zenon DEF Reclaim
  <2>3. PICK w : w = work[a]
    OBVIOUS
  <2>4. Bound(w, a[1]) /\ DOMAIN w = DOMAIN IdleWork
    BY <1>1, <2>3
  <2>5. QED
    BY <2>1, <2>2, <2>3, <2>4, WorkerKeepsManifest
<1>16. CASE Crash(a)
  <2>1. UNCHANGED <<run, submitter>> /\ submitter[a[1]].pc = "done"
    BY <1>1, <1>16 DEF Crash, Registering, WorkUnchanged
  <2>2. QED
    BY <1>3, <1>16, <2>1 DEF Crash
<1>17. ASSUME NEW k, NEW c, StrayWrite(a, k, c) PROVE ManifestInv'
  BY <1>17, OthersKeepManifest DEF StrayWrite, WorkUnchanged
<1>18. QED
  BY <1>4, <1>5, <1>6, <1>7, <1>8, <1>10, <1>11, <1>12, <1>13, <1>14, <1>15, <1>16, <1>17
  DEF Attempting

\* No step of a client changes what a submitted run was submitted with.
LEMMA ManifestStep ==
  ASSUME ManifestInv, [Next]_vars
  PROVE  ManifestInv'
<1>1. ASSUME UNCHANGED <<work, submitter, run>> PROVE ManifestInv'
  BY <1>1, OthersKeepManifest
<1>2. ASSUME NEW r \in Runs, NEW pc, NEW decl, NEW digest, Submitting(r, pc, decl, digest),
             submitter[r].pc # "done", UNCHANGED <<work, run>>
      PROVE  ManifestInv'
  <2>1. \E s : submitter' = [submitter EXCEPT ![r] = s]
    BY <1>2, Zenon DEF Submitting
  <2>2. QED
    BY <1>2, <2>1, OthersKeepManifest
<1>3. ASSUME NEW c, IngestInput(c) PROVE ManifestInv'
  BY <1>1, <1>3 DEF IngestInput
<1>4. ASSUME NEW r \in Runs, CheckInputs(r) PROVE ManifestInv'
  <2>1. UNCHANGED <<work, run>> /\ submitter[r].pc # "done"
    BY <1>4 DEF CheckInputs, SubmitUnchanged
  <2>2. \E pc, decl, digest : Submitting(r, pc, decl, digest)
    BY <1>4, Zenon DEF CheckInputs
  <2>3. QED
    BY <1>2, <2>1, <2>2
<1>5. ASSUME NEW r \in Runs, FreezeHostInputs(r) PROVE ManifestInv'
  <2>1. UNCHANGED <<work, run>> /\ submitter[r].pc # "done"
    BY <1>5 DEF FreezeHostInputs, SubmitUnchanged
  <2>2. \E pc, decl, digest : Submitting(r, pc, decl, digest)
    BY <1>5, Zenon DEF FreezeHostInputs
  <2>3. QED
    BY <1>2, <2>1, <2>2
<1>6. ASSUME NEW r \in Runs, InputManifestDigest(r) PROVE ManifestInv'
  <2>1. UNCHANGED <<work, run>> /\ submitter[r].pc # "done"
    BY <1>6 DEF InputManifestDigest, SubmitUnchanged
  <2>2. \E pc, decl, digest : Submitting(r, pc, decl, digest)
    BY <1>6, Zenon DEF InputManifestDigest
  <2>3. QED
    BY <1>2, <2>1, <2>2
<1>7. ASSUME NEW r \in Runs, SubmitRun(r) PROVE ManifestInv'
  <2>1. UNCHANGED work /\ submitter[r].pc # "done"
    BY <1>7 DEF SubmitRun, SubmitUnchanged
  <2>2. PICK t : t = [status |-> "queued", decl |-> submitter[r].decl,
                      manifest |-> submitter[r].digest]
    OBVIOUS
  <2>3. DOMAIN t = RunFields /\ run' = [run EXCEPT ![r] = t]
    BY <1>7, <2>2 DEF SubmitRun, RunFields
  <2>4. PICK s : s = [pc |-> "done", decl |-> HostPath, digest |-> Missing]
    OBVIOUS
  <2>5. s.pc = "done" /\ submitter' = [submitter EXCEPT ![r] = s]
    BY <1>7, <2>4 DEF SubmitRun, Submitting
  <2>6. QED
    BY <2>1, <2>3, <2>5, OthersKeepManifest
<1>8. ASSUME NEW r \in Runs, ViewRun(r) PROVE ManifestInv'
  BY <1>1, <1>8 DEF ViewRun, ExportUnchanged, rowVars
<1>9. CASE StoreBundle
  BY <1>1, <1>9 DEF StoreBundle, ExportUnchanged, rowVars
<1>10. ASSUME NEW c, EditHost(c) PROVE ManifestInv'
  BY <1>1, <1>10 DEF EditHost, rowVars
<1>11. ASSUME NEW d, NEW c, Damage(d, c) PROVE ManifestInv'
  BY <1>1, <1>11 DEF Damage, rowVars
<1>12. CASE UNCHANGED vars
  BY <1>1, <1>12 DEF vars, rowVars
<1>13. QED
  BY <1>3, <1>4, <1>5, <1>6, <1>7, <1>8, <1>9, <1>10, <1>11, <1>12, AttemptingKeepsManifest
  DEF Next, Submission

\* Nothing is submitted at the start, and no worker has begun.
LEMMA ManifestInit == Init => ManifestInv
<1> SUFFICES ASSUME Init PROVE ManifestInv
  OBVIOUS
<1>1. \A r \in Runs : run[r].status = "absent" /\ DOMAIN run[r] = RunFields
  BY DEF Init, RunFields
<1>2. \A a \in Attempts : work[a] = IdleWork
  BY DEF Init
<1>3. IdleWork.pc = "none"
  BY DEF IdleWork
<1>4. QED
  BY <1>1, <1>2, <1>3 DEF Init, ManifestInv, Bound

\* An adapter starts only on the bytes whose digest submit() wrote into the run,
\* whatever becomes of the host file, the object or the artifact they came from,
\* and however attempts are retried or reclaimed.
THEOREM AlwaysExecutesWhatWasSubmitted == Spec => []ExecutesWhatWasSubmitted
<1>1. ManifestInv => ExecutesWhatWasSubmitted
  BY DEF ManifestInv, Bound, ExecutesWhatWasSubmitted
<1>2. QED
  BY <1>1, ManifestInit, ManifestStep, PTL DEF Spec

=============================================================================
