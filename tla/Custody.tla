------------------------------ MODULE Custody ------------------------------
(***************************************************************************)
(* Custody of bytes (core/runtime: store.py, runtime.py, bundle.py): the   *)
(* content-addressed object store, uploaded inputs, the inputs a run       *)
(* freezes at submission and stages for each attempt, the artifacts an     *)
(* attempt registers, and the bundle of a run.                             *)
(*                                                                         *)
(* A digest identifies its content, so a content stands for both.  Files   *)
(* change under the platform: the caller edits a host file, a process the  *)
(* adapter left behind writes to its workspace, the disk damages an        *)
(* object.  A worker may stop at any step, and its attempt may be          *)
(* reclaimed while it goes on.                                             *)
(***************************************************************************)
EXTENDS Integers, Sequences, FiniteSets, SequencesExt

CONSTANTS
    Contents,        \* contents of files, which are their own digests
    Runs,
    FromOf,          \* where the staged input of a run may come from
    Required,        \* the runs whose staged input is required
    OutputsOf,       \* the store keys the adapter of a run declares, in order
    HostAtStart,     \* what the host file may be to begin with
    Earlier,         \* contents of the artifacts that earlier runs registered
    Written,         \* the files an adapter of a run may leave
    EvidenceKeys,    \* FAILURE_EVIDENCE_FILES
    Exported,        \* the runs a client exports
    MaxAttempts,     \* bound: attempts of each run
    MaxFaults,       \* bound: edits, stray writes, damage
    MaxLosses,       \* bound: reclaims, crashes
    Uploads          \* bound: the contents that are uploaded, each once

Missing == "missing"
Garbage == "garbage"

ASSUME CustodyAssumption ==
    /\ Contents \cap {Missing, Garbage} = {}
    /\ FromOf \in [Runs -> SUBSET {"host", "upload", "artifact"}]
    /\ Required \subseteq Runs /\ Exported \subseteq Runs
    /\ OutputsOf \in [Runs -> Seq(STRING)]
    /\ \A r \in Runs :
          Written[r] \subseteq [ToSet(OutputsOf[r]) -> Contents \cup {Missing}]
    /\ HostAtStart \subseteq Contents \cup {Missing}
    /\ Earlier \in Seq(Contents)
    /\ MaxAttempts \in [Runs -> Nat \ {0}]
    /\ {MaxFaults, MaxLosses} \subseteq Nat
    /\ Uploads \subseteq Contents

VARIABLES
    host,         \* the host file
    object,       \* runtime-objects: what is at the path of a digest
    inputRows,    \* runtime_uploaded_inputs: digests, by input_id
    artifactRows, \* runtime_artifacts, by artifact_id
    run,          \* each run: status, frozen declaration, manifest digest
    submitter,    \* the request that submits each run
    work,         \* the worker of each attempt
    ended,        \* attempts whose row has ended
    workspace,    \* the attempt directories
    bundle,       \* the runtime_bundle of each attempt
    exporter,     \* a request that exports a bundle
    faults,       \* faults and losses so far, for the bounds
    damaged       \* the disk has damaged an object

fileVars == <<host, object, workspace>>
rowVars == <<inputRows, artifactRows, run, ended>>
exportVars == <<bundle, exporter>>
vars == <<fileVars, rowVars, submitter, work, exportVars, faults, damaged>>

Attempts == UNION {{r} \X (1..MaxAttempts[r]) : r \in Runs}
Keys == UNION {ToSet(OutputsOf[r]) : r \in Runs}

EarlierAttempt == <<"earlier", 1>>

NoBundle == [made |-> FALSE, rows |-> {}, settled |-> FALSE]
IdleWork == [pc |-> "none", staged |-> Missing, todo |-> << >>,
             digest |-> Missing, rows |-> << >>, good |-> FALSE,
             mode |-> "result"]
IdleExporter == [pc |-> "idle", run |-> CHOOSE r \in Runs : TRUE,
                 number |-> 0, rows |-> {}, inputs |-> {}, settled |-> FALSE]

\* BEGIN IMMEDIATE: register_artifacts holds the write lock of the database
\* from its first declaration to its COMMIT or ROLLBACK.
Registering(a) == work[a].pc \in {"publish", "declare"}
Unlocked == \A a \in Attempts : ~ Registering(a)

Fault == faults.files < MaxFaults /\ faults' = [faults EXCEPT !.files = @ + 1]
Loss == faults.lost < MaxLosses /\ faults' = [faults EXCEPT !.lost = @ + 1]

-----------------------------------------------------------------------------
(* The object store                                                        *)

Intact(d) == object[d] = d

\* Mutant: the copy is published without hashing it again.
PublishUnchecked(source, d) ==
    /\ object[d] \in {d, Missing}
    /\ object' = [object EXCEPT ![d] = IF @ = d THEN d ELSE source]

\* _store_object: an object that is there must be intact; a new one is copied,
\* hashed and renamed.  source is the file now, d the digest it had before.
Publish(source, d) ==
    \/ object[d] = d /\ UNCHANGED object
    \/ /\ object[d] = Missing
       /\ source = d
       /\ object' = [object EXCEPT ![d] = d]

\* "the object store is inconsistent", or "source changed while publishing".
PublishFails(source, d) ==
    /\ object[d] # d
    /\ object[d] # Missing \/ source # d

\* ingest_input: the bytes, then the row.  Uploads come before submissions.
IngestInput(c) ==
    /\ c \notin ToSet(inputRows)
    /\ \A r \in Runs : submitter[r].pc = "none"
    /\ Unlocked
    /\ Publish(c, c)
    /\ inputRows' = Append(inputRows, c)
    /\ UNCHANGED <<host, workspace, artifactRows, run, ended, submitter, work,
                   exportVars, faults, damaged>>

-----------------------------------------------------------------------------
(* WorkflowRuntime.submit: checking, freezing and hashing the staged input *)

HostPath == [from |-> "host", row |-> 0]

Submitting(r, pc, decl, digest) ==
    submitter' = [submitter EXCEPT ![r] =
                      [pc |-> pc, decl |-> decl, digest |-> digest]]

SubmitUnchanged ==
    UNCHANGED <<host, workspace, artifactRows, ended, work, exportVars,
                faults, damaged>>

\* _check_inputs; then _freeze_host_inputs hashes the host file, if there is
\* one, in ingest_input_file.
CheckInputs(r) ==
    /\ submitter[r].pc = "none"
    /\ \/ /\ "host" \in FromOf[r]
          /\ r \in Required => host # Missing
          /\ Submitting(r, IF host = Missing THEN "manifest" ELSE "freeze",
                        HostPath, host)
       \/ /\ "upload" \in FromOf[r]
          /\ \E i \in 1..Len(inputRows) :
                Submitting(r, "insert", [from |-> "upload", row |-> i],
                           inputRows[i])
       \/ /\ "artifact" \in FromOf[r]
          /\ \E i \in 1..Len(artifactRows) :
                LET d == artifactRows[i].digest IN
                Submitting(r, "insert", [from |-> "artifact", row |-> i],
                    IF object[d] = Missing /\ r \notin Required
                    THEN Missing ELSE d)
    /\ SubmitUnchanged
    /\ UNCHANGED <<object, inputRows, run>>

\* The host file is copied into the store -- or the request fails, because it
\* changed after it was hashed -- and the declaration becomes an input_id.
FreezeHostInputs(r) ==
    /\ submitter[r].pc = "freeze"
    /\ Unlocked
    /\ \/ /\ Publish(host, submitter[r].digest)
          /\ inputRows' = Append(inputRows, submitter[r].digest)
          /\ Submitting(r, "insert",
                        [from |-> "upload", row |-> Len(inputRows) + 1],
                        submitter[r].digest)
       \/ /\ PublishFails(host, submitter[r].digest)
          /\ Submitting(r, "none", HostPath, Missing)
          /\ UNCHANGED <<object, inputRows>>
    /\ SubmitUnchanged
    /\ UNCHANGED run

\* _input_manifest_digest of a host file that was absent when inputs were
\* frozen: the declaration still names the path, and the path is read again.
InputManifestDigest(r) ==
    /\ submitter[r].pc = "manifest"
    /\ IF host = Missing /\ r \in Required THEN Submitting(r, "none", HostPath, Missing)
       ELSE Submitting(r, "insert", HostPath, host)
    /\ SubmitUnchanged
    /\ UNCHANGED <<object, inputRows, run>>

SubmitRun(r) ==
    /\ submitter[r].pc = "insert"
    /\ Unlocked
    /\ run' = [run EXCEPT ![r] = [status |-> "queued", decl |-> submitter[r].decl,
                                  manifest |-> submitter[r].digest]]
    /\ Submitting(r, "done", HostPath, Missing)
    /\ SubmitUnchanged
    /\ UNCHANGED <<object, inputRows>>

-----------------------------------------------------------------------------
(* _run_attempt: staging                                                   *)

Goto(a, pc) == work' = [work EXCEPT ![a].pc = pc]
WorkUnchanged == UNCHANGED <<host, inputRows, submitter, exportVars, damaged>>

Numbers(r) == {n \in 1..MaxAttempts[r] : work[<<r, n>>].pc # "none"}

StartAttempt(r, n) ==
    /\ run[r].status = "queued"
    /\ n = Cardinality(Numbers(r)) + 1
    /\ Unlocked
    /\ run' = [run EXCEPT ![r].status = "running"]
    /\ work' = [work EXCEPT ![<<r, n>>].pc = "stage"]
    /\ WorkUnchanged
    /\ UNCHANGED <<object, workspace, artifactRows, ended, faults>>

RowDigest(r) ==
    IF run[r].decl.from = "artifact" THEN artifactRows[run[r].decl.row].digest
    ELSE inputRows[run[r].decl.row]

\* A required input that cannot be placed is an InputStagingError; an optional
\* one is recorded as absent.
Staged(a, content) ==
    work' = [work EXCEPT ![a] =
        [@ EXCEPT !.staged = content,
                  !.pc = IF content = Missing /\ a[1] \in Required THEN "fail"
                         ELSE "verify"]]

\* _stage_from_input: an uploaded input that is missing or altered counts as
\* absent.
StageFromInput(a, d) == Staged(a, IF Intact(d) THEN d ELSE Missing)

\* _stage_from_artifact: an artifact that is missing counts as absent; one that
\* does not match its record is an error whether required or not.
StageFromArtifact(a, d) ==
    IF object[d] \in {d, Missing} THEN Staged(a, object[d]) ELSE Goto(a, "fail")

\* _stage_inputs: a host path is copied as it is now.
StageInputs(a) ==
    LET r == a[1] IN
    /\ work[a].pc = "stage"
    /\ IF run[r].decl = HostPath THEN Staged(a, host)
       ELSE IF run[r].decl.from = "upload" THEN StageFromInput(a, RowDigest(r))
       ELSE StageFromArtifact(a, RowDigest(r))
    /\ WorkUnchanged
    /\ UNCHANGED <<object, workspace, artifactRows, run, ended, faults>>

\* Mutant: what was staged is recorded and not compared.
VerifyInputManifestNot(a) ==
    /\ work[a].pc = "verify"
    /\ Unlocked
    /\ Goto(a, "execute")
    /\ WorkUnchanged
    /\ UNCHANGED <<object, workspace, artifactRows, run, ended, faults>>

\* record_inputs, then _verify_input_manifest: what was staged must be what
\* was hashed at submission.
VerifyInputManifest(a) ==
    /\ work[a].pc = "verify"
    /\ Unlocked
    /\ Goto(a, IF work[a].staged = run[a[1]].manifest THEN "execute" ELSE "fail")
    /\ WorkUnchanged
    /\ UNCHANGED <<object, workspace, artifactRows, run, ended, faults>>

-----------------------------------------------------------------------------
(* _run_attempt: the adapter, and custody of what it produced              *)

\* The adapter has written its outputs -- or left some out -- and reported.
Execute(a) ==
    /\ work[a].pc = "execute"
    /\ \E files \in Written[a[1]], good \in BOOLEAN :
          /\ workspace' = [workspace EXCEPT ![a] = files @@ @]
          /\ work' = [work EXCEPT ![a] =
                 [@ EXCEPT !.pc = "begin", !.good = good, !.todo = OutputsOf[a[1]]]]
    /\ WorkUnchanged
    /\ UNCHANGED <<object, artifactRows, run, ended, faults>>

\* A descendant that outlived the adapter writes to the workspace.
StrayWrite(a, k, c) ==
    /\ work[a].pc \in {"begin", "declare", "publish", "evidence", "fail"}
    /\ workspace' = [workspace EXCEPT ![a][k] = c]
    /\ Fault
    /\ WorkUnchanged
    /\ UNCHANGED <<object, work, artifactRows, run, ended>>

\* Where an exception leads: to _record_runtime_failure, which swallows the
\* next one.
Raised(a) == IF work[a].mode = "raised" THEN "finish" ELSE "fail"

\* register_artifacts: BEGIN IMMEDIATE.
Begin(a) ==
    /\ work[a].pc = "begin"
    /\ Unlocked
    /\ work' = [work EXCEPT ![a] = [@ EXCEPT !.pc = "declare", !.rows = << >>]]
    /\ WorkUnchanged
    /\ UNCHANGED <<object, workspace, artifactRows, run, ended, faults>>

\* The declared file is hashed; without one, ROLLBACK.
Declare(a) ==
    LET file == workspace[a][Head(work[a].todo)] IN
    /\ work[a].pc = "declare" /\ work[a].todo # << >>
    /\ IF file \in Contents
       THEN work' = [work EXCEPT ![a] = [@ EXCEPT !.pc = "publish", !.digest = file]]
       ELSE Goto(a, Raised(a))
    /\ WorkUnchanged
    /\ UNCHANGED <<object, workspace, artifactRows, run, ended, faults>>

RowsOf(a) == {i \in 1..Len(artifactRows) : artifactRows[i].attempt = a}

\* UNIQUE(attempt_id, store_key) refuses a second row of a file.
Duplicate(a, k) ==
    \/ \E i \in RowsOf(a) : artifactRows[i].key = k
    \/ \E i \in 1..Len(work[a].rows) : work[a].rows[i].key = k

\* Mutant: a file that changed while it was published keeps its row.
PublishDeclaredAnyway(a) ==
    LET k == Head(work[a].todo)
        d == work[a].digest
    IN  /\ work[a].pc = "publish"
        /\ \/ /\ Publish(workspace[a][k], d)
              /\ work' = [work EXCEPT ![a] =
                     [@ EXCEPT !.pc = "declare", !.todo = Tail(@),
                               !.rows = Append(@, [attempt |-> a, key |-> k,
                                                   digest |-> d])]]
           \/ /\ PublishFails(workspace[a][k], d)
              /\ work' = [work EXCEPT ![a] =
                     [@ EXCEPT !.pc = "declare", !.todo = Tail(@),
                               !.rows = Append(@, [attempt |-> a, key |-> k,
                                                   digest |-> d])]]
              /\ UNCHANGED object
        /\ WorkUnchanged
        /\ UNCHANGED <<workspace, artifactRows, run, ended, faults>>

\* _store_object, and the row -- which is only there once the loop commits.
PublishDeclared(a) ==
    LET k == Head(work[a].todo)
        d == work[a].digest
    IN  /\ work[a].pc = "publish"
        /\ \/ /\ Publish(workspace[a][k], d)
              /\ IF Duplicate(a, k) THEN Goto(a, Raised(a))
                 ELSE work' = [work EXCEPT ![a] =
                          [work[a] EXCEPT !.pc = "declare", !.todo = Tail(@),
                              !.rows = Append(@, [attempt |-> a, key |-> k,
                                                  digest |-> d])]]
           \/ /\ PublishFails(workspace[a][k], d)
              /\ Goto(a, Raised(a))
              /\ UNCHANGED object
        /\ WorkUnchanged
        /\ UNCHANGED <<workspace, artifactRows, run, ended, faults>>

\* COMMIT.  A result that is not a success has its evidence registered next.
Commit(a) ==
    /\ work[a].pc = "declare" /\ work[a].todo = << >>
    /\ artifactRows' = artifactRows \o work[a].rows
    /\ Goto(a, IF work[a].mode = "result" /\ ~ work[a].good THEN "evidence"
               ELSE "finish")
    /\ WorkUnchanged
    /\ UNCHANGED <<object, workspace, run, ended, faults>>

\* Mutant: evidence is registered without looking at what is.
EvidenceOfAll(a) ==
    SelectSeq(OutputsOf[a[1]], LAMBDA k : k \in EvidenceKeys /\ workspace[a][k] # Missing)

\* The evidence files that exist and are not registered.
EvidenceOf(a) ==
    SelectSeq(OutputsOf[a[1]], LAMBDA k :
        /\ k \in EvidenceKeys
        /\ k \notin {artifactRows[i].key : i \in RowsOf(a)}
        /\ workspace[a][k] # Missing)

\* _register_failure_evidence: the same transaction again, for those files;
\* with none it returns at once.
RegisterFailureEvidence(a) ==
    /\ work[a].pc \in {"fail", "evidence"}
    /\ work' = [work EXCEPT ![a] =
           [@ EXCEPT !.pc = IF EvidenceOf(a) = << >> THEN "finish" ELSE "begin",
                     !.mode = IF work[a].pc = "fail" THEN "raised" ELSE "failed",
                     !.todo = EvidenceOf(a)]]
    /\ WorkUnchanged
    /\ UNCHANGED <<object, workspace, artifactRows, run, ended, faults>>

\* finish_attempt, then a retry or the run's last transition.  Both are refused
\* for an attempt that was reclaimed meanwhile: the exception leads through
\* _record_runtime_failure, which ends the run if it finds it running.
Finish(a) ==
    LET r == a[1]
        raised == work[a].mode = "raised"
    IN  /\ work[a].pc = "finish"
        /\ Unlocked
        /\ ended' = ended \cup {a}
        /\ Goto(a, IF a \in ended /\ ~ raised THEN "fail" ELSE "done")
        /\ \/ /\ a \notin ended \/ raised
              /\ run' = [run EXCEPT ![r].status =
                             IF @ = "running" THEN "ended" ELSE @]
           \/ /\ a \notin ended /\ ~ raised /\ ~ work[a].good
              /\ a[2] < MaxAttempts[a[1]] /\ run[r].status = "running"
              /\ run' = [run EXCEPT ![r].status = "queued"]
           \/ /\ a \in ended /\ ~ raised
              /\ UNCHANGED run
        /\ WorkUnchanged
        /\ UNCHANGED <<object, workspace, artifactRows, faults>>

\* The lease expires and the attempt is reclaimed; its worker does not know.
Reclaim(a) ==
    /\ work[a].pc \notin {"none", "done"}
    /\ a \notin ended
    /\ Unlocked
    /\ ended' = ended \cup {a}
    /\ run' = [run EXCEPT ![a[1]].status =
                   IF @ = "running" /\ a[2] < MaxAttempts[a[1]] THEN "queued" ELSE "ended"]
    /\ WorkUnchanged
    /\ Loss
    /\ UNCHANGED <<object, workspace, artifactRows, work>>

\* The worker dies inside the transaction, which rolls back.
Crash(a) ==
    /\ Registering(a)
    /\ Goto(a, "dead")
    /\ WorkUnchanged
    /\ Loss
    /\ UNCHANGED <<object, workspace, artifactRows, run, ended>>

-----------------------------------------------------------------------------
(* export_run_bundle                                                       *)

RowsOfRun(r) == {i \in 1..Len(artifactRows) : artifactRows[i].attempt[1] = r}

\* Nothing more can be registered for the run.
Settled(r) ==
    /\ run[r].status = "ended"
    /\ \A n \in 1..MaxAttempts[r] : work[<<r, n>>].pc \in {"none", "done", "dead"}

\* runtime_inputs of the run: the uploaded inputs its attempts have recorded as
\* present.
InputsOfRun(r) ==
    {RowDigest(r) : n \in {m \in Numbers(r) :
        /\ run[r].decl.from = "upload"
        /\ work[<<r, m>>].pc \notin {"stage", "verify"}
        /\ work[<<r, m>>].staged # Missing}}

ExportUnchanged == UNCHANGED <<fileVars, rowVars, submitter, work, faults, damaged>>

\* Mutant: only the latest attempt goes into the bundle.
ViewRunLatestOnly(r) ==
    LET n == Cardinality(Numbers(r)) IN
    /\ exporter.pc = "idle" /\ r \in Exported
    /\ n > 0
    /\ ~ bundle[<<r, n>>].made
    /\ exporter' = [pc |-> "archive", run |-> r, number |-> n,
                    rows |-> RowsOf(<<r, n>>), inputs |-> InputsOfRun(r),
                    settled |-> Settled(r)]
    /\ UNCHANGED bundle
    /\ ExportUnchanged

\* describe_run: a bundle of the latest attempt is returned as it is.
ViewRun(r) ==
    LET n == Cardinality(Numbers(r)) IN
    /\ exporter.pc = "idle" /\ r \in Exported
    /\ n > 0
    /\ ~ bundle[<<r, n>>].made
    /\ exporter' = [pc |-> "archive", run |-> r, number |-> n,
                    rows |-> RowsOfRun(r), inputs |-> InputsOfRun(r),
                    settled |-> Settled(r)]
    /\ UNCHANGED bundle
    /\ ExportUnchanged

\* _register_file: the attempt keeps the bundle it has, if another export was
\* first.
RegisterFile(old, new) == IF old.made THEN old ELSE new

\* Every artifact goes into the archive with its hash verified, and so do the
\* staged inputs; one failure ends the export.
StoreBundle ==
    LET a == <<exporter.run, exporter.number>>
        verified ==
            /\ \A i \in exporter.rows : Intact(artifactRows[i].digest)
            /\ \A d \in exporter.inputs : Intact(d)
        archive == [made |-> TRUE, rows |-> exporter.rows,
                    settled |-> exporter.settled]
    IN  /\ exporter.pc = "archive"
        /\ Unlocked
        /\ bundle' = [bundle EXCEPT ![a] =
                          IF verified THEN RegisterFile(@, archive) ELSE @]
        /\ exporter' = IdleExporter
        /\ ExportUnchanged

-----------------------------------------------------------------------------
(* The environment, and the whole system                                   *)

EditHost(c) ==
    /\ host # c
    /\ host' = c
    /\ Fault
    /\ UNCHANGED damaged
    /\ UNCHANGED <<object, workspace, rowVars, submitter, work, exportVars>>

Damage(d, c) ==
    /\ Intact(d)
    /\ object' = [object EXCEPT ![d] = c]
    /\ Fault
    /\ damaged' = TRUE
    /\ UNCHANGED <<host, workspace, rowVars, submitter, work, exportVars>>

Init ==
    /\ host \in HostAtStart
    /\ object = [d \in Contents |-> IF d \in ToSet(Earlier) THEN d ELSE Missing]
    /\ inputRows = << >>
    /\ artifactRows = [i \in 1..Len(Earlier) |->
          [attempt |-> EarlierAttempt, key |-> "out", digest |-> Earlier[i]]]
    /\ run = [r \in Runs |-> [status |-> "absent", decl |-> HostPath, manifest |-> Missing]]
    /\ submitter = [r \in Runs |-> [pc |-> "none", decl |-> HostPath, digest |-> Missing]]
    /\ work = [a \in Attempts |-> IdleWork]
    /\ ended = {}
    /\ workspace = [a \in Attempts |-> [k \in Keys |-> Missing]]
    /\ bundle = [a \in Attempts |-> NoBundle]
    /\ exporter = IdleExporter
    /\ faults = [files |-> 0, lost |-> 0]
    /\ damaged = FALSE

Submission(r) ==
    CheckInputs(r) \/ FreezeHostInputs(r) \/ InputManifestDigest(r) \/ SubmitRun(r)

Attempting(a) ==
    \/ StartAttempt(a[1], a[2]) \/ StageInputs(a) \/ VerifyInputManifest(a)
    \/ Execute(a) \/ Begin(a) \/ Declare(a) \/ PublishDeclared(a) \/ Commit(a)
    \/ RegisterFailureEvidence(a) \/ Finish(a) \/ Reclaim(a) \/ Crash(a)
    \/ \E k \in ToSet(OutputsOf[a[1]]), c \in Contents : StrayWrite(a, k, c)

Next ==
    \/ \E c \in Uploads : IngestInput(c)
    \/ \E r \in Runs : Submission(r) \/ ViewRun(r)
    \/ \E a \in Attempts : Attempting(a)
    \/ StoreBundle
    \/ \E c \in Contents \cup {Missing} : EditHost(c)
    \/ \E d \in Contents, c \in {Missing, Garbage} : Damage(d, c)

Spec == Init /\ [][Next]_vars

-----------------------------------------------------------------------------
(* Properties                                                              *)

\* Whatever a row names is in the object store under its own digest, however
\* registrations fail, crash or roll back half way and whoever publishes the
\* same bytes at the same time.  Only the disk can break it.
RowsHaveTheirBytes ==
    ~ damaged =>
        /\ \A i \in 1..Len(inputRows) : Intact(inputRows[i])
        /\ \A i \in 1..Len(artifactRows) : Intact(artifactRows[i].digest)

\* Even on a bad disk, no object is ever published that is not its digest:
\* what is at a digest's path is that content, or damage, never another file.
NoForeignObject == \A d \in Contents : object[d] \in {d, Missing, Garbage}

\* An adapter starts only on the bytes that were hashed when the run was
\* submitted, whatever happened to the host file, the object or the artifact
\* in between: "input bytes changed after submission; execution was refused".
ExecutesWhatWasSubmitted ==
    \A a \in Attempts :
        work[a].pc \in {"execute", "begin"} /\ work[a].mode = "result" =>
            work[a].staged = run[a[1]].manifest

\* No registration is refused because a file has its row already, although a
\* failing attempt registers its evidence up to three times over: the evidence
\* of a failure is never lost to what the attempt registered before.
NeverADuplicate ==
    \A a \in Attempts :
        work[a].pc = "publish" => ~ Duplicate(a, Head(work[a].todo))

LatestBundle(r) == bundle[<<r, Cardinality(Numbers(r))>>]

\* A bundle that was exported once nothing could be added any more has every
\* artifact of every attempt of the run, and stays that way.
SettledBundleIsComplete ==
    \A r \in Runs : Numbers(r) # {} /\ LatestBundle(r).settled =>
        RowsOfRun(r) \subseteq LatestBundle(r).rows

\* The bundle of a finished run is "evidence-complete" (bundle.py), and is
\* registered with "complete": True.  An export that came before the last
\* registration is what every later export returns.
BundleIsComplete ==
    \A r \in Runs : Settled(r) /\ Numbers(r) # {} /\ LatestBundle(r).made =>
        RowsOfRun(r) \subseteq LatestBundle(r).rows
=============================================================================
