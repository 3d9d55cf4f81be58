------------------------------ MODULE Attempt ------------------------------
(***************************************************************************)
(* One attempt, from the registry that resolves its plugin to the rows it  *)
(* leaves (core/registry, core/runtime: runtime.py and adapter.py,         *)
(* core/evaluator: boundary.py).                                           *)
(*                                                                         *)
(* The gateway and the worker each load the registry when they start, from *)
(* admission records and checkouts that change under them.  The adapter    *)
(* and then the protected evaluator run in the attempt workspace, where    *)
(* files may be left by an earlier attempt of a resumable task, and may be *)
(* written by a process that outlived the adapter.  A file is known here   *)
(* by who wrote it: "earlier", "platform", "adapter", "judge" or "stray".  *)
(***************************************************************************)
EXTENDS Integers, FiniteSets

CONSTANTS
    Manifests,     \* what the manifest of the plugin may ask for
    Commits,
    MaxEdits,      \* bound: changes of records and checkouts
    MaxLoads,      \* bound: starts of a process
    MaxLate        \* bound: writes by a process that outlived the adapter

Plugins == {"flow", "judge"}
Hosts == {"gateway", "worker"}
NoFile == "none"

ASSUME AttemptAssumption ==
    /\ Manifests \subseteq [evaluated: BOOLEAN, receipt: BOOLEAN,
                            resumable: BOOLEAN, collects: BOOLEAN]
    /\ {MaxEdits, MaxLoads, MaxLate} \subseteq Nat
    /\ Commits \cap {"unstated", "malformed"} = {}

VARIABLES
    trust,      \* admission record and checkout of each plugin, on disk
    registry,   \* what each process loaded
    manifest,   \* the plugin's manifest
    run,        \* "absent", "queued", "running", "ended"
    att,        \* the attempt: pc, exit, result, verdict, status
    file,       \* the workspace: who wrote each file
    row,        \* rows of the attempt: artifacts, metrics
    evidence,   \* snapshot_evidence, and the evidence a failure registers
    count

diskVars == <<trust, registry, manifest, run>>
vars == <<diskVars, att, file, row, evidence, count>>

Step(pc) == att.pc = pc
Goto(pc) == att' = [att EXCEPT !.pc = pc]
Raise == Goto("raised")
Rest == UNCHANGED <<diskVars, count>>

-----------------------------------------------------------------------------
(* The registry.  Its files change, and processes start, before the        *)
(* attempt does: what happens later only matters to the next one.          *)

Records == [record: {"admitted", "audit", "none", "broken"},
            approved: Commits, declared: Commits \cup {"unstated", "malformed"}]

\* _load_plugin: a broken admission or a malformed provenance is an error, and
\* so is a checkout that declares another commit than the reviewed one.
Loads(t) ==
    /\ t.record # "broken"
    /\ t.declared # "malformed"
    /\ t.record \in {"admitted", "audit"} /\ t.declared \in Commits =>
           t.declared = t.approved

\* from_directory: one plugin that does not load, and the process does not
\* start.
LoadRegistry(h) ==
    /\ Step("none") /\ count.loads[h] < MaxLoads
    /\ count' = [count EXCEPT !.loads[h] = @ + 1]
    /\ registry' = [registry EXCEPT ![h] =
           IF \A p \in Plugins : Loads(trust[p])
           THEN [up |-> TRUE,
                 executable |-> {p \in Plugins : trust[p].record = "admitted"},
                 seen |-> trust]
           ELSE [up |-> FALSE, executable |-> {}, seen |-> trust]]
    /\ UNCHANGED <<trust, manifest, run, att, file, row, evidence>>

EditTrust(p, t) ==
    /\ Step("none") /\ count.edits < MaxEdits
    /\ t # trust[p]
    /\ trust' = [trust EXCEPT ![p] = t]
    /\ count' = [count EXCEPT !.edits = @ + 1]
    /\ UNCHANGED <<registry, manifest, run, att, file, row, evidence>>

\* resolve: the plugin must be admitted.
Resolves(h) == registry[h].up /\ "flow" \in registry[h].executable

\* resolve_evaluator, when the worker starts: a judge that is not executable
\* leaves the worker without an evaluator.
HasEvaluator == "judge" \in registry["worker"].executable

Submit ==
    /\ run = "absent" /\ Resolves("gateway")
    /\ run' = "queued"
    /\ UNCHANGED <<trust, registry, manifest, att, file, row, evidence, count>>

-----------------------------------------------------------------------------
(* execute_once and _run_attempt                                           *)

\* The workspace of a resumable task is the one of its earlier attempt.
StartAttempt ==
    /\ run = "queued" /\ Resolves("worker") /\ Step("none")
    /\ run' = "running"
    /\ Goto("receipt")
    /\ file' = IF manifest.resumable THEN [f \in DOMAIN file |-> "earlier"] ELSE file
    /\ UNCHANGED <<trust, registry, manifest, row, evidence, count>>

\* _write_protocol_receipt, which needs the protocol among the inputs.
WriteProtocolReceipt ==
    /\ Step("receipt")
    /\ IF manifest.receipt
       THEN \/ Raise /\ UNCHANGED file
            \/ Goto("launch") /\ file' = [file EXCEPT !.receipt = "platform"]
       ELSE Goto("launch") /\ UNCHANGED file
    /\ Rest /\ UNCHANGED <<row, evidence>>

\* Mutant: the result of an earlier attempt is left where it is.
LaunchOverOldResult ==
    /\ Step("launch")
    /\ Goto("adapter")
    /\ UNCHANGED file
    /\ Rest /\ UNCHANGED <<row, evidence>>

\* execute: an old result file is removed before the process starts.
Launch ==
    /\ Step("launch")
    /\ Goto("adapter")
    /\ file' = [file EXCEPT !.result = NoFile]
    /\ Rest /\ UNCHANGED <<row, evidence>>

\* What an adapter says in its result file, if it says anything valid: a
\* metric may cite a file that it does not declare.
Reports == [valid: BOOLEAN, status: {"succeeded", "failed"}, exit: {0, 1},
            declares: SUBSET {"out"}, cites: SUBSET {"out", "scratch"}]
Silence == [valid |-> FALSE, status |-> "failed", exit |-> 1,
            declares |-> {}, cites |-> {}]

\* The guardian returns, or raises.  The adapter may have written its result
\* and its output, may have touched the receipt, and leaves a scratch file.
RunAdapter ==
    /\ Step("adapter")
    /\ \/ Raise /\ UNCHANGED file
       \/ \E how \in {"exited", "cancelled", "timed_out", "exceeded"},
             code \in {0, 1}, said \in Reports,
             wrote \in SUBSET {"result", "out", "receipt"} :
             /\ how # "exited" => code = 1
             /\ how # "exited" \/ "result" \notin wrote => said = Silence
             /\ ~ said.valid => said = Silence
             /\ att' = [att EXCEPT !.pc = "load", !.how = how, !.exit = code,
                                   !.said = said]
             /\ file' = [f \in DOMAIN file |->
                            IF f \in wrote \cup {"scratch"} THEN "adapter"
                            ELSE file[f]]
    /\ Rest /\ UNCHANGED <<row, evidence>>

\* The result file as _load_result finds it: another author's says anything.
Loaded ==
    IF file.result = "adapter" THEN {att.said} ELSE Reports

Decide(status, declares, cites) ==
    att' = [att EXCEPT !.pc = "forged", !.status = status, !.by = file.result,
                       !.said = [Silence EXCEPT !.declares = declares,
                                                !.cites = cites]]

\* validate_artifact_declarations: what is declared must exist, and a success
\* must declare what is required.
DeclarationsValid(said) ==
    /\ \A f \in said.declares : file[f] # NoFile
    /\ said.status = "succeeded" => "out" \in said.declares

\* Mutant: the exit code is not compared with the claim.
LoadResultTrusting ==
    /\ Step("load")
    /\ IF att.how # "exited"
       THEN Decide(IF att.how = "exceeded" THEN "failed" ELSE att.how, {}, {})
       ELSE IF file.result = NoFile THEN Decide("failed", {}, {})
       ELSE \E said \in Loaded :
            IF /\ said.valid
               /\ DeclarationsValid(said)
            THEN Decide(said.status, said.declares, said.cites)
            ELSE Decide("failed", {}, {})
    /\ Rest /\ UNCHANGED <<file, row, evidence>>

\* _load_result: a stop decides before any file is read; a file must be there,
\* be valid and agree with the exit code, and so must its declarations.
\* Everything else is a protocol failure.
LoadResult ==
    /\ Step("load")
    /\ IF att.how # "exited"
       THEN Decide(IF att.how = "exceeded" THEN "failed" ELSE att.how, {}, {})
       ELSE IF file.result = NoFile THEN Decide("failed", {}, {})
       ELSE \E said \in Loaded :
            IF /\ said.valid
               /\ said.status = "succeeded" => att.exit = 0
               /\ said.exit = att.exit
               /\ DeclarationsValid(said)
            THEN Decide(said.status, said.declares, said.cites)
            ELSE Decide("failed", {}, {})
    /\ Rest /\ UNCHANGED <<file, row, evidence>>

\* _reject_forged_authority: a declaration may claim what only the platform or
\* the evaluator may.
MayBeForged == att.said.declares # {}

\* A forged claim raises; otherwise snapshot_evidence copies the evidence files
\* out of the workspace.
SnapshotEvidence ==
    /\ Step("forged")
    /\ \/ MayBeForged /\ Raise /\ UNCHANGED evidence
       \/ Goto("own") /\ evidence' = [evidence EXCEPT !.snapshot = file.result]
    /\ Rest /\ UNCHANGED <<file, row>>

\* "adapter modified the platform's own" receipt.
CheckOwnFiles ==
    /\ Step("own")
    /\ IF manifest.receipt /\ file.receipt # "platform" THEN Raise
       ELSE Goto(IF att.status = "succeeded" THEN "evaluate" ELSE "collect")
    /\ Rest /\ UNCHANGED <<file, row, evidence>>

\* _evaluate: without an evaluator, only a plugin that does not require one
\* goes on.
Evaluate ==
    /\ Step("evaluate")
    /\ IF HasEvaluator
       THEN /\ Goto("judge")
            /\ file' = [file EXCEPT !.result = NoFile]
       ELSE /\ IF manifest.evaluated THEN Raise ELSE Goto("collect")
            /\ UNCHANGED file
    /\ Rest /\ UNCHANGED <<row, evidence>>

\* What the evaluator may answer.  An admissible verdict has a metric, and every
\* metric cites a file; a verdict may also name files as its own artifacts.
Verdicts ==
    {v \in [status: {"admissible", "rejected", "incomplete"},
            cites: {{}, {"out"}, {"scratch"}}, names: {{}, {"out"}, {"scratch"}}] :
        v.status = "admissible" => v.cites # {}}

\* evaluate_with_evidence: the evaluator is an adapter too, in the same
\* workspace.  It fails, with or without a result; or its verdict names and
\* cites files, registered or not, which must exist; only "rejected" is
\* refused.
RunJudge ==
    /\ Step("judge")
    /\ \/ Raise /\ UNCHANGED file
       \/ /\ file' = [file EXCEPT !.result = "judge"]
          /\ \E v \in Verdicts :
                IF v.status # "rejected" /\ \A f \in v.cites \cup v.names : file[f] # NoFile
                THEN att' = [att EXCEPT !.pc = "collect", !.verdict = v.status,
                                        !.judged = v.cites, !.named = v.names]
                ELSE Raise
    /\ Rest /\ UNCHANGED <<row, evidence>>

\* _collect_manifest_artifacts: a required collection that matches nothing
\* raises.
CollectManifestArtifacts ==
    /\ Step("collect")
    /\ IF manifest.collects /\ file.rep = NoFile THEN Raise ELSE Goto("register")
    /\ Rest /\ UNCHANGED <<file, row, evidence>>

\* register_artifacts takes all of them or, with one file gone, none; and none
\* if the adapter and the evaluator both declare the same file.
RegisterArtifacts ==
    LET wanted == att.said.declares \cup att.named
                  \cup (IF manifest.collects THEN {"rep"} ELSE {})
                  \cup (IF manifest.receipt THEN {"receipt"} ELSE {})
    IN  /\ Step("register")
        /\ IF (\E f \in wanted : file[f] = NoFile) \/ att.said.declares \cap att.named # {}
           THEN Raise /\ UNCHANGED row
           ELSE /\ row' = [row EXCEPT !.artifacts = [f \in wanted |-> file[f]]]
                /\ Goto(IF att.status = "succeeded" THEN "metrics" ELSE "failed")
        /\ Rest /\ UNCHANGED <<file, evidence>>

Cited == att.said.cites \cup att.judged

\* Mutant: a metric is stored whatever it cites.
RegisterMetricsUntraced ==
    /\ Step("metrics")
    /\ row' = [row EXCEPT !.metrics = Cited]
    /\ Goto("finish")
    /\ Rest /\ UNCHANGED <<file, evidence>>

\* _register_metrics: a metric that cites an artifact which was not registered
\* is an error.
Unsourced == Cited \ DOMAIN row.artifacts

\* register_metrics stores all of them in one transaction, or none.
RegisterMetrics ==
    /\ Step("metrics")
    /\ IF Unsourced = {}
       THEN row' = [row EXCEPT !.metrics = Cited] /\ Goto("finish")
       ELSE Raise /\ UNCHANGED row
    /\ Rest /\ UNCHANGED <<file, evidence>>

\* Mutant: the snapshot is taken again when the attempt has failed.
RegisterFailureEvidenceOver ==
    /\ Step("failed") \/ Step("raised")
    /\ evidence' = [snapshot |-> file.result, failure |-> file.result]
    /\ att' = [att EXCEPT !.pc = "finish",
                          !.status = IF Step("raised") THEN "failed" ELSE @]
    /\ Rest /\ UNCHANGED <<file, row>>

\* _register_failure_evidence takes the files that are in the workspace now.
\* An exception made the attempt a failure whatever the result said.
RegisterFailureEvidence ==
    /\ Step("failed") \/ Step("raised")
    /\ evidence' = [evidence EXCEPT !.failure = file.result]
    /\ att' = [att EXCEPT !.pc = "finish",
                          !.status = IF Step("raised") THEN "failed" ELSE @]
    /\ Rest /\ UNCHANGED <<file, row>>

Finish ==
    /\ Step("finish")
    /\ Goto("done")
    /\ run' = "ended"
    /\ UNCHANGED <<trust, registry, manifest, file, row, evidence, count>>

\* A process that outlived the adapter writes or removes a file.
StrayWrite(f, a) ==
    /\ count.late < MaxLate
    /\ att.pc \in {"load", "forged", "own", "evaluate", "judge", "collect", "register"}
    /\ file[f] # a
    /\ file' = [file EXCEPT ![f] = a]
    /\ count' = [count EXCEPT !.late = @ + 1]
    /\ UNCHANGED <<diskVars, att, row, evidence>>

-----------------------------------------------------------------------------
Reviewed(c) == [record |-> "admitted", approved |-> c, declared |-> c]

Init ==
    /\ trust = [p \in Plugins |-> Reviewed(CHOOSE c \in Commits : TRUE)]
    /\ registry = [h \in Hosts |-> [up |-> FALSE, executable |-> {}, seen |-> trust]]
    /\ manifest \in Manifests
    /\ run = "absent"
    /\ att = [pc |-> "none", how |-> "none", exit |-> 0, status |-> "running",
              by |-> NoFile, verdict |-> "none", judged |-> {}, named |-> {},
              said |-> Silence]
    /\ file = [f \in {"result", "out", "rep", "receipt", "scratch"} |-> NoFile]
    /\ row = [artifacts |-> << >>, metrics |-> {}]
    /\ evidence = [snapshot |-> NoFile, failure |-> NoFile]
    /\ count = [edits |-> 0, late |-> 0, loads |-> [h \in Hosts |-> 0]]

RunAttempt ==
    \/ StartAttempt \/ WriteProtocolReceipt \/ Launch \/ RunAdapter \/ LoadResult
    \/ SnapshotEvidence \/ CheckOwnFiles \/ Evaluate \/ RunJudge
    \/ CollectManifestArtifacts \/ RegisterArtifacts \/ RegisterMetrics
    \/ RegisterFailureEvidence \/ Finish

Next ==
    \/ \E h \in Hosts : LoadRegistry(h)
    \/ \E p \in Plugins, t \in Records : EditTrust(p, t)
    \/ Submit \/ RunAttempt
    \/ \E f \in DOMAIN file, a \in {"stray", NoFile} : StrayWrite(f, a)

Spec == Init /\ [][Next]_vars

-----------------------------------------------------------------------------
(* Properties                                                              *)

Succeeded == Step("done") /\ att.status = "succeeded"

\* An attempt succeeds only if its process exited by itself with code 0, it
\* left and registered the required artifact, and -- where the manifest asks
\* for it -- the protected evaluator has produced a verdict that does not reject
\* it; and its worker had loaded the plugin as admitted at the commit it
\* declares, whatever the records and the workspace did meanwhile.
SuccessIsEarned ==
    Succeeded =>
        /\ att.how = "exited" /\ att.exit = 0
        /\ "out" \in DOMAIN row.artifacts
        /\ manifest.evaluated => att.verdict \in {"admissible", "incomplete"}
        /\ LET t == registry["worker"].seen["flow"] IN
           t.record = "admitted" /\ t.declared \in {t.approved, "unstated"}

\* No outcome is read from a result that an earlier attempt left in the
\* workspace of a resumable task.
ResultIsNotLeftOver == att.status # "running" => att.by # "earlier"

\* The result that snapshot_evidence keeps is the one that decided the
\* attempt, although the evaluator overwrites it in the workspace: unless a
\* process that outlived the adapter wrote in between.
SnapshotDecided ==
    /\ evidence.snapshot # NoFile /\ att.how = "exited" /\ count.late = 0
    => evidence.snapshot = att.by

\* What an attempt leaves in the store can be traced: every stored metric that
\* cites an artifact cites one of this attempt, an attempt that did not succeed
\* stores none, and the registered receipt is the platform's own, unless
\* something wrote to the workspace after it was compared.
RowsAreTraced ==
    /\ row.metrics \subseteq DOMAIN row.artifacts
    /\ Step("done") /\ row.metrics # {} => att.status = "succeeded"
    /\ "receipt" \in DOMAIN row.artifacts /\ count.late = 0 =>
          row.artifacts["receipt"] = "platform"
=============================================================================
