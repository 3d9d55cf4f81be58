------------------------------ MODULE Guardian ------------------------------
(***************************************************************************)
(* ProcessGuardian.run (core/runtime: guardian.py) and what it calls while *)
(* an adapter runs: the lease pulse (runtime.py), the output reader thread *)
(* and the progress observer (observer.py).                                *)
(*                                                                         *)
(* The adapter is a tree of processes that fork, leave their session,      *)
(* write lines and exit as they please.  A process whose parent exits      *)
(* belongs to init from then on.  SIGTERM only invites a process to exit,  *)
(* which it may do anyway; SIGKILL ends it.  A walk over /proc sees the    *)
(* tree at one instant.                                                    *)
(***************************************************************************)
EXTENDS Integers, Sequences, FiniteSets

CONSTANTS
    Root,                  \* the process that Popen starts
    Descendants,           \* processes the tree may fork
    Init1,                 \* the parent of an orphan
    ProcessLimit,          \* limits.processes
    TELEMETRY_QUEUE_SIZE,
    DRAIN_BATCH,
    FINAL_DRAIN_BATCH,
    MaxRecordFailures      \* bound: record_event raising

Procs == {Root} \cup Descendants

\* decode_progress_line: a line starts a stage, finishes it, is an envelope that
\* cannot be decoded, or is ordinary output.
Kinds == {"started", "finished", "malformed", "other"}

ASSUME GuardianAssumption ==
    /\ Root \notin Descendants /\ Init1 \notin Procs
    /\ {ProcessLimit, DRAIN_BATCH, FINAL_DRAIN_BATCH} \subseteq Nat \ {0}
    /\ FINAL_DRAIN_BATCH <= TELEMETRY_QUEUE_SIZE
    /\ TELEMETRY_QUEUE_SIZE \in Nat /\ MaxRecordFailures \in Nat

VARIABLES
    running,   \* the processes that run
    unborn,    \* the processes nobody forked yet
    parent,    \* ppid
    group,     \* pgid
    pipe,      \* lines in the pipe, 0 or 1
    queue,     \* lines in the telemetry queue
    reader,    \* the reader thread: "new", "reading", "done"
    dropped,   \* dropped_telemetry is not 0
    guard,     \* pc, reason, targets and drain budget of run()
    late,      \* the deadline has passed
    observer,  \* ProgressObserver: what it has seen, events, failures
    log        \* the log file, "open" or "closed"

procVars == <<running, unborn, parent, group>>
lineVars == <<pipe, queue, reader, dropped>>
vars == <<procVars, lineVars, guard, late, observer, log>>

-----------------------------------------------------------------------------
(* The process tree                                                        *)

Children(p) == {c \in running : parent[c] = p}

\* _process_tree: the root, running or not, and its descendants by ppid.
ProcessTree ==
    LET level1 == Children(Root)
        level2 == UNION {Children(p) : p \in level1}
        level3 == UNION {Children(p) : p \in level2}
    IN  {Root} \cup level1 \cup level2 \cup level3

Fork(p, c) ==
    /\ p \in running /\ c \in unborn
    /\ running' = running \cup {c}
    /\ unborn' = unborn \ {c}
    /\ parent' = [parent EXCEPT ![c] = p]
    /\ group' = [group EXCEPT ![c] = group[p]]
    /\ UNCHANGED <<lineVars, guard, late, observer, log>>

Setsid(p) ==
    /\ p \in running /\ p # Root /\ group[p] # p
    /\ group' = [group EXCEPT ![p] = p]
    /\ UNCHANGED <<running, unborn, parent, lineVars, guard, late, observer, log>>

\* The processes of a set are gone, and their children belong to init.
Gone(ps) ==
    /\ running' = running \ ps
    /\ parent' = [p \in Procs |-> IF p \in ps \/ parent[p] \in ps THEN Init1
                                  ELSE parent[p]]
    /\ group' = [p \in Procs |-> IF p \in ps THEN Root ELSE group[p]]
    /\ UNCHANGED unborn

Exit(p) ==
    /\ p \in running
    /\ Gone({p})
    /\ UNCHANGED <<lineVars, guard, late, observer, log>>

Write(p) ==
    /\ p \in running /\ pipe = 0 /\ reader # "done"
    /\ pipe' = 1
    /\ UNCHANGED <<procVars, queue, reader, dropped, guard, late, observer, log>>

-----------------------------------------------------------------------------
(* The reader thread                                                       *)

\* _read_output: into the log, then into the queue unless it is full.  Once
\* run has closed the log, the thread dies of the write.
ReadLine ==
    /\ reader = "reading" /\ pipe = 1
    /\ pipe' = 0
    /\ reader' = IF log = "closed" THEN "done" ELSE "reading"
    /\ LET full == queue >= TELEMETRY_QUEUE_SIZE
           put == log # "closed" /\ ~ full
       IN  /\ queue' = IF put THEN queue + 1 ELSE queue
           /\ dropped' = (dropped \/ (log # "closed" /\ full))
    /\ UNCHANGED <<procVars, guard, late, observer, log>>

\* Every process of the tree holds the pipe open.
EndOfFile ==
    /\ reader = "reading" /\ pipe = 0 /\ running = {}
    /\ reader' = "done"
    /\ UNCHANGED <<procVars, pipe, queue, dropped, guard, late, observer, log>>

-----------------------------------------------------------------------------
(* The observer                                                            *)

\* record_event appends an event, or raises.
RecordEvent(seen, kind) ==
    \/ observer' = [observer EXCEPT !.seen = seen, !.events = Append(@, kind)]
    \/ /\ observer.failures < MaxRecordFailures
       /\ observer' = [observer EXCEPT !.seen = seen, !.failures = @ + 1]

\* ProgressObserver.__call__: a report is marked before its event is recorded;
\* recording may raise, which the guardian notes as an observer error.  What
\* cannot be decoded is only counted.
Observe(kind) ==
    IF kind = "other" THEN UNCHANGED observer
    ELSE IF kind = "malformed"
    THEN observer' = [observer EXCEPT !.seen = @ \cup {kind}]
    ELSE IF kind \in observer.seen THEN UNCHANGED observer
    ELSE RecordEvent(observer.seen \cup {kind}, kind)

\* record_summary, once run has returned or raised.
RecordSummary ==
    /\ guard.pc \in {"returned", "raised"} /\ ~ guard.summed
    /\ guard' = [guard EXCEPT !.summed = TRUE]
    /\ IF "malformed" \in observer.seen THEN RecordEvent(observer.seen, "malformed")
       ELSE UNCHANGED observer
    /\ UNCHANGED <<procVars, lineVars, late, log>>

-----------------------------------------------------------------------------
(* run                                                                     *)

At(pc) == guard.pc = pc
Goto(pc) == guard' = [guard EXCEPT !.pc = pc]
Stop(reason) == guard' = [guard EXCEPT !.pc = "terminate", !.reason = reason]

\* on_started: attach_process records the group, or raises; then the reader
\* thread is started.
Started ==
    /\ At("started")
    /\ \/ Goto("poll") /\ reader' = "reading"
       \/ Stop("raised") /\ UNCHANGED reader
    /\ UNCHANGED <<procVars, pipe, queue, dropped, late, observer, log>>

Poll ==
    /\ At("poll")
    /\ guard' = [guard EXCEPT !.pc = IF Root \in running THEN "drain" ELSE "wait",
                              !.left = DRAIN_BATCH]
    /\ UNCHANGED <<procVars, lineVars, late, observer, log>>

\* Mutant: lines are drained for as long as there are any.
DrainLineUnbounded ==
    /\ At("drain") \/ At("final")
    /\ guard.left > 0 /\ queue > 0
    /\ \E kind \in Kinds : Observe(kind)
    /\ queue' = queue - 1
    /\ UNCHANGED guard
    /\ UNCHANGED <<procVars, pipe, reader, dropped, late, log>>

\* _drain: at most a batch of lines, so that a noisy process cannot hold off
\* its deadline.
DrainLine ==
    /\ At("drain") \/ At("final")
    /\ guard.left > 0 /\ queue > 0
    /\ \E kind \in Kinds : Observe(kind)
    /\ queue' = queue - 1
    /\ guard' = [guard EXCEPT !.left = @ - 1]
    /\ UNCHANGED <<procVars, pipe, reader, dropped, late, log>>

Drained == guard.left = 0 \/ queue = 0

\* measure and _breach_values, each measure_interval: the processes of the tree
\* are counted, and the meter may find too much CPU time or memory.
Measure ==
    \/ Stop("exceeded")
    \/ Cardinality(ProcessTree \cap running) <= ProcessLimit /\ Goto("poll")

\* The lease pulse: a request to cancel stops the process; a lease that cannot
\* be renewed raises.  Then the deadline, then the declared limits if it is time
\* to measure.
Check ==
    /\ At("drain") /\ Drained
    /\ \/ Stop("cancelled")
       \/ Stop("raised")
       \/ late /\ Stop("timed_out")
       \/ ~ late /\ Measure
       \/ ~ late /\ Goto("poll")
    /\ UNCHANGED <<procVars, lineVars, late, observer, log>>

\* _terminate_tree: nothing to do if the root has exited; otherwise SIGTERM to
\* the groups of the tree as it is now.
Terminate ==
    /\ At("terminate")
    /\ IF Root \in running
       THEN guard' = [guard EXCEPT !.pc = "grace", !.targets = ProcessTree]
       ELSE Goto("stopped")
    /\ UNCHANGED <<procVars, lineVars, late, observer, log>>

TargetsGone ==
    /\ At("grace")
    /\ guard.targets \cap running = {}
    /\ Goto("stopped")
    /\ UNCHANGED <<procVars, lineVars, late, observer, log>>

\* Mutant: only the group the root was started with is killed.
KillTreeOneGroup ==
    /\ At("grace")
    /\ Gone({p \in running : group[p] = Root})
    /\ Goto("stopped")
    /\ UNCHANGED <<lineVars, late, observer, log>>

\* _kill_tree, when the grace is over: SIGKILL to the group that each target
\* is in by now.
KillTree ==
    LET groups == {group[p] : p \in guard.targets \cap running} IN
    /\ At("grace")
    /\ Gone({p \in running : group[p] \in groups})
    /\ Goto("stopped")
    /\ UNCHANGED <<lineVars, late, observer, log>>

\* An exception goes on to the caller; otherwise run waits for the process.
Stopped ==
    /\ At("stopped")
    /\ IF guard.reason = "raised"
       THEN Goto("raised") /\ log' = "closed"
       ELSE Goto("wait") /\ UNCHANGED log
    /\ UNCHANGED <<procVars, lineVars, late, observer>>

\* process.wait; then reader.join, which gives up after a second.
Wait ==
    /\ At("wait") /\ Root \notin running
    /\ guard' = [guard EXCEPT !.pc = "final", !.left = FINAL_DRAIN_BATCH,
                              !.joined = (reader = "done")]
    /\ UNCHANGED <<procVars, lineVars, late, observer, log>>

\* Mutant: the note is only written when nothing was left to deliver.
ReturnUnnoted ==
    /\ At("final") /\ Drained
    /\ log' = "closed"
    /\ guard' = [guard EXCEPT !.pc = "returned", !.noted = (queue = 0)]
    /\ UNCHANGED <<procVars, lineVars, late, observer>>

\* The notes go to the log, which is closed.
Return ==
    /\ At("final") /\ Drained
    /\ log' = "closed"
    /\ guard' = [guard EXCEPT !.pc = "returned", !.noted = (guard.left = 0)]
    /\ UNCHANGED <<procVars, lineVars, late, observer>>

DeadlinePasses ==
    /\ ~ late /\ late' = TRUE
    /\ UNCHANGED <<procVars, lineVars, guard, observer, log>>

-----------------------------------------------------------------------------
Init ==
    /\ running = {Root} /\ unborn = Descendants
    /\ parent = [p \in Procs |-> Init1]
    /\ group = [p \in Procs |-> Root]
    /\ pipe = 0 /\ queue = 0 /\ reader = "reading" /\ dropped = FALSE
    /\ guard = [pc |-> "started", reason |-> "none", targets |-> {}, left |-> 0,
                joined |-> FALSE, noted |-> FALSE, summed |-> FALSE]
    /\ late = FALSE
    /\ observer = [seen |-> {}, events |-> << >>, failures |-> 0]
    /\ log = "open"

Tree ==
    \E p \in Procs :
        \/ \E c \in Descendants : Fork(p, c)
        \/ Write(p) \/ Setsid(p) \/ Exit(p)

Run ==
    \/ Started \/ Poll \/ DrainLine \/ Check \/ Terminate \/ TargetsGone
    \/ KillTree \/ Stopped \/ Wait \/ Return \/ RecordSummary

Next == Tree \/ ReadLine \/ EndOfFile \/ Run \/ DeadlinePasses

\* The controller's thread runs and time passes.  Nothing is asked of the
\* adapter's processes, nor of the reader.
Spec == Init /\ [][Next]_vars /\ WF_vars(Run) /\ WF_vars(DeadlinePasses)

-----------------------------------------------------------------------------
(* Properties                                                              *)

\* Once _terminate_tree is done, no process that was in the tree when it was
\* called is left, although it may have changed its session or lost its parent
\* since, and even if the root was the first to go.
TargetsAreDead ==
    guard.pc \in {"stopped", "wait", "final", "returned", "raised"} =>
        guard.targets \cap running = {}

\* Telemetry that was read and not delivered is accounted for by a note in the
\* log, provided the reader finished before it stopped being waited for; and
\* what was delivered counts once: a stage is reported started and finished
\* once, however often an adapter repeats itself and whichever recording failed.
TelemetryIsAccounted ==
    /\ At("returned") /\ guard.joined => queue = 0 \/ guard.noted
    /\ \A i, j \in 1..Len(observer.events) :
          observer.events[i] = observer.events[j] => i = j

\* An adapter that never exits, or that never stops writing, does not keep
\* run from returning: the deadline is always enforced.
DeadlineIsEnforced == <>(guard.pc \in {"returned", "raised"})
=============================================================================
