------------------------------- MODULE Gateway -------------------------------
(***************************************************************************)
(* Callers, the kernel's HTTP surface and the identity store.              *)
(*                                                                         *)
(* Each caller runs a short program through KernelClient: upload an input  *)
(* in chunks, submit a task under an idempotency key, cancel the run; or   *)
(* submit the points of a sweep the way the DSE lab does.  The gateway is a*)
(* ThreadingHTTPServer, so the handlers of several requests interleave at  *)
(* their store and identity transactions.  An answer may be lost on its    *)
(* way: the caller then sees KernelUnavailable and goes on while the       *)
(* handler is still working.  The gateway may be restarted, which drops    *)
(* every handler; sessions expire; an upload file may outlive its TTL.     *)
(*                                                                         *)
(* Meanwhile a request reads: it counts and pages the runs of a design     *)
(* (design_tree and EvidenceIndex.count_runs), or compares the points of   *)
(* the caller's own sweep (compare_sweep).                                 *)
(***************************************************************************)
EXTENDS Naturals, Sequences, FiniteSets, SequencesExt

CONSTANTS Users,       \* account holders, each with one KernelClient
          Program,     \* what each user asks of the kernel, in order
          Keys,        \* idempotency keys and task ids in use
          Threads,     \* gateway threads that may be busy at once
          NoOne,       \* no user
          NoThread,    \* the client waits for nothing
          NoFile,      \* the upload file does not exist
          MAX_RUN_LIMIT, \* EvidenceIndex's page size
          MAX_COMPARISON_RUNS, \* runs one comparison reads
          MaxRuns, MaxInputs, \* bounds on the ids the store hands out
          Patience,    \* how often a user starts over after a failure
          MaxFaults    \* bound on lost answers, restarts, expiries and aged files

VARIABLES roles,       \* identity_users.role
          sessions,    \* identity_sessions: the state of each user's tokens
          runOwner, inputOwner, \* identity_resource_owners
          runs,        \* runtime_runs in creation order: [key, input]
          inputs,      \* runtime_uploaded_inputs: the bytes of each
          cancelled,   \* runs with a recorded cancellation request
          files,       \* the upload files under objects/uploads
          old,         \* those whose mtime is past the TTL
          threads,     \* the handlers in progress
          clients,     \* the callers
          points,      \* the lab's points table: the run_id column
          reader,      \* a design_tree or comparison request in progress
          faults,      \* how many faults have happened
          restarted,   \* one of them was a restart of the gateway
          raced        \* uploads swept while a request was appending to them

vars == <<roles, sessions, runOwner, inputOwner, runs, inputs, cancelled, files,
          old, threads, clients, points, reader, faults, restarted, raced>>
identity == <<roles, sessions>>
owners == <<runOwner, inputOwner>>
uploads == <<files, old, raced>>
lab == <<points, reader>>
env == <<faults, restarted>>

RunIds == 1 .. MaxRuns
InputIds == 1 .. MaxInputs
UploadIds == Users \X (0 .. Patience)
Idle == [pc |-> "idle"]

(* A step of a program.  data is the sequence of chunks a user uploads.    *)
Op(u) == IF clients[u].step > Len(Program[u]) THEN [op |-> "end"]
         ELSE Program[u][clients[u].step]
(* The task ids of a user's sweep, in the order of their ordinals.         *)
Sweep(u) == LET s == SelectSeq(Program[u], LAMBDA x : x.op = "sweep")
            IN IF s = <<>> THEN <<>> ELSE s[1].points
Data(u) == LET s == SelectSeq(Program[u], LAMBDA x : x.op = "upload")
           IN IF s = <<>> THEN <<>> ELSE s[1].data
(* A submission may name the uploaded input of the user "of".              *)
Staged(s) == s.op = "submit"
(* A failure makes upload_input_chunks start again with a fresh upload_id. *)
UploadId(u) == <<u, clients[u].left>>

GatewayInit ==
    /\ roles = [u \in Users |-> "none"]
    /\ sessions = [u \in Users |-> <<>>]
    /\ runOwner = [r \in RunIds |-> NoOne]
    /\ inputOwner = [i \in InputIds |-> NoOne]
    /\ runs = <<>> /\ inputs = <<>> /\ cancelled = {}
    /\ files = [i \in UploadIds |-> NoFile] /\ old = {} /\ raced = {}
    /\ threads = [h \in Threads |-> Idle]
    /\ clients = [u \in Users |-> [step |-> 1, left |-> Patience, sent |-> 0,
                                   input |-> 0, run |-> 0, token |-> 0,
                                   on |-> NoThread]]
    /\ points = [k \in Keys |-> [run |-> 0, state |-> "none", lost |-> FALSE]]
    /\ reader = [pc |-> "new"]
    /\ faults = 0 /\ restarted = FALSE
-----------------------------------------------------------------------------
(* What a client does with an answer.                                      *)

Next1(c) == [c EXCEPT !.step = @ + 1, !.on = NoThread]

(* An exception: the user of an upload or a submission starts it over, a   *)
(* bounded number of times.  A 401 (dropped) also costs them their token.  *)
StartOver(c, u, dropped) ==
    LET d == [c EXCEPT !.on = NoThread, !.sent = 0, !.token = IF dropped THEN 0 ELSE @]
    IN IF c.left = 0 THEN [d EXCEPT !.step = Len(Program[u]) + 1]
       ELSE [d EXCEPT !.left = @ - 1]

(* The request a client waits for.                                         *)
Asked(u) == threads[clients[u].on]

(* submit_sweep catches KernelError and KernelUnavailable alike, records   *)
(* the point as refused and goes on with the next point.                   *)
Failed(u, dropped, lost) ==
    IF Asked(u).op = "point"
    THEN /\ clients' = [clients EXCEPT ![u] = [Next1(@) EXCEPT
                            !.token = IF dropped THEN 0 ELSE @]]
         /\ points' = [points EXCEPT ![Asked(u).key] =
                            [run |-> 0, state |-> "refused", lost |-> lost]]
    ELSE /\ clients' = [clients EXCEPT ![u] = StartOver(@, u, dropped)]
         /\ UNCHANGED points

Hears(h) == clients[threads[h].user].on = h

(* The router sends the handler's HttpError, or a 500 for anything else.   *)
Refuse(h, status) ==
    /\ threads' = [threads EXCEPT ![h] = Idle]
    /\ IF Hears(h) THEN Failed(threads[h].user, status = 401, FALSE)
       ELSE UNCHANGED <<clients, points>>

(* The handler answers 200 or 201; c is the client once it has read it.    *)
Answer(h, c) ==
    /\ threads' = [threads EXCEPT ![h] = Idle]
    /\ clients' = IF Hears(h) THEN [clients EXCEPT ![threads[h].user] = c]
                  ELSE clients

GoTo(h, pc) == threads' = [threads EXCEPT ![h] = [@ EXCEPT !.pc = pc]]
-----------------------------------------------------------------------------
(* KernelClient._call: one request, and the caller waits for its answer.   *)
(* Only registering and logging in need no session.                        *)
Send(u, h) ==
    /\ clients[u].on = NoThread /\ threads[h] = Idle
    /\ Op(u).op \notin {"end", "sweep"}
    /\ Staged(Op(u)) => clients[Op(u).of].input # 0
    /\ LET signed == clients[u].token # 0
           op == IF ~signed THEN "account" ELSE Op(u).op
       IN threads' = [threads EXCEPT ![h] =
            [pc |-> IF signed THEN "authenticate" ELSE "account", user |-> u,
             op |-> op, token |-> clients[u].token, run |-> clients[u].run,
             input |-> IF Staged(Op(u)) THEN clients[Op(u).of].input ELSE 0,
             key |-> IF op \in {"submit", "point"} THEN Op(u).key ELSE NoOne,
             upload |-> UploadId(u), offset |-> clients[u].sent]]
    /\ clients' = [clients EXCEPT ![u].on = h]
    /\ UNCHANGED <<identity, owners, runs, inputs, cancelled, uploads, lab, env>>

(* register: the count and the insert share one immediate transaction, so  *)
(* exactly the first account is a developer's.                             *)
Registered(u) ==
    [roles EXCEPT ![u] =
        IF \A v \in Users : roles[v] = "none" THEN "developer" ELSE "member"]

(* auth_register, or auth_login for a user who has an account already.     *)
(* Both go on to _new_session.                                             *)
Account(h) ==
    /\ threads[h].pc = "account"
    /\ LET u == threads[h].user
       IN roles' = IF roles[u] = "none" THEN Registered(u) ELSE roles
    /\ GoTo(h, "session")
    /\ UNCHANGED <<sessions, owners, runs, inputs, cancelled, uploads, clients,
                   lab, env>>

(* _new_session, a transaction of its own: the account may exist already   *)
(* when the gateway is restarted before it.                                *)
NewSession(h) ==
    /\ threads[h].pc = "session"
    /\ LET u == threads[h].user
       IN /\ sessions' = [sessions EXCEPT ![u] = Append(@, "live")]
          /\ Answer(h, [clients[u] EXCEPT !.token = Len(sessions'[u]),
                                          !.on = NoThread])
    /\ UNCHANGED <<roles, owners, runs, inputs, cancelled, uploads, lab, env>>

(* resolve: the token's row is there and its expires_at is in the future.  *)
Live(u, n) == sessions[u][n] = "live"

(* _guarded and IdentityStore.resolve: an expired session is deleted, and  *)
(* without a session the answer is 401.                                    *)
Authenticate(h) ==
    /\ threads[h].pc = "authenticate"
    /\ LET u == threads[h].user
           n == threads[h].token
       IN IF Live(u, n)
          THEN /\ GoTo(h, CASE threads[h].op = "upload" -> "chunk"
                            [] threads[h].op \in {"cancel", "logout"} -> threads[h].op
                            [] OTHER -> "submit")
               /\ UNCHANGED <<sessions, clients, points>>
          ELSE /\ sessions' = [sessions EXCEPT ![u][n] = "deleted"]
               /\ Refuse(h, 401)
    /\ UNCHANGED <<roles, owners, runs, inputs, cancelled, uploads, reader, env>>

(* owns_resource(..., developer_all=True): an unowned resource is          *)
(* everybody's.                                                            *)
Owns(owner, u) == owner \in {NoOne, u} \/ roles[u] = "developer"

(* _require_ownership asks for more: an unowned resource is visible to     *)
(* developers only.                                                        *)
Visible(owner, u) ==
    /\ owner = NoOne => roles[u] = "developer"
    /\ Owns(owner, u)

(* bind_resource accepts the first owner and that owner again.             *)
Bindable(owner, u) == owner \in {NoOne, u}
-----------------------------------------------------------------------------
\* Mutant: accepts a file that is shorter than the offset.
CheckOffsetTrusting(h) ==
    /\ threads[h].pc = "chunk"
    /\ LET kept == [i \in UploadIds |-> IF i \in old THEN NoFile ELSE files[i]]
           f == kept[threads[h].upload]
           size == IF f = NoFile THEN 0 ELSE Len(f)
       IN /\ files' = kept
          /\ old' = {}
          /\ raced' = raced \cup {i \in old : \E g \in Threads :
                        threads[g].pc = "append" /\ threads[g].upload = i}
          /\ IF size > threads[h].offset THEN Refuse(h, 409)
             ELSE GoTo(h, "append") /\ UNCHANGED <<clients, points>>
    /\ UNCHANGED <<identity, owners, runs, inputs, cancelled, reader, env>>

(* ingest_input_chunk: remove the stale upload files of everybody, then    *)
(* compare the file's size with the offset the client sent.                *)
CheckOffset(h) ==
    /\ threads[h].pc = "chunk"
    /\ LET kept == [i \in UploadIds |-> IF i \in old THEN NoFile ELSE files[i]]
           f == kept[threads[h].upload]
           size == IF f = NoFile THEN 0 ELSE Len(f)
       IN /\ files' = kept
          /\ old' = {}
          /\ raced' = raced \cup {i \in old : \E g \in Threads :
                        threads[g].pc = "append" /\ threads[g].upload = i}
          /\ IF size # threads[h].offset THEN Refuse(h, 409)
             ELSE GoTo(h, "append") /\ UNCHANGED <<clients, points>>
    /\ UNCHANGED <<identity, owners, runs, inputs, cancelled, reader, env>>

(* path.open("ab") creates the file when it is gone.  A chunk that is not  *)
(* the last is answered with the offset of the next.                       *)
AppendChunk(h) ==
    /\ threads[h].pc = "append"
    /\ LET u == threads[h].user
           i == threads[h].upload
           n == threads[h].offset + 1
           had == IF files[i] = NoFile THEN <<>> ELSE files[i]
       IN /\ files' = [files EXCEPT ![i] = Append(had, Data(u)[n])]
          /\ old' = old \ {i}
          /\ IF n = Len(Data(u)) THEN GoTo(h, "ingest") /\ UNCHANGED clients
             ELSE Answer(h, [clients[u] EXCEPT !.sent = n, !.on = NoThread])
    /\ UNCHANGED <<identity, owners, runs, inputs, cancelled, lab, env, raced>>

(* store.ingest_input_file, and the finally that unlinks the upload file.  *)
Ingest(h) ==
    /\ threads[h].pc = "ingest" /\ Len(inputs) < MaxInputs
    /\ LET i == threads[h].upload
       IN \/ /\ files[i] = NoFile
             /\ Refuse(h, 500) /\ UNCHANGED <<inputs, files, old>>
          \/ /\ files[i] # NoFile
             /\ inputs' = Append(inputs, files[i])
             /\ files' = [files EXCEPT ![i] = NoFile]
             /\ old' = old \ {i}
             /\ threads' = [threads EXCEPT ![h] =
                              [@ EXCEPT !.pc = "bind", !.input = Len(inputs')]]
             /\ UNCHANGED <<clients, points>>
    /\ UNCHANGED <<identity, owners, runs, cancelled, reader, env, raced>>

(* bind_resource for an input that was created a step ago.                 *)
BindInput(h) ==
    /\ threads[h].pc = "bind"
    /\ LET u == threads[h].user
           i == threads[h].input
       IN /\ inputOwner' = [inputOwner EXCEPT ![i] = u]
          /\ Answer(h, [Next1(clients[u]) EXCEPT !.input = i])
    /\ UNCHANGED <<identity, runOwner, runs, inputs, cancelled, uploads, lab, env>>
-----------------------------------------------------------------------------
Bytes(i) == IF i = 0 THEN <<>> ELSE inputs[i]

\* Mutant: looks the key up among the runs already bound to the caller.
SubmitRunPerOwner(h) ==
    /\ threads[h].pc = "submit"
    /\ LET t == threads[h]
           i == t.input
           same == {r \in DOMAIN runs : runs[r].key = t.key /\ runOwner[r] = t.user}
       IN \/ /\ i # 0 /\ ~Visible(inputOwner[i], t.user)
             /\ Refuse(h, 404) /\ UNCHANGED runs
          \/ /\ i # 0 => Visible(inputOwner[i], t.user)
             /\ \E r \in same :
                  IF Bytes(runs[r].input) = Bytes(i)
                  THEN /\ threads' = [threads EXCEPT ![h] =
                                        [t EXCEPT !.pc = "own", !.run = r]]
                       /\ UNCHANGED <<runs, clients, points>>
                  ELSE Refuse(h, 409) /\ UNCHANGED runs
          \/ /\ i # 0 => Visible(inputOwner[i], t.user)
             /\ same = {} /\ Len(runs) < MaxRuns
             /\ runs' = Append(runs, [key |-> t.key, input |-> i])
             /\ threads' = [threads EXCEPT ![h] =
                              [t EXCEPT !.pc = "own", !.run = Len(runs')]]
             /\ UNCHANGED <<clients, points>>
    /\ UNCHANGED <<identity, owners, inputs, cancelled, uploads, reader, env>>

\* Mutant: binds a run it created, not one that it found.
SubmitRunBindsNew(h) ==
    /\ threads[h].pc = "submit"
    /\ LET t == threads[h]
           i == t.input
           same == {r \in DOMAIN runs : runs[r].key = t.key}
       IN \/ /\ i # 0 /\ ~Visible(inputOwner[i], t.user)
             /\ Refuse(h, 404) /\ UNCHANGED runs
          \/ /\ i # 0 => Visible(inputOwner[i], t.user)
             /\ \E r \in same :
                  IF Bytes(runs[r].input) = Bytes(i)
                  THEN /\ threads' = [threads EXCEPT ![h] =
                                        [t EXCEPT !.pc = "own_inputs", !.run = r]]
                       /\ UNCHANGED <<runs, clients, points>>
                  ELSE Refuse(h, 409) /\ UNCHANGED runs
          \/ /\ i # 0 => Visible(inputOwner[i], t.user)
             /\ same = {} /\ Len(runs) < MaxRuns
             /\ runs' = Append(runs, [key |-> t.key, input |-> i])
             /\ threads' = [threads EXCEPT ![h] =
                              [t EXCEPT !.pc = "own", !.run = Len(runs')]]
             /\ UNCHANGED <<clients, points>>
    /\ UNCHANGED <<identity, owners, inputs, cancelled, uploads, reader, env>>

(* KernelApi.submit_run: the caller must be able to see the input it names,*)
(* then one store transaction finds the run of the key or creates it.  An  *)
(* existing run must have equal bytes in its inputs.                       *)
SubmitRun(h) ==
    /\ threads[h].pc = "submit"
    /\ LET t == threads[h]
           i == t.input
           same == {r \in DOMAIN runs : runs[r].key = t.key}
       IN \/ /\ i # 0 /\ ~Visible(inputOwner[i], t.user)
             /\ Refuse(h, 404) /\ UNCHANGED runs
          \/ /\ i # 0 => Visible(inputOwner[i], t.user)
             /\ \E r \in same :
                  IF Bytes(runs[r].input) = Bytes(i)
                  THEN /\ threads' = [threads EXCEPT ![h] =
                                        [t EXCEPT !.pc = "own", !.run = r]]
                       /\ UNCHANGED <<runs, clients, points>>
                  ELSE Refuse(h, 409) /\ UNCHANGED runs
          \/ /\ i # 0 => Visible(inputOwner[i], t.user)
             /\ same = {} /\ Len(runs) < MaxRuns
             /\ runs' = Append(runs, [key |-> t.key, input |-> i])
             /\ threads' = [threads EXCEPT ![h] =
                              [t EXCEPT !.pc = "own", !.run = Len(runs')]]
             /\ UNCHANGED <<clients, points>>
    /\ UNCHANGED <<identity, owners, inputs, cancelled, uploads, reader, env>>

\* Mutant: binds the inputs first, so that their refusal leaves the run.
OwnRunAfterInputs(h) ==
    /\ threads[h].pc = "own"
    /\ LET t == threads[h]
       IN IF /\ Bindable(runOwner[t.run], t.user)
             /\ runs[t.run].input # 0 =>
                  Bindable(inputOwner[runs[t.run].input], t.user)
          THEN /\ runOwner' = [runOwner EXCEPT ![t.run] = t.user]
               /\ GoTo(h, "own_inputs")
               /\ UNCHANGED <<clients, points>>
          ELSE Refuse(h, 500) /\ UNCHANGED runOwner
    /\ UNCHANGED <<identity, inputOwner, runs, inputs, cancelled, uploads,
                   reader, env>>

(* bind_resource("run", ...): a run somebody else has bound since is a 500.*)
OwnRun(h) ==
    /\ threads[h].pc = "own"
    /\ LET t == threads[h]
       IN IF Bindable(runOwner[t.run], t.user)
          THEN /\ runOwner' = [runOwner EXCEPT ![t.run] = t.user]
               /\ GoTo(h, "own_inputs")
               /\ UNCHANGED <<clients, points>>
          ELSE Refuse(h, 500) /\ UNCHANGED runOwner
    /\ UNCHANGED <<identity, inputOwner, runs, inputs, cancelled, uploads,
                   reader, env>>

(* bind_resource for the inputs of the run's task, then the answer.        *)
OwnInputs(h) ==
    /\ threads[h].pc = "own_inputs"
    /\ LET t == threads[h]
           i == runs[t.run].input
       IN IF i # 0 /\ ~Bindable(inputOwner[i], t.user)
          THEN Refuse(h, 500) /\ UNCHANGED inputOwner
          ELSE /\ inputOwner' = IF i = 0 THEN inputOwner
                                ELSE [inputOwner EXCEPT ![i] = t.user]
               /\ Answer(h, [Next1(clients[t.user]) EXCEPT
                               !.run = IF t.op = "submit" THEN t.run ELSE @])
               /\ points' = IF Hears(h) /\ t.op = "point"
                            THEN [points EXCEPT ![t.key] =
                                    [run |-> t.run, state |-> "run", lost |-> FALSE]]
                            ELSE points
    /\ UNCHANGED <<identity, runOwner, runs, inputs, cancelled, uploads,
                   reader, env>>

(* KernelApi.cancel_run on the run the caller was answered.                *)
CancelRun(h) ==
    /\ threads[h].pc = "cancel"
    /\ LET t == threads[h]
       IN IF Visible(runOwner[t.run], t.user)
          THEN /\ cancelled' = cancelled \cup {t.run}
               /\ Answer(h, Next1(clients[t.user]))
               /\ UNCHANGED points
          ELSE Refuse(h, 404) /\ UNCHANGED cancelled
    /\ UNCHANGED <<identity, owners, runs, inputs, uploads, reader, env>>

(* auth_logout: the session's row is deleted, the client forgets its token.*)
Logout(h) ==
    /\ threads[h].pc = "logout"
    /\ LET u == threads[h].user
       IN /\ sessions' = [sessions EXCEPT ![u][threads[h].token] = "deleted"]
          /\ Answer(h, [Next1(clients[u]) EXCEPT !.token = 0])
    /\ UNCHANGED <<roles, owners, runs, inputs, cancelled, uploads, lab, env>>
-----------------------------------------------------------------------------
(* create_sweep inserts every point, with no run, before any is submitted. *)
CreateSweep(u) ==
    /\ clients[u].on = NoThread /\ Op(u).op = "sweep"
    /\ points' = [k \in Keys |-> IF k \in ToSet(Sweep(u))
                                 THEN [points[k] EXCEPT !.state = "new"] ELSE points[k]]
    /\ clients' = [clients EXCEPT ![u].step = @ + 1]
    /\ UNCHANGED <<identity, owners, runs, inputs, cancelled, uploads, threads,
                   reader, env>>

(* compare_sweep reads the sweep once.                                     *)
OpenComparison(u) ==
    /\ reader.pc = "new" /\ clients[u].token # 0
    /\ \E k \in ToSet(Sweep(u)) : points[k].state # "none"
    /\ reader' = [pc |-> "row", user |-> u, token |-> clients[u].token,
                  todo |-> [i \in DOMAIN Sweep(u) |->
                              [key |-> Sweep(u)[i], point |-> points[Sweep(u)[i]]]],
                  rows |-> <<>>]
    /\ UNCHANGED <<identity, owners, runs, inputs, cancelled, uploads, threads,
                   clients, points, env>>

(* What a point's row says.  A point with no run is shown as refused: the  *)
(* kernel said no, or nobody has asked it yet.  The other points' runs are *)
(* read from the kernel, up to a limit; a KernelError is a row as well.    *)
RowStatus(point) ==
    LET read == Cardinality({i \in DOMAIN reader.rows :
                               reader.rows[i].status \in {"run", "unavailable"}})
    IN CASE point.state # "run" -> "refused"
         [] point.state = "run" /\ read >= MAX_COMPARISON_RUNS -> "not_compared"
         [] OTHER -> IF /\ Live(reader.user, reader.token)
                        /\ Visible(runOwner[point.run], reader.user)
                     THEN "run" ELSE "unavailable"

\* Mutant: leaves out the points that were refused.
CompareRowSkips ==
    /\ reader.pc = "row"
    /\ LET p == Head(reader.todo)
           row == [key |-> p.key, was |-> p.point, status |-> RowStatus(p.point)]
       IN reader' = [reader EXCEPT !.todo = Tail(@),
                        !.rows = IF row.status = "refused" THEN @ ELSE Append(@, row),
                        !.pc = IF Len(reader.todo) = 1 THEN "compared" ELSE "row"]
    /\ UNCHANGED <<identity, owners, runs, inputs, cancelled, uploads, threads,
                   clients, points, env>>

(* One turn of compare_sweep's loop.                                       *)
CompareRow ==
    /\ reader.pc = "row"
    /\ LET p == Head(reader.todo)
           row == [key |-> p.key, was |-> p.point, status |-> RowStatus(p.point)]
       IN reader' = [reader EXCEPT !.todo = Tail(@),
                        !.rows = Append(@, row),
                        !.pc = IF Len(reader.todo) = 1 THEN "compared" ELSE "row"]
    /\ UNCHANGED <<identity, owners, runs, inputs, cancelled, uploads, threads,
                   clients, points, env>>
-----------------------------------------------------------------------------
(* The runs a listing shows: resources_owned, or all to a developer.       *)
Mine(u) == IF roles[u] = "developer" THEN RunIds
           ELSE {r \in RunIds : runOwner[r] = u}

(* design_tree: resources_owned is read once, then count_runs asks         *)
(* EvidenceIndex.runs for one page after another, newest run first.        *)
OpenTree(u) ==
    /\ reader.pc = "new" /\ clients[u].token # 0
    /\ Live(u, clients[u].token)
    /\ reader' = [pc |-> "page", mine |-> Mine(u), total |-> 0, offset |-> 0,
                  seen |-> {}, before |-> DOMAIN runs \cap Mine(u),
                  after |-> {}]
    /\ UNCHANGED <<identity, owners, runs, inputs, cancelled, uploads, threads,
                   clients, points, env>>

\* Mutant: takes a full page for the last one.
CountPageStopsFull ==
    /\ reader.pc = "page"
    /\ LET rows == SelectSeq(Reverse([r \in DOMAIN runs |-> r]),
                             LAMBDA r : r \in reader.mine)
           last == IF reader.offset + MAX_RUN_LIMIT > Len(rows) THEN Len(rows)
                   ELSE reader.offset + MAX_RUN_LIMIT
           page == SubSeq(rows, reader.offset + 1, last)
       IN reader' = [reader EXCEPT
                        !.total = @ + Len(page),
                        !.seen = @ \cup ToSet(page),
                        !.offset = @ + Len(page),
                        !.after = ToSet(rows),
                        !.pc = IF Len(page) <= MAX_RUN_LIMIT THEN "done" ELSE "page"]
    /\ UNCHANGED <<identity, owners, runs, inputs, cancelled, uploads, threads,
                   clients, points, env>>

(* One call of EvidenceIndex.runs and what count_runs does with its length.*)
CountPage ==
    /\ reader.pc = "page"
    /\ LET rows == SelectSeq(Reverse([r \in DOMAIN runs |-> r]),
                             LAMBDA r : r \in reader.mine)
           last == IF reader.offset + MAX_RUN_LIMIT > Len(rows) THEN Len(rows)
                   ELSE reader.offset + MAX_RUN_LIMIT
           page == SubSeq(rows, reader.offset + 1, last)
       IN reader' = [reader EXCEPT
                        !.total = @ + Len(page),
                        !.seen = @ \cup ToSet(page),
                        !.offset = @ + Len(page),
                        !.after = ToSet(rows),
                        !.pc = IF Len(page) < MAX_RUN_LIMIT THEN "done" ELSE "page"]
    /\ UNCHANGED <<identity, owners, runs, inputs, cancelled, uploads, threads,
                   clients, points, env>>

(* The answer with run_count, or with the rows: the request is over.       *)
AnswerTree ==
    /\ reader.pc \in {"done", "compared"}
    /\ reader' = [pc |-> "answered"]
    /\ UNCHANGED <<identity, owners, runs, inputs, cancelled, uploads, threads,
                   clients, points, env>>
-----------------------------------------------------------------------------
(* The connection breaks or times out before the answer: KernelUnavailable.*)
LoseAnswer(u) ==
    /\ clients[u].on # NoThread /\ faults < MaxFaults
    /\ Failed(u, FALSE, TRUE)
    /\ faults' = faults + 1
    /\ UNCHANGED <<identity, owners, runs, inputs, cancelled, uploads, threads, reader, restarted>>

(* The gateway process is restarted: every handler is gone, every waiting  *)
(* caller sees KernelUnavailable; databases and files stay.                *)
Restart ==
    /\ faults < MaxFaults /\ \E h \in Threads : threads[h] # Idle
    /\ threads' = [h \in Threads |-> Idle]
    /\ LET cut == {u \in Users : clients[u].on # NoThread}
           lost == {u \in cut : Asked(u).op = "point"}
       IN /\ clients' = [u \in Users |->
                IF u \in lost THEN Next1(clients[u])
                ELSE IF u \in cut THEN StartOver(clients[u], u, FALSE)
                ELSE clients[u]]
          /\ points' = [k \in Keys |->
                IF \E u \in lost : Asked(u).key = k
                THEN [run |-> 0, state |-> "refused", lost |-> TRUE]
                ELSE points[k]]
    /\ reader' = IF reader.pc # "answered" THEN [pc |-> "new"] ELSE reader
    /\ faults' = faults + 1 /\ restarted' = TRUE
    /\ UNCHANGED <<identity, owners, runs, inputs, cancelled, uploads>>

(* SESSION_SECONDS pass for one user.                                      *)
SessionExpires(u) ==
    /\ faults < MaxFaults
    /\ \E n \in DOMAIN sessions[u] :
         /\ sessions[u][n] = "live"
         /\ sessions' = [sessions EXCEPT ![u][n] = "expired"]
    /\ faults' = faults + 1
    /\ UNCHANGED <<roles, owners, runs, inputs, cancelled, uploads, threads,
                   clients, lab, restarted>>

(* INPUT_UPLOAD_TTL_SECONDS pass since the last chunk of an upload.        *)
UploadAges(i) ==
    /\ files[i] # NoFile /\ i \notin old /\ faults < MaxFaults
    /\ old' = old \cup {i}
    /\ faults' = faults + 1
    /\ UNCHANGED <<identity, owners, runs, inputs, cancelled, files, threads,
                   clients, lab, raced, restarted>>

Handle(h) ==
    \/ Account(h) \/ NewSession(h) \/ Authenticate(h)
    \/ CheckOffset(h) \/ AppendChunk(h) \/ Ingest(h) \/ BindInput(h)
    \/ SubmitRun(h) \/ OwnRun(h) \/ OwnInputs(h)
    \/ CancelRun(h) \/ Logout(h)

GatewayNext ==
    \/ \E u \in Users, h \in Threads : Send(u, h)
    \/ \E h \in Threads : Handle(h)
    \/ \E u \in Users : LoseAnswer(u) \/ SessionExpires(u)
    \/ \E u \in Users : CreateSweep(u) \/ OpenTree(u) \/ OpenComparison(u)
    \/ CountPage \/ CompareRow \/ AnswerTree
    \/ Restart
    \/ \E i \in UploadIds : UploadAges(i)

GatewaySpec == GatewayInit /\ [][GatewayNext]_vars
-----------------------------------------------------------------------------
(* upload_input_chunks, when it returns an input, returns one whose bytes  *)
(* are exactly the caller's chunks in order: the offset comparison of      *)
(* ingest_input_chunk catches a file that was swept between two chunks.    *)
(* The one exception is a file that reached its TTL and was swept by       *)
(* another request after this request compared its size and before it      *)
(* opened the file for appending.                                          *)
UploadIsWhole ==
    \A u \in Users : clients[u].input # 0 =>
        \/ inputs[clients[u].input] = Data(u)
        \/ \E n \in 0 .. Patience : <<u, n>> \in raced

(* A caller who was answered with a run owns that run, and the run is of   *)
(* the task the caller submitted, input bytes included, whichever handler  *)
(* created it and whoever else submitted under the same key meanwhile.     *)
AnsweredRunIsTheirs ==
    /\ \A u \in Users : clients[u].run # 0 =>
        LET r == clients[u].run
        IN /\ runOwner[r] = u
           /\ \E s \in ToSet(Program[u]) :
                /\ s.op = "submit" /\ runs[r].key = s.key
                /\ Bytes(runs[r].input) = Bytes(clients[s.of].input)
    /\ \A k \in Keys : points[k].state = "run" =>
        /\ runs[points[k].run].key = k
        /\ runOwner[points[k].run] # NoOne

(* Submissions under one key never make two runs: not when an answer is    *)
(* lost and the caller submits again while the first handler still works,  *)
(* not across a restart, not when two callers use one key.                 *)
KeyMeansOneRun ==
    \A r, s \in DOMAIN runs : runs[r].key = runs[s].key => r = s

(* A run nobody owns is one whose handler is about to bind it, or was cut  *)
(* off by a restart between the store's commit and the bind.               *)
OrphanMeansRestart ==
    \A r \in DOMAIN runs : runOwner[r] = NoOne =>
        \/ restarted
        \/ \E h \in Threads : threads[h].pc = "own" /\ threads[h].run = r

(* count_runs pages over a table that grows at its front.  What it returns *)
(* is at least the number of runs when it began and at most the number     *)
(* when it ended, and its pages show every run there was at the beginning. *)
CountIsBetween ==
    reader.pc = "done" =>
        /\ reader.before \subseteq reader.seen
        /\ Cardinality(reader.before) <= reader.total
        /\ reader.total <= Cardinality(reader.after)

(* compare_sweep omits no point and keeps their order, and its rows are    *)
(* right although points are recorded and runs created while it reads: a   *)
(* run shown as unavailable is one whose reader lost the session, and a    *)
(* point shown as refused that has a run was not yet recorded, or its      *)
(* answer never came.                                                      *)
ComparisonIsHonest ==
    reader.pc = "compared" =>
        /\ [i \in DOMAIN reader.rows |-> reader.rows[i].key] = Sweep(reader.user)
        /\ \A i \in DOMAIN reader.rows :
            LET row == reader.rows[i]
            IN /\ row.status = "unavailable" => ~Live(reader.user, reader.token)
               /\ row.status = "refused" /\ row.was.state = "refused" /\ ~row.was.lost =>
                    \A r \in DOMAIN runs : runs[r].key # row.key

==============================================================================
