---------------------------- MODULE RunLifecycle ----------------------------
(***************************************************************************)
(* What the kernel promises its clients about a run, and nothing else: a   *)
(* run is submitted once, stays active until it ends or is asked to stop,  *)
(* ends once, and comes back only by a retry of a failed run.  The         *)
(* runtime store implements it (RuntimeStore, ImplementsLifecycle); the    *)
(* applications that call the kernel are modelled over it.                 *)
(***************************************************************************)
EXTENDS RunStatus

CONSTANTS RunIds

VARIABLE status

Move(r, from, to) ==
    /\ status[r] \in from
    /\ status' = [status EXCEPT ![r] = to]

Submit(r) == Move(r, {"absent"}, "active")

Stop(r) == Move(r, {"active"}, "stopping")

\* A run that was asked to stop can no longer succeed or time out.
End(r, s) ==
    /\ s \in TerminalStatus
    /\ Move(r, IF s \in {"succeeded", "timed_out"} THEN {"active"}
               ELSE {"active", "stopping"}, s)

Reopen(r) == Move(r, {"failed"}, "active")

Init == status = [r \in RunIds |-> "absent"]

Next ==
    \E r \in RunIds :
        \/ Submit(r)
        \/ Stop(r)
        \/ \E s \in TerminalStatus : End(r, s)
        \/ Reopen(r)

Spec == Init /\ [][Next]_status
=============================================================================
