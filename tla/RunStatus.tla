---------------------------- MODULE RunStatus ----------------------------
(***************************************************************************)
(* The status vocabulary shared by every part of the platform              *)
(* (contracts/.../runtime.py): the statuses of a run and of an attempt,    *)
(* which run statuses are terminal, and the two transition tables that the *)
(* runtime store consults before it moves a row.                           *)
(***************************************************************************)

RuntimeStatus ==
    {"queued", "preparing", "running", "retry_wait", "cancel_requested",
     "succeeded", "failed", "cancelled", "timed_out", "lost"}

TerminalStatus == {"succeeded", "failed", "cancelled", "timed_out", "lost"}

AttemptStatus == {"pending", "running", "succeeded", "failed", "lost"}

\* Attempt statuses from which ATTEMPT_TRANSITIONS has no way out.
EndedAttemptStatus == {"succeeded", "failed", "lost"}

ATTEMPT_TRANSITIONS ==
    [s \in AttemptStatus |->
        CASE s = "pending" -> {"running", "lost"}
          [] s = "running" -> {"succeeded", "failed", "lost"}
          [] OTHER         -> {}]

AttemptTransitionAllowed(current, target) ==
    target \in ATTEMPT_TRANSITIONS[current]

RUN_TRANSITIONS ==
    [s \in RuntimeStatus |->
        CASE s = "queued" ->
                {"preparing", "cancel_requested", "cancelled", "failed"}
          [] s = "preparing" ->
                {"running", "cancel_requested", "failed", "lost"}
          [] s = "running" ->
                {"retry_wait", "cancel_requested", "succeeded", "failed",
                 "timed_out", "lost"}
          [] s = "retry_wait" ->
                {"queued", "cancel_requested", "failed", "lost"}
          [] s = "cancel_requested" ->
                {"cancelled", "failed", "lost"}
          [] OTHER -> {}]

RunTransitionAllowed(current, target) ==
    /\ current \notin TerminalStatus
    /\ target \in RUN_TRANSITIONS[current]

\* The statuses in which work may still be done look alike to a client.
ViewOf(s) ==
    CASE s \in {"queued", "preparing", "running", "retry_wait"} -> "active"
      [] s = "cancel_requested" -> "stopping"
      [] OTHER -> s

==========================================================================
