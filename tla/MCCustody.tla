----------------------------- MODULE MCCustody -----------------------------
(***************************************************************************)
(* One run of two attempts that stages a host file, an upload or the       *)
(* artifact of an earlier run.  Its adapter declares a log, which is       *)
(* failure evidence, and a result.                                         *)
(***************************************************************************)
EXTENDS Custody

CONSTANTS r1, c1, c2

MCFromOf == [r \in Runs |-> {"host", "upload", "artifact"}]
MCOutputsOf == [r \in Runs |-> <<"log", "out">>]
\* The log is new to the store; the result is there already, or left out.
MCWritten == [r \in Runs |-> {[log |-> c2, out |-> c] : c \in {c1, Missing}}]
MCHostAtStart == {c2, Missing}
MCEarlier == <<c1>>
MCMaxAttempts == [r \in Runs |-> 2]
=============================================================================
