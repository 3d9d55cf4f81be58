----------------------------- MODULE MCAttempt -----------------------------
(***************************************************************************)
(* A plugin that asks for everything the kernel offers, and a plain one.   *)
(***************************************************************************)
EXTENDS Attempt

MCManifests ==
    {[evaluated |-> TRUE, receipt |-> TRUE, resumable |-> TRUE, collects |-> TRUE],
     [evaluated |-> FALSE, receipt |-> FALSE, resumable |-> FALSE,
      collects |-> FALSE]}
=============================================================================
