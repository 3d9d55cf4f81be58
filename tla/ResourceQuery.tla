--------------------------- MODULE ResourceQuery ---------------------------
(***************************************************************************)
(* ResourceQuery.waiting_for (resource_query.py): the read-only answer to  *)
(* "why has this run not started", over the tables of RuntimeStore.  The   *)
(* query writes nothing, so it adds no action: its answer is a function of *)
(* the store's state, compared here with what start_attempt would decide   *)
(* in that same state.                                                     *)
(***************************************************************************)
EXTENDS RuntimeStore

NOT_STARTED == {"queued", "preparing", "retry_wait"}

\* Mutant: the query forgets the platform's fraction.
WholeCapacity(capacity) == capacity

\* int(capacity * platform_fraction).
QueryBudget(capacity) == (capacity * FractionPercent) \div 100

WaitingFor(r) ==
    LET t == taskOf[r]
        freeCpu == QueryBudget(CapacityCpu) - ReservedCpu
        freeMemory == QueryBudget(CapacityMemory) - ReservedMemory
    IN  IF runStatus[r] \notin NOT_STARTED THEN "started"
        ELSE IF Cpu[t] > freeCpu \/ Memory[t] > freeMemory THEN "resource"
        ELSE "claimable"

-----------------------------------------------------------------------------
(* Properties                                                              *)

\* When the query says that the machine has room for the run, start_attempt
\* would claim it: no operator waits for a claim that cannot happen.
ClaimableCanStart ==
    \A r \in Runs : WaitingFor(r) = "claimable" => StartAllowed(r)
==========================================================================
