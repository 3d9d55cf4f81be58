-------------------------- MODULE MCResourceQuery --------------------------
(***************************************************************************)
(* Small instances of the store and of the resource query over it: two     *)
(* runs of a task that may be tried twice and needs one core and two units *)
(* of memory, or of a task that may be tried once and needs two cores and  *)
(* one unit.  On a host whose budget is three of each, one of each fit     *)
(* together; two small ones are short of memory, two large ones of cores.  *)
(***************************************************************************)
EXTENDS ResourceQuery, TLC

CONSTANTS small, large

MCTasks == {small, large}
MCTaskId == [t \in MCTasks |-> t]
MCMaxAttempts == small :> 2 @@ large :> 1
MCCpu == small :> 1 @@ large :> 2
MCMemory == small :> 2 @@ large :> 1
StoreSymmetry == Permutations(Runs) \cup Permutations(Workers)
==========================================================================
