--------------------------- MODULE MCPlanExecutor ---------------------------
(***************************************************************************)
(* Plans of two steps: one whose second step is bound to an artifact of    *)
(* its first, and one whose binding matches no artifact or several.  The   *)
(* other payloads are refused: no step, the same step twice, a binding to  *)
(* a later step, a task that is not a TaskSpec, and too many steps.        *)
(***************************************************************************)
EXTENDS PlanExecutor

Entry(id, from) == [id |-> id, from |-> from, valid |-> TRUE]

MCPayloads ==
    {<<Entry("a", {}), Entry("b", {"a"})>>,
     <<Entry("c", {}), Entry("d", {"c"})>>,
     << >>,
     <<Entry("a", {}), Entry("a", {})>>,
     <<Entry("a", {"b"}), Entry("b", {})>>,
     <<[id |-> "a", from |-> {}, valid |-> FALSE]>>,
     <<Entry("a", {}), Entry("b", {}), Entry("c", {})>>}
=============================================================================
