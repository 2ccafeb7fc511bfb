------------------------- MODULE MCExecutionBudget -------------------------
(* Values for the constants of ExecutionBudget. *)
EXTENDS ExecutionBudget

Definitions == {[estimate |-> e, limit |-> 0] : e \in {0, 1}}
=============================================================================
