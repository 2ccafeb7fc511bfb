-------------------------- MODULE MCExecutionOwner --------------------------
(* Values for the constants of ExecutionOwner. *)
EXTENDS ExecutionOwner

CONSTANTS question

OneQuestion == {question}
EachAnswersIt == [c \in Repliers |-> question]
=============================================================================
