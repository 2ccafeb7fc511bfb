-------------------------- MODULE MCDeliveryState --------------------------
(* One Ticket with two Team generations and two Rounds, one review axis.   *)
EXTENDS DeliveryState, TLC

\* Candidate commits are interchangeable.
Symmetry == Permutations(Candidates)
============================================================================
