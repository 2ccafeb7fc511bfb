----------------------------- MODULE MCSession -----------------------------
(* A Team Leader and an Engineer it launched.                               *)
EXTENDS SessionControl, TLC

CONSTANTS leader, engineer, c1, c2

TwoSessions == {leader, engineer}
LeaderLaunches == (leader :> NoSession) @@ (engineer :> leader)
TwoCalls == {c1, c2}
AnyCall == Permutations(TwoCalls)
============================================================================
