----------------------------- MODULE SessionLife -----------------------------
(* What the commands on Sessions promise together, whoever calls them at the  *)
(* same time and whatever dies on the way: the life of a Session is a sequence *)
(* of executions, none begins in a stopped subtree, and a subtree reported     *)
(* stopped is quiet.  SessionControl is shown to implement it.                 *)
EXTENDS Naturals

CONSTANTS Sessions,
          Lineage,     \* Session -> the Session, its parent, its parent's parent, ...
          Executions   \* the identities of executions, numbers above 0

VARIABLES running,     \* the executions under way, each with its Session
          named,       \* Session -> the last execution its record names, or 0
          outcome,     \* Session -> the terminal record, or "none"
          stopped,     \* Sessions that have been stopped
          confirmed    \* Sessions whose subtree has been reported stopped

vars == <<running, named, outcome, stopped, confirmed>>

Runs(s) == \E e \in Executions : <<s, e>> \in running
Allowed(s) == Lineage[s] \cap stopped = {}

Init ==
  /\ running = {}
  /\ named = [s \in Sessions |-> 0]
  /\ outcome = [s \in Sessions |-> "none"]
  /\ stopped = {}
  /\ confirmed = {}

\* An execution begins after the end of the last one, whose record goes.
Start(s, e) ==
  /\ ~Runs(s)
  /\ Allowed(s)
  /\ running' = running \cup {<<s, e>>}
  /\ outcome' = [outcome EXCEPT ![s] = "none"]
  /\ UNCHANGED <<named, stopped, confirmed>>

\* It is recorded while it runs.
Name(s, e) ==
  /\ <<s, e>> \in running
  /\ Allowed(s)
  /\ named' = [named EXCEPT ![s] = e]
  /\ UNCHANGED <<running, outcome, stopped, confirmed>>

End(s, e) ==
  /\ running' = running \ {<<s, e>>}
  /\ UNCHANGED <<named, outcome, stopped, confirmed>>

\* The terminal record tells of an execution that has ended.
Publish(s) ==
  /\ ~Runs(s)
  /\ \E o \in {"ended", "unconfirmed"} : outcome' = [outcome EXCEPT ![s] = o]
  /\ UNCHANGED <<running, named, stopped, confirmed>>

Stop(s) ==
  /\ stopped' = stopped \cup {s}
  /\ UNCHANGED <<running, named, outcome, confirmed>>

\* The stop of a subtree is reported when nothing runs in it.
Report(s) ==
  /\ s \in stopped
  /\ \A d \in Sessions : s \in Lineage[d] => ~Runs(d)
  /\ confirmed' = confirmed \cup {s}
  /\ UNCHANGED <<running, named, outcome, stopped>>

Next ==
  \E s \in Sessions :
     \/ \E e \in Executions : Start(s, e) \/ Name(s, e) \/ End(s, e)
     \/ Publish(s) \/ Stop(s) \/ Report(s)

Spec == Init /\ [][Next]_vars
=============================================================================
