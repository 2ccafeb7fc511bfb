-------------------------- MODULE ExecutionBudget --------------------------
(***************************************************************************)
(* The execution budget of one coding Ticket                               *)
(* (execution/execution_budget.py): the accounting file, its lock, and the *)
(* processes that use it.  A monitor watches each execution of a Team      *)
(* member or of the Leader (_run_session_worker in                         *)
(* teams/coding/team_round.py, _monitor_execution_budget in                *)
(* execution/runner_worker.py): it accounts, samples the stop, ends a      *)
(* stopped execution and carries notices to the Leader.  Main revises the  *)
(* budget and continues a stopped Ticket.  Time is counted in stopping     *)
(* intervals.                                                              *)
(***************************************************************************)
EXTENDS Integers, FiniteSets

CONSTANTS Members,      \* executions of Team members
          Leader,       \* the Leader's execution
          Main,         \* the process of agent-runner continue
          Nobody,       \* the owner of a free lock
          NoUsage,      \* execution-budget.yml does not exist yet
          Stoppable,    \* executions that a stop ends: implementation and Leader
          Budgets,      \* the definitions: [estimate, limit]
          Allowances,   \* the additional allowances that may be drawn
          MaxTime,      \* bound: the clock
          MaxCount,     \* bound: what is counted
          MaxFaults     \* bound: processes killed and deliveries that fail

Watched == Members \cup {Leader}
Processes == Watched \cup {Main}

ASSUME ProcessAssumption ==
  /\ Leader \notin Members /\ Main \notin Watched /\ Nobody \notin Processes
  /\ Stoppable \subseteq Watched

\* A threshold crossed, by its kind and limit.  The Sessions of each role and the
\* corrections are counted alike, each against its own limit: one count stands for
\* them.
Key == {"elapsed", "allowance", "stop", "count"} \X Nat

\* The accounting of a Ticket.
Usage == [started : Nat, count : Nat, allowance : Nat, checks : Nat,
          stopped : BOOLEAN, notified : SUBSET Key, told : SUBSET Key,
          delivered : SUBSET Key]

\* The budget as a Ticket declares it, in stopping intervals and in counts.
Definition == [estimate : Nat, limit : Nat]

ASSUME BudgetAssumption ==
  /\ Budgets \subseteq Definition
  /\ Allowances \subseteq Nat
  /\ NoUsage \notin Usage
  /\ MaxTime \in Nat /\ MaxCount \in Nat /\ MaxFaults \in Nat

VARIABLES definition,   \* the budget in the Ticket's current definition
          usage,        \* execution-budget.yml
          now,
          budgetLock,   \* the owner of .execution-budget.lock
          noticesLock,  \* the owner of .execution-budget-notices.lock
          task,         \* per process where it is and what it has read
          running,      \* the executions under way
          received,     \* the notices that have reached the Leader
          emitted,      \* the notices written to the caller's channel
          faults

vars == <<definition, usage, now, budgetLock, noticesLock, task, running,
          received, emitted, faults>>

\* The kinds that carry a message for the Leader.
ForLeader(keys) == {k \in keys : k[1] \in {"elapsed", "allowance", "stop"}}

\* What a monitor's turn accounts; the last one follows the end of its execution.
Operation == {"count", "check", "last"}

Idle == [pc |-> "off", op |-> "check", copy |-> NoUsage, keys |-> {}]

TypeOK ==
  /\ definition \in Budgets
  /\ usage \in Usage \cup {NoUsage}
  /\ now \in Nat
  /\ budgetLock \in Processes \cup {Nobody}
  /\ noticesLock \in Processes \cup {Nobody}
  /\ task \in [Processes ->
                 [pc : {"off", "ready", "watching", "observing", "emitting", "notices",
                        "delivering", "handed", "marking", "continuing"},
                  op : Operation, copy : Usage \cup {NoUsage}, keys : SUBSET Key]]
  /\ running \subseteq Watched
  /\ received \subseteq Key /\ emitted \subseteq Key
  /\ faults \in Nat

Init ==
  /\ definition \in Budgets
  /\ usage = NoUsage
  /\ now = 0
  /\ budgetLock = Nobody /\ noticesLock = Nobody
  /\ task = [p \in Processes |-> Idle]
  /\ running = {}
  /\ received = {} /\ emitted = {}
  /\ faults = 0

----------------------------------------------------------------------------
(* The accounting *)

Fresh(allowance) ==
  [started |-> now, count |-> 0, allowance |-> allowance, checks |-> 0,
   stopped |-> FALSE, notified |-> {}, told |-> {}, delivered |-> {}]

\* _read_usage: the retained accounting, or a fresh one with a drawn allowance.
Read(copy) == IF copy = NoUsage THEN {Fresh(a) : a \in Allowances} ELSE {copy}

Elapsed(u) == now - u.started

\* The sampled checks that are due by now; the allowance may not be used up.
Due(u) == Elapsed(u) - definition.estimate - u.allowance

\* The outcomes of the checks that are due: any of them may stop the Ticket, and
\* none is made once it is stopped.
Sampled(u) ==
  IF u.stopped \/ Due(u) <= u.checks THEN {u}
  ELSE {[u EXCEPT !.checks = Due(u)]} \cup
       {[u EXCEPT !.checks = c, !.stopped = TRUE] : c \in u.checks + 1 .. Due(u)}

\* The thresholds that u has crossed, after the checks that made it from `before`.
Crossed(before, u) ==
  (IF Elapsed(u) >= definition.estimate THEN {<<"elapsed", definition.estimate>>} ELSE {})
    \cup (IF Due(u) >= 0 THEN {<<"allowance", u.allowance>>} ELSE {})
    \cup (IF u.stopped /\ ~before.stopped THEN {<<"stop", u.checks>>} ELSE {})
    \cup (IF u.count > definition.limit THEN {<<"count", definition.limit>>} ELSE {})

\* A mutated form: every crossing of this observation is announced.
AllCrossed(before, u) == Crossed(before, u)

\* The crossings not announced before.
New(before, u) == Crossed(before, u) \ u.notified

\* A mutated form: an observation counts from a new accounting.
Recount(u, op) == [u EXCEPT !.count = IF op = "count" THEN 1 ELSE 0]

\* A new Session or a correction is counted.
Counted(u, op) == IF op = "count" THEN [u EXCEPT !.count = @ + 1] ELSE u

\* _observe: what it may write, and what it announces.
Observations(copy, op) ==
  UNION {LET counted == Counted(u, op)
         IN  {LET new == New(counted, s)
              IN  [usage |-> [s EXCEPT !.notified = @ \cup new,
                                       !.told = @ \cup ForLeader(new)],
                   new |-> new] : s \in Sampled(counted)} : u \in Read(copy)}

----------------------------------------------------------------------------
(* One use of the accounting file: lock and read it, then write and unlock it. *)
(* A use that only reads is one step.                                         *)

\* A mutated form: the file is read and written without its lock.
NotLocked(p) == TRUE

LockFree(p) == budgetLock = Nobody

Lock(p, pc, op) ==
  /\ LockFree(p)
  /\ budgetLock' = p
  /\ task' = [task EXCEPT ![p] = [pc |-> pc, op |-> op, copy |-> usage, keys |-> @.keys]]
  /\ UNCHANGED <<definition, usage, now, noticesLock, running, received, emitted,
                 faults>>

Goes(p, pc) == task' = [task EXCEPT ![p].pc = pc]

\* p is done with the file and goes on at pc, with the keys it now holds.
Unlock(p, pc, keys) ==
  /\ budgetLock' = Nobody
  /\ task' = [task EXCEPT ![p].pc = pc, ![p].keys = keys, ![p].copy = NoUsage]

\* is_stopped: read before work is started; a stopped Ticket starts none.  The
\* first read of all creates the accounting.
Gate(p) ==
  /\ task[p].pc = "off" /\ p \notin running
  /\ LockFree(p)
  /\ usage' \in Read(usage)
  /\ Goes(p, IF usage'.stopped THEN "off" ELSE "ready")
  /\ UNCHANGED <<definition, now, budgetLock, noticesLock, running, received, emitted,
                 faults>>

\* The execution starts; a new Session, or a correction of a retained one, is
\* counted at the monitor's first turn.
Start(p) ==
  /\ task[p].pc = "ready"
  /\ usage.count < MaxCount
  /\ running' = running \cup {p}
  /\ task' = [task EXCEPT ![p].pc = "watching", ![p].op = "count"]
  /\ UNCHANGED <<definition, usage, now, budgetLock, noticesLock, received, emitted,
                 faults>>

\* check, record_session, record_correction: a turn of the monitor.
Observe(p) ==
  /\ task[p].pc = "watching"
  /\ Lock(p, "observing", IF task[p].op = "check" /\ p \notin running
                          THEN "last" ELSE task[p].op)

\* A mutated form: the stop ends only the execution whose monitor sampled it.
EndsSampler(p, o) == p \in Stoppable /\ \E k \in o.new : k[1] = "stop"

\* A stop, whoever sampled it, ends an execution of the kinds that a stop ends.
Ends(p, o) == p \in Stoppable /\ o.usage.stopped

\* The accounting is written, and what it announces is still to be emitted.
Observed(p) ==
  /\ task[p].pc = "observing"
  /\ \E o \in Observations(task[p].copy, task[p].op) :
        /\ usage' = o.usage
        /\ Unlock(p, "emitting", o.new)
        /\ running' = IF Ends(p, o) THEN running \ {p} ELSE running
  /\ UNCHANGED <<definition, now, noticesLock, received, emitted, faults>>

\* The retained notices are written to the channel, outside the lock.
Emit(p) ==
  /\ task[p].pc = "emitting"
  /\ emitted' = emitted \cup task[p].keys
  /\ task' = [task EXCEPT ![p].pc = "notices", ![p].keys = {},
                          ![p].op = IF @ = "last" THEN "last" ELSE "check"]
  /\ UNCHANGED <<definition, usage, now, budgetLock, noticesLock, running, received,
                 faults>>

----------------------------------------------------------------------------
(* Notices to the Leader *)

\* After its delivery a monitor turns again, or it is done.
Rests(p) == IF task[p].op = "last" THEN "off" ELSE "watching"

Done(p) == task' = [task EXCEPT ![p] = [Idle EXCEPT !.pc = Rests(p)]]

Pending == IF usage = NoUsage THEN {} ELSE usage.told \ usage.delivered

\* deliver_leader_notices in a member's monitor, which takes the notices lock; the
\* Leader's own monitor, once its execution has ended, which takes none.
\* pending_leader_notices: with none, the delivery is over.
Fetch(p) ==
  /\ task[p].pc = "notices"
  /\ p = Leader => task[p].op = "last"
  /\ p \in Members => noticesLock = Nobody
  /\ LockFree(p)
  /\ IF Pending = {}
       THEN /\ Done(p)
            /\ UNCHANGED noticesLock
       ELSE /\ task' = [task EXCEPT ![p].pc = "delivering", ![p].keys = Pending]
            /\ noticesLock' = IF p \in Members THEN p ELSE noticesLock
  /\ UNCHANGED <<definition, usage, now, budgetLock, running, received, emitted, faults>>

\* The Leader has no one to notify while it runs.
LeaderTurnsAgain ==
  /\ task[Leader].pc = "notices" /\ task[Leader].op # "last"
  /\ Goes(Leader, "watching")
  /\ UNCHANGED <<definition, usage, now, budgetLock, noticesLock, running, received,
                 emitted, faults>>

\* The Leader is resumed with the messages, once it is idle.
Deliver(p) ==
  /\ task[p].pc = "delivering"
  /\ Leader \notin running
  /\ received' = received \cup task[p].keys
  /\ Goes(p, "handed")
  /\ UNCHANGED <<definition, usage, now, budgetLock, noticesLock, running, emitted,
                 faults>>

Released(p) == IF noticesLock = p THEN Nobody ELSE noticesLock

\* The resume of the Leader fails: nothing is marked, the error ends the monitor and
\* its execution.
DeliveryFails(p) ==
  /\ task[p].pc = "delivering" /\ faults < MaxFaults
  /\ faults' = faults + 1
  /\ task' = [task EXCEPT ![p] = Idle]
  /\ noticesLock' = Released(p)
  /\ running' = running \ {p}
  /\ UNCHANGED <<definition, usage, now, budgetLock, received, emitted>>

\* A mutated form: what is pending when it is marked counts as delivered.
Everything(p) == task[p].copy.told

\* The keys whose delivery is recorded: those that were fetched.
Handed(p) == task[p].keys

Mark(p) == task[p].pc = "handed" /\ Lock(p, "marking", task[p].op)

\* mark_leader_notices_delivered, and the end of the delivery.
Marked(p) ==
  /\ task[p].pc = "marking"
  /\ usage' = [task[p].copy EXCEPT !.delivered = @ \cup (Handed(p) \cap task[p].copy.told)]
  /\ budgetLock' = Nobody
  /\ noticesLock' = Released(p)
  /\ Done(p)
  /\ UNCHANGED <<definition, now, running, received, emitted, faults>>

----------------------------------------------------------------------------
(* Main, the executions, the clock *)

\* continue_after_stop: refused unless the Ticket is stopped.
Continue ==
  /\ task[Main].pc = "off"
  /\ usage # NoUsage /\ usage.stopped
  /\ Lock(Main, "continuing", "check")

\* A mutated form: the continuation begins a new accounting.
Restarted(u) == [u EXCEPT !.stopped = FALSE, !.checks = 0]

Resumed(u) == [u EXCEPT !.stopped = FALSE]

Continued ==
  /\ task[Main].pc = "continuing"
  /\ usage' = Resumed(task[Main].copy)
  /\ Unlock(Main, "off", {})
  /\ UNCHANGED <<definition, now, noticesLock, running, received, emitted, faults>>

\* ticket revise gives the Ticket another budget, at any time.
Revise(budget) ==
  /\ budget # definition
  /\ definition' = budget
  /\ UNCHANGED <<usage, now, budgetLock, noticesLock, task, running, received, emitted,
                 faults>>

\* An execution ends by itself.
Finish(p) ==
  /\ p \in running
  /\ running' = running \ {p}
  /\ UNCHANGED <<definition, usage, now, budgetLock, noticesLock, task, received,
                 emitted, faults>>

\* Time before the first use of the accounting counts for nothing.
Tick ==
  /\ now < MaxTime /\ usage # NoUsage
  /\ now' = now + 1
  /\ UNCHANGED <<definition, usage, budgetLock, noticesLock, task, running, received,
                 emitted, faults>>

\* The process of p's monitor dies: its locks are freed; the execution may go on
\* without a monitor, or die with it.
Kill(p) ==
  /\ task[p].pc # "off" /\ faults < MaxFaults
  /\ faults' = faults + 1
  /\ task' = [task EXCEPT ![p] = Idle]
  /\ budgetLock' = IF budgetLock = p THEN Nobody ELSE budgetLock
  /\ noticesLock' = Released(p)
  /\ running' \in {running, running \ {p}}
  /\ UNCHANGED <<definition, usage, now, received, emitted>>

\* The steps of p's monitor that follow once its execution has started.
Turn(p) ==
  \/ Observe(p) \/ Observed(p) \/ Emit(p)
  \/ p = Leader /\ LeaderTurnsAgain
  \/ Fetch(p) \/ Deliver(p) \/ Mark(p) \/ Marked(p)

Next ==
  \/ \E p \in Watched :
        \/ Gate(p)
        \/ Start(p)
        \/ Turn(p)
        \/ DeliveryFails(p)
        \/ Finish(p)
  \/ Continue
  \/ Continued
  \/ \E budget \in Budgets : Revise(budget)
  \/ \E p \in Processes : Kill(p)
  \/ Tick

\* A monitor goes on while its process lives, one that waits for a lock gets it in
\* the end, and an execution of the Leader ends.  Starting work, the clock, Main and
\* kills are owed to nobody.
Fairness ==
  /\ \A p \in Watched : SF_vars(Turn(p))
  /\ WF_vars(Continued) /\ WF_vars(Finish(Leader))

Spec == Init /\ [][Next]_vars /\ Fairness

----------------------------------------------------------------------------
(* Properties *)

\* A sampled stop lasts until it is explicitly continued: no observation, notice,
\* restart, kill or revision clears it ("A budget edit alone does not resume
\* execution.", README.md:427).
StopLatches ==
  [][(usage # NoUsage /\ usage.stopped) =>
       (usage' # NoUsage /\ (usage'.stopped \/ task[Main].pc = "continuing"))]_usage

\* Nothing that was consumed is lost or drawn again, by concurrent monitors or by a
\* continuation: start, allowance and history are kept and the counts only grow
\* ("Original elapsed time, consumption, sampling history and valid results
\* remain", README.md:428).
Keeps(old, new) ==
  /\ new.started = old.started /\ new.allowance = old.allowance
  /\ new.count >= old.count /\ new.checks >= old.checks
  /\ old.notified \subseteq new.notified /\ old.told \subseteq new.told
  /\ old.delivered \subseteq new.delivered

AccountingIsKept == [][usage # NoUsage => (usage' # NoUsage /\ Keeps(usage, usage'))]_usage

\* Each threshold crossing is emitted at most once, whichever monitors observe it
\* together ("emit each budget threshold crossing once",
\* execution_budget.py:198); one that was retained and not emitted is lost with
\* its process.
EmittedOnce ==
  \A p \in Watched : task[p].pc = "emitting" =>
     /\ task[p].keys \cap emitted = {}
     /\ \A q \in Watched \ {p} :
          task[q].pc = "emitting" => task[p].keys \cap task[q].keys = {}

\* A notice that is recorded as delivered has reached the Leader: the crash between
\* delivery and mark repeats a notice and never loses one
\* (execution_budget.py:268-274, team_round.py:2722-2749).
DeliveredWasReceived == usage # NoUsage => usage.delivered \subseteq received

\* A stop ends each execution of the stoppable kinds that has a monitor, also one
\* that passed the gate before the stop was sampled (team_round.py:2985-2992).
StopEnds ==
  \A p \in Stoppable :
     (usage # NoUsage /\ usage.stopped /\ p \in running)
       ~> (p \notin running \/ ~usage.stopped \/ task[p].pc = "off")

\* Every notice retained for the Leader reaches it, unless every monitor has gone
\* (team_round.py:2642-2753).
Unheard == usage # NoUsage /\ ~(usage.told \subseteq received)

NoticesArrive ==
  Unheard ~> (~Unheard \/ \A p \in Watched : task[p].pc \in {"off", "ready"})
=============================================================================
