----------------------- MODULE ExecutionBudgetProofs -----------------------
(* What the accounting of a budget guarantees for any number of monitored   *)
(* executions, definitions, allowances, faults and readings of the clock.   *)
EXTENDS ExecutionBudget, TLAPS

Writing == {"observing", "marking", "continuing"}

\* Who is about to write the file has it locked, and has read what is in it.
ReadsUnderLock ==
  \A p \in Processes :
     task[p].pc \in Writing => budgetLock = p /\ task[p].copy = usage

\* What a delivery carries has been retained, and once it was handed over it has
\* arrived; what is recorded as delivered has as well.
Deliveries ==
  /\ \A p \in Processes :
        /\ task[p].pc \in {"delivering", "handed", "marking", "continuing"} => usage # NoUsage
        /\ task[p].pc \in {"handed", "marking"} => task[p].keys \subseteq received
  /\ DeliveredWasReceived

\* What is emitted, or is about to be, was noted as announced.
Emissions ==
  /\ EmittedOnce
  /\ \A p \in Processes : task[p].pc = "emitting" =>
        usage # NoUsage /\ task[p].keys \subseteq usage.notified
  /\ emitted # {} => usage # NoUsage /\ emitted \subseteq usage.notified

Inv == TypeOK /\ ReadsUnderLock /\ Deliveries /\ Emissions

----------------------------------------------------------------------------
(* One observation *)

\* A first read gives an accounting, and a later one what it finds.
LEMMA ReadGives ==
  ASSUME NEW copy \in Usage \cup {NoUsage}, TypeOK, BudgetAssumption, NEW u \in Read(copy)
  PROVE  /\ u \in Usage
         /\ copy # NoUsage => u = copy
         /\ copy = NoUsage => u.delivered = {}
<1>1. CASE copy = NoUsage
  <2>1. PICK a \in Allowances : u = Fresh(a)
    BY <1>1 DEF Read
  <2>. QED BY <1>1, <2>1, BudgetAssumption DEF Fresh, Usage, TypeOK, BudgetAssumption, Definition
<1>2. CASE copy # NoUsage
  BY <1>2 DEF Read
<1>. QED BY <1>1, <1>2

\* The due checks only add to an accounting, and may stop it.
LEMMA SamplingGives ==
  ASSUME NEW u \in Usage, TypeOK, BudgetAssumption, NEW s \in Sampled(u)
  PROVE  /\ s \in Usage
         /\ s.started = u.started /\ s.count = u.count /\ s.allowance = u.allowance
         /\ s.checks >= u.checks /\ (u.stopped => s.stopped)
         /\ s.notified = u.notified /\ s.told = u.told /\ s.delivered = u.delivered
<1>1. Due(u) \in Int
  BY BudgetAssumption DEF Due, Elapsed, TypeOK, Usage, BudgetAssumption, Definition
<1>2. CASE s = u
  BY <1>2 DEF Usage
<1>3. CASE Due(u) > u.checks /\ s = [u EXCEPT !.checks = Due(u)]
  BY <1>1, <1>3 DEF Usage
<1>4. ASSUME ~u.stopped, NEW c \in u.checks + 1 .. Due(u),
             s = [u EXCEPT !.checks = c, !.stopped = TRUE]
      PROVE  /\ s \in Usage
             /\ s.started = u.started /\ s.count = u.count /\ s.allowance = u.allowance
             /\ s.checks >= u.checks /\ (u.stopped => s.stopped)
             /\ s.notified = u.notified /\ s.told = u.told /\ s.delivered = u.delivered
  <2>1. u.checks \in Nat /\ c \in Nat /\ c >= u.checks
    BY <1>1, <1>4 DEF Usage
  <2>2. s = [started |-> u.started, count |-> u.count, allowance |-> u.allowance,
             checks |-> c, stopped |-> TRUE, notified |-> u.notified, told |-> u.told,
             delivered |-> u.delivered]
    BY <1>4 DEF Usage
  <2>. QED BY <2>1, <2>2 DEF Usage
<1>5. \/ s = u
      \/ Due(u) > u.checks /\ s = [u EXCEPT !.checks = Due(u)]
      \/ ~u.stopped /\ \E c \in u.checks + 1 .. Due(u) :
                          s = [u EXCEPT !.checks = c, !.stopped = TRUE]
  <2>1. CASE u.stopped \/ Due(u) <= u.checks
    BY <2>1 DEF Sampled
  <2>2. CASE ~(u.stopped \/ Due(u) <= u.checks)
    <3>1. Due(u) > u.checks
      BY <1>1, <2>2 DEF Usage
    <3>2. s \in {[u EXCEPT !.checks = Due(u)]}
              \cup {[u EXCEPT !.checks = c, !.stopped = TRUE] : c \in u.checks + 1 .. Due(u)}
      BY <2>2 DEF Sampled
    <3>. QED BY <2>2, <3>1, <3>2
  <2>. QED BY <2>1, <2>2
<1>. QED BY <1>2, <1>3, <1>4, <1>5

\* Thresholds are keys.
LEMMA CrossingsAreKeys ==
  ASSUME NEW before \in Usage, NEW u \in Usage, TypeOK, BudgetAssumption
  PROVE  Crossed(before, u) \subseteq Key
BY DEF Crossed, TypeOK, Usage, Key, BudgetAssumption, Definition

\* An observation keeps what it has read, and announces what was not announced before.
LEMMA ObservationGives ==
  ASSUME NEW copy \in Usage \cup {NoUsage}, NEW op \in Operation, TypeOK, BudgetAssumption,
         NEW o \in Observations(copy, op)
  PROVE  /\ o.usage \in Usage /\ o.new \in SUBSET Key
         /\ o.new \subseteq o.usage.notified
         /\ copy = NoUsage => o.usage.delivered = {}
         /\ copy # NoUsage => /\ Keeps(copy, o.usage) /\ o.new \cap copy.notified = {}
                              /\ o.usage.delivered = copy.delivered
                              /\ copy.stopped => o.usage.stopped
<1>0. PICK u \in Read(copy) : \E s \in Sampled(Counted(u, op)) :
        LET new == New(Counted(u, op), s)
        IN  o = [usage |-> [s EXCEPT !.notified = @ \cup new, !.told = @ \cup ForLeader(new)],
                 new |-> new]
  BY DEF Observations
<1>1. PICK s \in Sampled(Counted(u, op)) :
        LET new == New(Counted(u, op), s)
        IN  o = [usage |-> [s EXCEPT !.notified = @ \cup new, !.told = @ \cup ForLeader(new)],
                 new |-> new]
  BY <1>0
<1> DEFINE counted == Counted(u, op)
           new == New(counted, s)
<1>2. /\ u \in Usage /\ (copy # NoUsage => u = copy)
      /\ copy = NoUsage => u.delivered = {}
  BY ReadGives
<1>3. /\ counted \in Usage /\ counted.count >= u.count
      /\ counted.started = u.started /\ counted.allowance = u.allowance
      /\ counted.checks = u.checks /\ counted.stopped = u.stopped
      /\ counted.notified = u.notified /\ counted.told = u.told
      /\ counted.delivered = u.delivered
  BY <1>2 DEF Counted, Usage
<1>4. /\ s \in Usage
      /\ s.started = counted.started /\ s.count = counted.count
      /\ s.allowance = counted.allowance
      /\ s.checks >= counted.checks /\ (counted.stopped => s.stopped)
      /\ s.notified = counted.notified /\ s.told = counted.told
      /\ s.delivered = counted.delivered
  BY <1>1, <1>3, SamplingGives
<1>5. new \in SUBSET Key /\ ForLeader(new) \in SUBSET Key
  BY <1>3, <1>4, CrossingsAreKeys DEF New, ForLeader
<1>6. new \cap s.notified = {}
  BY DEF New
<1> HIDE DEF counted, new
<1>7. /\ o.new = new
      /\ o.usage = [s EXCEPT !.notified = @ \cup new, !.told = @ \cup ForLeader(new)]
  BY <1>1 DEF counted, new
<1>8. /\ o.usage \in Usage
      /\ o.usage.notified = s.notified \cup new /\ o.usage.told = s.told \cup ForLeader(new)
      /\ o.usage.started = s.started /\ o.usage.count = s.count
      /\ o.usage.allowance = s.allowance /\ o.usage.checks = s.checks
      /\ o.usage.stopped = s.stopped /\ o.usage.delivered = s.delivered
  BY <1>4, <1>5, <1>7 DEF Usage
<1>. QED BY <1>2, <1>3, <1>4, <1>5, <1>6, <1>7, <1>8 DEF Keeps, Usage

----------------------------------------------------------------------------
(* Types *)

\* Locks and places that a step gives a process are among theirs.
LEMMA TypesStay ==
  ASSUME Inv, BudgetAssumption, ProcessAssumption, Next
  PROVE  TypeOK'
<1>. USE BudgetAssumption, ProcessAssumption DEF BudgetAssumption, ProcessAssumption
<1>20. TypeOK
  BY DEF Inv
<1>. USE <1>20
<1>. DEFINE Places == {"off", "ready", "watching", "observing", "emitting", "notices",
                       "delivering", "handed", "marking", "continuing"}
            Tasks == [pc : Places, op : Operation, copy : Usage \cup {NoUsage}, keys : SUBSET Key]
<1>0. /\ Idle \in Tasks /\ Watched \subseteq Processes /\ Main \in Processes
      /\ Leader \in Watched /\ Members \subseteq Watched
  BY DEF Idle, Operation, Watched, Processes
<1>1. ASSUME NEW p \in Watched, Gate(p) PROVE TypeOK'
  <2>1. usage' \in Usage
    BY <1>1, ReadGives DEF Gate, TypeOK
  <2>2. task' \in [Processes -> Tasks]
    BY <1>0, <1>1 DEF Gate, Goes, TypeOK
  <2>. QED BY <1>1, <2>1, <2>2 DEF Gate, TypeOK
<1>2. ASSUME NEW p \in Watched, Start(p) PROVE TypeOK'
  <2>1. task' \in [Processes -> Tasks]
    BY <1>0, <1>2 DEF Start, TypeOK, Operation
  <2>. QED BY <1>2, <2>1 DEF Start, TypeOK
<1>3. ASSUME NEW p \in Processes, NEW pc \in Places, NEW op \in Operation, Lock(p, pc, op)
      PROVE  TypeOK'
  <2> DEFINE mine == [pc |-> pc, op |-> op, copy |-> usage, keys |-> task[p].keys]
  <2>1. task \in [Processes -> Tasks] /\ mine \in Tasks
    BY DEF TypeOK
  <2>2. task' = [task EXCEPT ![p] = mine]
    BY <1>3 DEF Lock
  <2>3. task' \in [Processes -> Tasks]
    BY <2>1, <2>2
  <2>. QED BY <1>3, <2>3 DEF Lock, TypeOK
<1>4. ASSUME NEW p \in Watched, Observe(p) PROVE TypeOK'
  BY <1>0, <1>3, <1>4 DEF Observe, TypeOK, Operation
<1>5. ASSUME NEW p \in Watched, Observed(p) PROVE TypeOK'
  <2>1. PICK o \in Observations(task[p].copy, task[p].op) :
          /\ usage' = o.usage
          /\ Unlock(p, "emitting", o.new)
          /\ running' = IF Ends(p, o) THEN running \ {p} ELSE running
    BY <1>5 DEF Observed
  <2>2. task[p].copy \in Usage \cup {NoUsage} /\ task[p].op \in Operation
    BY <1>0 DEF TypeOK
  <2>3. o.usage \in Usage /\ o.new \in SUBSET Key
    BY <2>2, ObservationGives
  <2>4. task' \in [Processes -> Tasks]
    BY <1>0, <2>1, <2>3 DEF Unlock, TypeOK
  <2>. QED BY <1>5, <2>1, <2>3, <2>4 DEF Observed, Unlock, TypeOK
<1>6. ASSUME NEW p \in Watched, Emit(p) PROVE TypeOK'
  <2>1. task[p].keys \in SUBSET Key
    BY <1>0 DEF TypeOK
  <2>2. task' \in [Processes -> Tasks]
    BY <1>0, <1>6 DEF Emit, TypeOK, Operation
  <2>. QED BY <1>6, <2>1, <2>2 DEF Emit, TypeOK
<1>7. ASSUME NEW p \in Processes, Done(p) PROVE task' \in [Processes -> Tasks]
  BY <1>0, <1>7 DEF Done, Rests, Idle, TypeOK, Operation
<1>8. ASSUME LeaderTurnsAgain PROVE TypeOK'
  <2>1. task' \in [Processes -> Tasks]
    BY <1>0, <1>8 DEF LeaderTurnsAgain, Goes, TypeOK
  <2>. QED BY <1>8, <2>1 DEF LeaderTurnsAgain, TypeOK
<1>9. ASSUME NEW p \in Watched, Fetch(p) PROVE TypeOK'
  <2>1. Pending \in SUBSET Key
    BY DEF Pending, TypeOK, Usage
  <2>2. task' \in [Processes -> Tasks]
    <3>1. CASE Done(p)
      BY <1>0, <1>7, <3>1
    <3>2. CASE task' = [task EXCEPT ![p].pc = "delivering", ![p].keys = Pending]
      BY <1>0, <2>1, <3>2 DEF TypeOK
    <3>. QED BY <1>9, <3>1, <3>2 DEF Fetch
  <2>. QED BY <1>0, <1>9, <2>2 DEF Fetch, TypeOK
<1>10. ASSUME NEW p \in Watched, Deliver(p) PROVE TypeOK'
  <2>1. task[p].keys \in SUBSET Key
    BY <1>0 DEF TypeOK
  <2>2. task' \in [Processes -> Tasks]
    BY <1>0, <1>10 DEF Deliver, Goes, TypeOK
  <2>. QED BY <1>10, <2>1, <2>2 DEF Deliver, TypeOK
<1>11. ASSUME NEW p \in Watched, Mark(p) PROVE TypeOK'
  BY <1>0, <1>3, <1>11 DEF Mark, TypeOK
<1>12. ASSUME NEW p \in Watched, Marked(p) PROVE TypeOK'
  <2>1. task' \in [Processes -> Tasks]
    BY <1>0, <1>7, <1>12 DEF Marked
  <2>2. task[p].copy \in Usage /\ Handed(p) \in SUBSET Key
    BY <1>0, <1>12 DEF Marked, Inv, ReadsUnderLock, Deliveries, Writing, TypeOK, Handed
  <2>3. usage' \in Usage
    BY <1>12, <2>2 DEF Marked, Usage
  <2>. QED BY <1>12, <2>1, <2>3 DEF Marked, Released, TypeOK
<1>13. ASSUME NEW p \in Watched, DeliveryFails(p) PROVE TypeOK'
  <2>1. task' \in [Processes -> Tasks]
    BY <1>0, <1>13 DEF DeliveryFails, TypeOK
  <2>. QED BY <1>13, <2>1 DEF DeliveryFails, Released, TypeOK
<1>14. ASSUME NEW p \in Watched, Finish(p) PROVE TypeOK'
  BY <1>14 DEF Finish, TypeOK
<1>15. ASSUME Continue PROVE TypeOK'
  BY <1>0, <1>3, <1>15 DEF Continue, Operation
<1>16. ASSUME Continued PROVE TypeOK'
  <2>1. task[Main].copy \in Usage
    BY <1>0, <1>16 DEF Continued, Inv, ReadsUnderLock, Deliveries, Writing, TypeOK
  <2>2. usage' \in Usage
    BY <1>16, <2>1 DEF Continued, Resumed, Usage
  <2>3. task' \in [Processes -> Tasks]
    BY <1>0, <1>16 DEF Continued, Unlock, TypeOK
  <2>. QED BY <1>16, <2>2, <2>3 DEF Continued, Unlock, TypeOK
<1>17. ASSUME NEW budget \in Budgets, Revise(budget) PROVE TypeOK'
  BY <1>17 DEF Revise, TypeOK
<1>18. ASSUME NEW p \in Processes, Kill(p) PROVE TypeOK'
  <2>1. task' \in [Processes -> Tasks]
    BY <1>0, <1>18 DEF Kill, TypeOK
  <2>. QED BY <1>18, <2>1 DEF Kill, Released, TypeOK
<1>19. ASSUME Tick PROVE TypeOK'
  BY <1>19 DEF Tick, TypeOK
<1>. QED BY <1>0, <1>1, <1>2, <1>4, <1>5, <1>6, <1>8, <1>9, <1>10, <1>11, <1>12, <1>13,
            <1>14, <1>15, <1>16, <1>17, <1>18, <1>19 DEF Next, Turn

----------------------------------------------------------------------------
(* Steps *)

\* The steps that leave the accounting and its lock alone.
Elsewhere(p) ==
  \/ Start(p) \/ Emit(p) \/ Fetch(p) \/ Deliver(p) \/ DeliveryFails(p) \/ Finish(p)
  \/ p = Leader /\ LeaderTurnsAgain

\* The steps by which a process takes the lock.
Locks(p) ==
  \/ p \in Watched /\ (Observe(p) \/ Mark(p))
  \/ p = Main /\ Continue

\* Every step is one of these, with whoever takes it.
LEMMA Steps ==
  ASSUME Next
  PROVE  \/ \E p \in Watched : \/ Gate(p) \/ Observed(p) \/ Marked(p) \/ Elsewhere(p)
         \/ \E p \in Processes : Locks(p) \/ Kill(p)
         \/ Continued
         \/ (\E budget \in Budgets : Revise(budget)) \/ Tick
<1>1. ASSUME NEW p \in Watched, Turn(p)
      PROVE  Observed(p) \/ Marked(p) \/ Elsewhere(p) \/ Locks(p)
  BY <1>1 DEF Turn, Elsewhere, Locks
<1>2. ASSUME NEW p \in Watched, DeliveryFails(p) \/ Finish(p) \/ Start(p)
      PROVE  Elsewhere(p)
  BY <1>2 DEF Elsewhere
<1>3. Continue => Locks(Main)
  BY DEF Locks
<1>4. Watched \subseteq Processes /\ Main \in Processes
  BY DEF Processes
<1>. QED BY <1>1, <1>2, <1>3, <1>4 DEF Next

\* A step elsewhere moves its process, and not to the file.
LEMMA ElsewhereMoves ==
  ASSUME TypeOK, NEW p \in Watched, Elsewhere(p)
  PROVE  /\ UNCHANGED <<usage, budgetLock>>
         /\ \A q \in Processes \ {p} : task'[q] = task[q]
         /\ \/ task'[p] = task[p]
            \/ task'[p].pc \in {"off", "watching", "notices"}
            \/ task'[p].pc = "delivering" /\ usage # NoUsage
            \/ Deliver(p) /\ task'[p].pc = "handed" /\ task'[p].keys = task[p].keys
         /\ received \subseteq received'
         /\ \/ emitted' = emitted
            \/ Emit(p)
<1>. USE DEF TypeOK
<1>1. CASE Start(p)
  BY <1>1 DEF Start, Watched, Processes
<1>2. CASE Emit(p)
  BY <1>2 DEF Emit, Watched, Processes
<1>3. CASE p = Leader /\ LeaderTurnsAgain
  BY <1>3 DEF LeaderTurnsAgain, Goes, Watched, Processes
<1>4. CASE Fetch(p)
  <2>1. CASE Pending = {}
    BY <1>4, <2>1 DEF Fetch, Done, Rests, Idle, Watched, Processes
  <2>2. CASE Pending # {}
    BY <1>4, <2>2 DEF Fetch, Pending, Watched, Processes
  <2>. QED BY <2>1, <2>2
<1>5. CASE Deliver(p)
  BY <1>5 DEF Deliver, Goes, Watched, Processes
<1>6. CASE DeliveryFails(p)
  BY <1>6 DEF DeliveryFails, Idle, Watched, Processes
<1>7. CASE Finish(p)
  BY <1>7 DEF Finish
<1>. QED BY <1>1, <1>2, <1>3, <1>4, <1>5, <1>6, <1>7 DEF Elsewhere

\* A process that takes the lock finds it free, and reads the file.
LEMMA LocksRead ==
  ASSUME TypeOK, NEW p \in Processes, Locks(p)
  PROVE  /\ budgetLock = Nobody /\ budgetLock' = p /\ usage' = usage
         /\ \A q \in Processes \ {p} : task'[q] = task[q]
         /\ task'[p].copy = usage /\ task'[p].keys = task[p].keys
         /\ \/ task'[p].pc = "observing"
            \/ task'[p].pc = "marking" /\ task[p].pc = "handed"
            \/ task'[p].pc = "continuing" /\ usage # NoUsage
         /\ UNCHANGED <<received, emitted>>
<1>1. ASSUME NEW pc, NEW op, Lock(p, pc, op)
      PROVE  /\ budgetLock = Nobody /\ budgetLock' = p /\ usage' = usage
             /\ \A q \in Processes \ {p} : task'[q] = task[q]
             /\ task'[p].pc = pc /\ task'[p].copy = usage /\ task'[p].keys = task[p].keys
             /\ UNCHANGED <<received, emitted>>
  BY <1>1 DEF Lock, LockFree, TypeOK
<1>2. CASE p \in Watched /\ Observe(p)
  <2>1. PICK op : Lock(p, "observing", op)
    BY <1>2, Zenon DEF Observe
  <2>. QED BY <1>1, <2>1
<1>3. CASE p \in Watched /\ Mark(p)
  <2>1. task[p].pc = "handed" /\ \E op : Lock(p, "marking", op)
    BY <1>3, Zenon DEF Mark
  <2>. QED BY <1>1, <2>1
<1>4. CASE p = Main /\ Continue
  <2>1. usage # NoUsage /\ \E op : Lock(p, "continuing", op)
    BY <1>4, Zenon DEF Continue
  <2>. QED BY <1>1, <2>1
<1>. QED BY <1>2, <1>3, <1>4 DEF Locks

\* A killed process leaves the file as it is.
LEMMA KillLeaves ==
  ASSUME TypeOK, NEW p \in Processes, Kill(p)
  PROVE  /\ usage' = usage /\ task'[p].pc = "off"
         /\ \A q \in Processes \ {p} : task'[q] = task[q]
         /\ budgetLock' = IF budgetLock = p THEN Nobody ELSE budgetLock
         /\ UNCHANGED <<received, emitted>>
BY DEF Kill, TypeOK, Idle

\* The three ways in which the file is written: each replaces what was read by what it
\* keeps.
LEMMA WritesKeep ==
  ASSUME Inv, BudgetAssumption, ProcessAssumption, NEW p \in Processes,
         \/ p \in Watched /\ (Observed(p) \/ Marked(p))
         \/ p = Main /\ Continued
  PROVE  /\ task[p].pc \in Writing /\ budgetLock = p /\ task[p].copy = usage
         /\ budgetLock' = Nobody /\ usage' \in Usage
         /\ \A q \in Processes \ {p} : task'[q] = task[q]
         /\ usage # NoUsage => Keeps(usage, usage')
         /\ usage # NoUsage /\ usage.stopped => usage'.stopped \/ task[Main].pc = "continuing"
         /\ usage'.delivered \subseteq received
         /\ \/ task'[p].pc \in {"off", "watching"}
            \/ /\ task'[p].pc = "emitting" /\ task'[p].keys \subseteq usage'.notified
               /\ usage # NoUsage => task'[p].keys \cap usage.notified = {}
         /\ UNCHANGED <<received, emitted>>
<1>. USE DEF Writing
<1>0. TypeOK /\ ReadsUnderLock /\ Deliveries /\ Emissions
  BY DEF Inv
<1>1. CASE p \in Watched /\ Observed(p)
  <2>1. PICK o \in Observations(task[p].copy, task[p].op) :
          /\ usage' = o.usage
          /\ Unlock(p, "emitting", o.new)
    BY <1>1 DEF Observed
  <2>2. task[p].pc = "observing" /\ budgetLock = p /\ task[p].copy = usage
    BY <1>0, <1>1 DEF Observed, ReadsUnderLock
  <2>3. usage \in Usage \cup {NoUsage} /\ task[p].op \in Operation
    BY <1>0 DEF TypeOK
  <2>4. /\ o.usage \in Usage /\ o.new \subseteq o.usage.notified
        /\ usage = NoUsage => o.usage.delivered = {}
        /\ usage # NoUsage => /\ Keeps(usage, o.usage) /\ o.new \cap usage.notified = {}
                              /\ o.usage.delivered = usage.delivered
                              /\ usage.stopped => o.usage.stopped
    BY <1>0, <2>1, <2>2, <2>3, ObservationGives, BudgetAssumption
  <2>5. /\ budgetLock' = Nobody /\ task'[p].pc = "emitting" /\ task'[p].keys = o.new
        /\ \A q \in Processes \ {p} : task'[q] = task[q]
        /\ UNCHANGED <<received, emitted>>
    BY <1>0, <1>1, <2>1 DEF Observed, Unlock, TypeOK
  <2>. QED BY <1>0, <2>1, <2>2, <2>4, <2>5 DEF Deliveries, DeliveredWasReceived
<1>2. CASE p \in Watched /\ Marked(p)
  <2>1. /\ task[p].pc = "marking" /\ budgetLock = p /\ task[p].copy = usage
        /\ usage # NoUsage /\ usage \in Usage /\ task[p].keys \subseteq received
    BY <1>0, <1>2 DEF Marked, ReadsUnderLock, Deliveries, TypeOK
  <2>2. usage' = [usage EXCEPT !.delivered = @ \cup (task[p].keys \cap usage.told)]
    BY <1>2, <2>1 DEF Marked, Handed
  <2>3. /\ usage' \in Usage /\ Keeps(usage, usage') /\ usage'.stopped = usage.stopped
        /\ usage'.delivered = usage.delivered \cup (task[p].keys \cap usage.told)
    BY <2>1, <2>2 DEF Usage, Keeps
  <2>4. /\ budgetLock' = Nobody /\ task'[p].pc \in {"off", "watching"}
        /\ \A q \in Processes \ {p} : task'[q] = task[q]
        /\ UNCHANGED <<received, emitted>>
    BY <1>0, <1>2 DEF Marked, Done, Rests, Idle, TypeOK
  <2>. QED BY <1>0, <2>1, <2>3, <2>4 DEF Deliveries, DeliveredWasReceived
<1>3. CASE p = Main /\ Continued
  <2>1. /\ task[p].pc = "continuing" /\ budgetLock = p /\ task[p].copy = usage
        /\ usage # NoUsage /\ usage \in Usage
    BY <1>0, <1>3 DEF Continued, ReadsUnderLock, Deliveries, TypeOK
  <2>2. usage' = [usage EXCEPT !.stopped = FALSE]
    BY <1>3, <2>1 DEF Continued, Resumed
  <2>3. usage' \in Usage /\ Keeps(usage, usage') /\ usage'.delivered = usage.delivered
    <3>1. usage' = [started |-> usage.started, count |-> usage.count,
                    allowance |-> usage.allowance, checks |-> usage.checks, stopped |-> FALSE,
                    notified |-> usage.notified, told |-> usage.told,
                    delivered |-> usage.delivered]
      BY <2>1, <2>2 DEF Usage
    <3>. QED BY <2>1, <3>1 DEF Usage, Keeps
  <2>4. /\ budgetLock' = Nobody /\ task'[p].pc = "off"
        /\ \A q \in Processes \ {p} : task'[q] = task[q]
        /\ UNCHANGED <<received, emitted>>
    BY <1>0, <1>3 DEF Continued, Unlock, TypeOK
  <2>. QED BY <1>0, <1>3, <2>1, <2>3, <2>4 DEF Deliveries, DeliveredWasReceived
<1>. QED BY <1>1, <1>2, <1>3

\* The first read of all creates the accounting, later ones leave it.
LEMMA GateLeaves ==
  ASSUME TypeOK, BudgetAssumption, NEW p \in Watched, Gate(p)
  PROVE  /\ budgetLock = Nobody /\ budgetLock' = Nobody
         /\ usage' \in Usage /\ (usage # NoUsage => usage' = usage)
         /\ usage = NoUsage => usage'.delivered = {}
         /\ \A q \in Processes \ {p} : task'[q] = task[q]
         /\ task'[p].pc \in {"off", "ready"}
         /\ UNCHANGED <<received, emitted>>
<1>1. usage \in Usage \cup {NoUsage} /\ usage' \in Read(usage)
  BY DEF Gate, TypeOK
<1>2. /\ usage' \in Usage /\ (usage # NoUsage => usage' = usage)
      /\ usage = NoUsage => usage'.delivered = {}
  BY <1>1, ReadGives
<1>. QED BY <1>2 DEF Gate, Goes, LockFree, TypeOK, Watched, Processes

----------------------------------------------------------------------------
(* The invariant *)

\* What every step does to the file, the locks and the notices.
LEMMA InvariantStays ==
  ASSUME Inv, BudgetAssumption, ProcessAssumption, Next
  PROVE  ReadsUnderLock' /\ Deliveries' /\ Emissions'
<1>0. /\ TypeOK /\ ReadsUnderLock /\ Deliveries /\ Emissions
      /\ Nobody \notin Processes /\ Watched \subseteq Processes /\ Main \in Processes
  BY ProcessAssumption DEF Inv, ProcessAssumption, Processes
<1>. USE DEF ReadsUnderLock, Deliveries, DeliveredWasReceived, Emissions, EmittedOnce, Writing
<1>1. ASSUME NEW p \in Watched, Gate(p)
      PROVE  ReadsUnderLock' /\ Deliveries' /\ Emissions'
  BY <1>0, <1>1, GateLeaves, BudgetAssumption DEF TypeOK, BudgetAssumption
<1>2. ASSUME NEW p \in Processes,
             \/ p \in Watched /\ (Observed(p) \/ Marked(p))
             \/ p = Main /\ Continued
      PROVE  ReadsUnderLock' /\ Deliveries' /\ Emissions'
  <2>1. usage' # NoUsage /\ \A q \in Processes \ {p} : task[q].pc \notin Writing
    BY <1>0, <1>2, WritesKeep, BudgetAssumption DEF BudgetAssumption
  <2>2. ReadsUnderLock'
    BY <1>0, <1>2, <2>1, WritesKeep
  <2>3. Deliveries'
    BY <1>0, <1>2, <2>1, WritesKeep
  <2>4. usage # NoUsage => usage.notified \subseteq usage'.notified
    BY <1>2, WritesKeep DEF Keeps
  <2>5. Emissions'
    BY <1>0, <1>2, <2>1, <2>4, WritesKeep
  <2>. QED BY <2>2, <2>3, <2>5
<1>3. ASSUME NEW p \in Watched, Elsewhere(p)
      PROVE  ReadsUnderLock' /\ Deliveries' /\ Emissions'
  <2>1. ReadsUnderLock'
    BY <1>0, <1>3, ElsewhereMoves
  <2>2. Deliver(p) => task[p].keys \subseteq received'
    BY DEF Deliver
  <2>3. Deliver(p) => usage # NoUsage
    BY <1>0 DEF Deliver
  <2>4. Deliveries'
    BY <1>0, <1>3, <2>2, <2>3, ElsewhereMoves
  <2>5. Emit(p) => task[p].pc = "emitting" /\ emitted' = emitted \cup task[p].keys
                     /\ task'[p].pc = "notices"
    BY <1>0 DEF Emit, TypeOK
  <2>6. Emissions'
    BY <1>0, <1>3, <2>5, ElsewhereMoves
  <2>. QED BY <2>1, <2>4, <2>6
<1>4. ASSUME NEW p \in Processes, Locks(p)
      PROVE  ReadsUnderLock' /\ Deliveries' /\ Emissions'
  BY <1>0, <1>4, LocksRead
<1>5. ASSUME NEW p \in Processes, Kill(p)
      PROVE  ReadsUnderLock' /\ Deliveries' /\ Emissions'
  BY <1>0, <1>5, KillLeaves
<1>6. ASSUME (\E budget \in Budgets : Revise(budget)) \/ Tick
      PROVE  ReadsUnderLock' /\ Deliveries' /\ Emissions'
  BY <1>0, <1>6 DEF Revise, Tick
<1>. QED BY <1>0, <1>1, <1>2, <1>3, <1>4, <1>5, <1>6, Steps

\* What monitors, Main and kills rely on holds throughout.
THEOREM Invariant == Spec => []Inv
<1>1. Init => Inv
  <2>1. ASSUME Init
        PROVE  \A p \in Processes : task[p].pc = "off" /\ task[p].keys = {}
    BY <2>1 DEF Init, Idle
  <2>2. ASSUME Init PROVE TypeOK
    BY <2>2 DEF Init, TypeOK, Idle, Operation
  <2>3. ASSUME Init PROVE ReadsUnderLock /\ Deliveries /\ Emissions
    BY <2>1, <2>3
    DEF Init, ReadsUnderLock, Deliveries, DeliveredWasReceived, Emissions, EmittedOnce,
        Writing, Watched, Processes
  <2>. QED BY <2>2, <2>3 DEF Inv
<1>2. Inv /\ [Next]_vars => Inv'
  <2>1. ASSUME Inv, Next PROVE Inv'
    BY <2>1, TypesStay, InvariantStays, BudgetAssumption, ProcessAssumption DEF Inv
  <2>2. ASSUME Inv, UNCHANGED vars PROVE Inv'
    BY <2>2 DEF Inv, TypeOK, ReadsUnderLock, Deliveries, DeliveredWasReceived, Emissions,
                EmittedOnce, vars
  <2>. QED BY <2>1, <2>2
<1>. QED BY <1>1, <1>2, PTL DEF Spec

\* The files, the locks and the tasks keep their types.
THEOREM TypeCorrect == Spec => []TypeOK
<1>1. Inv => TypeOK
  BY DEF Inv
<1>. QED BY <1>1, Invariant, PTL

\* Each crossing is emitted at most once (execution_budget.py:321).
THEOREM CrossingsAreEmittedOnce == Spec => []EmittedOnce
<1>1. Inv => EmittedOnce
  BY DEF Inv, Emissions
<1>. QED BY <1>1, Invariant, PTL

\* A notice is recorded as delivered only once it has arrived (execution_budget.py:271).
THEOREM NothingIsMarkedUnheard == Spec => []DeliveredWasReceived
<1>1. Inv => DeliveredWasReceived
  BY DEF Inv, Deliveries
<1>. QED BY <1>1, Invariant, PTL

\* What a step may do to the accounting, whoever takes it.
LEMMA AccountingGoesOn ==
  ASSUME Inv, BudgetAssumption, ProcessAssumption, Next, usage # NoUsage
  PROVE  \/ usage' = usage
         \/ /\ usage' # NoUsage /\ Keeps(usage, usage')
            /\ usage.stopped => usage'.stopped \/ task[Main].pc = "continuing"
<1>0. TypeOK /\ Watched \subseteq Processes /\ Main \in Processes
  BY DEF Inv, Processes
<1>1. ASSUME NEW p \in Watched, Gate(p) PROVE usage' = usage
  BY <1>0, <1>1, GateLeaves, BudgetAssumption
<1>2. ASSUME NEW p \in Processes,
             \/ p \in Watched /\ (Observed(p) \/ Marked(p))
             \/ p = Main /\ Continued
      PROVE  /\ usage' # NoUsage /\ Keeps(usage, usage')
             /\ usage.stopped => usage'.stopped \/ task[Main].pc = "continuing"
  BY <1>2, WritesKeep, BudgetAssumption, ProcessAssumption DEF BudgetAssumption
<1>3. ASSUME NEW p \in Watched, Elsewhere(p) PROVE usage' = usage
  BY <1>0, <1>3, ElsewhereMoves
<1>4. ASSUME NEW p \in Processes, Locks(p) \/ Kill(p) PROVE usage' = usage
  BY <1>0, <1>4, LocksRead, KillLeaves
<1>5. ASSUME (\E budget \in Budgets : Revise(budget)) \/ Tick PROVE usage' = usage
  BY <1>5 DEF Revise, Tick
<1>. QED BY <1>0, <1>1, <1>2, <1>3, <1>4, <1>5, Steps

\* A stop lasts until Main continues the Ticket (execution_budget.py:250).
THEOREM StopsLatch == Spec => StopLatches
<1>1. Inv /\ [Next]_vars =>
        [(usage # NoUsage /\ usage.stopped) =>
           (usage' # NoUsage /\ (usage'.stopped \/ task[Main].pc = "continuing"))]_usage
  BY AccountingGoesOn, BudgetAssumption, ProcessAssumption DEF vars
<1>. QED BY <1>1, Invariant, PTL DEF Spec, StopLatches

\* Consumption, history and announcements are never lost (execution_budget.py:283).
THEOREM NothingIsForgotten == Spec => AccountingIsKept
<1>1. Inv /\ [Next]_vars =>
        [usage # NoUsage => (usage' # NoUsage /\ Keeps(usage, usage'))]_usage
  BY AccountingGoesOn, BudgetAssumption, ProcessAssumption DEF vars
<1>. QED BY <1>1, Invariant, PTL DEF Spec, AccountingIsKept
=============================================================================
