--------------------------- MODULE SessionControl ---------------------------
(* Sessions, the Workers that own their executions, and the calls that start, *)
(* observe and stop them: execution/runner_worker, runner_control,            *)
(* runner_status, runner_heartbeat, runner_connection and the part of         *)
(* teams/coding/team_round that starts Workers.                               *)
(*                                                                            *)
(* A Session is a directory.  Its files are the variables mapping (the        *)
(* execution mapping.yml records, named by the Worker that owns it),          *)
(* terminal (execution.yml), stopped (stop.yml), answered                     *)
(* (abnormal-response.yml) and identified (session.yml).  A Worker is a       *)
(* process with its native execution; a call is one run of a Runner command.  *)
(* Locks are what their holders' steps say: a Worker holds the project's      *)
(* execution start lock from its admission to its record, a send holds its    *)
(* Session's launch.yml from its first step to its last.                      *)
EXTENDS Naturals, FiniteSets

CONSTANTS
  Sessions, Parent,   \* Parent[s] is the Session that launches s, or NoSession
  NoSession,
  MaxWorkers,         \* Workers are the processes 1..MaxWorkers; 0 is no process
  Calls,              \* commands under way at a time
  MaxKills,           \* processes killed by the system or by an impatient caller
  Orderly             \* callers of one Session wait for one another (see below)

ASSUME ParentAssumption ==
  /\ NoSession \notin Sessions
  /\ Parent \in [Sessions -> Sessions \cup {NoSession}]
ASSUME BoundsAssumption ==
  MaxWorkers \in Nat /\ MaxKills \in Nat /\ Orderly \in BOOLEAN

VARIABLES
  mapping, terminal, stopped, answered, identified,
  worker,      \* what each Worker is doing, and for which Session
  call,        \* what each command under way is doing
  confirmed,   \* Sessions whose subtree stop has been reported complete
  kills

files == <<mapping, terminal, stopped, answered, identified>>
vars == <<files, worker, call, confirmed, kills>>

Workers == 1..MaxWorkers

\* "starting" has not passed require_execution_allowed; "admitted" holds the start
\* lock and the owner lock; "unlinked" has a native execution and has removed the
\* last terminal record; "running" is recorded; "ended" has a native outcome and
\* still answers; "failing" no longer answers.
WorkerStep == {"unused", "starting", "admitted", "unlinked", "running", "ended",
               "failing", "gone"}
Worker == [session : Sessions \cup {NoSession}, step : WorkerStep]

\* seen is the Worker that the mapping named when the call read it, or the Worker the
\* call started; todo are the members an interruption has not stopped yet.
CallOf(ops, steps) ==
  [op : ops, session : Sessions, step : steps, seen : 0..MaxWorkers,
   todo : SUBSET Sessions, complete : BOOLEAN]
Call == CallOf({"send", "continue"}, {"judging", "weighing", "resuming", "awaiting"})
        \cup CallOf({"status"}, {"judging", "weighing"})
        \cup CallOf({"interrupt", "respond"}, {"locking", "stopping"})
Idle == [op |-> "none"]

----------------------------------------------------------------------------
(* What the files and the processes say *)

WorkersOf(s) == {w \in Workers : worker[w].session = s}
\* A mutated form: a stop does not wait for the start lock.
StartLockIgnored == TRUE
\* execution_start_lock is held by nobody.
StartLockFree == \A w \in Workers : worker[w].step \notin {"admitted", "unlinked"}
\* hold_ownership: from the admission until the process is gone.
OwnerLockHeld(w) == w \in Workers /\ worker[w].step \notin {"unused", "starting", "gone"}
\* A native execution is under way.
Live(w) == worker[w].step \in {"unlinked", "running"}

\* S holds the parent of each of its Sessions.
ClosedUpwards(S) == \A s \in S : Parent[s] \in S \cup {NoSession}
\* A Session, its parent, its parent's parent, ...
Lineage == [s \in Sessions |-> {a \in Sessions : \A S \in SUBSET Sessions :
                                   (s \in S /\ ClosedUpwards(S)) => a \in S}]
\* A mutated form: a Session looks at its own stop.yml only.
OwnStop(s) == s \in stopped
\* require_execution_allowed: no stop.yml of the Session's own or of an ancestor.
SubtreeStopped(s) == Lineage[s] \cap stopped # {}

Recorded == {s \in Sessions : mapping[s] # 0}
\* _recorded_sessions: a Session with native identity and no mapping is unreadable.
Unreadable == identified \ Recorded
\* A mutated form: descendants are left to their parents.
TargetOnly(s) == {s}
\* The target and the Sessions its records name below it.
Members(s) == {d \in Recorded \cup {s} : s \in Lineage[d]}

----------------------------------------------------------------------------
(* Workers *)

StartWorker(s, w) ==
  /\ worker[w].step = "unused"
  /\ \A v \in 1..(w - 1) : worker[v].step # "unused"
  /\ worker' = [worker EXCEPT ![w] = [session |-> s, step |-> "starting"]]

Becomes(w, step) == worker' = [worker EXCEPT ![w].step = step]

\* execution_start_lock, require_execution_allowed, hold_ownership.
Admit(w) ==
  /\ worker[w].step = "starting"
  /\ StartLockFree
  /\ Becomes(w, IF SubtreeStopped(worker[w].session) THEN "gone" ELSE "admitted")
  /\ UNCHANGED <<files, call, confirmed, kills>>

\* A startup that fails: launch-error.yml or resume-error.yml, and no record.
StartupFails(w) ==
  /\ worker[w].step = "admitted"
  /\ Becomes(w, "gone")
  /\ \/ UNCHANGED identified
     \/ identified' = identified \cup {worker[w].session}
  /\ UNCHANGED <<mapping, terminal, stopped, answered, call, confirmed, kills>>

\* A mutated form: the last terminal record is left in place.
WithTerminal(s) == terminal
\* execution.yml is unlinked.
WithoutTerminal(s) == [terminal EXCEPT ![s] = "none"]

\* The native execution starts; record_session removes the last terminal record ...
Unlink(w) ==
  /\ worker[w].step = "admitted"
  /\ Becomes(w, "unlinked")
  /\ terminal' = WithoutTerminal(worker[w].session)
  /\ identified' = identified \cup {worker[w].session}
  /\ UNCHANGED <<mapping, stopped, answered, call, confirmed, kills>>

\* ... and then replaces the mapping and lets the start lock go.
RecordSession(w) ==
  /\ worker[w].step = "unlinked"
  /\ Becomes(w, "running")
  /\ mapping' = [mapping EXCEPT ![worker[w].session] = w]
  /\ UNCHANGED <<terminal, stopped, answered, identified, call, confirmed, kills>>

NativeEnds(w) ==
  /\ worker[w].step = "running"
  /\ Becomes(w, "ended")
  /\ UNCHANGED <<files, call, confirmed, kills>>

\* An error of the Runtime: the connection closes before the terminal record.
RuntimeFails(w) ==
  /\ worker[w].step \in {"running", "ended"}
  /\ Becomes(w, "failing")
  /\ UNCHANGED <<files, call, confirmed, kills>>

\* execution.yml, from inside the connection or, after an error, from outside it;
\* after an error the end may be unconfirmed.  The process then exits.
PublishTerminal(w) ==
  /\ worker[w].step \in {"ended", "failing"}
  /\ Becomes(w, "gone")
  /\ \E outcome \in IF worker[w].step = "ended" THEN {"ended"} ELSE {"ended", "unconfirmed"} :
        terminal' = [terminal EXCEPT ![worker[w].session] = outcome]
  /\ UNCHANGED <<mapping, stopped, answered, identified, call, confirmed, kills>>

\* The system kills the process, which frees its locks and ends its execution.
Kill(w) ==
  /\ worker[w].step \notin {"unused", "gone"}
  /\ kills < MaxKills
  /\ kills' = kills + 1
  /\ Becomes(w, "gone")
  /\ UNCHANGED <<files, call, confirmed>>

----------------------------------------------------------------------------
(* Starting Sessions and calls *)

\* _execute_agent without an expected Session: the directory is new.
Create(s) ==
  /\ WorkersOf(s) = {}
  /\ Parent[s] \in Recorded \cup {NoSession}
  /\ StartLockFree
  /\ ~SubtreeStopped(s)
  /\ \E w \in Workers : StartWorker(s, w)
  /\ UNCHANGED <<files, call, confirmed, kills>>

Underway(s, op) == {c \in Calls : call[c] # Idle /\ call[c].session = s /\ call[c].op = op}

\* A mutated form: sends of a Session do not wait for one another.
AliasUnlocked(s) == TRUE
\* launch.yml is locked by no other send.
AliasFree(s) == Underway(s, "send") = {}

Begin(c, op, s, step, seen) ==
  /\ call[c] = Idle
  /\ s \in Recorded
  /\ call' = [call EXCEPT ![c] = [op |-> op, session |-> s, step |-> step,
                                  seen |-> seen, todo |-> {}, complete |-> TRUE]]
  /\ UNCHANGED <<files, worker, confirmed, kills>>

\* A driver that has not seen its Worker record the execution.
Starting(c) == call[c].step # "awaiting" \/ mapping[call[c].session] # call[c].seen

Send(c, s) ==
  /\ AliasFree(s)
  /\ Orderly => \A d \in Underway(s, "continue") : ~Starting(d)
  /\ StartLockFree
  /\ ~SubtreeStopped(s)
  /\ Begin(c, "send", s, "judging", mapping[s])

\* _execute_agent with an expected Session, which takes no lock of the Session.
\* One driver continues a Session at a time.  An orderly one waits for the terminal
\* record and for the sends under way.
Continue(c, s) ==
  /\ Underway(s, "continue") = {}
  /\ Orderly => terminal[s] # "none" /\ Underway(s, "send") = {}
  /\ StartLockFree
  /\ ~SubtreeStopped(s)
  /\ Begin(c, "continue", s, "judging", mapping[s])

Status(c, s) == Begin(c, "status", s, "judging", mapping[s])
Interrupt(c, s) == Begin(c, "interrupt", s, "locking", 0)

----------------------------------------------------------------------------
(* The steps of a call *)

AtStep(c, step) == call[c] # Idle /\ call[c].step = step
Ends(c) == call' = [call EXCEPT ![c] = Idle]
\* The Session is idle: a status is answered, a send or a driver goes on.
Resumes(c) ==
  IF call[c].op = "status" THEN Ends(c)
  ELSE call' = [call EXCEPT ![c].step = "resuming", ![c].seen = 0]

\* _status_session up to the ownership lock: the terminal record, then the answer of
\* the Worker that the mapping read earlier names, which may not come in time.
Probe(c) ==
  /\ AtStep(c, "judging")
  /\ LET s == call[c].session
         owner == worker[call[c].seen].step
     IN \/ terminal[s] = "ended" /\ Resumes(c)
        \/ terminal[s] = "unconfirmed" /\ Ends(c)                 \* invalid activity
        \/ terminal[s] = "none" /\ owner = "ended" /\ Resumes(c)
        \/ terminal[s] = "none" /\ owner = "running" /\ Ends(c)   \* delivered, refused, told
        \/ /\ terminal[s] = "none"                                \* no answer
           /\ call' = [call EXCEPT ![c].step = "weighing"]
  /\ UNCHANGED <<files, worker, confirmed, kills>>

\* The ownership lock of the Worker it read decides: unreachable, or abnormal, which
\* is answered once for a Session.
Weigh(c) ==
  /\ AtStep(c, "weighing")
  /\ IF OwnerLockHeld(call[c].seen) \/ call[c].session \in answered
     THEN Ends(c) /\ UNCHANGED answered
     ELSE /\ answered' = answered \cup {call[c].session}
          /\ call' = [call EXCEPT ![c].op = "respond", ![c].step = "locking",
                                   ![c].seen = 0]
  /\ UNCHANGED <<mapping, terminal, stopped, identified, worker, confirmed, kills>>

\* A send starts a Worker after the terminal record; a driver after its judgement.
Resume(c) ==
  /\ AtStep(c, "resuming")
  /\ call[c].op = "send" => terminal[call[c].session] = "ended"
  /\ \E w \in Workers :
        /\ StartWorker(call[c].session, w)
        /\ call' = [call EXCEPT ![c].step = "awaiting", ![c].seen = w]
  /\ UNCHANGED <<files, confirmed, kills>>

\* The Context, the budget, the capacity or the deadline refuses the resume.
Refuse(c) ==
  /\ AtStep(c, "resuming")
  /\ Ends(c)
  /\ UNCHANGED <<files, worker, confirmed, kills>>

\* A send waits for the record or the end of its Worker, a driver for the end.
Awaited(c) ==
  /\ AtStep(c, "awaiting")
  /\ \/ worker[call[c].seen].step = "gone"
     \/ call[c].op = "send" /\ mapping[call[c].session] = call[c].seen
  /\ Ends(c)
  /\ UNCHANGED <<files, worker, confirmed, kills>>

\* The deadline of a send passes before the record: stop_worker ends a Worker whose
\* native execution has not begun; a later one goes on and records it.
GiveUp(c) ==
  /\ AtStep(c, "awaiting")
  /\ call[c].op = "send"
  /\ kills < MaxKills
  /\ kills' = kills + 1
  /\ LET w == call[c].seen
     IN \/ worker[w].step \in {"starting", "admitted"} /\ Becomes(w, "gone")
        \/ worker[w].step = "unlinked" /\ UNCHANGED worker
  /\ Ends(c)
  /\ UNCHANGED <<files, confirmed>>

\* interrupt_session under the start lock: stop.yml, then the recorded subtree.
PublishStop(c) ==
  /\ AtStep(c, "locking")
  /\ StartLockFree
  /\ stopped' = stopped \cup {call[c].session}
  /\ call' = [call EXCEPT ![c].step = "stopping", ![c].todo = Members(call[c].session),
                          ![c].complete = Unreadable = {}]
  /\ UNCHANGED <<mapping, terminal, answered, identified, worker, confirmed, kills>>

\* A member whose end the terminal record or its live owner confirms.
IsOver(m) == terminal[m] = "ended" \/ (terminal[m] = "none" /\ worker[mapping[m]].step = "ended")

Stops(c, m, done) ==
  call' = [call EXCEPT ![c].todo = @ \ {m}, ![c].complete = @ /\ done]

IsLost(m) == terminal[m] = "none" /\ ~OwnerLockHeld(mapping[m])
\* An interruption answers a lost member it meets, unless it is itself an answer.
MayAnswer(c, m) == IsLost(m) /\ call[c].op = "interrupt" /\ m \notin answered

\* stop_member and _interrupt_session, for one of the members stopped in parallel.
StopMember(c, m) ==
  /\ AtStep(c, "stopping")
  /\ m \in call[c].todo
  /\ \/ IsOver(m) /\ Stops(c, m, TRUE) /\ UNCHANGED <<worker, stopped, answered>>
     \/ /\ terminal[m] = "none"                        \* the native interruption
        /\ worker[mapping[m]].step = "running"
        /\ Becomes(mapping[m], "ended")
        /\ Stops(c, m, TRUE)
        /\ UNCHANGED <<stopped, answered>>
     \/ /\ ~IsOver(m)                                  \* no confirmation
        /\ Stops(c, m, FALSE)
        /\ UNCHANGED worker
        /\ \/ /\ MayAnswer(c, m)                          \* abnormal: a stop of its own
              /\ StartLockFree
              /\ answered' = answered \cup {m}
              /\ stopped' = stopped \cup {m}
           \/ /\ MayAnswer(c, m) =>                       \* one answer at a time
                    \E d \in Members(call[c].session) \ {m} : IsLost(d)
              /\ UNCHANGED <<stopped, answered>>
  /\ UNCHANGED <<mapping, terminal, identified, confirmed, kills>>

\* "interrupted" if every member was confirmed, else "incomplete".
Report(c) ==
  /\ AtStep(c, "stopping")
  /\ call[c].todo = {}
  /\ confirmed' = IF call[c].complete THEN confirmed \cup {call[c].session} ELSE confirmed
  /\ Ends(c)
  /\ UNCHANGED <<files, worker, kills>>

\* A command is killed; an orderly one not while its Worker starts.
Die(c) ==
  /\ call[c] # Idle
  /\ Orderly /\ AtStep(c, "awaiting") => ~Starting(c)
  /\ kills < MaxKills
  /\ kills' = kills + 1
  /\ Ends(c)
  /\ UNCHANGED <<files, worker, confirmed>>

----------------------------------------------------------------------------
Init ==
  /\ mapping = [s \in Sessions |-> 0]
  /\ terminal = [s \in Sessions |-> "none"]
  /\ stopped = {}
  /\ answered = {}
  /\ identified = {}
  /\ worker = [w \in Workers |-> [session |-> NoSession, step |-> "unused"]]
  /\ call = [c \in Calls |-> Idle]
  /\ confirmed = {}
  /\ kills = 0

WorkerNext ==
  \E w \in Workers :
     \/ Admit(w) \/ StartupFails(w) \/ Unlink(w) \/ RecordSession(w)
     \/ NativeEnds(w) \/ RuntimeFails(w) \/ PublishTerminal(w) \/ Kill(w)

CallNext ==
  \E c \in Calls :
     \/ \E s \in Sessions : Send(c, s) \/ Continue(c, s) \/ Status(c, s) \/ Interrupt(c, s)
     \/ Probe(c) \/ Weigh(c) \/ Resume(c) \/ Refuse(c) \/ Awaited(c) \/ GiveUp(c)
     \/ PublishStop(c) \/ (\E m \in Sessions : StopMember(c, m)) \/ Report(c) \/ Die(c)

Next == WorkerNext \/ CallNext \/ \E s \in Sessions : Create(s)

Spec == Init /\ [][Next]_vars

----------------------------------------------------------------------------
(* Properties *)

TypeOK ==
  /\ mapping \in [Sessions -> 0..MaxWorkers]
  /\ terminal \in [Sessions -> {"none", "ended", "unconfirmed"}]
  /\ stopped \subseteq Sessions
  /\ answered \subseteq Sessions
  /\ identified \subseteq Sessions
  /\ worker \in [Workers -> Worker]
  /\ \A c \in Calls : call[c] = Idle \/ call[c] \in Call
  /\ confirmed \subseteq Sessions
  /\ kills \in 0..MaxKills

\* "The stopped subtree cannot create or resume work" (README): whatever launches
\* and resumes were under way when stop.yml was written, no execution is recorded
\* below it any more.
StoppedSubtreeStartsNothing ==
  [][\A s \in Sessions : mapping'[s] # mapping[s] => Lineage[s] \cap stopped = {}]_vars

\* Once an interruption has been reported complete, no Session of the subtree has a
\* live execution: none escaped the enumeration, and none comes up afterwards.
CompleteStopIsFinal ==
  \A s \in confirmed, w \in Workers :
     worker[w].session # NoSession /\ s \in Lineage[worker[w].session] => ~Live(w)

\* "One Session directory owns one Agent Entity and at most one live execution"
\* (owning_execution).
OneLiveExecution ==
  \A v, w \in Workers : Live(v) /\ Live(w) /\ worker[v].session = worker[w].session => v = w

\* execution.yml "confirms the recorded execution ended" (owning_execution): while
\* it is there, no execution of the Session is live.
TerminalRecordConfirmsEnd ==
  \A w \in Workers : Live(w) => terminal[worker[w].session] = "none"

\* "An abnormal judgment names an Agent whose recorded owner is gone"
\* (respond_to_abnormal_session): a Session with a live execution is not answered.
OnlyLostSessionsAreAnswered ==
  [][\A s \in answered' \ answered : \A w \in WorkersOf(s) : ~Live(w)]_vars

\* The executions under way, each with its Session.
Running == {<<worker[w].session, w>> : w \in {v \in Workers : Live(v)}}

Life == INSTANCE SessionLife
          WITH Executions <- Workers, running <- Running, named <- mapping,
               outcome <- terminal

\* Every command and every death is a step of a Session's life or none: executions
\* follow one another, begin and are recorded in unstopped subtrees only, and what is
\* recorded as over or reported as stopped is (record_session, interrupt_session).
SessionsKeepTheirLife == Life!Spec
=============================================================================
