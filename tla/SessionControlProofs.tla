------------------------ MODULE SessionControlProofs ------------------------
(* What holds of SessionControl for every tree of Sessions, any number of     *)
(* Workers and of commands under way, orderly or not.                         *)
EXTENDS SessionControl, TLAPS

\* The types of the files and the processes, without what the commands hold.
FilesOK ==
  /\ mapping \in [Sessions -> 0..MaxWorkers]
  /\ terminal \in [Sessions -> {"none", "ended", "unconfirmed"}]
  /\ stopped \subseteq Sessions
  /\ answered \subseteq Sessions
  /\ identified \subseteq Sessions
  /\ worker \in [Workers -> Worker]
  /\ \A w \in Workers : worker[w].step # "unused" => worker[w].session \in Sessions
  /\ confirmed \subseteq Sessions
  /\ kills \in 0..MaxKills

CallsOK == call \in [Calls -> Call \cup {Idle}]

----------------------------------------------------------------------------
(* Workers *)

\* Whatever step a Worker takes, its record stays a Worker of the same Session.
LEMMA BecomesTyped ==
  ASSUME FilesOK, NEW w \in Workers, NEW step \in WorkerStep \ {"unused"},
         worker[w].step # "unused", Becomes(w, step)
  PROVE  /\ worker' \in [Workers -> Worker]
         /\ \A v \in Workers : worker'[v].step # "unused" => worker'[v].session \in Sessions
BY DEF FilesOK, Becomes, Worker, WorkerStep

\* A started Worker belongs to the Session it was started for.
LEMMA StartTyped ==
  ASSUME FilesOK, NEW w \in Workers, NEW s \in Sessions, StartWorker(s, w)
  PROVE  /\ worker' \in [Workers -> Worker]
         /\ \A v \in Workers : worker'[v].step # "unused" => worker'[v].session \in Sessions
BY DEF FilesOK, StartWorker, Worker, WorkerStep

\* A step of a Worker keeps the types, and touches no command.
LEMMA WorkerStepTyped ==
  ASSUME FilesOK, CallsOK, BoundsAssumption, WorkerNext
  PROVE  FilesOK' /\ CallsOK'
<1>. SUFFICES ASSUME NEW w \in Workers,
                     \/ Admit(w) \/ StartupFails(w) \/ Unlink(w) \/ RecordSession(w)
                     \/ NativeEnds(w) \/ RuntimeFails(w) \/ PublishTerminal(w) \/ Kill(w)
              PROVE  FilesOK' /\ CallsOK'
  BY DEF WorkerNext
<1>0. CallsOK'
  BY DEF CallsOK, Admit, StartupFails, Unlink, RecordSession, NativeEnds, RuntimeFails,
         PublishTerminal, Kill
<1>1. worker[w].step # "unused" /\ \E step \in WorkerStep \ {"unused"} : Becomes(w, step)
  BY DEF Admit, StartupFails, Unlink, RecordSession, NativeEnds, RuntimeFails,
         PublishTerminal, Kill, WorkerStep
<1>2. /\ worker' \in [Workers -> Worker]
      /\ \A v \in Workers : worker'[v].step # "unused" => worker'[v].session \in Sessions
  BY <1>1, BecomesTyped
<1>3. worker[w].session \in Sessions
  BY <1>1 DEF FilesOK
<1>4. CASE Admit(w) \/ NativeEnds(w) \/ RuntimeFails(w)
  BY <1>0, <1>2, <1>4 DEF FilesOK, Admit, NativeEnds, RuntimeFails, files, Workers
<1>5. CASE StartupFails(w)
  BY <1>0, <1>2, <1>3, <1>5 DEF FilesOK, StartupFails
<1>6. CASE Unlink(w)
  BY <1>0, <1>2, <1>3, <1>6 DEF FilesOK, Unlink, WithoutTerminal
<1>7. CASE RecordSession(w)
  BY <1>0, <1>2, <1>3, <1>7, BoundsAssumption DEF FilesOK, RecordSession, Workers, BoundsAssumption
<1>8. CASE PublishTerminal(w)
  BY <1>0, <1>2, <1>3, <1>8 DEF FilesOK, PublishTerminal
<1>9. CASE Kill(w)
  BY <1>0, <1>2, <1>9, BoundsAssumption DEF FilesOK, Kill, files, BoundsAssumption
<1>. QED BY <1>0, <1>4, <1>5, <1>6, <1>7, <1>8, <1>9

----------------------------------------------------------------------------
(* Commands *)

\* A command may move to any of the steps of its kind.
LEMMA MoveTyped ==
  ASSUME CallsOK, NEW c \in Calls, NEW after \in Call \cup {Idle},
         call' = [call EXCEPT ![c] = after]
  PROVE  CallsOK'
BY DEF CallsOK

\* A command under way is a Call with the fields of its kind.
LEMMA CallFields ==
  ASSUME CallsOK, NEW c \in Calls, NEW step, AtStep(c, step)
  PROVE  /\ call[c] \in Call
         /\ call[c].session \in Sessions
         /\ call[c].step = step
BY DEF CallsOK, AtStep, Call, CallOf

\* A command that begins is a Call of its kind.
LEMMA BeginTyped ==
  ASSUME FilesOK, CallsOK, NEW c \in Calls, NEW s \in Sessions,
         Send(c, s) \/ Continue(c, s) \/ Status(c, s) \/ Interrupt(c, s)
  PROVE  FilesOK' /\ CallsOK'
<1>1. \E op \in {"send", "continue", "status"} :
         Begin(c, op, s, "judging", mapping[s])
      \/ Begin(c, "interrupt", s, "locking", 0)
  BY DEF Send, Continue, Status, Interrupt
<1>2. mapping[s] \in 0..MaxWorkers /\ 0 \in 0..MaxWorkers
  BY BoundsAssumption DEF FilesOK, BoundsAssumption
<1>3. ASSUME NEW op, NEW step, NEW seen \in 0..MaxWorkers, Begin(c, op, s, step, seen),
             (op \in {"send", "continue", "status"} /\ step = "judging")
               \/ (op = "interrupt" /\ step = "locking")
      PROVE  FilesOK' /\ CallsOK'
  <2>. DEFINE after == [op |-> op, session |-> s, step |-> step, seen |-> seen,
                        todo |-> {}, complete |-> TRUE]
  <2>1. after \in Call
    BY <1>3 DEF Call, CallOf
  <2>2. call' = [call EXCEPT ![c] = after]
    BY <1>3 DEF Begin
  <2>3. CallsOK'
    BY <2>1, <2>2, MoveTyped
  <2>4. FilesOK'
    BY <1>3 DEF Begin, FilesOK, files
  <2>. QED BY <2>3, <2>4
<1>. QED BY <1>1, <1>2, <1>3

\* The steps of a command that touch nothing but the command and, at most, start or
\* end a Worker.
LEMMA CallStepTyped ==
  ASSUME FilesOK, CallsOK, BoundsAssumption, NEW c \in Calls,
         \/ Probe(c) \/ Weigh(c) \/ Resume(c) \/ Refuse(c) \/ Awaited(c) \/ GiveUp(c)
         \/ Report(c) \/ Die(c)
  PROVE  FilesOK' /\ CallsOK'
<1>0. 0 \in 0..MaxWorkers /\ Workers \subseteq 0..MaxWorkers
  BY BoundsAssumption DEF BoundsAssumption, Workers
<1>e. ASSUME Ends(c) PROVE CallsOK'
  BY <1>e, MoveTyped DEF Ends
<1>1. CASE Probe(c)
  <2>1. /\ call[c] \in Call /\ call[c].step = "judging"
        /\ call[c].op \in {"send", "continue", "status"}
    BY <1>1 DEF Probe, AtStep, CallsOK, Call, CallOf
  <2>2. FilesOK'
    BY <1>1 DEF Probe, FilesOK, files
  <2>3. CASE Ends(c)
    BY <1>e, <2>2, <2>3
  <2>4. CASE Resumes(c) /\ ~Ends(c)
    <3>. DEFINE after == [call[c] EXCEPT !.step = "resuming", !.seen = 0]
    <3>1. after \in Call
      BY <1>0, <2>1, <2>4 DEF Resumes, Call, CallOf
    <3>2. call' = [call EXCEPT ![c] = after]
      BY <2>4 DEF Resumes
    <3>. QED BY <2>2, <3>1, <3>2, MoveTyped
  <2>5. CASE call' = [call EXCEPT ![c].step = "weighing"]
    <3>. DEFINE after == [call[c] EXCEPT !.step = "weighing"]
    <3>1. after \in Call
      BY <2>1 DEF Call, CallOf
    <3>2. call' = [call EXCEPT ![c] = after]
      BY <2>5
    <3>. QED BY <2>2, <3>1, <3>2, MoveTyped
  <2>. QED BY <1>1, <2>3, <2>4, <2>5 DEF Probe
<1>2. CASE Weigh(c)
  <2>1. /\ call[c] \in Call /\ call[c].session \in Sessions
        /\ call[c].op \in {"send", "continue", "status"}
    BY <1>2 DEF Weigh, AtStep, CallsOK, Call, CallOf
  <2>2. FilesOK'
    BY <1>2, <2>1 DEF Weigh, FilesOK
  <2>3. CASE Ends(c)
    BY <1>e, <2>2, <2>3
  <2>4. CASE ~Ends(c)
    <3>. DEFINE after == [call[c] EXCEPT !.op = "respond", !.step = "locking", !.seen = 0]
    <3>1. after \in Call
      BY <1>0, <2>1 DEF Call, CallOf
    <3>2. call' = [call EXCEPT ![c] = after]
      BY <1>2, <2>4 DEF Weigh
    <3>. QED BY <2>2, <3>1, <3>2, MoveTyped
  <2>. QED BY <2>3, <2>4
<1>3. CASE Resume(c)
  <2>1. /\ call[c] \in Call /\ call[c].session \in Sessions
        /\ call[c].op \in {"send", "continue"}
    BY <1>3 DEF Resume, AtStep, CallsOK, Call, CallOf
  <2>2. PICK w \in Workers :
           /\ StartWorker(call[c].session, w)
           /\ call' = [call EXCEPT ![c].step = "awaiting", ![c].seen = w]
    BY <1>3 DEF Resume
  <2>3. FilesOK'
    BY <1>3, <2>1, <2>2, StartTyped DEF Resume, FilesOK, files
  <2>. DEFINE after == [call[c] EXCEPT !.step = "awaiting", !.seen = w]
  <2>4. after \in Call
    BY <1>0, <2>1 DEF Call, CallOf
  <2>5. call' = [call EXCEPT ![c] = after]
    BY <2>2
  <2>. QED BY <2>3, <2>4, <2>5, MoveTyped
<1>4. CASE Refuse(c)
  BY <1>4, <1>e DEF Refuse, FilesOK, files
<1>5. CASE Awaited(c)
  BY <1>5, <1>e DEF Awaited, FilesOK, files
<1>6. CASE GiveUp(c)
  <2>. DEFINE w == call[c].seen
  <2>1. CASE w \in Workers /\ worker[w].step \in {"starting", "admitted"} /\ Becomes(w, "gone")
    <3>1. "gone" \in WorkerStep \ {"unused"} /\ worker[w].step # "unused"
      BY <2>1 DEF WorkerStep
    <3>2. /\ worker' \in [Workers -> Worker]
          /\ \A v \in Workers : worker'[v].step # "unused" => worker'[v].session \in Sessions
      BY <2>1, <3>1, BecomesTyped
    <3>3. FilesOK'
      BY <1>6, <3>2, BoundsAssumption DEF GiveUp, FilesOK, files, BoundsAssumption
    <3>. QED BY <1>6, <1>e, <3>3 DEF GiveUp
  <2>2. CASE UNCHANGED worker
    BY <1>6, <1>e, <2>2, BoundsAssumption DEF GiveUp, FilesOK, files, BoundsAssumption
  <2>3. CASE w \notin Workers /\ Becomes(w, "gone")
    <3>1. worker' = worker
      BY <2>3 DEF Becomes, FilesOK
    <3>. QED BY <2>2, <3>1
  <2>. QED BY <1>6, <2>1, <2>2, <2>3 DEF GiveUp
<1>7. CASE Report(c)
  <2>1. call[c].session \in Sessions
    BY <1>7, CallFields DEF Report
  <2>. QED BY <1>7, <1>e, <2>1 DEF Report, FilesOK, files
<1>8. CASE Die(c)
  BY <1>8, <1>e, BoundsAssumption DEF Die, FilesOK, files
<1>. QED BY <1>1, <1>2, <1>3, <1>4, <1>5, <1>6, <1>7, <1>8

\* Publishing a stop and stopping a member keep the types.
LEMMA StopTyped ==
  ASSUME FilesOK, CallsOK, BoundsAssumption, NEW c \in Calls,
         PublishStop(c) \/ \E m \in Sessions : StopMember(c, m)
  PROVE  FilesOK' /\ CallsOK'
<1>1. CASE PublishStop(c)
  <2>1. /\ call[c] \in Call /\ call[c].session \in Sessions
        /\ call[c].op \in {"interrupt", "respond"}
    BY <1>1 DEF PublishStop, AtStep, CallsOK, Call, CallOf
  <2>2. Members(call[c].session) \subseteq Sessions
    BY <2>1 DEF Members, Recorded
  <2>3. FilesOK'
    BY <1>1, <2>1 DEF PublishStop, FilesOK
  <2>. DEFINE after == [call[c] EXCEPT !.step = "stopping",
                                       !.todo = Members(call[c].session),
                                       !.complete = Unreadable = {}]
  <2>4. after \in Call
    <3>. DEFINE done == Unreadable = {}
    <3>1. done \in BOOLEAN
      OBVIOUS
    <3>. HIDE DEF done
    <3>. QED BY <2>1, <2>2, <3>1 DEF Call, CallOf
  <2>5. call' = [call EXCEPT ![c] = after]
    BY <1>1 DEF PublishStop
  <2>. QED BY <2>3, <2>4, <2>5, MoveTyped
<1>2. ASSUME NEW m \in Sessions, StopMember(c, m)
      PROVE  FilesOK' /\ CallsOK'
  <2>1. /\ call[c] \in Call /\ call[c].step = "stopping"
        /\ call[c].op \in {"interrupt", "respond"}
    BY <1>2 DEF StopMember, AtStep, CallsOK, Call, CallOf
  <2>2. CallsOK'
    <3>1. PICK done \in BOOLEAN : Stops(c, m, done)
      BY <1>2 DEF StopMember
    <3>. DEFINE after == [call[c] EXCEPT !.todo = @ \ {m}, !.complete = @ /\ done]
    <3>2. after \in Call
      BY <2>1, <3>1 DEF Call, CallOf
    <3>3. call' = [call EXCEPT ![c] = after]
      BY <3>1 DEF Stops
    <3>. QED BY <3>2, <3>3, MoveTyped
  <2>3. CASE UNCHANGED worker
    BY <1>2, <2>2, <2>3 DEF StopMember, FilesOK, Workers
  <2>4. CASE worker[mapping[m]].step = "running" /\ Becomes(mapping[m], "ended")
             /\ UNCHANGED <<stopped, answered>>
    <3>1. CASE mapping[m] \in Workers
      <4>1. "ended" \in WorkerStep \ {"unused"} /\ worker[mapping[m]].step # "unused"
        BY <2>4 DEF WorkerStep
      <4>2. /\ worker' \in [Workers -> Worker]
            /\ \A v \in Workers : worker'[v].step # "unused" => worker'[v].session \in Sessions
        BY <2>4, <3>1, <4>1, BecomesTyped
      <4>. QED BY <1>2, <2>2, <2>4, <4>2 DEF StopMember, FilesOK
    <3>2. CASE mapping[m] \notin Workers
      <4>1. worker' = worker
        BY <2>4, <3>2 DEF Becomes, FilesOK
      <4>. QED BY <2>3, <4>1
    <3>. QED BY <3>1, <3>2
  <2>. QED BY <1>2, <2>2, <2>3, <2>4 DEF StopMember
<1>. QED BY <1>1, <1>2

\* Creating a Session keeps the types.
LEMMA CreateTyped ==
  ASSUME FilesOK, CallsOK, NEW s \in Sessions, Create(s)
  PROVE  FilesOK' /\ CallsOK'
<1>1. PICK w \in Workers : StartWorker(s, w)
  BY DEF Create
<1>2. /\ worker' \in [Workers -> Worker]
      /\ \A v \in Workers : worker'[v].step # "unused" => worker'[v].session \in Sessions
  BY <1>1, StartTyped
<1>. QED BY <1>2 DEF Create, FilesOK, CallsOK, files

----------------------------------------------------------------------------
(* Type correctness *)

\* The types hold initially.
LEMMA InitTyped == BoundsAssumption /\ Init => FilesOK /\ CallsOK
BY DEF BoundsAssumption, Init, FilesOK, CallsOK, Worker, WorkerStep

\* Every step keeps the types.
LEMMA NextTyped ==
  BoundsAssumption /\ FilesOK /\ CallsOK /\ [Next]_vars => FilesOK' /\ CallsOK'
<1>. SUFFICES ASSUME BoundsAssumption, FilesOK, CallsOK, [Next]_vars
              PROVE  FilesOK' /\ CallsOK'
  OBVIOUS
<1>1. CASE WorkerNext
  BY <1>1, WorkerStepTyped
<1>2. CASE CallNext
  <2>1. PICK c \in Calls :
           \/ \E s \in Sessions : Send(c, s) \/ Continue(c, s) \/ Status(c, s) \/ Interrupt(c, s)
           \/ Probe(c) \/ Weigh(c) \/ Resume(c) \/ Refuse(c) \/ Awaited(c) \/ GiveUp(c)
           \/ PublishStop(c) \/ (\E m \in Sessions : StopMember(c, m)) \/ Report(c) \/ Die(c)
    BY <1>2 DEF CallNext
  <2>2. CASE \E s \in Sessions : Send(c, s) \/ Continue(c, s) \/ Status(c, s) \/ Interrupt(c, s)
    BY <2>2, BeginTyped
  <2>3. CASE \/ Probe(c) \/ Weigh(c) \/ Resume(c) \/ Refuse(c) \/ Awaited(c) \/ GiveUp(c)
             \/ Report(c) \/ Die(c)
    BY <2>3, CallStepTyped
  <2>4. CASE PublishStop(c) \/ \E m \in Sessions : StopMember(c, m)
    BY <2>4, StopTyped
  <2>. QED BY <2>1, <2>2, <2>3, <2>4
<1>3. CASE \E s \in Sessions : Create(s)
  BY <1>3, CreateTyped
<1>4. CASE UNCHANGED vars
  BY <1>4 DEF vars, files, FilesOK, CallsOK, Workers
<1>. QED BY <1>1, <1>2, <1>3, <1>4 DEF Next

\* The two type predicates give the type invariant of the module.
LEMMA TypesSuffice == FilesOK /\ CallsOK => TypeOK
BY DEF FilesOK, CallsOK, TypeOK

\* The files, the processes and the commands always hold what their types say.
THEOREM TypeCorrect == Spec => []TypeOK
<1>1. Init => FilesOK /\ CallsOK
  BY InitTyped, BoundsAssumption
<1>2. FilesOK /\ CallsOK /\ [Next]_vars => (FilesOK /\ CallsOK)'
  BY NextTyped, BoundsAssumption
<1>. QED BY <1>1, <1>2, TypesSuffice, PTL DEF Spec

----------------------------------------------------------------------------
(* A stopped subtree starts nothing *)

\* Holding the start lock between its admission and its record, a Worker keeps every
\* stop of its lineage waiting: it still starts in a subtree that is not stopped.
StartsUnstopped ==
  \A w \in Workers :
     worker[w].step \in {"admitted", "unlinked"} =>
        Lineage[worker[w].session] \cap stopped = {}

\* A Worker's step: only an admission, which looks for stop.yml, enters the critical
\* section, and no Worker writes stop.yml.
LEMMA WorkersStartUnstopped ==
  ASSUME FilesOK, StartsUnstopped, WorkerNext
  PROVE  StartsUnstopped'
<1>. SUFFICES ASSUME NEW w \in Workers,
                     \/ Admit(w) \/ StartupFails(w) \/ Unlink(w) \/ RecordSession(w)
                     \/ NativeEnds(w) \/ RuntimeFails(w) \/ PublishTerminal(w) \/ Kill(w),
                     NEW v \in Workers, worker'[v].step \in {"admitted", "unlinked"}
              PROVE  Lineage[worker'[v].session] \cap stopped' = {}
  BY DEF WorkerNext, StartsUnstopped, Workers
<1>1. stopped' = stopped
  BY DEF Admit, StartupFails, Unlink, RecordSession, NativeEnds, RuntimeFails,
         PublishTerminal, Kill, files
<1>2. worker'[v].session = worker[v].session
  BY DEF FilesOK, Admit, StartupFails, Unlink, RecordSession, NativeEnds, RuntimeFails,
         PublishTerminal, Kill, Becomes, Worker
<1>3. CASE worker[v].step \in {"admitted", "unlinked"}
  BY <1>1, <1>2, <1>3 DEF StartsUnstopped
<1>4. CASE worker[v].step \notin {"admitted", "unlinked"}
  <2>1. v = w /\ Admit(w)
    BY <1>4 DEF FilesOK, Admit, StartupFails, Unlink, RecordSession, NativeEnds,
                RuntimeFails, PublishTerminal, Kill, Becomes, Worker
  <2>2. ~SubtreeStopped(worker[v].session)
    BY <1>4, <2>1 DEF FilesOK, Admit, Becomes, Worker
  <2>. QED BY <1>1, <1>2, <2>2 DEF SubtreeStopped
<1>. QED BY <1>3, <1>4

\* A command's step: one that writes stop.yml holds the start lock, so that no Worker
\* is in the critical section; the others leave its Workers alone or end them.
LEMMA CommandsStartUnstopped ==
  ASSUME FilesOK, StartsUnstopped, CallNext \/ \E s \in Sessions : Create(s)
  PROVE  StartsUnstopped'
<1>. DEFINE Critical(v) == worker'[v].step \in {"admitted", "unlinked"}
            Kept == \A v \in Workers : Critical(v) => worker'[v] = worker[v]
<1>1. UNCHANGED worker => Kept
  OBVIOUS
<1>2. ASSUME NEW w \in Workers, NEW s, StartWorker(s, w) PROVE Kept
  BY <1>2 DEF FilesOK, StartWorker, Worker
<1>3. ASSUME NEW w, Becomes(w, "gone") \/ Becomes(w, "ended") PROVE Kept
  BY <1>3 DEF FilesOK, Becomes, Worker
<1>4. ASSUME stopped' = stopped, Kept PROVE StartsUnstopped'
  BY <1>4 DEF StartsUnstopped, Workers
<1>5. ASSUME StartLockFree, UNCHANGED worker PROVE StartsUnstopped'
  BY <1>5 DEF StartLockFree, StartsUnstopped, Workers
<1>. HIDE DEF Kept
<1>6. CASE \E s \in Sessions : Create(s)
  BY <1>6, <1>2, <1>4 DEF Create, files
<1>7. CASE CallNext
  <2>1. PICK c \in Calls :
           \/ \E s \in Sessions : Send(c, s) \/ Continue(c, s) \/ Status(c, s) \/ Interrupt(c, s)
           \/ Probe(c) \/ Weigh(c) \/ Resume(c) \/ Refuse(c) \/ Awaited(c) \/ GiveUp(c)
           \/ PublishStop(c) \/ (\E m \in Sessions : StopMember(c, m)) \/ Report(c) \/ Die(c)
    BY <1>7 DEF CallNext
  <2>2. CASE \E s \in Sessions : Send(c, s) \/ Continue(c, s) \/ Status(c, s) \/ Interrupt(c, s)
    BY <1>1, <1>4, <2>2 DEF Send, Continue, Status, Interrupt, Begin, files
  <2>3. CASE Probe(c) \/ Weigh(c) \/ Refuse(c) \/ Awaited(c) \/ Report(c) \/ Die(c)
    BY <1>1, <1>4, <2>3 DEF Probe, Weigh, Refuse, Awaited, Report, Die, files
  <2>4. CASE Resume(c)
    BY <1>2, <1>4, <2>4 DEF Resume, files
  <2>5. CASE GiveUp(c)
    BY <1>1, <1>3, <1>4, <2>5 DEF GiveUp, files
  <2>6. CASE PublishStop(c)
    BY <1>5, <2>6 DEF PublishStop
  <2>7. ASSUME NEW m \in Sessions, StopMember(c, m) PROVE StartsUnstopped'
    <3>1. \/ UNCHANGED <<worker, stopped>>
          \/ Becomes(mapping[m], "ended") /\ UNCHANGED stopped
          \/ StartLockFree /\ UNCHANGED worker
      BY <2>7 DEF StopMember
    <3>. QED BY <1>1, <1>3, <1>4, <1>5, <3>1
  <2>. QED BY <2>1, <2>2, <2>3, <2>4, <2>5, <2>6, <2>7
<1>. QED BY <1>6, <1>7

\* So every step keeps the critical section out of stopped subtrees.
LEMMA StartsUnstoppedStep ==
  ASSUME FilesOK, StartsUnstopped, [Next]_vars
  PROVE  StartsUnstopped'
<1>1. CASE WorkerNext
  BY <1>1, WorkersStartUnstopped
<1>2. CASE CallNext \/ \E s \in Sessions : Create(s)
  BY <1>2, CommandsStartUnstopped
<1>3. CASE UNCHANGED vars
  BY <1>3 DEF vars, files, StartsUnstopped, Workers
<1>. QED BY <1>1, <1>2, <1>3 DEF Next

\* Whatever launches, resumes, kills and interruptions are under way, and however
\* they interleave, no execution is recorded below a stop.yml.
THEOREM StoppedSubtreesStay == Spec => StoppedSubtreeStartsNothing
<1>1. Init => FilesOK /\ CallsOK /\ StartsUnstopped
  <2>1. Init => StartsUnstopped
    BY DEF Init, StartsUnstopped
  <2>. QED BY <2>1, InitTyped, BoundsAssumption
<1>2. FilesOK /\ CallsOK /\ StartsUnstopped /\ [Next]_vars
         => (FilesOK /\ CallsOK /\ StartsUnstopped)'
  BY NextTyped, StartsUnstoppedStep, BoundsAssumption
<1>3. FilesOK /\ CallsOK /\ StartsUnstopped /\ [Next]_vars
         => [\A s \in Sessions : mapping'[s] # mapping[s] => Lineage[s] \cap stopped = {}]_vars
  <2>. SUFFICES ASSUME FilesOK, StartsUnstopped, Next,
                       NEW s \in Sessions, mapping'[s] # mapping[s]
                PROVE  Lineage[s] \cap stopped = {}
    OBVIOUS
  <2>1. PICK w \in Workers : RecordSession(w)
    BY DEF Next, WorkerNext, CallNext, Create, Send, Continue, Status, Interrupt, Begin, Probe,
           Weigh, Resume, Refuse, Awaited, GiveUp, PublishStop, StopMember, Report, Die, files,
           Admit, StartupFails, Unlink, NativeEnds, RuntimeFails, PublishTerminal, Kill
  <2>2. s = worker[w].session
    BY <2>1 DEF RecordSession, FilesOK
  <2>. QED BY <2>1, <2>2 DEF RecordSession, StartsUnstopped
<1>. QED BY <1>1, <1>2, <1>3, PTL DEF Spec, StoppedSubtreeStartsNothing

----------------------------------------------------------------------------
(* One execution at a time *)

\* The process is there; it has not begun the native execution.
Alive(w) == worker[w].step \notin {"unused", "gone"}
InStartup(w) == worker[w].step \in {"starting", "admitted"}

\* A send or a driver that has begun the call or whose Worker may still come up.
Resumer(c) == call[c] # Idle /\ call[c].op \in {"send", "continue"}
Drives(c) ==
  /\ Resumer(c)
  /\ \/ call[c].step \in {"judging", "weighing", "resuming"}
     \/ call[c].step = "awaiting" /\ InStartup(call[c].seen)

\* A Session has one process at a time, ...
OneProcess ==
  \A v, w \in Workers :
     Alive(v) /\ Alive(w) /\ worker[v].session = worker[w].session => v = w

\* ... which has removed the last terminal record once its execution begins.
RecordMeansEnd ==
  \A w \in Workers : Alive(w) /\ ~InStartup(w) => terminal[worker[w].session] = "none"

\* The mapping names a Worker of the Session that has recorded itself, ...
MappingNames ==
  \A s \in Sessions : mapping[s] # 0 =>
     /\ mapping[s] \in Workers
     /\ worker[mapping[s]].session = s
     /\ worker[mapping[s]].step \in {"running", "ended", "failing", "gone"}

\* ... and as long as one is there, that one.
RecordedIsMapped ==
  \A w \in Workers :
     worker[w].step \in {"running", "ended", "failing"} => mapping[worker[w].session] = w

\* Commands are about recorded Sessions, and await Workers of theirs.
CallsAreAbout ==
  \A c \in Calls : call[c] # Idle =>
     /\ call[c].session \in Recorded
     /\ call[c].todo \subseteq Recorded
     /\ call[c].step = "awaiting" =>
          /\ call[c].seen \in Workers
          /\ worker[call[c].seen].session = call[c].session
          /\ worker[call[c].seen].step # "unused"

\* The callers of a Session wait for one another, ...
OneDriver ==
  \A c, d \in Calls :
     Drives(c) /\ Drives(d) /\ call[c].session = call[d].session => c = d

\* ... and nobody walks away from a Worker that is starting.
StartupIsAwaited ==
  \A w \in Workers : InStartup(w) =>
     \/ mapping[worker[w].session] = 0
     \/ \E c \in Calls : Resumer(c) /\ call[c].step = "awaiting" /\ call[c].seen = w

\* A driver goes on from a terminal record, which nobody removes meanwhile.
DriversFindRecord ==
  \A c \in Calls :
     Resumer(c) /\ call[c].op = "continue" /\ call[c].step \in {"judging", "weighing", "resuming"}
        => terminal[call[c].session] # "none"

Executions ==
  /\ OneProcess /\ RecordMeansEnd /\ MappingNames /\ RecordedIsMapped
  /\ CallsAreAbout /\ OneDriver /\ StartupIsAwaited /\ DriversFindRecord


\* What a step of a command may do to the Workers that are there.
WorkersOnlyEnd ==
  \A v \in Workers :
     /\ worker'[v].session = worker[v].session
     /\ \/ worker'[v].step = worker[v].step
        \/ InStartup(v) /\ worker'[v].step = "gone"
        \/ worker[v].step = "running" /\ worker'[v].step = "ended"

\* What a Worker's own step changes.
LEMMA BecomesFields ==
  ASSUME FilesOK, NEW w \in Workers, NEW step, Becomes(w, step)
  PROVE  /\ \A v \in Workers : worker'[v].session = worker[v].session
         /\ \A v \in Workers \ {w} : worker'[v].step = worker[v].step
         /\ worker'[w].step = step
BY DEF FilesOK, Becomes, Worker

\* A Worker that goes on in its life keeps the processes apart and the callers in order.
LEMMA WorkerMoves ==
  ASSUME FilesOK, CallsOK, Executions, NEW w \in Workers, Alive(w),
         NEW step \in WorkerStep \ {"unused"}, Becomes(w, step),
         step \in {"starting", "admitted"} => InStartup(w), UNCHANGED call
  PROVE  /\ OneProcess' /\ OneDriver'
         /\ \A v \in Workers : (InStartup(v))' => InStartup(v)
         /\ \A v \in Workers \ {w} : (Alive(v))' <=> Alive(v)
<1>1. /\ \A v \in Workers : (InStartup(v))' => InStartup(v)
      /\ \A v \in Workers \ {w} : (Alive(v))' <=> Alive(v)
  BY BecomesFields DEF InStartup, Alive
<1>2. OneProcess'
  BY <1>1, BecomesFields DEF Executions, OneProcess, Alive, Workers
<1>3. \A c \in Calls : (Drives(c))' => Drives(c)
  BY <1>1 DEF Drives, Resumer, Executions, CallsAreAbout
<1>4. OneDriver'
  BY <1>3 DEF Executions, OneDriver
<1>. QED BY <1>1, <1>2, <1>4

\* Every step of a Worker keeps the executions apart.
LEMMA WorkersKeepExecutions ==
  ASSUME FilesOK, CallsOK, Executions, BoundsAssumption, WorkerNext
  PROVE  Executions'
<1>. SUFFICES ASSUME NEW w \in Workers,
                     \/ Admit(w) \/ StartupFails(w) \/ Unlink(w) \/ RecordSession(w)
                     \/ NativeEnds(w) \/ RuntimeFails(w) \/ PublishTerminal(w) \/ Kill(w)
              PROVE  Executions'
  BY DEF WorkerNext
<1>1. PICK step \in WorkerStep \ {"unused"} :
         /\ Becomes(w, step)
         /\ step \in {"starting", "admitted"} => InStartup(w)
         /\ step \in {"running", "ended", "failing"} =>
               worker[w].step \in {"running", "ended", "failing"} \/ RecordSession(w)
         /\ step = "unlinked" => Unlink(w)
  BY DEF Admit, StartupFails, Unlink, RecordSession, NativeEnds, RuntimeFails,
         PublishTerminal, Kill, WorkerStep, InStartup
<1>2. Alive(w) /\ UNCHANGED call /\ worker[w].session \in Sessions
  BY DEF Admit, StartupFails, Unlink, RecordSession, NativeEnds, RuntimeFails,
         PublishTerminal, Kill, Alive, FilesOK
<1>3. /\ OneProcess' /\ OneDriver'
      /\ \A v \in Workers : (InStartup(v))' => InStartup(v)
      /\ \A v \in Workers \ {w} : (Alive(v))' <=> Alive(v)
  BY <1>1, <1>2, WorkerMoves
<1>4. /\ \A v \in Workers : worker'[v].session = worker[v].session
      /\ \A v \in Workers \ {w} : worker'[v].step = worker[v].step
      /\ worker'[w].step = step
  BY <1>1, BecomesFields
<1>5. mapping' = mapping \/ RecordSession(w)
  BY DEF Admit, StartupFails, Unlink, RecordSession, NativeEnds, RuntimeFails,
         PublishTerminal, Kill, files
<1>6. RecordSession(w) =>
         /\ mapping' = [mapping EXCEPT ![worker[w].session] = w] /\ mapping \in [Sessions -> 0..MaxWorkers]
         /\ worker[w].step = "unlinked" /\ step = "running" /\ w # 0
  BY <1>4 DEF RecordSession, Becomes, FilesOK, Worker, Workers
<1>7. \/ terminal' = terminal
      \/ Unlink(w) /\ terminal' = [terminal EXCEPT ![worker[w].session] = "none"]
      \/ PublishTerminal(w) /\ step = "gone" /\ \E outcome \in {"ended", "unconfirmed"} :
                                   terminal' = [terminal EXCEPT ![worker[w].session] = outcome]
  BY <1>4 DEF Admit, StartupFails, Unlink, WithoutTerminal, RecordSession, NativeEnds,
         RuntimeFails, PublishTerminal, Kill, files, Becomes, FilesOK, Worker
<1>8. terminal \in [Sessions -> {"none", "ended", "unconfirmed"}]
  BY DEF FilesOK
<1>a. RecordMeansEnd'
  <2>. SUFFICES ASSUME NEW v \in Workers, (Alive(v))', (~InStartup(v))'
                PROVE  terminal'[worker'[v].session] = "none"
    BY DEF RecordMeansEnd, Workers
  <2>1. Alive(v) /\ worker[v].session \in Sessions
    BY <1>2, <1>3 DEF FilesOK, Alive
  <2>2. CASE v # w
    <3>1. ~InStartup(v) /\ worker[v].session # worker[w].session
      BY <1>2, <1>4, <2>1, <2>2 DEF Executions, OneProcess, InStartup
    <3>. QED BY <1>4, <1>7, <1>8, <2>1, <3>1 DEF Executions, RecordMeansEnd
  <2>3. CASE v = w
    <3>1. step # "gone"
      BY <1>4, <2>3 DEF Alive
    <3>2. Unlink(w) \/ ~InStartup(w)
      BY <1>1, <1>4, <1>6, <2>3 DEF InStartup, WorkerStep, Alive
    <3>3. Unlink(w) => terminal'[worker[w].session] = "none"
      BY <1>2, <1>8 DEF Unlink, WithoutTerminal
    <3>. QED BY <1>2, <1>4, <1>7, <2>1, <2>3, <3>1, <3>2, <3>3 DEF Executions, RecordMeansEnd
  <2>. QED BY <2>2, <2>3
<1>b. MappingNames'
  <2>. SUFFICES ASSUME NEW s \in Sessions, mapping'[s] # 0
                PROVE  /\ mapping'[s] \in Workers /\ worker'[mapping'[s]].session = s
                       /\ worker'[mapping'[s]].step \in {"running", "ended", "failing", "gone"}
    BY DEF MappingNames, Workers
  <2>1. CASE mapping'[s] = mapping[s]
    <3>1. /\ mapping[s] \in Workers /\ worker[mapping[s]].session = s
          /\ worker[mapping[s]].step \in {"running", "ended", "failing", "gone"}
      BY <2>1 DEF Executions, MappingNames
    <3>2. worker[w].step \in {"running", "ended", "failing"} =>
             step \in {"running", "ended", "failing", "gone"}
      BY <1>1, <1>2, <1>4 DEF WorkerStep, InStartup, Unlink
    <3>. QED BY <1>2, <1>4, <2>1, <3>1, <3>2 DEF Alive
  <2>2. CASE mapping'[s] # mapping[s]
    BY <1>4, <1>5, <1>6, <2>2
  <2>. QED BY <2>1, <2>2
<1>c. RecordedIsMapped'
  <2>. SUFFICES ASSUME NEW v \in Workers, worker'[v].step \in {"running", "ended", "failing"}
                PROVE  mapping'[worker'[v].session] = v
    BY DEF RecordedIsMapped, Workers
  <2>1. CASE v # w
    <3>1. Alive(v) /\ worker[v].session # worker[w].session /\ mapping[worker[v].session] = v
          /\ worker[v].session \in Sessions
      BY <1>2, <1>4, <2>1 DEF Executions, OneProcess, RecordedIsMapped, Alive, FilesOK
    <3>. QED BY <1>4, <1>5, <1>6, <2>1, <3>1
  <2>2. CASE v = w
    BY <1>1, <1>2, <1>4, <1>5, <1>6, <2>2 DEF Executions, RecordedIsMapped
  <2>. QED BY <2>1, <2>2
<1>d. Recorded \subseteq Recorded'
  BY <1>5, <1>6 DEF Recorded
<1>e. CallsAreAbout'
  <2>. SUFFICES ASSUME NEW c \in Calls, call[c] # Idle
                PROVE  /\ call[c].session \in Recorded'
                       /\ call[c].todo \subseteq Recorded'
                       /\ call[c].step = "awaiting" =>
                            /\ call[c].seen \in Workers
                            /\ worker'[call[c].seen].session = call[c].session
                            /\ worker'[call[c].seen].step # "unused"
    BY <1>2 DEF CallsAreAbout, Workers
  <2>. QED BY <1>1, <1>4, <1>d DEF Executions, CallsAreAbout
<1>f. StartupIsAwaited'
  <2>. SUFFICES ASSUME NEW v \in Workers, (InStartup(v))'
                PROVE  \/ mapping'[worker'[v].session] = 0
                       \/ \E c \in Calls : (Resumer(c))' /\ call'[c].step = "awaiting"
                                              /\ call'[c].seen = v
    BY DEF StartupIsAwaited, Workers
  <2>1. InStartup(v) /\ worker'[v].session = worker[v].session /\ Alive(v)
    BY <1>3, <1>4 DEF InStartup, Alive
  <2>2. RecordSession(w) => worker[v].session # worker[w].session
    BY <1>2, <1>6, <2>1 DEF Executions, OneProcess, InStartup
  <2>3. worker[v].session \in Sessions
    BY <2>1 DEF FilesOK, Alive
  <2>4. mapping'[worker[v].session] = mapping[worker[v].session]
    BY <1>5, <1>6, <2>2, <2>3
  <2>. QED BY <1>2, <2>1, <2>4 DEF Executions, StartupIsAwaited, Resumer
<1>g. DriversFindRecord'
  <2>. SUFFICES ASSUME NEW c \in Calls, Resumer(c), call[c].op = "continue",
                       call[c].step \in {"judging", "weighing", "resuming"}
                PROVE  terminal'[call[c].session] # "none"
    BY <1>2 DEF DriversFindRecord, Resumer
  <2>1. terminal[call[c].session] # "none" /\ Drives(c) /\ call[c].session \in Recorded
    BY DEF Executions, DriversFindRecord, Drives, CallsAreAbout, Resumer
  <2>2. CASE Unlink(w)
    <3>1. InStartup(w) /\ worker[w].step = "admitted"
      BY <2>2 DEF Unlink, InStartup
    <3>2. CASE worker[w].session = call[c].session
      <4>1. PICK d \in Calls : Resumer(d) /\ call[d].step = "awaiting" /\ call[d].seen = w
        BY <2>1, <3>1, <3>2 DEF Executions, StartupIsAwaited, Recorded
      <4>2. Drives(d) /\ call[d].session = worker[w].session
        BY <3>1, <4>1 DEF Drives, Executions, CallsAreAbout, Resumer
      <4>3. c = d
        BY <2>1, <3>2, <4>2 DEF Executions, OneDriver
      <4>. QED BY <4>1, <4>3
    <3>3. CASE worker[w].session # call[c].session
      BY <1>8, <2>1, <2>2, <3>3 DEF Unlink, WithoutTerminal, Recorded
    <3>. QED BY <3>2, <3>3
  <2>3. CASE ~Unlink(w)
    BY <1>7, <1>8, <2>1, <2>3 DEF Recorded
  <2>. QED BY <2>2, <2>3
<1>. QED BY <1>3, <1>a, <1>b, <1>c, <1>e, <1>f, <1>g DEF Executions

\* A command may go through any call that neither drives a Session another command
\* drives, nor leaves a Worker that is starting.
LEMMA CallKeepsExecutions ==
  ASSUME FilesOK, CallsOK, Executions, NEW c \in Calls, NEW after \in Call \cup {Idle},
         call' = [call EXCEPT ![c] = after], UNCHANGED <<mapping, terminal>>, WorkersOnlyEnd,
         after # Idle => /\ after.session \in Recorded /\ after.todo \subseteq Recorded
                         /\ after.step # "awaiting",
         after # Idle /\ after.op = "continue" /\ after.step \in {"judging", "weighing", "resuming"}
            => terminal[after.session] # "none",
         \A d \in Calls \ {c} :
            ~(after # Idle /\ after.op \in {"send", "continue"}
                /\ after.step \in {"judging", "weighing", "resuming"}
                /\ Drives(d) /\ call[d].session = after.session),
         Resumer(c) /\ call[c].step = "awaiting" /\ call[c].seen \in Workers
            => worker'[call[c].seen].step \notin {"starting", "admitted"}
  PROVE  Executions'
<1>1. call'[c] = after /\ \A d \in Calls \ {c} : call'[d] = call[d]
  BY DEF CallsOK
<1>2. \A v \in Workers : /\ (Alive(v))' => Alive(v)
                         /\ (InStartup(v))' => InStartup(v)
                         /\ (~InStartup(v))' /\ (Alive(v))' => ~InStartup(v)
                         /\ worker'[v].session = worker[v].session
  BY DEF WorkersOnlyEnd, Alive, InStartup
<1>3. OneProcess' /\ RecordMeansEnd'
  BY <1>2 DEF Executions, OneProcess, RecordMeansEnd, Workers
<1>4. MappingNames' /\ RecordedIsMapped'
  BY <1>2 DEF Executions, MappingNames, RecordedIsMapped, WorkersOnlyEnd, InStartup, Workers
<1>5. Recorded' = Recorded
  BY DEF Recorded
<1>6. CallsAreAbout'
  <2>. SUFFICES ASSUME NEW d \in Calls, call'[d] # Idle
                PROVE  /\ call'[d].session \in Recorded
                       /\ call'[d].todo \subseteq Recorded
                       /\ call'[d].step = "awaiting" =>
                            /\ call'[d].seen \in Workers
                            /\ worker'[call'[d].seen].session = call'[d].session
                            /\ worker'[call'[d].seen].step # "unused"
    BY <1>5 DEF CallsAreAbout, Workers
  <2>1. CASE d = c
    BY <1>1, <2>1
  <2>2. CASE d # c
    BY <1>1, <2>2 DEF Executions, CallsAreAbout, WorkersOnlyEnd
  <2>. QED BY <2>1, <2>2
<1>7. \A d \in Calls \ {c} : (Drives(d))' => Drives(d)
  BY <1>1, <1>2 DEF Drives, Resumer, Executions, CallsAreAbout
<1>8. OneDriver'
  <2>1. ASSUME NEW d \in Calls \ {c}, (Drives(c))', (Drives(d))', call'[c].session = call'[d].session
        PROVE  FALSE
    <3>1. Drives(d) /\ call[d].session = after.session
      BY <1>1, <1>7, <2>1
    <3>2. after # Idle /\ after.op \in {"send", "continue"}
            /\ after.step \in {"judging", "weighing", "resuming"}
      BY <1>1, <2>1 DEF Drives, Resumer
    <3>. QED BY <3>1, <3>2
  <2>. QED BY <1>1, <1>7, <2>1 DEF Executions, OneDriver
<1>9. StartupIsAwaited'
  <2>. SUFFICES ASSUME NEW v \in Workers, (InStartup(v))'
                PROVE  \/ mapping'[worker'[v].session] = 0
                       \/ \E d \in Calls : (Resumer(d))' /\ call'[d].step = "awaiting"
                                              /\ call'[d].seen = v
    BY DEF StartupIsAwaited, Workers
  <2>1. \/ mapping[worker[v].session] = 0
        \/ \E d \in Calls : Resumer(d) /\ call[d].step = "awaiting" /\ call[d].seen = v
    BY <1>2 DEF Executions, StartupIsAwaited
  <2>2. ASSUME NEW d \in Calls, Resumer(d), call[d].step = "awaiting", call[d].seen = v
        PROVE  (Resumer(d))' /\ call'[d].step = "awaiting" /\ call'[d].seen = v
    <3>1. d # c
      BY <2>2 DEF InStartup
    <3>. QED BY <1>1, <2>2, <3>1 DEF Resumer
  <2>. QED BY <1>2, <2>1, <2>2
<1>10. DriversFindRecord'
  BY <1>1 DEF Executions, DriversFindRecord, Resumer
<1>. QED BY <1>3, <1>4, <1>6, <1>8, <1>9, <1>10 DEF Executions

\* A command begins only where no other drives.
LEMMA BeginKeepsExecutions ==
  ASSUME FilesOK, CallsOK, Executions, Orderly, BoundsAssumption,
         NEW c \in Calls, NEW s \in Sessions,
         Send(c, s) \/ Continue(c, s) \/ Status(c, s) \/ Interrupt(c, s)
  PROVE  Executions'
<1>1. PICK op \in {"send", "continue", "status", "interrupt"}, step \in {"judging", "locking"},
              seen \in 0..MaxWorkers :
         /\ Begin(c, op, s, step, seen)
         /\ op = "interrupt" => step = "locking"
         /\ op # "interrupt" => step = "judging"
         /\ op = "send" => Send(c, s)
         /\ op = "continue" => Continue(c, s)
  <2>1. mapping[s] \in 0..MaxWorkers /\ 0 \in 0..MaxWorkers
    BY BoundsAssumption DEF FilesOK, BoundsAssumption
  <2>2. CASE Send(c, s)
    <3>1. Begin(c, "send", s, "judging", mapping[s])
      BY <2>2 DEF Send
    <3>. QED BY <2>1, <2>2, <3>1
  <2>3. CASE Continue(c, s)
    <3>1. Begin(c, "continue", s, "judging", mapping[s])
      BY <2>3 DEF Continue
    <3>. QED BY <2>1, <2>3, <3>1
  <2>4. CASE Status(c, s)
    <3>1. Begin(c, "status", s, "judging", mapping[s])
      BY <2>4 DEF Status
    <3>. QED BY <2>1, <3>1
  <2>5. CASE Interrupt(c, s)
    <3>1. Begin(c, "interrupt", s, "locking", 0)
      BY <2>5 DEF Interrupt
    <3>. QED BY <2>1, <3>1
  <2>. QED BY <2>2, <2>3, <2>4, <2>5
<1>. DEFINE after == [op |-> op, session |-> s, step |-> step, seen |-> seen,
                      todo |-> {}, complete |-> TRUE]
<1>2. after \in Call /\ call' = [call EXCEPT ![c] = after] /\ call[c] = Idle /\ s \in Recorded
  BY <1>1 DEF Begin, Call, CallOf
<1>3. UNCHANGED <<mapping, terminal>> /\ WorkersOnlyEnd
  BY <1>1 DEF Begin, files, WorkersOnlyEnd
<1>4. op = "continue" => terminal[s] # "none"
  BY <1>1 DEF Continue
<1>5. ASSUME NEW d \in Calls \ {c}, op \in {"send", "continue"}, Drives(d), call[d].session = s
      PROVE  FALSE
  <2>1. call[d] # Idle /\ call[d].op \in {"send", "continue"}
    BY <1>5 DEF Drives, Resumer
  <2>2. op = "send" /\ call[d].op = "continue"
    BY <1>1, <1>5, <2>1 DEF Send, Continue, AliasFree, Underway
  <2>3. d \in Underway(s, "continue")
    BY <1>5, <2>1, <2>2 DEF Underway
  <2>4. call[d].step = "awaiting" /\ mapping[s] = call[d].seen
    BY <1>1, <1>5, <2>2, <2>3 DEF Send, Starting
  <2>5. worker[mapping[s]].step \in {"running", "ended", "failing", "gone"}
    BY <1>2 DEF Executions, MappingNames, Recorded
  <2>. QED BY <1>5, <2>4, <2>5 DEF Drives, InStartup
<1>6. after # Idle /\ after.session = s /\ after.todo \subseteq Recorded /\ after.op = op
      /\ after.step = step /\ step # "awaiting"
  BY <1>1 DEF Idle
<1>7. ~Resumer(c)
  BY <1>2 DEF Resumer
<1>. HIDE DEF after
<1>. QED BY <1>1, <1>2, <1>3, <1>4, <1>5, <1>6, <1>7, CallKeepsExecutions

\* A Worker is started only where none is left, and its caller awaits it.
LEMMA ResumeKeepsExecutions ==
  ASSUME FilesOK, CallsOK, Executions, NEW c \in Calls, Resume(c)
  PROVE  Executions'
<1>. DEFINE s == call[c].session
<1>1. /\ call[c] \in Call /\ s \in Sessions /\ call[c] # Idle /\ call[c].step = "resuming"
      /\ call[c].op \in {"send", "continue"} /\ Drives(c) /\ Resumer(c)
  BY DEF Resume, AtStep, CallsOK, Call, CallOf, Drives, Resumer
<1>2. PICK w \in Workers :
         /\ StartWorker(s, w)
         /\ call' = [call EXCEPT ![c].step = "awaiting", ![c].seen = w]
  BY DEF Resume
<1>3. UNCHANGED <<mapping, terminal>>
  BY DEF Resume, files
<1>4. /\ worker[w].step = "unused"
      /\ worker'[w].session = s /\ worker'[w].step = "starting"
      /\ \A v \in Workers \ {w} : worker'[v] = worker[v]
  BY <1>2 DEF StartWorker, FilesOK
<1>5. /\ call'[c].op = call[c].op /\ call'[c].session = s /\ call'[c].todo = call[c].todo
      /\ call'[c].step = "awaiting" /\ call'[c].seen = w /\ call'[c] # Idle
      /\ \A d \in Calls \ {c} : call'[d] = call[d]
  <2>1. call'[c] = [call[c] EXCEPT !.step = "awaiting", !.seen = w]
    BY <1>2 DEF CallsOK
  <2>2. [call[c] EXCEPT !.step = "awaiting", !.seen = w].op # "none"
    BY <1>1 DEF Call, CallOf
  <2>. QED BY <1>1, <1>2, <2>1, <2>2 DEF CallsOK, Call, CallOf, Idle
<1>6. terminal[s] # "none" /\ mapping[s] # 0
  BY <1>1 DEF Resume, Executions, DriversFindRecord, CallsAreAbout, Recorded
<1>7. ASSUME NEW v \in Workers, Alive(v), worker[v].session = s
      PROVE  FALSE
  <2>1. InStartup(v)
    BY <1>6, <1>7 DEF Executions, RecordMeansEnd
  <2>2. PICK d \in Calls : Resumer(d) /\ call[d].step = "awaiting" /\ call[d].seen = v
    BY <1>6, <1>7, <2>1 DEF Executions, StartupIsAwaited
  <2>3. Drives(d) /\ call[d].session = s
    BY <1>7, <2>1, <2>2 DEF Drives, Executions, CallsAreAbout, Resumer
  <2>. QED BY <1>1, <2>2, <2>3 DEF Executions, OneDriver
<1>8. OneProcess'
  BY <1>4, <1>7 DEF Executions, OneProcess, Alive, Workers
<1>9. RecordMeansEnd'
  BY <1>3, <1>4 DEF Executions, RecordMeansEnd, Alive, InStartup, Workers
<1>10. MappingNames'
  BY <1>3, <1>4 DEF Executions, MappingNames, Workers
<1>11. RecordedIsMapped'
  BY <1>3, <1>4 DEF Executions, RecordedIsMapped, Workers
<1>12. Recorded' = Recorded
  BY <1>3 DEF Recorded
<1>13. CallsAreAbout'
  <2>. SUFFICES ASSUME NEW d \in Calls, call'[d] # Idle
                PROVE  /\ call'[d].session \in Recorded
                       /\ call'[d].todo \subseteq Recorded
                       /\ call'[d].step = "awaiting" =>
                            /\ call'[d].seen \in Workers
                            /\ worker'[call'[d].seen].session = call'[d].session
                            /\ worker'[call'[d].seen].step # "unused"
    BY <1>12 DEF CallsAreAbout, Workers
  <2>1. CASE d = c
    BY <1>1, <1>4, <1>5, <2>1 DEF Executions, CallsAreAbout
  <2>2. CASE d # c
    BY <1>4, <1>5, <2>2 DEF Executions, CallsAreAbout
  <2>. QED BY <2>1, <2>2
<1>14. \A d \in Calls \ {c} : (Drives(d))' => Drives(d)
  BY <1>4, <1>5 DEF Drives, Resumer, InStartup, Executions, CallsAreAbout
<1>15. OneDriver'
  BY <1>1, <1>5, <1>14 DEF Executions, OneDriver
<1>16. StartupIsAwaited'
  <2>. SUFFICES ASSUME NEW v \in Workers, (InStartup(v))'
                PROVE  \/ mapping'[worker'[v].session] = 0
                       \/ \E d \in Calls : (Resumer(d))' /\ call'[d].step = "awaiting"
                                              /\ call'[d].seen = v
    BY DEF StartupIsAwaited, Workers
  <2>1. CASE v = w
    BY <1>1, <1>5, <2>1 DEF Resumer
  <2>2. CASE v # w
    <3>1. InStartup(v) /\ worker'[v] = worker[v]
      BY <1>4, <2>2 DEF InStartup
    <3>2. \/ mapping[worker[v].session] = 0
          \/ \E d \in Calls : Resumer(d) /\ call[d].step = "awaiting" /\ call[d].seen = v
      BY <3>1 DEF Executions, StartupIsAwaited
    <3>. QED BY <1>1, <1>3, <1>5, <3>1, <3>2 DEF Resumer
  <2>. QED BY <2>1, <2>2
<1>17. DriversFindRecord'
  BY <1>3, <1>5 DEF Executions, DriversFindRecord, Resumer
<1>. QED BY <1>8, <1>9, <1>10, <1>11, <1>13, <1>15, <1>16, <1>17 DEF Executions

\* The steps of a command after its first one that start no Worker.
LEMMA CommandsKeepExecutions ==
  ASSUME FilesOK, CallsOK, Executions, Orderly, NEW c \in Calls,
         \/ Probe(c) \/ Weigh(c) \/ Refuse(c) \/ Awaited(c) \/ GiveUp(c) \/ PublishStop(c)
         \/ (\E m \in Sessions : StopMember(c, m)) \/ Report(c) \/ Die(c)
  PROVE  Executions'
<1>1. /\ call[c] \in Call /\ call[c] # Idle /\ call[c].session \in Recorded
      /\ call[c].todo \subseteq Recorded
  BY DEF Probe, Weigh, Refuse, Awaited, GiveUp, PublishStop, StopMember, Report, Die, AtStep,
         CallsOK, Executions, CallsAreAbout
<1>2. UNCHANGED <<mapping, terminal>>
  BY DEF Probe, Weigh, Refuse, Awaited, GiveUp, PublishStop, StopMember, Report, Die, files
<1>e. ASSUME Ends(c), WorkersOnlyEnd,
             Resumer(c) /\ call[c].step = "awaiting" /\ call[c].seen \in Workers
               => worker'[call[c].seen].step \notin {"starting", "admitted"}
      PROVE  Executions'
  BY <1>2, <1>e, CallKeepsExecutions DEF Ends
<1>w. UNCHANGED worker => WorkersOnlyEnd
  BY DEF WorkersOnlyEnd
<1>3. CASE Probe(c)
  <2>1. /\ call[c].step = "judging" /\ UNCHANGED worker
        /\ call[c].op \in {"send", "continue", "status"}
    BY <1>1, <1>3 DEF Probe, AtStep, Call, CallOf
  <2>2. CASE Ends(c)
    BY <1>e, <1>w, <2>1, <2>2
  <2>3. CASE ~Ends(c)
    <3>1. PICK after \in Call :
             /\ call' = [call EXCEPT ![c] = after]
             /\ after.op = call[c].op /\ after.session = call[c].session
             /\ after.todo = call[c].todo /\ after.step \in {"resuming", "weighing"}
             /\ after.step = "resuming" => call[c].op # "status"
      <4>. DEFINE go == [call[c] EXCEPT !.step = "resuming", !.seen = 0]
                  weigh == [call[c] EXCEPT !.step = "weighing"]
      <4>1. CASE call[c].op # "status" /\ call' = [call EXCEPT ![c].step = "resuming", ![c].seen = 0]
        <5>1. 0 \in 0..MaxWorkers
          BY BoundsAssumption DEF BoundsAssumption
        <5>2. go \in Call
          BY <1>1, <2>1, <4>1, <5>1 DEF Call, CallOf
        <5>3. call' = [call EXCEPT ![c] = go]
          BY <4>1
        <5>4. /\ go.op = call[c].op /\ go.session = call[c].session
              /\ go.todo = call[c].todo /\ go.step = "resuming"
          BY <1>1 DEF Call, CallOf
        <5>. QED BY <4>1, <5>2, <5>3, <5>4
      <4>2. CASE call' = [call EXCEPT ![c].step = "weighing"]
        <5>2. weigh \in Call
          BY <1>1, <2>1 DEF Call, CallOf
        <5>3. call' = [call EXCEPT ![c] = weigh]
          BY <4>2
        <5>4. /\ weigh.op = call[c].op /\ weigh.session = call[c].session
              /\ weigh.todo = call[c].todo /\ weigh.step = "weighing"
          BY <1>1 DEF Call, CallOf
        <5>. QED BY <5>2, <5>3, <5>4
      <4>. QED BY <1>3, <2>3, <4>1, <4>2 DEF Probe, Resumes
    <3>2. after.op = "continue" => terminal[after.session] # "none"
      BY <1>1, <2>1, <3>1 DEF Executions, DriversFindRecord, Resumer
    <3>3. after.op \in {"send", "continue"} => Drives(c)
      BY <1>1, <2>1, <3>1 DEF Drives, Resumer
    <3>4. \A d \in Calls \ {c} :
             ~(after # Idle /\ after.op \in {"send", "continue"}
                 /\ after.step \in {"judging", "weighing", "resuming"}
                 /\ Drives(d) /\ call[d].session = after.session)
      BY <3>1, <3>3 DEF Executions, OneDriver
    <3>5. after.session \in Recorded /\ after.todo \subseteq Recorded /\ after.step # "awaiting"
      BY <1>1, <3>1
    <3>6. WorkersOnlyEnd /\ call[c].step # "awaiting"
      BY <1>w, <2>1
    <3>. QED BY <1>2, <3>1, <3>2, <3>4, <3>5, <3>6, CallKeepsExecutions
  <2>. QED BY <2>2, <2>3
<1>4. CASE Weigh(c)
  <2>1. /\ call[c].step = "weighing" /\ UNCHANGED worker
        /\ call[c].op \in {"send", "continue", "status"}
    BY <1>1, <1>4 DEF Weigh, AtStep, Call, CallOf
  <2>2. CASE Ends(c)
    BY <1>e, <1>w, <2>1, <2>2
  <2>3. CASE ~Ends(c)
    <3>. DEFINE after == [call[c] EXCEPT !.op = "respond", !.step = "locking", !.seen = 0]
    <3>0. 0 \in 0..MaxWorkers
      BY BoundsAssumption DEF BoundsAssumption
    <3>1. after \in Call
      BY <1>1, <2>1, <3>0 DEF Call, CallOf
    <3>2. call' = [call EXCEPT ![c] = after]
      BY <1>4, <2>3 DEF Weigh
    <3>3. /\ after.op = "respond" /\ after.session = call[c].session
          /\ after.todo = call[c].todo /\ after.step = "locking"
      BY <1>1 DEF Call, CallOf
    <3>. HIDE DEF after
    <3>. QED BY <1>1, <1>2, <1>w, <2>1, <3>1, <3>2, <3>3, CallKeepsExecutions
  <2>. QED BY <2>2, <2>3
<1>5. CASE Refuse(c) \/ Report(c)
  <2>1. Ends(c) /\ UNCHANGED worker /\ call[c].step # "awaiting"
    BY <1>5 DEF Refuse, Report, AtStep
  <2>. QED BY <1>e, <1>w, <2>1
<1>6. CASE Awaited(c)
  <2>1. mapping[call[c].session] = call[c].seen =>
           worker[call[c].seen].step \notin {"starting", "admitted"}
    BY <1>1 DEF Executions, MappingNames, Recorded
  <2>. QED BY <1>e, <1>w, <1>6, <2>1 DEF Awaited
<1>7. CASE GiveUp(c)
  <2>1. call[c].seen \in Workers
    BY <1>1, <1>7 DEF GiveUp, AtStep, Executions, CallsAreAbout
  <2>2. CASE worker[call[c].seen].step = "unlinked" /\ UNCHANGED worker
    BY <1>e, <1>w, <1>7, <2>2 DEF GiveUp
  <2>3. CASE worker[call[c].seen].step \in {"starting", "admitted"} /\ Becomes(call[c].seen, "gone")
    <3>1. worker'[call[c].seen].step = "gone" /\ WorkersOnlyEnd
      BY <2>1, <2>3, BecomesFields DEF WorkersOnlyEnd, InStartup
    <3>. QED BY <1>e, <1>7, <3>1 DEF GiveUp
  <2>. QED BY <1>7, <2>2, <2>3 DEF GiveUp
<1>8. CASE Die(c)
  <2>1. call[c].step = "awaiting" => mapping[call[c].session] = call[c].seen
    BY <1>8, <1>1, Orderly DEF Die, AtStep, Starting
  <2>2. mapping[call[c].session] = call[c].seen =>
           worker[call[c].seen].step \notin {"starting", "admitted"}
    BY <1>1 DEF Executions, MappingNames, Recorded
  <2>. QED BY <1>e, <1>w, <1>8, <2>1, <2>2 DEF Die
<1>9. CASE PublishStop(c)
  <2>1. /\ call[c].op \in {"interrupt", "respond"} /\ UNCHANGED worker /\ call[c].step = "locking"
    BY <1>1, <1>9 DEF PublishStop, AtStep, Call, CallOf
  <2>2. Members(call[c].session) \subseteq Recorded
    BY <1>1 DEF Members
  <2>. DEFINE done == Unreadable = {}
  <2>3. done \in BOOLEAN /\ Recorded \subseteq Sessions
    BY DEF Recorded
  <2>. DEFINE after == [call[c] EXCEPT !.step = "stopping", !.todo = Members(call[c].session),
                                       !.complete = done]
  <2>4. call' = [call EXCEPT ![c] = after]
    BY <1>9 DEF PublishStop
  <2>. HIDE DEF done
  <2>5. after \in Call
    BY <1>1, <2>1, <2>2, <2>3 DEF Call, CallOf
  <2>6. /\ after.op = call[c].op /\ after.session = call[c].session
        /\ after.todo = Members(call[c].session) /\ after.step = "stopping"
    BY <1>1 DEF Call, CallOf
  <2>. HIDE DEF after
  <2>. QED BY <1>1, <1>2, <1>w, <2>1, <2>2, <2>4, <2>5, <2>6, CallKeepsExecutions
<1>10. ASSUME NEW m \in Sessions, StopMember(c, m)
       PROVE  Executions'
  <2>1. call[c].op \in {"interrupt", "respond"} /\ call[c].step = "stopping" /\ m \in Recorded
    BY <1>1, <1>10 DEF StopMember, AtStep, Call, CallOf
  <2>2. PICK done \in BOOLEAN : Stops(c, m, done)
    BY <1>10 DEF StopMember
  <2>. DEFINE after == [call[c] EXCEPT !.todo = @ \ {m}, !.complete = @ /\ done]
  <2>3. after \in Call /\ call' = [call EXCEPT ![c] = after]
    BY <1>1, <2>1, <2>2 DEF Stops, Call, CallOf
  <2>4. /\ after.op = call[c].op /\ after.session = call[c].session
        /\ after.todo \subseteq call[c].todo /\ after.step = "stopping"
    BY <1>1, <2>1 DEF Call, CallOf
  <2>. HIDE DEF after
  <2>5. WorkersOnlyEnd
    <3>1. CASE worker[mapping[m]].step = "running" /\ Becomes(mapping[m], "ended")
      <4>1. mapping[m] \in Workers
        BY <2>1 DEF Executions, MappingNames, Recorded
      <4>. QED BY <3>1, <4>1, BecomesFields DEF WorkersOnlyEnd
    <3>. QED BY <1>10, <1>w, <3>1 DEF StopMember
  <2>. QED BY <1>1, <1>2, <2>1, <2>3, <2>4, <2>5, CallKeepsExecutions
<1>. QED BY <1>3, <1>4, <1>5, <1>6, <1>7, <1>8, <1>9, <1>10

\* A new Session has one Worker, and no command yet.
LEMMA CreateKeepsExecutions ==
  ASSUME FilesOK, CallsOK, Executions, NEW s \in Sessions, Create(s)
  PROVE  Executions'
<1>1. PICK w \in Workers : StartWorker(s, w)
  BY DEF Create
<1>2. /\ worker[w].step = "unused"
      /\ worker'[w].session = s /\ worker'[w].step = "starting"
      /\ \A v \in Workers \ {w} : worker'[v] = worker[v]
  BY <1>1 DEF StartWorker, FilesOK
<1>3. \A v \in Workers : worker[v].session # s
  BY DEF Create, WorkersOf
<1>4. UNCHANGED <<mapping, terminal, call>> /\ Recorded' = Recorded
  BY DEF Create, files, Recorded
<1>5. mapping[s] = 0
  BY <1>3 DEF Executions, MappingNames
<1>6. OneProcess'
  BY <1>2, <1>3 DEF Executions, OneProcess, Alive, Workers
<1>7. RecordMeansEnd'
  BY <1>2, <1>4 DEF Executions, RecordMeansEnd, Alive, InStartup, Workers
<1>8. MappingNames' /\ RecordedIsMapped'
  BY <1>2, <1>4 DEF Executions, MappingNames, RecordedIsMapped, Workers
<1>9. CallsAreAbout'
  BY <1>2, <1>4 DEF Executions, CallsAreAbout, Workers
<1>10. \A c \in Calls : (Drives(c))' => Drives(c)
  BY <1>2, <1>4 DEF Drives, Resumer, InStartup, Executions, CallsAreAbout
<1>11. OneDriver' /\ DriversFindRecord'
  BY <1>4, <1>10 DEF Executions, OneDriver, DriversFindRecord, Resumer
<1>12. StartupIsAwaited'
  BY <1>2, <1>4, <1>5 DEF Executions, StartupIsAwaited, InStartup, Resumer, Workers
<1>. QED BY <1>6, <1>7, <1>8, <1>9, <1>11, <1>12 DEF Executions

\* Every step keeps the executions of a Session apart.
LEMMA NextKeepsExecutions ==
  ASSUME FilesOK, CallsOK, Executions, Orderly, [Next]_vars
  PROVE  Executions'
<1>1. CASE WorkerNext
  BY <1>1, WorkersKeepExecutions, BoundsAssumption
<1>2. CASE CallNext
  <2>1. PICK c \in Calls :
           \/ \E s \in Sessions : Send(c, s) \/ Continue(c, s) \/ Status(c, s) \/ Interrupt(c, s)
           \/ Probe(c) \/ Weigh(c) \/ Resume(c) \/ Refuse(c) \/ Awaited(c) \/ GiveUp(c)
           \/ PublishStop(c) \/ (\E m \in Sessions : StopMember(c, m)) \/ Report(c) \/ Die(c)
    BY <1>2 DEF CallNext
  <2>2. CASE \E s \in Sessions : Send(c, s) \/ Continue(c, s) \/ Status(c, s) \/ Interrupt(c, s)
    BY <2>2, BeginKeepsExecutions, BoundsAssumption
  <2>3. CASE Resume(c)
    BY <2>3, ResumeKeepsExecutions
  <2>. QED BY <2>1, <2>2, <2>3, CommandsKeepExecutions
<1>3. CASE \E s \in Sessions : Create(s)
  BY <1>3, CreateKeepsExecutions
<1>4. CASE UNCHANGED vars
  BY <1>4 DEF vars, files, Executions, OneProcess, RecordMeansEnd, MappingNames,
              RecordedIsMapped, CallsAreAbout, OneDriver, StartupIsAwaited, DriversFindRecord,
              Alive, InStartup, Drives, Resumer, Recorded, Workers
<1>. QED BY <1>1, <1>2, <1>3, <1>4 DEF Next

\* As long as the callers of a Session wait for one another, its processes, its records
\* and its commands fit together as Executions says.
LEMMA ExecutionsAlways ==
  ASSUME Orderly
  PROVE  Spec => [](FilesOK /\ CallsOK /\ Executions)
<1>1. Init => FilesOK /\ CallsOK /\ Executions
  <2>1. Init => Executions
    BY DEF Init, Executions, OneProcess, RecordMeansEnd, MappingNames, RecordedIsMapped,
           CallsAreAbout, OneDriver, StartupIsAwaited, DriversFindRecord, Alive, InStartup,
           Drives, Resumer
  <2>. QED BY <2>1, InitTyped, BoundsAssumption
<1>2. FilesOK /\ CallsOK /\ Executions /\ [Next]_vars => (FilesOK /\ CallsOK /\ Executions)'
  BY NextTyped, NextKeepsExecutions, BoundsAssumption, Orderly
<1>. QED BY <1>1, <1>2, PTL DEF Spec

\* A live execution is a process past its startup.
LEMMA LiveIsAlive ==
  ASSUME NEW w \in Workers, Live(w)
  PROVE  Alive(w) /\ ~InStartup(w)
BY DEF Live, Alive, InStartup

\* However many sends, drivers and kills there are: no two live executions of a Session,
\* if the callers of the Session wait for one another.
THEOREM OneExecutionPerSession ==
  ASSUME Orderly
  PROVE  Spec => []OneLiveExecution
<1>1. Executions => OneLiveExecution
  BY LiveIsAlive DEF Executions, OneProcess, OneLiveExecution
<1>. QED BY <1>1, ExecutionsAlways, PTL

\* Under the same condition a terminal record is there only while no execution of its
\* Session is live, however late an earlier Worker publishes its own.
THEOREM RecordsConfirmTheEnd ==
  ASSUME Orderly
  PROVE  Spec => []TerminalRecordConfirmsEnd
<1>1. Executions => TerminalRecordConfirmsEnd
  BY LiveIsAlive DEF Executions, RecordMeansEnd, TerminalRecordConfirmsEnd
<1>. QED BY <1>1, ExecutionsAlways, PTL

----------------------------------------------------------------------------
(* A complete stop is final *)

\* An interruption under way has its Session stopped and has every live execution
\* below it still before it, or one that it could not confirm behind it.
StopsAreThorough ==
  \A c \in Calls : call[c] # Idle /\ call[c].step = "stopping" =>
     /\ call[c].session \in stopped
     /\ call[c].complete =>
          \A w \in Workers : Live(w) /\ call[c].session \in Lineage[worker[w].session]
                               => worker[w].session \in call[c].todo
ConfirmedAreStopped == confirmed \subseteq stopped

\* An execution comes up only in a subtree that is not stopped.
LEMMA LiveSteps ==
  ASSUME FilesOK, CallsOK, Executions, StartsUnstopped, [Next]_vars,
         NEW w \in Workers, (Live(w))'
  PROVE  /\ worker'[w].session = worker[w].session /\ worker[w].session \in Sessions
         /\ Live(w) \/ (Lineage[worker[w].session] \cap stopped = {} /\ UNCHANGED <<stopped, call>>)
<1>0. UNCHANGED worker => worker'[w].session = worker[w].session /\ Live(w)
  BY DEF Live
<1>1. worker'[w].session = worker[w].session /\ (Live(w) \/ Unlink(w))
  <2>1. ASSUME NEW v \in Workers,
               \/ Admit(v) \/ StartupFails(v) \/ Unlink(v) \/ RecordSession(v)
               \/ NativeEnds(v) \/ RuntimeFails(v) \/ PublishTerminal(v) \/ Kill(v)
        PROVE  worker'[w].session = worker[w].session /\ (Live(w) \/ Unlink(w))
    <3>1. PICK step \in WorkerStep :
             /\ Becomes(v, step)
             /\ step = "unlinked" => Unlink(v)
             /\ step = "running" => RecordSession(v)
      BY <2>1 DEF Admit, StartupFails, Unlink, RecordSession, NativeEnds, RuntimeFails,
                  PublishTerminal, Kill, WorkerStep
    <3>. QED BY <3>1, BecomesFields DEF Live, RecordSession
  <2>2. ASSUME NEW c \in Calls, GiveUp(c)
        PROVE  worker'[w].session = worker[w].session /\ Live(w)
    <3>1. call[c].seen \in Workers
      BY <2>2 DEF GiveUp, AtStep, Executions, CallsAreAbout
    <3>. QED BY <1>0, <2>2, <3>1, BecomesFields DEF GiveUp, Live
  <2>3. ASSUME NEW c \in Calls, NEW m \in Sessions, StopMember(c, m)
        PROVE  worker'[w].session = worker[w].session /\ Live(w)
    <3>1. mapping[m] \in Workers
      BY <2>3 DEF StopMember, AtStep, Executions, CallsAreAbout, MappingNames, Recorded
    <3>. QED BY <1>0, <2>3, <3>1, BecomesFields DEF StopMember, Live
  <2>4. ASSUME NEW s, NEW v \in Workers, StartWorker(s, v)
        PROVE  worker'[w].session = worker[w].session /\ Live(w)
    BY <2>4 DEF StartWorker, FilesOK, Live
  <2>5. CASE WorkerNext
    BY <2>1, <2>5 DEF WorkerNext
  <2>6. CASE CallNext
    BY <1>0, <2>2, <2>3, <2>4, <2>6 DEF CallNext, Send, Continue, Status, Interrupt, Begin, Probe,
       Weigh, Resume, Refuse, Awaited, PublishStop, Report, Die
  <2>7. CASE \E s \in Sessions : Create(s)
    BY <2>4, <2>7 DEF Create
  <2>. QED BY <1>0, <2>5, <2>6, <2>7 DEF Next, vars
<1>2. worker[w].session \in Sessions
  BY <1>1 DEF FilesOK, Live, Unlink
<1>3. CASE Unlink(w)
  BY <1>1, <1>2, <1>3 DEF Unlink, StartsUnstopped
<1>. QED BY <1>1, <1>2, <1>3

\* What a step may do to the interruptions: leave them, let one begin, or go on.
LEMMA StopSteps ==
  ASSUME FilesOK, CallsOK, Executions, [Next]_vars,
         NEW c \in Calls, call'[c] # Idle, call'[c].step = "stopping"
  PROVE  call'[c] = call[c] \/ PublishStop(c) \/ \E m \in Sessions : StopMember(c, m)
<1>1. ASSUME NEW d \in Calls, d # c, NEW after, call' = [call EXCEPT ![d] = after]
      PROVE  call'[c] = call[c]
  BY <1>1 DEF CallsOK
<1>2. ASSUME NEW after, call' = [call EXCEPT ![c] = after], after = Idle \/ after.step # "stopping"
      PROVE  FALSE
  BY <1>2 DEF CallsOK
<1>3. UNCHANGED call => call'[c] = call[c]
  OBVIOUS
<1>4. CASE CallNext
  <2>1. PICK d \in Calls :
           \/ \E s \in Sessions : Send(d, s) \/ Continue(d, s) \/ Status(d, s) \/ Interrupt(d, s)
           \/ Probe(d) \/ Weigh(d) \/ Resume(d) \/ Refuse(d) \/ Awaited(d) \/ GiveUp(d)
           \/ PublishStop(d) \/ (\E m \in Sessions : StopMember(d, m)) \/ Report(d) \/ Die(d)
    BY <1>4 DEF CallNext
  <2>2. \E after : call' = [call EXCEPT ![d] = after]
    BY <2>1 DEF Send, Continue, Status, Interrupt, Begin, Probe, Weigh, Resume, Refuse, Awaited,
                GiveUp, PublishStop, StopMember, Stops, Report, Die, Ends, Resumes
  <2>3. CASE d # c
    BY <1>1, <2>2, <2>3
  <2>4. CASE d = c /\ (\/ Refuse(c) \/ Awaited(c) \/ GiveUp(c) \/ Report(c) \/ Die(c))
    BY <1>2, <2>4 DEF Refuse, Awaited, GiveUp, Report, Die, Ends
  <2>5. CASE d = c /\ \E s \in Sessions : Send(c, s) \/ Continue(c, s) \/ Status(c, s) \/ Interrupt(c, s)
    <3>1. PICK op, s, step, seen :
             /\ step # "stopping"
             /\ call' = [call EXCEPT ![c] = [op |-> op, session |-> s, step |-> step,
                                  seen |-> seen, todo |-> {}, complete |-> TRUE]]
      BY <2>5 DEF Send, Continue, Status, Interrupt, Begin
    <3>. QED BY <1>2, <3>1
  <2>6. CASE d = c /\ (Probe(c) \/ Weigh(c) \/ Resume(c))
    <3>1. call[c] \in Call
      BY <2>6 DEF Probe, Weigh, Resume, AtStep, CallsOK
    <3>2. call'[c] = Idle \/ call'[c].step \in {"resuming", "weighing", "locking", "awaiting"}
      BY <2>6, <3>1 DEF Probe, Weigh, Resume, Resumes, Ends, CallsOK, Call, CallOf
    <3>. QED BY <3>2
  <2>. QED BY <2>1, <2>3, <2>4, <2>5, <2>6
<1>5. CASE ~CallNext
  BY <1>3, <1>5 DEF Next, WorkerNext, Create, vars, Admit, StartupFails, Unlink, RecordSession,
     NativeEnds, RuntimeFails, PublishTerminal, Kill
<1>. QED BY <1>4, <1>5

\* No step takes a stop back.
LEMMA StopsStay ==
  ASSUME [Next]_vars
  PROVE  stopped \subseteq stopped'
BY DEF Next, WorkerNext, CallNext, Create, Send, Continue, Status, Interrupt, Begin, Probe,
       Weigh, Resume, Refuse, Awaited, GiveUp, PublishStop, StopMember, Report, Die, files, vars,
       Admit, StartupFails, Unlink, RecordSession, NativeEnds, RuntimeFails, PublishTerminal, Kill

\* An interruption keeps every live execution of its subtree before it.
LEMMA InterruptionsAreThorough ==
  ASSUME FilesOK, CallsOK, Executions, StartsUnstopped, StopsAreThorough, [Next]_vars
  PROVE  StopsAreThorough'
<1>. SUFFICES ASSUME NEW c \in Calls, call'[c] # Idle, call'[c].step = "stopping"
              PROVE  /\ call'[c].session \in stopped'
                     /\ call'[c].complete =>
                          \A w \in Workers :
                             (Live(w))' /\ call'[c].session \in Lineage[worker'[w].session]
                               => worker'[w].session \in call'[c].todo
  BY DEF StopsAreThorough, Workers
<1>1. CASE call'[c] = call[c]
  <2>1. call[c].session \in stopped'
    BY <1>1, StopsStay DEF StopsAreThorough
  <2>2. ASSUME call[c].complete, NEW w \in Workers, (Live(w))',
               call[c].session \in Lineage[worker'[w].session]
        PROVE  worker'[w].session \in call[c].todo
    <3>1. /\ worker'[w].session = worker[w].session
          /\ Live(w) \/ Lineage[worker[w].session] \cap stopped = {}
      BY <2>2, LiveSteps
    <3>. QED BY <1>1, <2>2, <3>1 DEF StopsAreThorough
  <2>. QED BY <1>1, <2>1, <2>2
<1>2. CASE PublishStop(c)
  <2>1. call[c] \in Call /\ UNCHANGED worker
    BY <1>2 DEF PublishStop, AtStep, CallsOK
  <2>2. call'[c].session = call[c].session /\ call'[c].todo = Members(call[c].session)
    BY <1>2, <2>1 DEF PublishStop, CallsOK, Call, CallOf
  <2>3. ASSUME NEW w \in Workers, Live(w), call[c].session \in Lineage[worker[w].session]
        PROVE  worker[w].session \in Members(call[c].session)
    <3>1. worker[w].step = "running"
      BY <1>2, <2>3 DEF PublishStop, StartLockFree, Live
    <3>2. mapping[worker[w].session] = w /\ worker[w].session \in Sessions
      BY <3>1 DEF Executions, RecordedIsMapped, FilesOK
    <3>3. worker[w].session \in Recorded
      BY <3>2 DEF Recorded, Workers
    <3>. QED BY <2>3, <3>3 DEF Members
  <2>4. call'[c].session \in stopped'
    BY <1>2, <2>2 DEF PublishStop
  <2>. QED BY <2>1, <2>2, <2>3, <2>4 DEF Live
<1>3. ASSUME NEW m \in Sessions, StopMember(c, m)
      PROVE  /\ call'[c].session \in stopped'
             /\ call'[c].complete =>
                  \A w \in Workers :
                     (Live(w))' /\ call'[c].session \in Lineage[worker'[w].session]
                       => worker'[w].session \in call'[c].todo
  <2>1. call[c] \in Call /\ call[c] # Idle /\ call[c].step = "stopping" /\ m \in Recorded
    BY <1>3 DEF StopMember, AtStep, CallsOK, Executions, CallsAreAbout
  <2>2. PICK done \in BOOLEAN :
           /\ Stops(c, m, done)
           /\ done => \/ IsOver(m) /\ UNCHANGED worker
                      \/ worker[mapping[m]].step = "running" /\ Becomes(mapping[m], "ended")
    BY <1>3 DEF StopMember
  <2>3. /\ call'[c].session = call[c].session /\ call'[c].todo = call[c].todo \ {m}
        /\ call'[c].complete => call[c].complete /\ done
    BY <2>1, <2>2 DEF Stops, CallsOK, Call, CallOf
  <2>4. call'[c].session \in stopped'
    BY <2>1, <2>3, StopsStay DEF StopsAreThorough
  <2>5. ASSUME call'[c].complete, NEW w \in Workers, (Live(w))',
               call[c].session \in Lineage[worker'[w].session]
        PROVE  worker'[w].session \in call[c].todo \ {m}
    <3>1. /\ worker'[w].session = worker[w].session
          /\ Live(w) \/ Lineage[worker[w].session] \cap stopped = {}
      BY <2>5, LiveSteps
    <3>2. Live(w) /\ worker[w].session \in call[c].todo
      BY <2>1, <2>3, <2>5, <3>1 DEF StopsAreThorough
    <3>3. mapping[m] \in Workers /\ worker[mapping[m]].session = m
      BY <2>1 DEF Executions, MappingNames, Recorded
    <3>4. ASSUME worker[w].session = m
          PROVE  FALSE
      <4>1. Alive(w) /\ terminal[m] = "none"
        BY <3>2, <3>4, LiveIsAlive DEF Executions, RecordMeansEnd
      <4>2. worker[mapping[m]].step \in {"running", "ended"}
        BY <2>2, <2>3, <2>5, <4>1 DEF IsOver
      <4>3. mapping[m] = w
        BY <3>3, <3>4, <4>1, <4>2 DEF Executions, OneProcess, Alive
      <4>4. CASE IsOver(m)
        BY <3>2, <4>1, <4>3, <4>4 DEF IsOver, Live
      <4>5. CASE Becomes(w, "ended")
        BY <2>5, <4>5, BecomesFields DEF Live
      <4>. QED BY <2>2, <2>3, <2>5, <4>3, <4>4, <4>5
    <3>. QED BY <3>1, <3>2, <3>4
  <2>. QED BY <2>3, <2>4, <2>5
<1>. QED BY <1>1, <1>2, <1>3, StopSteps

\* A report of a complete stop is true when it is made, and stays true.
LEMMA ConfirmationsHold ==
  ASSUME FilesOK, CallsOK, Executions, StartsUnstopped, StopsAreThorough, ConfirmedAreStopped,
         CompleteStopIsFinal, [Next]_vars
  PROVE  ConfirmedAreStopped' /\ CompleteStopIsFinal'
<1>1. ASSUME NEW s \in confirmed', s \notin confirmed
      PROVE  \E c \in Calls : /\ Report(c) /\ call[c].session = s /\ call[c].complete
                              /\ UNCHANGED worker
  <2>1. \E c \in Calls : Report(c)
    BY <1>1 DEF Next, WorkerNext, CallNext, Create, Send, Continue, Status, Interrupt, Begin, Probe,
       Weigh, Resume, Refuse, Awaited, GiveUp, PublishStop, StopMember, Die, files, vars,
       Admit, StartupFails, Unlink, RecordSession, NativeEnds, RuntimeFails, PublishTerminal, Kill
  <2>. QED BY <1>1, <2>1 DEF Report
<1>2. ASSUME NEW c \in Calls, Report(c), call[c].complete
      PROVE  /\ call[c].session \in stopped
             /\ \A w \in Workers : Live(w) => call[c].session \notin Lineage[worker[w].session]
  BY <1>2 DEF Report, AtStep, StopsAreThorough
<1>3. ConfirmedAreStopped'
  BY <1>1, <1>2, StopsStay DEF ConfirmedAreStopped
<1>4. CompleteStopIsFinal'
  <2>. SUFFICES ASSUME NEW s \in confirmed', NEW w \in Workers,
                       s \in Lineage[worker'[w].session], (Live(w))'
                PROVE  FALSE
    BY DEF CompleteStopIsFinal, Workers
  <2>1. /\ worker'[w].session = worker[w].session /\ worker[w].session \in Sessions
        /\ Live(w) \/ Lineage[worker[w].session] \cap stopped = {}
    BY LiveSteps
  <2>2. CASE s \in confirmed
    <3>1. Live(w)
      BY <2>1, <2>2 DEF ConfirmedAreStopped
    <3>. QED BY <2>1, <2>2, <3>1, ParentAssumption DEF CompleteStopIsFinal, ParentAssumption
  <2>3. CASE s \notin confirmed
    BY <1>1, <1>2, <2>1, <2>3 DEF Live
  <2>. QED BY <2>2, <2>3
<1>. QED BY <1>3, <1>4

\* Once `interrupted` was answered for a Session, no execution is live in its subtree and
\* none comes up: none escaped the enumeration, and no launch or resume that was under
\* way gets past the start lock.
THEOREM CompleteStopsAreFinal ==
  ASSUME Orderly
  PROVE  Spec => []CompleteStopIsFinal
<1>1. Init => StartsUnstopped /\ StopsAreThorough /\ ConfirmedAreStopped /\ CompleteStopIsFinal
  BY DEF Init, StartsUnstopped, StopsAreThorough, ConfirmedAreStopped, CompleteStopIsFinal
<1>2. ASSUME FilesOK, CallsOK, Executions, [Next]_vars, StartsUnstopped,
             StopsAreThorough, ConfirmedAreStopped, CompleteStopIsFinal
      PROVE  /\ StartsUnstopped' /\ StopsAreThorough'
             /\ ConfirmedAreStopped' /\ CompleteStopIsFinal'
  <2>1. StartsUnstopped'
    BY <1>2, StartsUnstoppedStep
  <2>2. StopsAreThorough'
    BY <1>2, InterruptionsAreThorough
  <2>3. ConfirmedAreStopped' /\ CompleteStopIsFinal'
    BY <1>2, ConfirmationsHold
  <2>. QED BY <2>1, <2>2, <2>3
<1>. QED BY <1>1, <1>2, ExecutionsAlways, PTL DEF Spec

----------------------------------------------------------------------------
(* The life of a Session *)

\* An execution is under way when its Worker says so.
LEMMA RunningIs ==
  ASSUME NEW s, NEW e
  PROVE  <<s, e>> \in Running <=> e \in Workers /\ Live(e) /\ worker[e].session = s
BY DEF Running

\* A Worker that moves leaves the executions of all others under way, and ...
LEMMA RunningMoves ==
  ASSUME NEW w \in Workers,
         \A v \in Workers \ {w} : worker'[v].session = worker[v].session
                                  /\ ((Live(v))' <=> Live(v))
  PROVE  /\ ~(Live(w))' => Running' = Running \ {<<worker[w].session, w>>}
         /\ (Live(w))' /\ worker'[w].session = worker[w].session
               => Running' = Running \cup {<<worker[w].session, w>>}
<1>1. Running' = {<<worker'[v].session, v>> : v \in {u \in Workers : (Live(u))'}}
  BY DEF Running, Workers
<1>2. CASE ~(Live(w))'
  <2>1. Running' \subseteq Running \ {<<worker[w].session, w>>}
    BY <1>1, <1>2 DEF Running
  <2>2. Running \ {<<worker[w].session, w>>} \subseteq Running'
    BY <1>1, <1>2 DEF Running
  <2>. QED BY <1>2, <2>1, <2>2
<1>3. CASE (Live(w))' /\ worker'[w].session = worker[w].session
  <2>1. Running' \subseteq Running \cup {<<worker[w].session, w>>}
    BY <1>1, <1>3 DEF Running
  <2>2. Running \cup {<<worker[w].session, w>>} \subseteq Running'
    BY <1>1, <1>3 DEF Running
  <2>. QED BY <1>3, <2>1, <2>2
<1>. QED BY <1>2, <1>3

\* ... a step of it begins its execution, ends it, or leaves it.
LEMMA RunningBecomes ==
  ASSUME FilesOK, NEW w \in Workers, NEW step \in WorkerStep, Becomes(w, step)
  PROVE  /\ step \in {"unlinked", "running"} => Running' = Running \cup {<<worker[w].session, w>>}
         /\ step \notin {"unlinked", "running"} => Running' = Running \ {<<worker[w].session, w>>}
<1>1. /\ \A v \in Workers : worker'[v].session = worker[v].session
      /\ \A v \in Workers \ {w} : (Live(v))' <=> Live(v)
      /\ (Live(w))' <=> step \in {"unlinked", "running"}
  BY BecomesFields DEF Live
<1>. QED BY <1>1, RunningMoves

\* A step to an end, or into the startup, of a Worker that has no execution changes none.
LEMMA RunningStays ==
  ASSUME FilesOK, NEW w \in Workers, ~Live(w),
         \/ \E step \in WorkerStep \ {"unlinked", "running"} : Becomes(w, step)
         \/ \E s : StartWorker(s, w)
  PROVE  Running' = Running
<1>1. /\ \A v \in Workers \ {w} : worker'[v].session = worker[v].session
                                  /\ ((Live(v))' <=> Live(v))
      /\ ~(Live(w))'
  BY DEF Becomes, StartWorker, FilesOK, Live, Worker, WorkerStep
<1>2. <<worker[w].session, w>> \notin Running
  BY RunningIs
<1>. QED BY <1>1, <1>2, RunningMoves

\* What is under way is read off the Workers.
LEMMA RunningUnchanged == UNCHANGED worker => Running' = Running
BY DEF Running, Live, Workers

\* Every step of a Worker begins an execution, records it, ends it, tells of its end, or
\* is none of the Session's life.
LEMMA WorkersLive ==
  ASSUME FilesOK, CallsOK, Executions, StartsUnstopped, WorkerNext
  PROVE  Life!Next \/ UNCHANGED Life!vars
<1>. SUFFICES ASSUME NEW w \in Workers,
                     \/ Admit(w) \/ StartupFails(w) \/ Unlink(w) \/ RecordSession(w)
                     \/ NativeEnds(w) \/ RuntimeFails(w) \/ PublishTerminal(w) \/ Kill(w)
              PROVE  Life!Next \/ UNCHANGED Life!vars
  BY DEF WorkerNext
<1> DEFINE s == worker[w].session
<1>1. s \in Sessions
  BY DEF FilesOK, Admit, StartupFails, Unlink, RecordSession, NativeEnds, RuntimeFails,
         PublishTerminal, Kill
<1>2. ASSUME Alive(w), ~Live(w)
      PROVE  ~Life!Runs(s)
  <2>1. ASSUME NEW e \in Workers, <<s, e>> \in Running
        PROVE  FALSE
    <3>1. Live(e) /\ worker[e].session = s
      BY <2>1, RunningIs
    <3>2. e = w
      BY <1>2, <3>1, LiveIsAlive DEF Executions, OneProcess
    <3>. QED BY <1>2, <3>1, <3>2
  <2>. QED BY <2>1 DEF Life!Runs
<1>3. CASE Admit(w) \/ StartupFails(w)
  <2>1. ~Live(w) /\ \E step \in WorkerStep \ {"unlinked", "running"} : Becomes(w, step)
    BY <1>3 DEF Admit, StartupFails, Live, WorkerStep
  <2>2. Running' = Running
    BY <2>1, RunningStays
  <2>. QED BY <1>3, <2>2 DEF Admit, StartupFails, files, Life!vars
<1>4. CASE Unlink(w)
  <2>1. Becomes(w, "unlinked") /\ "unlinked" \in WorkerStep /\ Alive(w) /\ ~Live(w)
    BY <1>4 DEF Unlink, WorkerStep, Alive, Live
  <2>2. Running' = Running \cup {<<s, w>>}
    BY <2>1, RunningBecomes
  <2>3. Life!Allowed(s)
    BY <1>4 DEF Unlink, StartsUnstopped, Life!Allowed
  <2>4. Life!Start(s, w)
    BY <1>2, <1>4, <2>1, <2>2, <2>3 DEF Life!Start, Unlink, WithoutTerminal
  <2>. QED BY <1>1, <2>4 DEF Life!Next
<1>5. CASE RecordSession(w)
  <2>1. Becomes(w, "running") /\ "running" \in WorkerStep /\ Live(w)
    BY <1>5 DEF RecordSession, WorkerStep, Live
  <2>2. <<s, w>> \in Running
    BY <2>1, RunningIs
  <2>3. Running' = Running
    BY <2>1, <2>2, RunningBecomes
  <2>4. Life!Allowed(s)
    BY <1>5 DEF RecordSession, StartsUnstopped, Life!Allowed
  <2>5. Life!Name(s, w)
    BY <1>5, <2>2, <2>3, <2>4 DEF Life!Name, RecordSession
  <2>. QED BY <1>1, <2>5 DEF Life!Next
<1>6. CASE NativeEnds(w) \/ RuntimeFails(w) \/ Kill(w)
  <2>1. \E step \in WorkerStep \ {"unlinked", "running"} : Becomes(w, step)
    BY <1>6 DEF NativeEnds, RuntimeFails, Kill, WorkerStep
  <2>2. Running' = Running \ {<<s, w>>}
    BY <2>1, RunningBecomes
  <2>3. Life!End(s, w)
    BY <1>6, <2>2 DEF Life!End, NativeEnds, RuntimeFails, Kill, files
  <2>. QED BY <1>1, <2>3 DEF Life!Next
<1>7. CASE PublishTerminal(w)
  <2>1. /\ Alive(w) /\ ~Live(w)
        /\ \E step \in WorkerStep \ {"unlinked", "running"} : Becomes(w, step)
    BY <1>7 DEF PublishTerminal, Alive, Live, WorkerStep
  <2>2. Running' = Running
    BY <2>1, RunningStays
  <2>3. \E o \in {"ended", "unconfirmed"} : terminal' = [terminal EXCEPT ![s] = o]
    BY <1>7 DEF PublishTerminal
  <2>4. Life!Publish(s)
    BY <1>2, <1>7, <2>1, <2>2, <2>3 DEF Life!Publish, PublishTerminal
  <2>. QED BY <1>1, <2>4 DEF Life!Next
<1>. QED BY <1>3, <1>4, <1>5, <1>6, <1>7

\* A member that an interruption meets is stopped itself, is brought to its end, or stays.
LEMMA MembersLive ==
  ASSUME FilesOK, CallsOK, Executions, NEW c \in Calls, NEW m \in Sessions, StopMember(c, m)
  PROVE  Life!Next \/ UNCHANGED Life!vars
<1>1. mapping[m] \in Workers /\ worker[mapping[m]].session = m
  BY DEF StopMember, AtStep, Executions, CallsAreAbout, MappingNames, Recorded
<1>2. CASE UNCHANGED <<worker, stopped>>
  BY <1>2, RunningUnchanged DEF StopMember, Life!vars
<1>3. CASE UNCHANGED worker /\ stopped' = stopped \cup {m}
  <2>1. Life!Stop(m)
    BY <1>3, RunningUnchanged DEF StopMember, Life!Stop
  <2>. QED BY <2>1 DEF Life!Next
<1>4. CASE Becomes(mapping[m], "ended") /\ UNCHANGED stopped
  <2>1. Running' = Running \ {<<m, mapping[m]>>}
    BY <1>1, <1>4, RunningBecomes DEF WorkerStep
  <2>2. Life!End(m, mapping[m])
    BY <1>4, <2>1 DEF StopMember, Life!End
  <2>. QED BY <1>1, <2>2 DEF Life!Next
<1>. QED BY <1>2, <1>3, <1>4 DEF StopMember

\* Of the commands, interruptions stop and report, and a start adds a process without
\* an execution; the others read.
LEMMA CommandsLive ==
  ASSUME FilesOK, CallsOK, Executions, StopsAreThorough, CallNext
  PROVE  Life!Next \/ UNCHANGED Life!vars
<1>. PICK c \in Calls :
        \/ \E s \in Sessions : Send(c, s) \/ Continue(c, s) \/ Status(c, s) \/ Interrupt(c, s)
        \/ Probe(c) \/ Weigh(c) \/ Resume(c) \/ Refuse(c) \/ Awaited(c) \/ GiveUp(c)
        \/ PublishStop(c) \/ (\E m \in Sessions : StopMember(c, m)) \/ Report(c) \/ Die(c)
  BY DEF CallNext
<1>0. call[c] # Idle => call[c].session \in Sessions
  BY DEF Executions, CallsAreAbout, Recorded
<1>1. CASE \/ \E s \in Sessions : Send(c, s) \/ Continue(c, s) \/ Status(c, s) \/ Interrupt(c, s)
           \/ Probe(c) \/ Weigh(c) \/ Refuse(c) \/ Awaited(c) \/ Die(c)
  <2>1. UNCHANGED <<mapping, terminal, stopped, confirmed, worker>>
    BY <1>1 DEF Send, Continue, Status, Interrupt, Begin, Probe, Weigh, Refuse, Awaited, Die, files
  <2>. QED BY <2>1, RunningUnchanged DEF Life!vars
<1>2. CASE Resume(c)
  <2>1. PICK w \in Workers : StartWorker(call[c].session, w)
    BY <1>2 DEF Resume
  <2>2. Running' = Running
    BY <2>1, RunningStays DEF StartWorker, Live
  <2>. QED BY <1>2, <2>2 DEF Resume, files, Life!vars
<1>3. CASE GiveUp(c)
  <2>1. call[c].seen \in Workers
    BY <1>3 DEF GiveUp, AtStep, Executions, CallsAreAbout
  <2>2. \/ UNCHANGED worker
        \/ Becomes(call[c].seen, "gone") /\ ~Live(call[c].seen)
    BY <1>3 DEF GiveUp, Live
  <2>3. Running' = Running
    BY <2>1, <2>2, RunningStays, RunningUnchanged DEF WorkerStep
  <2>. QED BY <1>3, <2>3 DEF GiveUp, files, Life!vars
<1>4. CASE PublishStop(c)
  <2>1. Life!Stop(call[c].session)
    BY <1>4, RunningUnchanged DEF PublishStop, Life!Stop
  <2>. QED BY <1>0, <1>4, <2>1 DEF PublishStop, AtStep, Life!Next
<1>5. CASE \E m \in Sessions : StopMember(c, m)
  BY <1>5, MembersLive
<1>6. CASE Report(c)
  <2>1. Running' = Running /\ UNCHANGED <<mapping, terminal, stopped>>
    BY <1>6, RunningUnchanged DEF Report, files
  <2>2. CASE ~call[c].complete
    BY <1>6, <2>1, <2>2 DEF Report, Life!vars
  <2>3. CASE call[c].complete
    <3>1. /\ call[c].session \in stopped
          /\ \A w \in Workers : Live(w) => call[c].session \notin Lineage[worker[w].session]
      BY <1>6, <2>3 DEF Report, AtStep, StopsAreThorough
    <3>2. \A d \in Sessions : call[c].session \in Lineage[d] => ~Life!Runs(d)
      BY <3>1, RunningIs DEF Life!Runs
    <3>3. Life!Report(call[c].session)
      BY <1>6, <2>1, <2>3, <3>1, <3>2 DEF Report, Life!Report
    <3>. QED BY <1>0, <1>6, <3>3 DEF Report, AtStep, Life!Next
  <2>. QED BY <2>2, <2>3
<1>. QED BY <1>1, <1>2, <1>3, <1>4, <1>5, <1>6

\* What the commands and the Workers do to the files is a life of each Session: one
\* execution after the other, begun and recorded only in an unstopped subtree, its end
\* recorded when it has ended, the stop of a subtree reported when nothing runs there.
THEOREM SessionsLive ==
  ASSUME Orderly
  PROVE  Spec => SessionsKeepTheirLife
<1>1. Init => Life!Init
  <2>1. Init => Running = {}
    BY DEF Init, Running, Live
  <2>. QED BY <2>1 DEF Init, Life!Init
<1>2. ASSUME FilesOK, CallsOK, Executions, StartsUnstopped, StopsAreThorough, [Next]_vars
      PROVE  [Life!Next]_(Life!vars)
  <2>1. CASE WorkerNext
    BY <1>2, <2>1, WorkersLive
  <2>2. CASE CallNext
    BY <1>2, <2>2, CommandsLive
  <2>3. ASSUME NEW s \in Sessions, Create(s)
        PROVE  UNCHANGED Life!vars
    <3>1. PICK w \in Workers : StartWorker(s, w)
      BY <2>3 DEF Create
    <3>2. Running' = Running
      BY <1>2, <3>1, RunningStays DEF StartWorker, Live
    <3>. QED BY <2>3, <3>2 DEF Create, files, Life!vars
  <2>4. CASE UNCHANGED vars
    BY <2>4, RunningUnchanged DEF vars, files, Life!vars
  <2>. QED BY <1>2, <2>1, <2>2, <2>3, <2>4 DEF Next
<1>3. Init => StartsUnstopped /\ StopsAreThorough
  BY DEF Init, StartsUnstopped, StopsAreThorough
<1>4. FilesOK /\ CallsOK /\ Executions /\ StartsUnstopped /\ StopsAreThorough /\ [Next]_vars
        => StartsUnstopped' /\ StopsAreThorough'
  BY StartsUnstoppedStep, InterruptionsAreThorough
<1>. QED BY <1>1, <1>2, <1>3, <1>4, ExecutionsAlways, PTL
         DEF Spec, Life!Spec, SessionsKeepTheirLife
=============================================================================
