--------------------------- MODULE TeamRoundProofs ---------------------------
(***************************************************************************)
(* What the driver of a Ticket, its Agents and its callers keep for any    *)
(* axes and any bounds: types, the evidence behind an acceptance and a     *)
(* rejection, the Reviews that stay valid, and that no member repeats what *)
(* the Round's directory already has.                                      *)
(*                                                                         *)
(* The invariant speaks of the files and of what a driver remembers at     *)
(* each place where it can be, or will be when the executions it waits for *)
(* have ended.  A step is one of four kinds: it moves on, starts members,  *)
(* makes a request or writes the Round's directory; one lemma for each.    *)
(***************************************************************************)
EXTENDS TeamRound, TLAPS

USE BoundsAssumption, MembersAssumption

Outcomes == {"starting", "running", "completed", "failed"}

Ticket ==
  [status : {"ready", "implementing", "reviewing", "reworking", "awaiting-integration"},
   candidate : {Absent} \cup Commits, round : 1..MaxRound, seats : SUBSET Members,
   confirmed : BOOLEAN]

Session == [count : 0..2, outcome : Outcomes]

\* Where a driver goes on after an execution, and where it can be.
Destinations ==
  {"idle", "batch", "collect", "redone", "engineer-done", "candidate", "resumed-candidate",
   "rework-candidate", "refused", "finish", "validate", "wrap-up-leader", "scanned"}

Places ==
  Destinations \cup
  {"waiting", "wrap-up", "taken", "start", "run-engineer", "report", "collected", "reviewed",
   "rework", "dispatch", "resume", "scan", "unlink", "redo", "corrected"}

\* The Batches that start the Engineer, and what else a Batch is for.
EngineerWants == {"start", "rework", "resumed-engineer", "resumed-rework"}
Wants == EngineerWants \cup {"none", "review", "resumed-review", "resumed-final"}

\* Where a correction returns to.
Backs == {"none", "scanned", "finish", "refused", "batch"}

DriverRecord ==
  [at : Places, waits : SUBSET Members, then : Destinations, frugal : BOOLEAN,
   resumed : BOOLEAN, first : BOOLEAN, want : Wants, recovered : BOOLEAN, rejected : BOOLEAN,
   retried : BOOLEAN, known : SUBSET Axes, remaining : SUBSET Axes, results : BOOLEAN,
   todo : SUBSET Members, previous : {Absent} \cup Commits, back : Backs]

FilesTyped ==
  /\ ticket \in Ticket
  /\ rounds \in [1..MaxRound -> RoundRecord]
  /\ delivered \in [Axes -> Reports]
  /\ registration \in Formal \cup {NoBatch}
  /\ head \in Commits
  /\ stopped \in BOOLEAN
  /\ detours \in 0..MaxDetours

\* A Session that runs is counted, also one that is being created.
SessionsTyped ==
  /\ sessions \in [Members -> Session]
  /\ \A m \in Members : sessions[m].outcome \in {"starting", "running"} => sessions[m].count > 0

----------------------------------------------------------------------------
(* The files *)

\* The Engineer of a Team without an Engineer's Session has reported nothing, and
\* before the Team has started it has none.
EngineerKnown ==
  /\ sessions[Engineer].count = 0 \/ sessions[Engineer].outcome = "starting"
       => \A r \in 1..MaxRound : rounds[r].engineer = Absent
  /\ ticket.status = "ready" => sessions[Engineer].count = 0

\* A rejected Round, with the evidence a confirmed rejection needs.
Rejected(r) ==
  /\ rounds[r].leader.decision = "rework"
  /\ Agreed(r, rounds[r].engineer)
  /\ \A a \in Axes : rounds[r].review[a] # Absent
  /\ rounds[r].engineer # Absent

RejectionsStand ==
  \A r \in 1..MaxRound :
     (r < ticket.round \/ (r = ticket.round /\ ticket.status = "reworking")) => Rejected(r)

RoomForRework == \A r \in 1..MaxRound : rounds[r].leader.decision = "rework" => r < MaxRound

\* A Round that has not begun has no reports.
NothingYet == \A r \in 1..MaxRound : r > ticket.round => rounds[r] = EmptyRound

\* A report names no commit after this one.
UpTo(report, commit) == report <= commit \/ report = Foreign

NoForesight == \A a \in Axes : UpTo(Here.review[a], head) /\ UpTo(delivered[a], head)

FilesFit ==
  /\ FilesTyped /\ SessionsTyped /\ EngineerKnown /\ RejectionsStand /\ RoomForRework
  /\ NothingYet /\ NoForesight /\ AcceptedEvidence
  /\ ticket.status = "awaiting-integration" => NobodyRuns

----------------------------------------------------------------------------
(* The driver *)

\* Where the driver is, or will be when the executions it waits for have ended.
Place(d) == IF d.at = "waiting" THEN d.then ELSE d.at

TurnOf(d) == IF Engineer \in d.todo THEN Engineer ELSE CHOOSE a \in d.todo : TRUE

\* What is left to do is what the place can do.
TodoFits(d, place) ==
  /\ place \in {"collect", "collected"} => d.todo \subseteq Axes /\ d.todo # {}
  /\ place = "taken" => d.todo \in Formal
  /\ place \in {"scan", "corrected"} => d.todo \subseteq Axes
  /\ place = "redone" => d.todo # {}

\* Before the Engineer is started it has reported nothing.
EngineerFits(d, place) ==
  /\ ticket.status = "ready" =>
       /\ place \in {"idle", "batch", "taken", "start"}
       /\ place # "idle" => d.want = "start"
  /\ (\/ place \in {"start", "run-engineer", "dispatch"}
      \/ place \in {"batch", "taken"} /\ d.want \in EngineerWants)
     => Here.engineer = Absent
  /\ (\/ place = "dispatch"
      \/ place \in {"batch", "taken"} /\ d.want = "rework")
     => ticket.status = "implementing"

\* An axis that may still run has no report, or is known to have one; the axes of
\* a Batch have none.
ReviewersFit(d, place) ==
  /\ d.remaining \cap Reported \subseteq d.known
  /\ place = "collect" => d.todo \cap Reported = {}
  /\ place = "collected" => (d.todo \ {TurnOf(d)}) \cap Reported = {}
  /\ place \in {"collect", "collected", "reviewed"} => d.want \notin EngineerWants

\* A correction runs a known member again, whose report is gone, and then returns
\* to a place that does not start the Engineer.
CorrectionFits(d, place) ==
  /\ place \in {"unlink", "redo", "redone", "corrected"} =>
        d.back # "none" /\ (d.back = "batch" => d.want \notin EngineerWants)
  /\ place = "unlink" => Responsible \in {Engineer} \cup d.known
  /\ place \in {"redo", "redone", "corrected"} =>
        d.todo \cap Axes \subseteq d.known /\ d.todo \cap Reported = {}
  /\ place \in {"redo", "redone"} /\ Engineer \in d.todo =>
        /\ place = "redo" => Here.engineer = Absent
        /\ d.previous <= head
        /\ \A a \in Axes : UpTo(Here.review[a], d.previous)

MemoryFits(d, place) ==
  TodoFits(d, place) /\ EngineerFits(d, place) /\ ReviewersFit(d, place) /\ CorrectionFits(d, place)

WaitsFit(d) ==
  IF d.at = "waiting"
  THEN d.then = "batch" => Engineer \notin d.waits
  ELSE d.waits = {}

\* A rejected or accepted Round has no driver at work on it.
StatusFits(d) ==
  /\ ticket.status = "reworking" => d.at \in {"idle", "resume", "rework"}
  /\ ticket.status = "awaiting-integration" => d.at = "idle"

DriverFits(d) ==
  d \in DriverRecord /\ MemoryFits(d, Place(d)) /\ WaitsFit(d) /\ StatusFits(d)

\* While a driver works, nobody runs but the members it waits for.
Quiet == \A m \in Members : Runs(m) => At("idle") \/ m \in driver.waits

Inv == FilesFit /\ DriverFits(driver) /\ Quiet

----------------------------------------------------------------------------
(* Facts of the definitions *)

\* The driver that does nothing fits any state.
LEMMA IdleFits ==
  /\ IdleDriver \in DriverRecord
  /\ IdleDriver.at = "idle" /\ IdleDriver.waits = {} /\ Place(IdleDriver) = "idle"
  /\ DriverFits(IdleDriver) /\ DriverFits(IdleDriver)'
<1>1. IdleDriver \in DriverRecord
  BY DEF IdleDriver, DriverRecord, Places, Destinations, Wants, Backs
<1>2. /\ IdleDriver.at = "idle" /\ IdleDriver.waits = {} /\ IdleDriver.remaining = {}
      /\ IdleDriver.back = "none"
  BY DEF IdleDriver
<1>3. Place(IdleDriver) = "idle"
  BY <1>2 DEF Place
<1>4. MemoryFits(IdleDriver, "idle") /\ MemoryFits(IdleDriver, "idle")'
  BY <1>2 DEF MemoryFits, TodoFits, EngineerFits, ReviewersFit, CorrectionFits, Backs
<1>5. WaitsFit(IdleDriver) /\ StatusFits(IdleDriver) /\ StatusFits(IdleDriver)'
  BY <1>2 DEF WaitsFit, StatusFits
<1>6. QED
  BY <1>1, <1>2, <1>3, <1>4, <1>5 DEF DriverFits

\* What fits depends on these fields of the driver.
SameMemory(e, d) ==
  /\ e.todo = d.todo /\ e.want = d.want /\ e.known = d.known /\ e.remaining = d.remaining
  /\ e.back = d.back /\ e.previous = d.previous

LEMMA MemoryAlone ==
  ASSUME NEW d, NEW e, SameMemory(e, d), NEW place
  PROVE  /\ MemoryFits(d, place) => MemoryFits(e, place)
         /\ MemoryFits(d, place)' => MemoryFits(e, place)'
<1>1. TurnOf(e) = TurnOf(d)
  BY DEF SameMemory, TurnOf
<1>2. TodoFits(d, place) => TodoFits(e, place)
  BY DEF SameMemory, TodoFits
<1>3. /\ EngineerFits(d, place) => EngineerFits(e, place)
      /\ EngineerFits(d, place)' => EngineerFits(e, place)'
  BY DEF SameMemory, EngineerFits
<1>4. /\ ReviewersFit(d, place) => ReviewersFit(e, place)
      /\ ReviewersFit(d, place)' => ReviewersFit(e, place)'
  BY <1>1 DEF SameMemory, ReviewersFit
<1>5. /\ CorrectionFits(d, place) => CorrectionFits(e, place)
      /\ CorrectionFits(d, place)' => CorrectionFits(e, place)'
  BY DEF SameMemory, CorrectionFits
<1>6. QED
  BY <1>2, <1>3, <1>4, <1>5 DEF MemoryFits

\* What fits a driver fits it while the files stay.
LEMMA FilesAlone ==
  ASSUME UNCHANGED <<ticket, rounds, head>>, NEW d
  PROVE  DriverFits(d)' <=> DriverFits(d)
<1>1. Here' = Here /\ Reported' = Reported /\ Responsible' = Responsible
  BY DEF Here, Reported, Responsible
<1>2. \A place : MemoryFits(d, place)' <=> MemoryFits(d, place)
  BY <1>1 DEF MemoryFits, TodoFits, EngineerFits, ReviewersFit, CorrectionFits
<1>3. StatusFits(d)' <=> StatusFits(d)
  BY DEF StatusFits
<1>4. QED
  BY <1>2, <1>3 DEF DriverFits

\* A driver at work is not waiting, and then nobody runs.
LEMMA WorkingIsQuiet ==
  ASSUME Inv, ~At("waiting"), ~At("idle")
  PROVE  NobodyRuns
BY DEF Inv, DriverFits, WaitsFit, Quiet, At, NobodyRuns

----------------------------------------------------------------------------
(* The kinds of steps *)

\* A driver moves on.
LEMMA ProceedKeeps ==
  ASSUME Inv, NobodyRuns, NEW d, DriverFits(d), Proceed(d)
  PROVE  Inv'
<1>1. /\ UNCHANGED <<ticket, rounds, delivered, registration, head, sessions, stopped, detours>>
      /\ driver' = d
  BY DEF Proceed, files, Straight
<1>2. FilesFit'
  BY <1>1 DEF Inv, FilesFit, FilesTyped, SessionsTyped, EngineerKnown, RejectionsStand, Rejected,
              Agreed, RoomForRework, NothingYet, NoForesight, Here, AcceptedEvidence, Reported,
              NobodyRuns, Runs
<1>3. DriverFits(driver)'
  <2>1. DriverFits(d)'
    BY <1>1, FilesAlone
  <2>2. QED
    BY <2>1, <1>1
<1>4. Quiet'
  BY <1>1 DEF Quiet, NobodyRuns, Runs
<1>5. QED
  BY <1>2, <1>3, <1>4 DEF Inv

LEMMA RaiseKeeps ==
  ASSUME Inv, NobodyRuns, Raise
  PROVE  Inv'
BY IdleFits, ProceedKeeps DEF Raise

\* A driver on its way to a place, or one that has given up.
Heads(e, d, place) ==
  \/ e = IdleDriver
  \/ /\ e \in DriverRecord /\ SameMemory(e, d)
     /\ Place(e) = place

\* What starting members does to the Sessions: the others keep theirs.
LEMMA LaunchedSessions ==
  ASSUME Inv, NobodyRuns, NEW d \in DriverRecord
  PROVE  /\ Launched(d) \in [Members -> Session]
         /\ \A m \in Members :
              /\ Launched(d)[m].outcome \in {"starting", "running"} => Launched(d)[m].count > 0
              /\ m \notin d.waits => Launched(d)[m] = sessions[m]
              /\ m \in d.waits /\ ~Startable(m) => Launched(d)[m].outcome = "failed"
              /\ Launched(d)[m].count >= sessions[m].count
              /\ m \in d.waits /\ Startable(m) /\ sessions[m].count = 0 =>
                    Launched(d)[m].count = 1
              /\ m \in d.waits /\ m = Engineer /\ sessions[m].count > 0 =>
                    Launched(d)[m].outcome = "running"
<1> USE DEF Session, Outcomes
<1>1. sessions \in [Members -> Session]
  BY DEF Inv, FilesFit, SessionsTyped
<1>2. \A m \in Members :
        /\ sessions[m] \in Session
        /\ sessions[m].outcome \notin {"starting", "running"}
        /\ [sessions[m] EXCEPT !.outcome = "failed"] \in Session
        /\ [sessions[m] EXCEPT !.outcome = "running"] \in Session
        /\ sessions[m].count < 2 =>
             [count |-> sessions[m].count + 1, outcome |-> "starting"] \in Session
  BY <1>1 DEF NobodyRuns, Runs
<1>3. \A m \in Members : Creates(d, m) \in BOOLEAN /\ Startable(m) \in BOOLEAN
  BY DEF Creates, Startable
<1>4. \A m \in Members : Launched(d)[m] =
        IF m \notin d.waits THEN sessions[m]
        ELSE IF ~Startable(m) THEN [sessions[m] EXCEPT !.outcome = "failed"]
        ELSE IF Creates(d, m) /\ sessions[m].count < 2
        THEN [count |-> sessions[m].count + 1, outcome |-> "starting"]
        ELSE [sessions[m] EXCEPT !.outcome = "running"]
  BY DEF Launched
<1>5. \A m \in Members : Launched(d)[m] \in Session
  <2> SUFFICES ASSUME NEW m \in Members PROVE Launched(d)[m] \in Session
    OBVIOUS
  <2>1. \/ Launched(d)[m] = sessions[m]
        \/ Launched(d)[m] = [sessions[m] EXCEPT !.outcome = "failed"]
        \/ Launched(d)[m] = [sessions[m] EXCEPT !.outcome = "running"]
        \/ /\ sessions[m].count < 2
           /\ Launched(d)[m] = [count |-> sessions[m].count + 1, outcome |-> "starting"]
    BY <1>4, Zenon
  <2> HIDE DEF Session
  <2>2. QED
    BY <2>1, <1>2, Zenon
<1>6. Launched(d) \in [Members -> Session]
  BY <1>5 DEF Launched
<1>7. ASSUME NEW m \in Members
      PROVE  /\ Launched(d)[m].outcome \in {"starting", "running"} => Launched(d)[m].count > 0
             /\ m \notin d.waits => Launched(d)[m] = sessions[m]
             /\ m \in d.waits /\ ~Startable(m) => Launched(d)[m].outcome = "failed"
             /\ Launched(d)[m].count >= sessions[m].count
             /\ m \in d.waits /\ Startable(m) /\ sessions[m].count = 0 =>
                   Launched(d)[m].count = 1
             /\ m \in d.waits /\ m = Engineer /\ sessions[m].count > 0 =>
                   Launched(d)[m].outcome = "running"
  <2>1. PICK old \in Session : old = sessions[m]
    BY <1>2
  <2>2. PICK new : new = Launched(d)[m]
    OBVIOUS
  <2>3. /\ old.count = 0 => Creates(d, m)
        /\ m = Engineer => Startable(m) /\ (Creates(d, m) => old.count = 0)
    BY <2>1 DEF Startable, Creates
  <2>4. /\ old.count \in 0..2
        /\ \/ m \notin d.waits /\ new = old
           \/ m \in d.waits /\ ~Startable(m) /\ new = [old EXCEPT !.outcome = "failed"]
           \/ /\ m \in d.waits /\ Startable(m) /\ Creates(d, m) /\ old.count < 2
              /\ new = [count |-> old.count + 1, outcome |-> "starting"]
           \/ /\ m \in d.waits /\ Startable(m) /\ ~(Creates(d, m) /\ old.count < 2)
              /\ new = [old EXCEPT !.outcome = "running"]
    BY <1>4, <2>1, <2>2, Zenon DEF Session
  <2>5. /\ old.outcome \notin {"starting", "running"}
        /\ [old EXCEPT !.outcome = "failed"].count = old.count
        /\ [old EXCEPT !.outcome = "failed"].outcome = "failed"
        /\ [old EXCEPT !.outcome = "running"].count = old.count
        /\ [old EXCEPT !.outcome = "running"].outcome = "running"
    BY <1>2, <2>1
  <2>6. /\ new.outcome \in {"starting", "running"} => new.count > 0
        /\ m \notin d.waits => new = old
        /\ m \in d.waits /\ ~Startable(m) => new.outcome = "failed"
        /\ new.count >= old.count
        /\ m \in d.waits /\ Startable(m) /\ old.count = 0 => new.count = 1
        /\ m \in d.waits /\ m = Engineer /\ old.count > 0 => new.outcome = "running"
    BY <2>3, <2>4, <2>5
  <2>7. QED
    BY <2>1, <2>2, <2>6
<1>8. QED
  BY <1>6, <1>7

\* A Batch names somebody.
LEMMA FormalNonempty == \A batch \in Formal : batch # {} /\ batch \subseteq Members
BY DEF Formal, Members

\* Members are started and waited for.
Launches(d, ms, place, frugal) ==
  /\ sessions' \in [Members -> Session]
  /\ Heads(driver', d, place)
  /\ driver'.at = "waiting" => driver'.waits = ms /\ driver'.frugal = frugal
  /\ driver'.at # "waiting" => driver'.waits = {} /\ \A m \in Members : ~Runs(m)'
  /\ \A m \in Members :
       /\ sessions'[m].outcome \in {"starting", "running"} => sessions'[m].count > 0
       /\ m \notin ms => sessions'[m] = sessions[m]
       /\ m \in ms /\ ~Startable(m) => ~Runs(m)'
       /\ sessions'[m].count >= sessions[m].count
       /\ m \in ms /\ Startable(m) /\ sessions[m].count = 0 => sessions'[m].count = 1
       /\ m \in ms /\ m = Engineer /\ sessions[m].count > 0 =>
             sessions'[m].outcome = "running"

LEMMA LaunchDriver ==
  ASSUME Inv, NobodyRuns, NEW d \in DriverRecord, NEW ms \in SUBSET Members, ms # {},
         NEW place \in Destinations, NEW frugal \in BOOLEAN,
         Launch(d, ms, place, frugal)
  PROVE  Launches(d, ms, place, frugal)
<1> DEFINE w == [d EXCEPT !.at = "waiting", !.waits = ms, !.then = place, !.frugal = frugal]
<1> USE DEF Launches
<1>1. /\ w \in DriverRecord /\ w.at = "waiting" /\ w.waits = ms /\ w.then = place
      /\ w.frugal = frugal /\ SameMemory(w, d)
  BY DEF DriverRecord, Places, SameMemory
<1>2. /\ sessions' = Launched(w)
      /\ driver' = IF \E m \in ms : Startable(m) THEN w ELSE Woken(w, sessions', FALSE)
  BY DEF Launch
<1> HIDE DEF w
<1>3. /\ sessions' \in [Members -> Session]
      /\ \A m \in Members :
           /\ sessions'[m].outcome \in {"starting", "running"} => sessions'[m].count > 0
           /\ m \notin ms => sessions'[m] = sessions[m]
           /\ m \in ms /\ ~Startable(m) => sessions'[m].outcome = "failed"
           /\ sessions'[m].count >= sessions[m].count
           /\ m \in ms /\ Startable(m) /\ sessions[m].count = 0 => sessions'[m].count = 1
           /\ m \in ms /\ m = Engineer /\ sessions[m].count > 0 =>
                 sessions'[m].outcome = "running"
  BY <1>1, <1>2, LaunchedSessions, Zenon
<1>4. \A m \in ms : ~Startable(m) => ~Runs(m)'
  BY <1>3 DEF Runs
<1>5. CASE \E m \in ms : Startable(m)
  BY <1>1, <1>2, <1>3, <1>4, <1>5 DEF Heads, Place
<1>6. CASE \A m \in ms : ~Startable(m)
  <2> DEFINE e == [w EXCEPT !.waits = {}, !.then = "idle"]
  <2>1. driver' = Woken(w, sessions', FALSE)
    BY <1>2, <1>6
  <2>2. driver' = IdleDriver \/ driver' = [e EXCEPT !.at = place]
    BY <2>1, <1>1 DEF Woken
  <2>3. LET f == [e EXCEPT !.at = place]
        IN  /\ f \in DriverRecord /\ f.at = place /\ f.waits = {} /\ f.then = "idle"
            /\ SameMemory(f, w)
    BY <1>1 DEF DriverRecord, Places, Destinations, SameMemory
  <2>4. Heads(driver', d, place)
    BY <2>2, <2>3, <1>1 DEF Heads, SameMemory, Place, Destinations
  <2>5. driver'.at # "waiting" /\ driver'.waits = {}
    BY <2>2, <2>3, IdleFits DEF Destinations
  <2>6. \A m \in Members : ~Runs(m)'
    BY <1>3, <1>4, <1>6 DEF NobodyRuns, Runs
  <2>7. QED
    BY <1>3, <1>4, <2>4, <2>5, <2>6
<1>7. QED
  BY <1>5, <1>6

\* A driver that heads for a place fits it, if what it remembers does.
LEMMA HeadsFits ==
  ASSUME NEW e, NEW d \in DriverRecord, NEW place, Heads(e, d, place),
         MemoryFits(d, place)', WaitsFit(e),
         e = IdleDriver \/ ticket'.status \notin {"reworking", "awaiting-integration"}
  PROVE  DriverFits(e)'
<1>1. CASE e = IdleDriver
  BY <1>1, IdleFits
<1>2. CASE e # IdleDriver
  <2>1. e \in DriverRecord /\ SameMemory(e, d) /\ Place(e) = place
    BY <1>2 DEF Heads
  <2>2. MemoryFits(e, Place(e))'
    BY <2>1, MemoryAlone
  <2>3. StatusFits(e)'
    BY <1>2 DEF StatusFits
  <2>4. QED
    BY <2>1, <2>2, <2>3 DEF DriverFits
<1>3. QED
  BY <1>1, <1>2

\* A driver starts members and waits for them.
LEMMA LaunchKeeps ==
  ASSUME Inv, NobodyRuns, NEW d \in DriverRecord, NEW ms \in SUBSET Members, ms # {},
         NEW place \in Destinations, NEW frugal \in BOOLEAN, Launch(d, ms, place, frugal),
         MemoryFits(d, place),
         Engineer \in ms => place # "batch" /\ ticket.status # "ready",
         ticket.status \notin {"reworking", "awaiting-integration"},
         UNCHANGED <<ticket, rounds, delivered, head>>,
         registration' \in Formal \cup {NoBatch}, detours' \in 0..MaxDetours
  PROVE  Inv'
<1>1. stopped' = stopped
  BY DEF Launch
<1>2. Launches(d, ms, place, frugal)
  BY LaunchDriver
<1> USE <1>2 DEF Launches
<1>3. SessionsTyped'
  BY <1>2 DEF SessionsTyped
<1>4. EngineerKnown'
  <2>1. EngineerKnown /\ sessions[Engineer].count \in 0..2
    BY DEF Inv, FilesFit, SessionsTyped, Session, Members
  <2>2. Engineer \in Members /\ sessions' [Engineer].count \in 0..2
    BY <1>2 DEF Session, Members
  <2>3. CASE Engineer \in ms
    <3>1. sessions'[Engineer].count = 0 \/ sessions'[Engineer].outcome = "starting"
            => sessions[Engineer].count = 0
      <4>1. /\ Startable(Engineer)
            /\ sessions[Engineer].count = 0 => sessions'[Engineer].count = 1
            /\ sessions'[Engineer].count >= sessions[Engineer].count
            /\ sessions[Engineer].count > 0 => sessions'[Engineer].outcome = "running"
        BY <1>2, <2>2, <2>3 DEF Startable
      <4>2. QED
        BY <4>1, <2>1, <2>2
    <3>2. QED
      BY <2>1, <2>3, <3>1 DEF EngineerKnown
  <2>4. CASE Engineer \notin ms
    <3>1. sessions'[Engineer] = sessions[Engineer]
      BY <1>2, <2>2, <2>4
    <3>2. QED
      BY <2>1, <3>1 DEF EngineerKnown
  <2>5. QED
    BY <2>3, <2>4
<1>5. FilesFit'
  BY <1>1, <1>3, <1>4 DEF Inv, FilesFit, FilesTyped, RejectionsStand, Rejected, Agreed,
              RoomForRework, NothingYet, NoForesight, Here, AcceptedEvidence
<1>6. DriverFits(driver)'
  <2> DEFINE e == driver'
  <2>1. Heads(e, d, place)
    BY <1>2
  <2>2. MemoryFits(d, place)'
    <3>1. Here' = Here /\ Reported' = Reported /\ Responsible' = Responsible
      BY DEF Here, Reported, Responsible
    <3>2. QED
      BY <3>1 DEF MemoryFits, TodoFits, EngineerFits, ReviewersFit, CorrectionFits
  <2>3. e.at = "waiting" => e.then = place
    BY <2>1, IdleFits DEF Heads, Place
  <2>4. WaitsFit(e)
    BY <1>2, <2>3 DEF WaitsFit
  <2>5. QED
    BY <2>1, <2>2, <2>4, HeadsFits
<1>7. Quiet'
  <2>1. ASSUME NEW m \in Members, m \notin ms
        PROVE  ~Runs(m)'
    BY <1>2, <2>1 DEF NobodyRuns, Runs
  <2>2. QED
    BY <1>2, <2>1 DEF Quiet
<1>8. QED
  BY <1>5, <1>6, <1>7 DEF Inv

\* A bounded detour, or none.
LEMMA DetourTyped ==
  ASSUME Inv, Detour \/ Straight
  PROVE  detours' \in 0..MaxDetours
<1>1. detours \in 0..MaxDetours /\ MaxDetours \in Nat
  BY DEF Inv, FilesFit, FilesTyped, BoundsAssumption
<1>2. QED
  BY <1>1 DEF Detour, Straight

\* What is granted in an open Round leaves the reports, and so the closed Rounds.
LEMMA GrantKeeps ==
  ASSUME Inv, NobodyRuns, Sampled,
         UNCHANGED <<rounds, delivered, registration, head, sessions>>,
         ticket' \in Ticket, ticket'.round = ticket.round,
         ticket'.status \in {"implementing", "reviewing"}, DriverFits(driver)'
  PROVE  Inv'
<1>1. Here' = Here
  BY DEF Here
<1>2. detours' \in 0..MaxDetours
  BY DetourTyped DEF Sampled
<1>3. FilesTyped'
  BY <1>2 DEF Inv, FilesFit, FilesTyped, Sampled
<1>4. FilesFit'
  BY <1>1, <1>3 DEF Inv, FilesFit, SessionsTyped, EngineerKnown, RejectionsStand, Rejected,
              Agreed, RoomForRework, NothingYet, NoForesight, AcceptedEvidence
<1>5. Quiet'
  BY DEF Quiet, NobodyRuns, Runs
<1>6. QED
  BY <1>4, <1>5 DEF Inv

\* A driver gives up, whatever it was about to do.
LEMMA GiveUpKeeps ==
  ASSUME Inv, NobodyRuns, Detour, driver' = IdleDriver, stopped' \in {stopped, TRUE},
         UNCHANGED <<files, sessions>>
  PROVE  Inv'
<1>1. UNCHANGED <<ticket, rounds, delivered, registration, head, sessions>>
  BY DEF files
<1>2. detours' \in 0..MaxDetours
  BY DetourTyped
<1>3. FilesTyped'
  BY <1>1, <1>2 DEF Inv, FilesFit, FilesTyped
<1>4. FilesFit'
  BY <1>1, <1>3 DEF Inv, FilesFit, SessionsTyped, EngineerKnown, RejectionsStand, Rejected,
              Agreed, RoomForRework, NothingYet, NoForesight, Here, AcceptedEvidence, Reported,
              NobodyRuns, Runs
<1>5. Quiet'
  BY <1>1 DEF Quiet, NobodyRuns, Runs
<1>6. QED
  BY <1>4, <1>5, IdleFits DEF Inv

\* A request is granted, or the driver has given up and no file has changed.
LEMMA RequestCases ==
  ASSUME Inv, NobodyRuns, NEW allowed, NEW written, NEW d, Request(allowed, written, d)
  PROVE  \/ Inv'
         \/ /\ allowed /\ Sampled
            /\ ticket' = written /\ driver' = d
            /\ UNCHANGED <<rounds, delivered, registration, head, sessions>>
<1>1. CASE Raise
  BY <1>1, RaiseKeeps
<1>2. CASE /\ Detour /\ driver' = IdleDriver /\ stopped' \in {stopped, TRUE}
           /\ UNCHANGED <<files, sessions>>
  BY <1>2, GiveUpKeeps
<1>3. QED
  BY <1>1, <1>2 DEF Request

\* What a driver may write into the open Round's directory: it collects reports,
\* and removes what is stale or to be corrected.
RoundWrite(x) ==
  /\ x \in RoundRecord
  /\ x.leader \in {Here.leader, NoJudgment}
  /\ x.engineer \in {Here.engineer, Absent}
  /\ \A a \in Axes : UpTo(x.review[a], head)

LEMMA WriteKeeps ==
  ASSUME Inv, NobodyRuns, ticket.status \in {"implementing", "reviewing"},
         NEW x, RoundWrite(x), rounds' = [rounds EXCEPT ![ticket.round] = x],
         delivered' \in [Axes -> Reports], \A a \in Axes : UpTo(delivered'[a], head),
         UNCHANGED <<ticket, registration, head, sessions, stopped, detours>>,
         DriverFits(driver)'
  PROVE  Inv'
<1>1. /\ ticket \in Ticket /\ ticket.round \in 1..MaxRound
      /\ rounds \in [1..MaxRound -> RoundRecord]
  BY DEF Inv, FilesFit, FilesTyped, Ticket
<1>2. /\ rounds' \in [1..MaxRound -> RoundRecord] /\ Here' = x
      /\ \A r \in 1..MaxRound : r # ticket.round => rounds'[r] = rounds[r]
  BY <1>1 DEF RoundWrite, Here
<1>3. FilesTyped' /\ SessionsTyped'
  BY <1>2 DEF Inv, FilesFit, FilesTyped, SessionsTyped
<1>4. EngineerKnown'
  BY <1>1, <1>2 DEF Inv, FilesFit, EngineerKnown, RoundWrite, Here
<1>5. RejectionsStand'
  <2>1. ASSUME NEW r \in 1..MaxRound, r < ticket.round
        PROVE  Rejected(r)'
    <3>1. rounds'[r] = rounds[r]
      BY <1>1, <1>2, <2>1
    <3>2. QED
      BY <2>1, <3>1 DEF Inv, FilesFit, RejectionsStand, Rejected, Agreed
  <2>2. QED
    BY <2>1 DEF RejectionsStand
<1>6. RoomForRework'
  BY <1>1, <1>2 DEF Inv, FilesFit, RoomForRework, RoundWrite, Here, NoJudgment
<1>7. NothingYet' /\ NoForesight'
  BY <1>1, <1>2 DEF Inv, FilesFit, NothingYet, NoForesight, RoundWrite, UpTo
<1>8. AcceptedEvidence'
  BY DEF AcceptedEvidence
<1>9. Quiet'
  BY DEF Quiet, NobodyRuns, Runs
<1>10. QED
  BY <1>3, <1>4, <1>5, <1>6, <1>7, <1>8, <1>9 DEF Inv, FilesFit

----------------------------------------------------------------------------
(* The driver's steps *)

\* A driver at its place, that waits for nobody.
LEMMA ThereFits ==
  ASSUME NEW d \in DriverRecord, d.at # "waiting", d.waits = {}
  PROVE  /\ MemoryFits(d, d.at) /\ StatusFits(d) => DriverFits(d)
         /\ MemoryFits(d, d.at)' /\ StatusFits(d)' => DriverFits(d)'
BY DEF DriverFits, Place, WaitsFit

LEMMA AtWork ==
  ASSUME Inv, driver.at \notin {"idle", "waiting"}
  PROVE  /\ NobodyRuns
         /\ driver \in DriverRecord /\ driver.waits = {}
         /\ MemoryFits(driver, driver.at)
         /\ ticket \in Ticket
         /\ driver.at \notin {"resume", "rework"} =>
              ticket.status \notin {"reworking", "awaiting-integration"}
         /\ driver.at \notin {"batch", "taken", "start"} => ticket.status # "ready"
<1>1. NobodyRuns
  BY WorkingIsQuiet DEF At
<1>2. /\ driver \in DriverRecord /\ driver.waits = {} /\ MemoryFits(driver, driver.at)
      /\ StatusFits(driver)
  BY DEF Inv, DriverFits, Place, WaitsFit
<1>3. driver.at \notin {"batch", "taken", "start"} => ticket.status # "ready"
  BY <1>2 DEF MemoryFits, EngineerFits
<1>4. ticket \in Ticket
  BY DEF Inv, FilesFit, FilesTyped
<1>5. QED
  BY <1>1, <1>2, <1>3, <1>4 DEF StatusFits

\* Places at which nothing depends on what the driver remembers, but for the axes
\* that may still run.
Plain ==
  {"wrap-up", "wrap-up-leader", "engineer-done", "candidate", "report", "refused", "validate",
   "rework", "resume", "resumed-candidate", "rework-candidate", "scanned", "finish"}

ReviewersKnown(d) == d.remaining \cap Reported \subseteq d.known

LEMMA PlainFits ==
  ASSUME NEW d, NEW place \in Plain \cup {"idle"}
  PROVE  /\ ReviewersKnown(d) /\ (ticket.status # "ready" \/ place = "idle")
              => MemoryFits(d, place)
         /\ ReviewersKnown(d)' /\ (ticket'.status # "ready" \/ place = "idle")
              => MemoryFits(d, place)'
         /\ MemoryFits(d, place) => ReviewersKnown(d)
<1>1. place \notin {"batch", "taken", "start", "run-engineer", "dispatch", "collect", "collected",
                    "reviewed", "scan", "unlink", "redo", "redone", "corrected"}
  BY DEF Plain
<1>2. TodoFits(d, place) /\ CorrectionFits(d, place) /\ CorrectionFits(d, place)'
  BY <1>1 DEF TodoFits, CorrectionFits
<1>3. /\ (ticket.status # "ready" \/ place = "idle") => EngineerFits(d, place)
      /\ (ticket'.status # "ready" \/ place = "idle") => EngineerFits(d, place)'
  BY <1>1 DEF EngineerFits
<1>4. /\ ReviewersKnown(d) => ReviewersFit(d, place)
      /\ ReviewersKnown(d)' => ReviewersFit(d, place)'
      /\ ReviewersFit(d, place) => ReviewersKnown(d)
  BY <1>1 DEF ReviewersKnown, ReviewersFit
<1>5. QED
  BY <1>2, <1>3, <1>4 DEF MemoryFits

\* The driver moves on to a plain place.
LEMMA PlainKeeps ==
  ASSUME Inv, driver.at \notin {"idle", "waiting"}, NEW d \in DriverRecord, Proceed(d),
         d.at \in Plain, d.waits = {}, ReviewersKnown(d), ticket.status # "ready",
         d.at \in {"resume", "rework"} \/
           ticket.status \notin {"reworking", "awaiting-integration"},
         ticket.status # "awaiting-integration"
  PROVE  Inv'
<1>1. d.at # "waiting"
  BY DEF Plain
<1>2. MemoryFits(d, d.at) /\ StatusFits(d)
  BY PlainFits DEF StatusFits
<1>3. DriverFits(d)
  BY <1>1, <1>2, ThereFits
<1>4. QED
  BY <1>3, AtWork, ProceedKeeps

\* Members are started where the files stay as they are.
LEMMA RunKeeps ==
  ASSUME Inv, driver.at \notin {"idle", "waiting", "resume", "rework"},
         NEW d \in DriverRecord, NEW ms \in SUBSET Members, ms # {},
         NEW place \in Destinations, NEW frugal \in BOOLEAN,
         RunWith(d, ms, place, frugal), Straight \/ Detour,
         MemoryFits(d, place),
         Engineer \in ms => place # "batch" /\ ticket.status # "ready"
  PROVE  Inv'
<1>1. /\ NobodyRuns /\ ticket.status \notin {"reworking", "awaiting-integration"}
  BY AtWork
<1>2. /\ Launch(d, ms, place, frugal)
      /\ UNCHANGED <<ticket, rounds, delivered, head>> /\ registration' = registration
  BY DEF RunWith, files
<1>3. registration' \in Formal \cup {NoBatch}
  BY <1>2 DEF Inv, FilesFit, FilesTyped
<1>4. detours' \in 0..MaxDetours
  BY DetourTyped
<1>5. QED
  BY <1>1, <1>2, <1>3, <1>4, LaunchKeeps

\* A member is asked once more, where the driver is.
LEMMA RecoverKeeps ==
  ASSUME Inv, NEW m \in Members, NEW place \in Destinations, driver.at = place,
         place \notin {"idle", "batch"}, ticket.status # "ready", Recover(m, place)
  PROVE  Inv'
<1>1. place \notin {"waiting", "resume", "rework"}
  BY DEF Destinations
<1>2. NobodyRuns /\ driver \in DriverRecord /\ MemoryFits(driver, place)
  BY <1>1, AtWork
<1>3. CASE Raise
  BY <1>2, <1>3, RaiseKeeps
<1>4. CASE Run([driver EXCEPT !.retried = TRUE], {m}, place)
  <2> DEFINE d == [driver EXCEPT !.retried = TRUE]
  <2>1. d \in DriverRecord /\ SameMemory(d, driver)
    BY <1>2 DEF DriverRecord, SameMemory
  <2>2. MemoryFits(d, place)
    BY <1>2, <2>1, MemoryAlone
  <2>3. RunWith(d, {m}, place, FALSE) /\ Straight
    BY <1>4 DEF Run
  <2> HIDE DEF d
  <2>4. QED
    BY <1>1, <2>1, <2>2, <2>3, RunKeeps
<1>5. QED
  BY <1>3, <1>4 DEF Recover

\* What fits a driver in a Round fits it after a grant in that Round.
LEMMA GrantFits ==
  ASSUME UNCHANGED <<rounds, head>>, ticket'.round = ticket.round,
         ticket'.status \in {"implementing", "reviewing"},
         NEW d \in DriverRecord, d.at # "waiting", d.waits = {}, MemoryFits(d, d.at),
         ticket'.status = ticket.status \/ d.at \notin {"batch", "taken", "dispatch"}
  PROVE  DriverFits(d)'
<1>1. Here' = Here /\ Reported' = Reported /\ Responsible' = Responsible
  BY DEF Here, Reported, Responsible
<1>2. TodoFits(d, d.at)' /\ ReviewersFit(d, d.at)' /\ CorrectionFits(d, d.at)'
  BY <1>1 DEF MemoryFits, TodoFits, ReviewersFit, CorrectionFits
<1>3. EngineerFits(d, d.at)'
  BY <1>1 DEF MemoryFits, EngineerFits
<1>4. StatusFits(d)'
  BY DEF StatusFits
<1>5. QED
  BY <1>2, <1>3, <1>4, ThereFits DEF MemoryFits

\* A seat is recorded.
LEMMA MemberKeeps ==
  ASSUME Inv, driver.at \notin {"idle", "waiting"}, NEW m \in Members,
         NEW d \in DriverRecord, d.at # "waiting", d.waits = {}, MemoryFits(d, d.at),
         MemberRequest(m, d)
  PROVE  Inv'
<1> DEFINE written == Event([ticket EXCEPT !.seats = @ \cup {m}])
           allowed == /\ m \notin ticket.seats
                      /\ ticket.status = IF m = Engineer THEN "implementing" ELSE "reviewing"
<1>1. NobodyRuns /\ ticket \in Ticket
  BY AtWork
<1>2. Request(allowed, written, d)
  BY DEF MemberRequest
<1>3. CASE /\ allowed /\ Sampled
           /\ ticket' = written /\ driver' = d
           /\ UNCHANGED <<rounds, delivered, registration, head, sessions>>
  <2>1. /\ ticket' \in Ticket /\ ticket'.round = ticket.round
        /\ ticket'.status = ticket.status
    BY <1>1, <1>3 DEF Event, Ticket
  <2>2. ticket.status \in {"implementing", "reviewing"}
    BY <1>3
  <2>3. DriverFits(d)'
    BY <1>3, <2>1, <2>2, GrantFits
  <2>4. DriverFits(driver)'
    BY <1>3, <2>3
  <2>5. QED
    BY <1>1, <1>3, <2>1, <2>2, <2>4, GrantKeeps
<1> HIDE DEF written, allowed
<1>4. QED
  BY <1>1, <1>2, <1>3, RequestCases

\* A candidate is recorded.
LEMMA CandidateKeeps ==
  ASSUME Inv, driver.at \notin {"idle", "waiting"},
         NEW d \in DriverRecord, d.at \notin {"waiting", "batch", "taken", "dispatch"},
         d.waits = {}, MemoryFits(d, d.at), CandidateRequest(d)
  PROVE  Inv'
<1> DEFINE written == Event([ticket EXCEPT !.status = "reviewing", !.candidate = head])
           allowed == /\ ticket.status \in {"implementing", "reviewing"}
                      /\ ticket.candidate # head
                      /\ Engineer \in ticket.seats
<1>1. NobodyRuns /\ ticket \in Ticket /\ head \in Commits
  BY AtWork DEF Inv, FilesFit, FilesTyped
<1>2. Request(allowed, written, d)
  BY DEF CandidateRequest
<1>3. CASE /\ allowed /\ Sampled
           /\ ticket' = written /\ driver' = d
           /\ UNCHANGED <<rounds, delivered, registration, head, sessions>>
  <2>1. /\ ticket' \in Ticket /\ ticket'.round = ticket.round
        /\ ticket'.status = "reviewing"
    BY <1>1, <1>3 DEF Event, Ticket
  <2>2. DriverFits(d)'
    BY <1>3, <2>1, GrantFits
  <2>3. DriverFits(driver)'
    BY <1>3, <2>2
  <2>4. QED
    BY <1>1, <1>3, <2>1, <2>3, GrantKeeps
<1> HIDE DEF written, allowed
<1>4. QED
  BY <1>1, <1>2, <1>3, RequestCases

\* The Leader is asked for a Batch, and the driver waits for it.
LEMMA BatchFits ==
  ASSUME NEW d, ReviewersKnown(d), d.want \in Wants,
         ticket.status = "ready" => d.want = "start",
         d.want \in EngineerWants => Here.engineer = Absent,
         d.want = "rework" => ticket.status = "implementing"
  PROVE  MemoryFits(d, "batch")
BY DEF MemoryFits, TodoFits, EngineerFits, ReviewersFit, CorrectionFits, ReviewersKnown

LEMMA RemainingKnown ==
  ASSUME Inv
  PROVE  ReviewersKnown(driver)
BY DEF Inv, DriverFits, MemoryFits, ReviewersFit, ReviewersKnown

LEMMA GoFields ==
  ASSUME NEW d \in DriverRecord, NEW place \in Places
  PROVE  LET g == Go(d, place)
         IN  /\ g \in DriverRecord /\ g.at = place /\ g.waits = d.waits /\ SameMemory(g, d)
             /\ g.then = d.then
BY DEF Go, DriverRecord, SameMemory

LEMMA NextBatchFields ==
  ASSUME NEW d \in DriverRecord, NEW want \in Wants
  PROVE  LET b == NextBatch(d, want)
         IN  /\ b \in DriverRecord /\ b.at = "batch" /\ b.waits = d.waits /\ b.want = want
             /\ b.known = d.known /\ b.remaining = d.remaining /\ b.todo = {}
             /\ b.back = d.back
BY DEF NextBatch, DriverRecord, Places, Destinations

\* Where the Engineer is awaited, in a Round that has just begun.
LEMMA BeginningFits ==
  ASSUME NEW d, NEW place \in {"run-engineer", "dispatch"}, ReviewersKnown(d)',
         Here'.engineer = Absent, ticket'.status = "implementing"
  PROVE  MemoryFits(d, place)'
BY DEF MemoryFits, TodoFits, EngineerFits, ReviewersFit, CorrectionFits, ReviewersKnown

LEMMA StartTeamKeeps ==
  ASSUME Inv, StartTeam
  PROVE  Inv'
<1>1. driver.at = "start"
  BY DEF StartTeam, At
<1> DEFINE written == Event([ticket EXCEPT !.status = "implementing"])
           d == Go(driver, "run-engineer")
<1>2. /\ NobodyRuns /\ ticket \in Ticket /\ driver \in DriverRecord /\ driver.waits = {}
      /\ MemoryFits(driver, "start")
  BY <1>1, AtWork
<1>3. Request(ticket.status = "ready", written, d)
  BY DEF StartTeam
<1>4. /\ d \in DriverRecord /\ d.at = "run-engineer" /\ d.waits = {} /\ SameMemory(d, driver)
  BY <1>2, GoFields DEF Places
<1>5. ReviewersKnown(d) /\ Here.engineer = Absent
  BY <1>2, <1>4, RemainingKnown DEF MemoryFits, EngineerFits, ReviewersKnown, SameMemory
<1>6. CASE /\ Sampled /\ ticket' = written /\ driver' = d
           /\ UNCHANGED <<rounds, delivered, registration, head, sessions>>
  <2>1. /\ ticket' \in Ticket /\ ticket'.round = ticket.round
        /\ ticket'.status = "implementing"
    BY <1>2, <1>6 DEF Event, Ticket
  <2>2. PICK e : e = d
    OBVIOUS
  <2>3. Here' = Here /\ Reported' = Reported
    BY <1>6, <2>1 DEF Here, Reported
  <2>4. ReviewersKnown(e)'
    BY <1>5, <2>2, <2>3 DEF ReviewersKnown
  <2>5. MemoryFits(e, "run-engineer")'
    BY <1>5, <2>1, <2>3, <2>4, BeginningFits
  <2>6. DriverFits(e)'
    BY <1>4, <2>1, <2>2, <2>5, ThereFits DEF StatusFits
  <2>7. DriverFits(driver)'
    BY <1>6, <2>2, <2>6
  <2>8. QED
    BY <1>2, <1>6, <2>1, <2>7, GrantKeeps
<1> HIDE DEF written, d
<1>7. QED
  BY <1>2, <1>3, <1>6, RequestCases

LEMMA RunEngineerKeeps ==
  ASSUME Inv, RunEngineer
  PROVE  Inv'
<1>1. driver.at = "run-engineer"
  BY DEF RunEngineer, At
<1>2. driver \in DriverRecord /\ ticket.status # "ready" /\ ReviewersKnown(driver)
  BY <1>1, AtWork, RemainingKnown
<1>3. MemoryFits(driver, "engineer-done")
  BY <1>2, PlainFits DEF Plain
<1>4. RunWith(driver, {Engineer}, "engineer-done", FALSE) /\ Straight
  BY DEF RunEngineer, Run
<1>5. QED
  BY <1>1, <1>2, <1>3, <1>4, RunKeeps DEF Destinations, Members

LEMMA EngineerDoneKeeps ==
  ASSUME Inv, EngineerDone
  PROVE  Inv'
<1>1. driver.at = "engineer-done"
  BY DEF EngineerDone, At
<1>2. /\ driver \in DriverRecord /\ driver.waits = {} /\ ReviewersKnown(driver)
      /\ ticket.status \notin {"ready", "reworking", "awaiting-integration"}
  BY <1>1, AtWork, RemainingKnown
<1>3. PICK d : d = Go(driver, "candidate")
  OBVIOUS
<1>4. d \in DriverRecord /\ d.at = "candidate" /\ d.waits = {} /\ ReviewersKnown(d)
  BY <1>2, <1>3, GoFields DEF Places, Destinations, SameMemory, ReviewersKnown
<1>5. MemoryFits(d, d.at)
  BY <1>2, <1>4, PlainFits DEF Plain
<1>6. CASE Proceed(d)
  BY <1>1, <1>2, <1>4, <1>6, PlainKeeps DEF Plain
<1>7. CASE MemberRequest(Engineer, d)
  BY <1>1, <1>4, <1>5, <1>7, MemberKeeps DEF Members
<1>8. QED
  BY <1>3, <1>6, <1>7 DEF EngineerDone

\* The Engineer's reports name HEAD, or it is asked for them.
LEMMA CandidateStepKeeps ==
  ASSUME Inv, NEW place \in {"candidate", "rework-candidate"}, NEW next \in DriverRecord,
         next.at \in {"report", "resume"}, next.waits = {}, ReviewersKnown(next),
         Candidate(place, next)
  PROVE  Inv'
<1>1. driver.at = place
  BY DEF Candidate, At
<1>2. ticket.status # "ready"
  BY <1>1, AtWork
<1>3. MemoryFits(next, next.at)
  BY <1>2, PlainFits DEF Plain
<1>4. CASE CandidateRequest(next)
  BY <1>1, <1>3, <1>4, CandidateKeeps
<1>5. CASE Recover(Engineer, place)
  BY <1>1, <1>2, <1>5, RecoverKeeps DEF Destinations, Members
<1>6. QED
  BY <1>4, <1>5 DEF Candidate

LEMMA ReportCandidateKeeps ==
  ASSUME Inv, ReportCandidate
  PROVE  Inv'
<1>1. driver.at = "report"
  BY DEF ReportCandidate, At
<1>2. driver \in DriverRecord /\ driver.waits = {} /\ ticket.status # "ready"
  BY <1>1, AtWork
<1> DEFINE b == NextBatch(driver, "review")
           d == [b EXCEPT !.known = {}, !.rejected = FALSE, !.remaining = Axes \ ReviewedAxes]
<1>3. b \in DriverRecord /\ b.at = "batch" /\ b.waits = {} /\ b.want = "review"
  BY <1>2, NextBatchFields DEF Wants
<1> HIDE DEF b
<1>4. /\ d \in DriverRecord /\ d.want = "review" /\ d.known = {}
      /\ d.remaining = Axes \ ReviewedAxes
  BY <1>3 DEF DriverRecord
<1>5. Reported \subseteq ReviewedAxes
  BY <1>2, AtWork, <1>1 DEF Reported, ReviewedAxes, Here, Ticket
<1>6. MemoryFits(d, "batch")
  <2>1. ReviewersKnown(d)
    BY <1>4, <1>5 DEF ReviewersKnown
  <2>2. QED
    BY <1>2, <1>4, <2>1, BatchFits DEF Wants, EngineerWants
<1>7. RunWith(d, {Leader}, "batch", FALSE) /\ Straight
  BY DEF ReportCandidate, Run, b
<1> HIDE DEF d
<1>8. QED
  BY <1>1, <1>2, <1>4, <1>6, <1>7, RunKeeps DEF Destinations, Members

----------------------------------------------------------------------------
(* The Batches *)

\* The Leader is asked once more, for a Batch of the same kind.
LEMMA RecoverDispatchKeeps ==
  ASSUME Inv, driver.at \in {"batch", "taken"}, RecoverDispatch
  PROVE  Inv'
<1>1. /\ NobodyRuns /\ driver \in DriverRecord /\ ReviewersKnown(driver)
      /\ MemoryFits(driver, driver.at)
  BY AtWork, RemainingKnown
<1>2. CASE Raise
  BY <1>1, <1>2, RaiseKeeps
<1>3. CASE Run([driver EXCEPT !.recovered = TRUE, !.todo = {}], {Leader}, "batch")
  <2>1. PICK d : d = [driver EXCEPT !.recovered = TRUE, !.todo = {}]
    OBVIOUS
  <2>2. /\ d \in DriverRecord /\ d.want = driver.want /\ d.want \in Wants
        /\ d.remaining = driver.remaining /\ d.known = driver.known
    BY <1>1, <2>1 DEF DriverRecord
  <2>3. ReviewersKnown(d)
    BY <1>1, <2>2 DEF ReviewersKnown
  <2>4. /\ ticket.status = "ready" => d.want = "start"
        /\ d.want \in EngineerWants => Here.engineer = Absent
        /\ d.want = "rework" => ticket.status = "implementing"
    BY <1>1, <2>2 DEF MemoryFits, EngineerFits
  <2>5. MemoryFits(d, "batch")
    BY <2>2, <2>3, <2>4, BatchFits
  <2>6. RunWith(d, {Leader}, "batch", FALSE) /\ Straight
    BY <1>3, <2>1 DEF Run
  <2>7. QED
    BY <2>2, <2>5, <2>6, RunKeeps, MembersAssumption DEF Destinations, Members, MembersAssumption
<1>4. QED
  BY <1>2, <1>3 DEF RecoverDispatch

LEMMA NoRegistrationKeeps ==
  ASSUME Inv, NoRegistration
  PROVE  Inv'
<1>1. driver.at = "batch"
  BY DEF NoRegistration, At
<1>2. /\ driver \in DriverRecord /\ driver.waits = {} /\ ReviewersKnown(driver)
      /\ ticket.status \notin {"reworking", "awaiting-integration"}
      /\ ticket.status = "ready" => driver.want = "start"
  BY <1>1, AtWork, RemainingKnown DEF MemoryFits, EngineerFits
<1>3. ASSUME NEW place \in {"validate", "finish"}, Proceed(Go(driver, place)),
             driver.want \in {"review", "resumed-review", "resumed-final"}
      PROVE  Inv'
  <2>1. PICK d : d = Go(driver, place)
    OBVIOUS
  <2>2. d \in DriverRecord /\ d.at = place /\ d.waits = {} /\ ReviewersKnown(d)
    BY <1>2, <2>1, GoFields DEF Places, Destinations, SameMemory, ReviewersKnown
  <2>3. QED
    BY <1>1, <1>2, <1>3, <2>1, <2>2, PlainKeeps DEF Plain
<1>4. CASE RecoverDispatch
  BY <1>1, <1>4, RecoverDispatchKeeps
<1>5. QED
  BY <1>3, <1>4 DEF NoRegistration

LEMMA TakeBatchKeeps ==
  ASSUME Inv, TakeBatch
  PROVE  Inv'
<1>1. driver.at = "batch"
  BY DEF TakeBatch, At
<1>2. /\ NobodyRuns /\ driver \in DriverRecord /\ driver.waits = {} /\ ReviewersKnown(driver)
      /\ MemoryFits(driver, "batch")
      /\ ticket.status \notin {"reworking", "awaiting-integration"}
  BY <1>1, AtWork, RemainingKnown
<1>3. /\ registration \in Formal /\ registration' = NoBatch
      /\ UNCHANGED <<ticket, rounds, delivered, head, sessions, stopped, detours>>
  BY DEF TakeBatch, Straight, Inv, FilesFit, FilesTyped
<1>4. FilesFit'
  BY <1>3 DEF Inv, FilesFit, FilesTyped, SessionsTyped, EngineerKnown, RejectionsStand, Rejected,
              Agreed, RoomForRework, NothingYet, NoForesight, Here, AcceptedEvidence, Reported,
              NobodyRuns, Runs
<1>5. PICK d : d = [driver EXCEPT !.at = "taken", !.todo = registration]
  OBVIOUS
<1>6. /\ d \in DriverRecord /\ d.at = "taken" /\ d.waits = {} /\ d.todo = registration
      /\ d.want = driver.want /\ d.remaining = driver.remaining /\ d.known = driver.known
  BY <1>2, <1>3, <1>5 DEF DriverRecord, Places, Formal, Members
<1>7. MemoryFits(d, "taken")
  BY <1>2, <1>3, <1>6 DEF MemoryFits, TodoFits, EngineerFits, ReviewersFit, CorrectionFits,
                          ReviewersKnown
<1>8. DriverFits(d)
  BY <1>2, <1>6, <1>7, ThereFits DEF StatusFits
<1>9. DriverFits(d)'
  BY <1>3, <1>8, FilesAlone
<1>10. driver' = d
  BY <1>5 DEF TakeBatch
<1>11. DriverFits(driver)'
  BY <1>9, <1>10
<1>12. Quiet'
  BY <1>2, <1>3 DEF Quiet, NobodyRuns, Runs
<1>13. QED
  BY <1>4, <1>11, <1>12 DEF Inv

LEMMA TakenTooLateKeeps ==
  ASSUME Inv, TakenTooLate
  PROVE  Inv'
BY RecoverDispatchKeeps DEF TakenTooLate, At

LEMMA TakenEngineerKeeps ==
  ASSUME Inv, TakenEngineer
  PROVE  Inv'
<1>1. driver.at = "taken"
  BY DEF TakenEngineer, At
<1>2. /\ NobodyRuns /\ driver \in DriverRecord /\ driver.waits = {} /\ ReviewersKnown(driver)
      /\ MemoryFits(driver, "taken")
      /\ ticket.status \notin {"reworking", "awaiting-integration"}
  BY <1>1, AtWork, RemainingKnown
<1>3. PICK d : d = [driver EXCEPT !.todo = {}]
  OBVIOUS
<1>4. /\ d \in DriverRecord /\ d.at = "taken" /\ d.waits = {} /\ d.want = driver.want
      /\ ReviewersKnown(d)
  BY <1>1, <1>2, <1>3 DEF DriverRecord, ReviewersKnown
<1>5. /\ ticket.status = "ready" => driver.want = "start"
      /\ driver.want \in EngineerWants => Here.engineer = Absent
  BY <1>2 DEF MemoryFits, EngineerFits
<1>6. CASE Raise
  BY <1>2, <1>6, RaiseKeeps
<1>7. CASE driver.want = "start" /\ Proceed(Go(d, "start"))
  <2>1. PICK g : g = Go(d, "start")
    OBVIOUS
  <2>2. /\ g \in DriverRecord /\ g.at = "start" /\ g.waits = {} /\ ReviewersKnown(g)
        /\ g.want = "start"
    BY <1>4, <1>7, <2>1, GoFields DEF Places, SameMemory, ReviewersKnown
  <2>3. MemoryFits(g, "start")
    BY <1>5, <1>7, <2>2 DEF MemoryFits, TodoFits, EngineerFits, ReviewersFit, CorrectionFits,
                            ReviewersKnown, EngineerWants
  <2>4. DriverFits(g)
    BY <1>2, <2>2, <2>3, ThereFits DEF StatusFits
  <2>5. QED
    BY <1>2, <1>7, <2>1, <2>4, ProceedKeeps
<1>8. ASSUME NEW place \in {"engineer-done", "rework-candidate", "resumed-candidate"},
             driver.want # "start", Run(d, {Engineer}, place)
      PROVE  Inv'
  <2>1. MemoryFits(d, place)
    BY <1>4, <1>5, <1>8, PlainFits DEF Plain
  <2>2. RunWith(d, {Engineer}, place, FALSE) /\ Straight
    BY <1>8 DEF Run
  <2>3. QED
    BY <1>1, <1>4, <1>5, <1>8, <2>1, <2>2, RunKeeps DEF Destinations, Members
<1>9. QED
  <2>1. \/ Raise
        \/ driver.want = "start" /\ Proceed(Go(d, "start"))
        \/ driver.want = "rework" /\ Run(d, {Engineer}, "engineer-done")
        \/ driver.want = "resumed-rework" /\ Run(d, {Engineer}, "rework-candidate")
        \/ driver.want = "resumed-engineer" /\ Run(d, {Engineer}, "resumed-candidate")
    BY <1>3 DEF TakenEngineer
  <2>2. QED
    BY <1>6, <1>7, <1>8, <2>1

LEMMA TakenReviewersKeeps ==
  ASSUME Inv, TakenReviewers
  PROVE  Inv'
<1>1. driver.at = "taken" /\ driver.want \in {"review", "resumed-review"}
  BY DEF TakenReviewers, At
<1>2. /\ NobodyRuns /\ driver \in DriverRecord /\ driver.waits = {} /\ ReviewersKnown(driver)
      /\ MemoryFits(driver, "taken") /\ ticket.status # "ready"
  <2>1. /\ NobodyRuns /\ driver \in DriverRecord /\ driver.waits = {} /\ ReviewersKnown(driver)
        /\ MemoryFits(driver, "taken")
    BY <1>1, AtWork, RemainingKnown
  <2>2. QED
    BY <1>1, <2>1 DEF MemoryFits, EngineerFits
<1>3. PICK d : d = [driver EXCEPT !.todo = {}]
  OBVIOUS
<1>4. /\ d \in DriverRecord /\ d.at = "taken" /\ d.waits = {} /\ d.want = driver.want
      /\ ReviewersKnown(d)
  BY <1>1, <1>2, <1>3 DEF DriverRecord, ReviewersKnown
<1>5. CASE driver.todo \subseteq Left /\ Run(driver, driver.todo, "collect")
  <2>1. /\ driver.todo # {} /\ driver.todo \subseteq driver.remaining
        /\ driver.todo \cap Reported = {} /\ driver.todo \subseteq Axes
    <3>1. driver.todo \in Formal /\ driver.remaining \subseteq Axes
      BY <1>2 DEF MemoryFits, TodoFits, DriverRecord
    <3>2. driver.todo # {}
      BY <3>1, FormalNonempty
    <3>3. driver.todo \subseteq driver.remaining \ (driver.known \cap Reported)
      BY <1>5 DEF Left
    <3>4. QED
      BY <1>2, <3>1, <3>2, <3>3 DEF ReviewersKnown
  <2>2. MemoryFits(driver, "collect")
    BY <1>1, <1>2, <2>1
       DEF EngineerWants, MemoryFits, TodoFits, EngineerFits, ReviewersFit, CorrectionFits,
                      ReviewersKnown
  <2>3. RunWith(driver, driver.todo, "collect", FALSE) /\ Straight
    BY <1>5 DEF Run
  <2>4. QED
    BY <1>1, <1>2, <2>1, <2>2, <2>3, RunKeeps DEF Destinations, Members
<1>6. CASE Detour /\ driver' = IdleDriver /\ UNCHANGED <<files, sessions, stopped>>
  BY <1>2, <1>6, GiveUpKeeps
<1>7. CASE Detour /\ RunWith(d, {Leader}, "refused", FALSE)
  <2>1. MemoryFits(d, "refused")
    BY <1>2, <1>4, PlainFits DEF Plain
  <2>2. QED
    BY <1>1, <1>4, <1>7, <2>1, RunKeeps DEF Destinations, Members
<1>8. CASE Raise
  BY <1>2, <1>8, RaiseKeeps
<1>9. CASE Run([NextBatch(d, "review") EXCEPT !.rejected = TRUE], {Leader}, "batch")
  <2>1. PICK b : b = NextBatch(d, "review")
    OBVIOUS
  <2>2. PICK e : e = [b EXCEPT !.rejected = TRUE]
    OBVIOUS
  <2>3. /\ b \in DriverRecord /\ b.want = "review" /\ b.known = d.known
        /\ b.remaining = d.remaining
    BY <1>4, <2>1, NextBatchFields DEF Wants
  <2>4. /\ e \in DriverRecord /\ e.want = "review" /\ e.known = d.known
        /\ e.remaining = d.remaining
    BY <2>2, <2>3 DEF DriverRecord
  <2>5. MemoryFits(e, "batch")
    BY <1>2, <1>4, <2>4, BatchFits DEF ReviewersKnown, Wants, EngineerWants
  <2>6. RunWith(e, {Leader}, "batch", FALSE) /\ Straight
    BY <1>9, <2>1, <2>2 DEF Run
  <2>7. QED
    BY <1>1, <2>4, <2>5, <2>6, RunKeeps DEF Destinations, Members
<1>10. QED
  BY <1>3, <1>5, <1>6, <1>7, <1>8, <1>9 DEF TakenReviewers

LEMMA RefusedKeeps ==
  ASSUME Inv, Refused
  PROVE  Inv'
<1>1. driver.at = "refused"
  BY DEF Refused, At
<1>2. /\ NobodyRuns /\ driver \in DriverRecord /\ driver.waits = {} /\ ReviewersKnown(driver)
      /\ ticket.status \notin {"ready", "reworking", "awaiting-integration"}
  BY <1>1, AtWork, RemainingKnown
<1>3. CASE Raise
  BY <1>2, <1>3, RaiseKeeps
<1>4. CASE Proceed(NextBatch(driver, "review"))
  <2>1. PICK b : b = NextBatch(driver, "review")
    OBVIOUS
  <2>2. /\ b \in DriverRecord /\ b.at = "batch" /\ b.waits = {} /\ b.want = "review"
        /\ ReviewersKnown(b)
    BY <1>2, <2>1, NextBatchFields DEF Wants, ReviewersKnown
  <2>3. MemoryFits(b, "batch")
    BY <1>2, <2>2, BatchFits DEF Wants, EngineerWants
  <2>4. DriverFits(b)
    BY <1>2, <2>2, <2>3, ThereFits DEF StatusFits
  <2>5. QED
    BY <1>2, <1>4, <2>1, <2>4, ProceedKeeps
<1>5. QED
  BY <1>3, <1>4 DEF Refused

----------------------------------------------------------------------------
(* The reports and the decision *)

LEMMA TurnIsOf == Turn = TurnOf(driver)
BY DEF Turn, TurnOf

LEMMA TurnMember ==
  ASSUME driver.todo # {}
  PROVE  Turn \in driver.todo
BY DEF Turn

\* A report is collected: the Engineer's and the Leader's stay.
CollectEffect(a) ==
  /\ Here'.engineer = Here.engineer /\ Here'.leader = Here.leader
  /\ Reported' \subseteq Reported \cup {a}

LEMMA CollectReportKeeps ==
  ASSUME Inv, driver.at \notin {"idle", "waiting", "batch", "taken", "start", "resume", "rework"},
         NEW a \in Axes, NEW d \in DriverRecord, d.at # "waiting", d.waits = {},
         CollectReport(a, d), CollectEffect(a) => MemoryFits(d, d.at)'
  PROVE  Inv'
<1>1. /\ NobodyRuns /\ ticket \in Ticket
      /\ ticket.status \in {"implementing", "reviewing"}
  <2>1. /\ NobodyRuns /\ ticket \in Ticket
        /\ ticket.status \notin {"ready", "reworking", "awaiting-integration"}
    BY AtWork
  <2>2. QED
    BY <2>1 DEF Ticket
<1>2. /\ rounds \in [1..MaxRound -> RoundRecord] /\ ticket.round \in 1..MaxRound
      /\ delivered \in [Axes -> Reports] /\ head \in Commits /\ NoForesight
  BY <1>1 DEF Inv, FilesFit, FilesTyped, Ticket
<1>3. PICK x : x = [Here EXCEPT !.review = [@ EXCEPT ![a] = delivered[a]]]
  OBVIOUS
<1>4. rounds' = [rounds EXCEPT ![ticket.round] = x]
  BY <1>2, <1>3 DEF CollectReport, Here
<1>5. Here \in RoundRecord
  BY <1>2 DEF Here
<1>6. /\ x \in RoundRecord /\ x.leader = Here.leader /\ x.engineer = Here.engineer
      /\ \A b \in Axes : x.review[b] = IF b = a THEN delivered[a] ELSE Here.review[b]
  BY <1>2, <1>3, <1>5 DEF RoundRecord
<1>7. RoundWrite(x)
  BY <1>2, <1>6 DEF RoundWrite, NoForesight
<1>8. /\ delivered' = [delivered EXCEPT ![a] = Absent] /\ driver' = d
      /\ UNCHANGED <<ticket, registration, head, sessions, stopped, detours>>
  BY DEF CollectReport, Straight
<1>9. delivered' \in [Axes -> Reports] /\ \A b \in Axes : UpTo(delivered'[b], head)
  BY <1>2, <1>8 DEF NoForesight, UpTo, Absent, Reports, Foreign, Commits
<1>10. Here' = x
  BY <1>2, <1>4, <1>8 DEF Here
<1>11. CollectEffect(a)
  BY <1>6, <1>10 DEF CollectEffect, Reported
<1>12. DriverFits(d)'
  <2>1. StatusFits(d)'
    BY <1>1, <1>8 DEF StatusFits
  <2>2. QED
    BY <1>11, <2>1, ThereFits
<1>13. DriverFits(driver)'
  BY <1>8, <1>12
<1>14. QED
  BY <1>1, <1>4, <1>7, <1>8, <1>9, <1>13, WriteKeeps

LEMMA CollectKeeps ==
  ASSUME Inv, Collect
  PROVE  Inv'
<1>1. driver.at = "collect"
  BY DEF Collect, At
<1>2. /\ NobodyRuns /\ driver \in DriverRecord /\ driver.waits = {} /\ ReviewersKnown(driver)
      /\ MemoryFits(driver, "collect") /\ ticket.status # "ready"
  BY <1>1, AtWork, RemainingKnown
<1>3. /\ driver.todo \subseteq Axes /\ driver.todo # {} /\ driver.todo \cap Reported = {}
      /\ driver.want \notin EngineerWants
  BY <1>2 DEF MemoryFits, TodoFits, ReviewersFit
<1>4. PICK a \in Axes : a = Turn /\ a \in driver.todo /\ a = TurnOf(driver)
  BY <1>3, TurnMember, TurnIsOf
<1>5. CASE Raise
  BY <1>2, <1>5, RaiseKeeps
<1>6. CASE Recover(Turn, "collect")
  BY <1>1, <1>2, <1>4, <1>6, RecoverKeeps DEF Destinations, Members
<1>7. CASE CollectReport(Turn, [Go(driver, "collected") EXCEPT !.known = @ \cup {Turn}])
  <2>1. PICK g : g = Go(driver, "collected")
    OBVIOUS
  <2>2. PICK d : d = [g EXCEPT !.known = @ \cup {a}]
    OBVIOUS
  <2>3. g \in DriverRecord /\ g.at = "collected" /\ g.waits = {} /\ SameMemory(g, driver)
    BY <1>2, <2>1, GoFields DEF Places
  <2>4. /\ d \in DriverRecord /\ d.at = "collected" /\ d.waits = {} /\ d.todo = driver.todo
        /\ d.known = driver.known \cup {a} /\ d.remaining = driver.remaining
        /\ d.want = driver.want
    BY <2>2, <2>3 DEF DriverRecord, SameMemory
  <2>5. CollectReport(a, d)
    BY <1>4, <1>7, <2>1, <2>2
  <2>6. TurnOf(d) = a
    BY <1>4, <2>4 DEF TurnOf
  <2>7. ASSUME CollectEffect(a)
        PROVE  MemoryFits(d, "collected")'
    <3>1. TodoFits(d, "collected") /\ CorrectionFits(d, "collected")'
      BY <1>3, <2>4 DEF TodoFits, CorrectionFits
    <3>2. EngineerFits(d, "collected")'
      <4>1. ticket' = ticket
        BY <2>5 DEF CollectReport
      <4>2. QED
        BY <1>2, <4>1 DEF EngineerFits
    <3>3. ReviewersFit(d, "collected")'
      <4>1. Reported' \subseteq Reported \cup {a}
        BY <2>7 DEF CollectEffect
      <4>2. QED
        BY <1>2, <1>3, <2>4, <2>6, <4>1 DEF ReviewersFit, ReviewersKnown
    <3>4. QED
      BY <3>1, <3>2, <3>3 DEF MemoryFits
  <2>8. CollectEffect(a) => MemoryFits(d, d.at)'
    BY <2>4, <2>7
  <2>9. QED
    BY <1>1, <2>4, <2>5, <2>8, CollectReportKeeps
<1>8. QED
  BY <1>5, <1>6, <1>7 DEF Collect

LEMMA CollectedKeeps ==
  ASSUME Inv, Collected
  PROVE  Inv'
<1>1. driver.at = "collected"
  BY DEF Collected, At
<1>2. /\ NobodyRuns /\ driver \in DriverRecord /\ driver.waits = {} /\ ReviewersKnown(driver)
      /\ MemoryFits(driver, "collected")
      /\ ticket.status \notin {"ready", "reworking", "awaiting-integration"}
  BY <1>1, AtWork, RemainingKnown
<1>3. /\ driver.todo \subseteq Axes /\ driver.todo # {}
      /\ driver.want \notin EngineerWants
  BY <1>2 DEF MemoryFits, TodoFits, ReviewersFit
<1>4. PICK a \in Axes : a = Turn /\ a \in driver.todo /\ a = TurnOf(driver)
  BY <1>3, TurnMember, TurnIsOf
<1>5. (driver.todo \ {a}) \cap Reported = {}
  BY <1>2, <1>4 DEF MemoryFits, ReviewersFit
<1>6. PICK d : d = [driver EXCEPT !.todo = @ \ {a}, !.remaining = @ \ {a}, !.results = TRUE,
                                  !.at = IF driver.todo = {a} THEN "reviewed" ELSE "collect"]
  OBVIOUS
<1>7. /\ d \in DriverRecord /\ d.waits = {} /\ d.todo = driver.todo \ {a}
      /\ d.known = driver.known /\ d.remaining = driver.remaining \ {a} /\ d.want = driver.want
      /\ d.at = IF driver.todo = {a} THEN "reviewed" ELSE "collect"
  BY <1>2, <1>6 DEF DriverRecord, Places, Destinations
<1>8. MemoryFits(d, d.at)
  <2>1. d.at = "collect" => d.todo \subseteq Axes /\ d.todo # {} /\ d.todo \cap Reported = {}
    BY <1>3, <1>4, <1>5, <1>7
  <2>2. ReviewersKnown(d)
    BY <1>2, <1>7 DEF ReviewersKnown
  <2>3. d.at \in {"reviewed", "collect"}
    BY <1>7
  <2>4. QED
    BY <1>2, <1>3, <1>7, <2>1, <2>2, <2>3
       DEF MemoryFits, TodoFits, EngineerFits, ReviewersFit, CorrectionFits, ReviewersKnown
<1>9. d.at # "waiting"
  BY <1>7
<1>10. CASE MemberRequest(Turn, d)
  BY <1>1, <1>4, <1>7, <1>8, <1>9, <1>10, MemberKeeps DEF Members
<1>11. CASE Proceed(d)
  <2>1. DriverFits(d)
    BY <1>2, <1>7, <1>8, <1>9, ThereFits DEF StatusFits
  <2>2. QED
    BY <1>2, <1>11, <2>1, ProceedKeeps
<1>12. QED
  BY <1>4, <1>6, <1>10, <1>11 DEF Collected

LEMMA ReviewedKeeps ==
  ASSUME Inv, Reviewed
  PROVE  Inv'
<1>1. driver.at = "reviewed"
  BY DEF Reviewed, At
<1>2. /\ NobodyRuns /\ driver \in DriverRecord /\ driver.waits = {} /\ ReviewersKnown(driver)
      /\ MemoryFits(driver, "reviewed") /\ ticket.status # "ready"
  BY <1>1, AtWork, RemainingKnown
<1>3. driver.want \in Wants \ EngineerWants
  BY <1>2 DEF MemoryFits, ReviewersFit, DriverRecord
<1>4. ASSUME NEW place \in {"idle", "finish"}, NEW frugal \in BOOLEAN,
             RunWith(driver, {Leader}, place, frugal) /\ Straight
      PROVE  Inv'
  <2>1. MemoryFits(driver, place)
    BY <1>2, PlainFits DEF Plain
  <2>2. QED
    BY <1>1, <1>2, <1>4, <2>1, RunKeeps DEF Destinations, Members
<1>5. CASE Run(NextBatch(driver, driver.want), {Leader}, "batch")
  <2>1. PICK b : b = NextBatch(driver, driver.want)
    OBVIOUS
  <2>2. b \in DriverRecord /\ b.want = driver.want /\ ReviewersKnown(b)
    BY <1>2, <1>3, <2>1, NextBatchFields DEF ReviewersKnown
  <2>3. MemoryFits(b, "batch")
    BY <1>2, <1>3, <2>2, BatchFits DEF EngineerWants
  <2>4. RunWith(b, {Leader}, "batch", FALSE) /\ Straight
    BY <1>5, <2>1 DEF Run
  <2>5. QED
    BY <1>1, <2>2, <2>3, <2>4, RunKeeps DEF Destinations, Members
<1>6. QED
  BY <1>4, <1>5 DEF Reviewed, Run

\* A complete Round agrees on the commit at HEAD.
LEMMA CompleteAgrees ==
  ASSUME Inv, RoundComplete
  PROVE  /\ Agreed(ticket.round, head)
         /\ Here.engineer = head /\ head # Absent
<1>1. head \in Commits /\ head # Absent
  BY DEF Inv, FilesFit, FilesTyped, Commits, Absent
<1>2. /\ Here.engineer = head /\ Here.leader.commit = head
      /\ \A a \in Reported : Here.review[a] = head
  <2>1. \A commit \in {Here.leader.commit} \cup {Here.review[a] : a \in Reported} : commit = head
    BY DEF RoundComplete
  <2>2. QED
    BY <2>1 DEF RoundComplete, HasCandidate
<1>3. \A a \in Axes : Here.review[a] \in {Absent, head}
  BY <1>2 DEF Reported
<1>4. QED
  BY <1>1, <1>2, <1>3 DEF Agreed, Here

\* The Leader's decision closes the Round, or is a report to Main.
LEMMA DecisionKeeps ==
  ASSUME Inv, NobodyRuns, ticket.status = "reviewing", RoundComplete, Sampled,
         Here.leader.decision = "rework" => Reported = Axes,
         ticket.candidate = head, {Engineer} \cup Reported \subseteq ticket.seats,
         UNCHANGED <<rounds, delivered, registration, head, sessions>>,
         \/ /\ Here.leader.decision = "accepted" /\ driver' = IdleDriver
            /\ ticket' = Event([ticket EXCEPT !.status = "awaiting-integration"])
         \/ /\ Here.leader.decision = "rework"
            /\ driver' \in DriverRecord /\ driver'.waits = {} /\ driver'.at \in {"resume", "rework"}
            /\ ReviewersKnown(driver')
            /\ ticket' = [ticket EXCEPT !.status = "reworking", !.confirmed = TRUE]
  PROVE  Inv'
<1>1. /\ ticket \in Ticket /\ ticket.round \in 1..MaxRound
  BY DEF Inv, FilesFit, FilesTyped, Ticket
<1>2. /\ ticket' \in Ticket /\ ticket'.round = ticket.round /\ ticket'.seats = ticket.seats
      /\ ticket'.candidate = head
      /\ ticket'.status = IF Here.leader.decision = "accepted"
                          THEN "awaiting-integration" ELSE "reworking"
  BY <1>1 DEF Event, Ticket
<1>3. Here' = Here /\ Reported' = Reported
  BY <1>2 DEF Here, Reported
<1>4. Agreed(ticket.round, head) /\ Here.engineer = head /\ head # Absent
  BY CompleteAgrees
<1>5. FilesTyped'
  <2>1. detours' \in 0..MaxDetours
    BY DetourTyped DEF Sampled
  <2>2. QED
    BY <1>2, <2>1 DEF Inv, FilesFit, FilesTyped, Sampled
<1>6. SessionsTyped' /\ EngineerKnown' /\ RoomForRework' /\ NothingYet' /\ NoForesight'
  BY <1>2, <1>3 DEF Inv, FilesFit, SessionsTyped, EngineerKnown, RoomForRework, NothingYet,
                    NoForesight
<1>7. RejectionsStand'
  <2>1. ASSUME NEW r \in 1..MaxRound, r < ticket.round
        PROVE  Rejected(r)'
    BY <2>1 DEF Inv, FilesFit, RejectionsStand, Rejected, Agreed
  <2>2. ASSUME Here.leader.decision = "rework"
        PROVE  Rejected(ticket.round)
    BY <1>4, <2>2 DEF Rejected, Agreed, Here, Reported
  <2>3. ASSUME NEW r \in 1..MaxRound, r = ticket.round, ticket'.status = "reworking"
        PROVE  Rejected(r)'
    <3>1. Rejected(r)
      BY <1>2, <2>2, <2>3
    <3>2. QED
      BY <3>1 DEF Rejected, Agreed
  <2>4. QED
    BY <1>2, <2>1, <2>3 DEF RejectionsStand
<1>8. AcceptedEvidence'
  <2>1. /\ Here'.engineer = head /\ Here'.leader.commit = head
        /\ \A a \in Axes : Here'.review[a] \in {Absent, head}
    BY <1>3, <1>4 DEF Agreed, Here
  <2>2. Agreed(ticket.round, ticket.candidate)'
    BY <1>2, <2>1 DEF Agreed, Here
  <2>3. QED
    BY <1>2, <1>3, <2>2 DEF AcceptedEvidence
<1>9. DriverFits(driver)'
  <2>1. CASE driver' = IdleDriver
    BY <2>1, IdleFits
  <2>2. CASE /\ driver' \in DriverRecord /\ driver'.waits = {}
             /\ driver'.at \in {"resume", "rework"}
             /\ ReviewersKnown(driver') /\ Here.leader.decision = "rework"
    <3>1. PICK e : e = driver'
      OBVIOUS
    <3>2. ReviewersKnown(e)'
      BY <1>3, <2>2, <3>1 DEF ReviewersKnown
    <3>3. MemoryFits(e, e.at)'
      BY <1>2, <2>2, <3>1, <3>2, PlainFits DEF Plain
    <3>4. DriverFits(e)'
      BY <1>2, <2>2, <3>1, <3>3, ThereFits DEF StatusFits
    <3>5. QED
      BY <3>1, <3>4
  <2>3. QED
    BY <2>1, <2>2
<1>10. Quiet' /\ NobodyRuns'
  BY DEF Quiet, NobodyRuns, Runs
<1>11. QED
  BY <1>5, <1>6, <1>7, <1>8, <1>9, <1>10 DEF Inv, FilesFit

LEMMA FinalKeeps ==
  ASSUME Inv, Final
  PROVE  Inv'
<1>1. driver.at = "validate"
  BY DEF Final, At
<1>2. /\ NobodyRuns /\ driver \in DriverRecord /\ driver.waits = {} /\ ReviewersKnown(driver)
      /\ ticket \in Ticket /\ ticket.status # "ready"
  BY <1>1, AtWork, RemainingKnown
<1>3. CASE Recover(Leader, "validate")
  BY <1>1, <1>2, <1>3, RecoverKeeps DEF Destinations, Members
<1>4. CASE RoundComplete
  <2> DEFINE written == CASE Here.leader.decision = "accepted" ->
                               Event([ticket EXCEPT !.status = "awaiting-integration"])
                          [] Here.leader.decision = "rework" ->
                               [ticket EXCEPT !.status = "reworking", !.confirmed = TRUE]
                          [] OTHER -> Event(ticket)
             d == IF Here.leader.decision # "rework" THEN IdleDriver
                  ELSE IF driver.resumed
                  THEN [IdleDriver EXCEPT !.at = "resume", !.resumed = TRUE]
                  ELSE [Go(driver, "rework") EXCEPT !.first = FALSE]
  <2>1. Request(Decidable, written, d)
    BY <1>4 DEF Final
  <2>2. CASE /\ Decidable /\ Sampled /\ ticket' = written /\ driver' = d
             /\ UNCHANGED <<rounds, delivered, registration, head, sessions>>
    <3>1. /\ ticket.status = "reviewing" /\ ticket.candidate = head
          /\ {Engineer} \cup Reported \subseteq ticket.seats
          /\ Here.leader.decision = "rework" => Reported = Axes
      BY <2>2 DEF Decidable
    <3>2. CASE Here.leader.decision = "accepted"
      BY <1>2, <1>4, <2>2, <3>1, <3>2, DecisionKeeps
    <3>3. CASE Here.leader.decision = "rework"
      <4>1. PICK e : e = d
        OBVIOUS
      <4>2. e \in DriverRecord /\ e.waits = {} /\ e.at \in {"resume", "rework"} /\ ReviewersKnown(e)
        <5>1. CASE driver.resumed
          <6>1. e = [IdleDriver EXCEPT !.at = "resume", !.resumed = TRUE]
            BY <3>3, <4>1, <5>1
          <6>2. IdleDriver \in DriverRecord /\ IdleDriver.waits = {} /\ IdleDriver.remaining = {}
            BY IdleFits DEF IdleDriver
          <6>3. QED
            BY <6>1, <6>2 DEF DriverRecord, Places, ReviewersKnown
        <5>2. CASE ~driver.resumed
          <6>1. PICK g : g = Go(driver, "rework")
            OBVIOUS
          <6>2. /\ g \in DriverRecord /\ g.at = "rework" /\ g.waits = {}
                /\ SameMemory(g, driver)
            BY <1>2, <6>1, GoFields DEF Places
          <6>3. e = [g EXCEPT !.first = FALSE]
            BY <3>3, <4>1, <5>2, <6>1
          <6>4. QED
            BY <1>2, <6>2, <6>3 DEF DriverRecord, SameMemory, ReviewersKnown
        <5>3. QED
          BY <5>1, <5>2
      <4>3. /\ driver' \in DriverRecord /\ driver'.waits = {} /\ driver'.at \in {"resume", "rework"}
            /\ ReviewersKnown(driver')
        <5>1. driver' = e
          BY <2>2, <4>1
        <5>2. QED
          BY <4>2, <5>1
      <4>4. ticket' = [ticket EXCEPT !.status = "reworking", !.confirmed = TRUE]
        BY <2>2, <3>3
      <4>5. QED
        BY <1>2, <1>4, <2>2, <3>1, <3>3, <4>3, <4>4, DecisionKeeps
    <3>4. CASE Here.leader.decision \notin {"accepted", "rework"}
      <4>1. ticket' = Event(ticket) /\ driver' = IdleDriver
        BY <2>2, <3>4
      <4>2. ticket' \in Ticket /\ ticket'.round = ticket.round /\ ticket'.status = "reviewing"
        BY <1>2, <3>1, <4>1 DEF Event, Ticket
      <4>3. DriverFits(driver)'
        BY <4>1, IdleFits
      <4>4. QED
        BY <1>2, <2>2, <4>2, <4>3, GrantKeeps
    <3>5. QED
      BY <3>2, <3>3, <3>4
  <2> HIDE DEF written, d
  <2>3. QED
    BY <1>2, <2>1, <2>2, RequestCases
<1>5. QED
  BY <1>3, <1>4 DEF Final

\* The next Round is a new one.
LEMMA ReworkKeeps ==
  ASSUME Inv, Rework
  PROVE  Inv'
<1>1. driver.at = "rework"
  BY DEF Rework, At
<1>2. /\ NobodyRuns /\ driver \in DriverRecord /\ driver.waits = {} /\ ReviewersKnown(driver)
      /\ ticket \in Ticket
  BY <1>1, AtWork, RemainingKnown
<1> DEFINE written == Event([ticket EXCEPT !.status = "implementing", !.candidate = Absent,
                                           !.round = @ + 1])
           allowed == ticket.status = "reworking" /\ ticket.confirmed
           d == Go(driver, "dispatch")
<1>3. Request(allowed, written, d)
  BY DEF Rework, ReworkRequest
<1>4. CASE /\ allowed /\ Sampled /\ ticket' = written /\ driver' = d
           /\ UNCHANGED <<rounds, delivered, registration, head, sessions>>
  <2>1. ticket.round \in 1..MaxRound /\ Rejected(ticket.round)
    BY <1>2, <1>4 DEF Inv, FilesFit, RejectionsStand, Ticket
  <2>2. ticket.round < MaxRound
    BY <2>1 DEF Inv, FilesFit, RoomForRework, Rejected
  <2>3. /\ ticket' \in Ticket /\ ticket'.round = ticket.round + 1
        /\ ticket'.status = "implementing"
    <3>1. ticket.round + 1 \in 1..MaxRound
      BY <2>1, <2>2, BoundsAssumption DEF BoundsAssumption
    <3>2. QED
      BY <1>2, <1>4, <3>1 DEF Event, Ticket
  <2>4. Here' = EmptyRound
    BY <1>4, <2>1, <2>2, <2>3, BoundsAssumption
       DEF Inv, FilesFit, NothingYet, Here, BoundsAssumption
  <2>5. Here'.engineer = Absent /\ Reported' = {}
    BY <2>4 DEF EmptyRound, Reported
  <2>6. FilesTyped'
    <3>1. detours' \in 0..MaxDetours
      BY <1>4, DetourTyped DEF Sampled
    <3>2. QED
      BY <1>4, <2>3, <3>1 DEF Inv, FilesFit, FilesTyped, Sampled
  <2>7. SessionsTyped' /\ EngineerKnown' /\ RoomForRework' /\ AcceptedEvidence'
    BY <1>4, <2>3 DEF Inv, FilesFit, SessionsTyped, EngineerKnown, RoomForRework,
                      AcceptedEvidence
  <2>8. NothingYet'
    BY <1>4, <2>1, <2>3 DEF Inv, FilesFit, NothingYet
  <2>9. NoForesight'
    <3>1. \A a \in Axes : Here'.review[a] = Absent
      BY <2>4 DEF EmptyRound
    <3>2. head \in Commits
      BY DEF Inv, FilesFit, FilesTyped
    <3>3. QED
      BY <1>4, <3>1, <3>2 DEF Inv, FilesFit, NoForesight, UpTo, Absent, Commits
  <2>10. RejectionsStand'
    <3>1. ASSUME NEW r \in 1..MaxRound, r <= ticket.round
          PROVE  Rejected(r)'
      <4>1. Rejected(r)
        BY <2>1, <3>1 DEF Inv, FilesFit, RejectionsStand
      <4>2. QED
        BY <1>4, <4>1 DEF Rejected, Agreed
    <3>2. QED
      BY <2>1, <2>3, <3>1 DEF RejectionsStand
  <2>11. PICK e : e = d
    OBVIOUS
  <2>12. /\ e \in DriverRecord /\ e.at = "dispatch" /\ e.waits = {}
    BY <1>2, <2>11, GoFields DEF Places
  <2>13. ReviewersKnown(e)'
    BY <2>5 DEF ReviewersKnown
  <2>14. DriverFits(e)'
    <3>1. MemoryFits(e, "dispatch")'
      BY <2>3, <2>5, <2>13, BeginningFits
    <3>2. QED
      BY <2>3, <2>12, <3>1, ThereFits DEF StatusFits
  <2>15. DriverFits(driver)'
    BY <1>4, <2>11, <2>14
  <2>16. Quiet'
    BY <1>2, <1>4 DEF Quiet, NobodyRuns, Runs
  <2>17. QED
    BY <2>3, <2>6, <2>7, <2>8, <2>9, <2>10, <2>15, <2>16 DEF Inv, FilesFit
<1> HIDE DEF written, allowed, d
<1>5. QED
  BY <1>2, <1>3, <1>4, RequestCases

LEMMA DispatchKeeps ==
  ASSUME Inv, Dispatch
  PROVE  Inv'
<1>1. driver.at = "dispatch"
  BY DEF Dispatch, At
<1>2. /\ NobodyRuns /\ driver \in DriverRecord /\ driver.waits = {} /\ ReviewersKnown(driver)
      /\ MemoryFits(driver, "dispatch") /\ ticket.status # "ready"
  BY <1>1, AtWork, RemainingKnown
<1>3. Here.engineer = Absent /\ ticket.status = "implementing"
  BY <1>2 DEF MemoryFits, EngineerFits
<1>4. PICK want \in {"resumed-rework", "rework"} :
        want = IF driver.resumed THEN "resumed-rework" ELSE "rework"
  OBVIOUS
<1>5. PICK b : b = NextBatch(driver, want)
  OBVIOUS
<1>6. b \in DriverRecord /\ b.want = want /\ ReviewersKnown(b)
  BY <1>2, <1>5, NextBatchFields DEF Wants, EngineerWants, ReviewersKnown
<1>7. MemoryFits(b, "batch")
  BY <1>3, <1>6, BatchFits DEF Wants, EngineerWants
<1>8. RunWith(b, {Leader}, "batch", FALSE) /\ Straight
  BY <1>4, <1>5 DEF Dispatch, Run
<1>9. QED
  BY <1>1, <1>6, <1>7, <1>8, RunKeeps DEF Destinations, Members

----------------------------------------------------------------------------
(* A resumed driver *)

LEMMA ResumeKeeps ==
  ASSUME Inv, Resume
  PROVE  Inv'
<1>1. driver.at = "resume"
  BY DEF Resume, At
<1>2. /\ NobodyRuns /\ driver \in DriverRecord /\ driver.waits = {} /\ ReviewersKnown(driver)
      /\ ticket \in Ticket
  BY <1>1, AtWork, RemainingKnown
<1>3. CASE Raise
  BY <1>2, <1>3, RaiseKeeps
<1>4. CASE /\ Unfinished /\ sessions[Engineer].count = 0
           /\ Proceed(NextBatch(driver, "resumed-engineer"))
  <2>1. ticket.round \in 1..MaxRound /\ Here.engineer = Absent
    BY <1>2, <1>4 DEF Inv, FilesFit, EngineerKnown, Here, Ticket
  <2>2. ticket.status \in {"implementing", "reviewing"}
    <3>1. ticket.status # "reworking"
      BY <2>1 DEF Inv, FilesFit, RejectionsStand, Rejected, Here
    <3>2. QED
      BY <1>4, <3>1 DEF Unfinished
  <2>3. PICK b : b = NextBatch(driver, "resumed-engineer")
    OBVIOUS
  <2>4. /\ b \in DriverRecord /\ b.at = "batch" /\ b.waits = {} /\ b.want = "resumed-engineer"
        /\ ReviewersKnown(b)
    BY <1>2, <2>3, NextBatchFields DEF Wants, EngineerWants, ReviewersKnown
  <2>5. MemoryFits(b, "batch")
    BY <2>1, <2>2, <2>4, BatchFits DEF Wants, EngineerWants
  <2>6. DriverFits(b)
    BY <2>2, <2>4, <2>5, ThereFits DEF StatusFits
  <2>7. QED
    BY <1>2, <1>4, <2>3, <2>6, ProceedKeeps
<1>5. CASE Unfinished /\ Proceed(Go(driver, IF ticket.status = "reworking" THEN "rework"
                                            ELSE "resumed-candidate"))
  <2>1. PICK place \in {"rework", "resumed-candidate"} :
          place = IF ticket.status = "reworking" THEN "rework" ELSE "resumed-candidate"
    OBVIOUS
  <2>2. PICK d : d = Go(driver, place)
    OBVIOUS
  <2>3. d \in DriverRecord /\ d.at = place /\ d.waits = {} /\ ReviewersKnown(d)
    BY <1>2, <2>2, GoFields DEF Places, Destinations, SameMemory, ReviewersKnown
  <2>4. QED
    BY <1>1, <1>5, <2>1, <2>2, <2>3, PlainKeeps DEF Plain, Unfinished
<1>6. sessions[Engineer].count \in Nat
  <2>1. sessions[Engineer] \in Session
    BY DEF Inv, FilesFit, SessionsTyped, Members
  <2>2. QED
    BY <2>1 DEF Session
<1>7. CASE ~Unfinished
  BY <1>3, <1>7 DEF Resume
<1>8. CASE Unfinished /\ sessions[Engineer].count = 0
  BY <1>4, <1>8 DEF Resume
<1>9. CASE Unfinished /\ sessions[Engineer].count > 0
  <2>1. Proceed(Go(driver, IF ticket.status = "reworking" THEN "rework"
                           ELSE "resumed-candidate"))
    <3>1. sessions[Engineer].count # 0
      BY <1>9
    <3>2. QED
      BY <1>9, <3>1 DEF Resume
  <2>2. QED
    BY <1>5, <1>9, <2>1
<1>10. QED
  BY <1>6, <1>7, <1>8, <1>9

LEMMA ResumedCandidateKeeps ==
  ASSUME Inv, ResumedCandidate
  PROVE  Inv'
<1>1. driver.at = "resumed-candidate"
  BY DEF ResumedCandidate, At
<1>2. /\ NobodyRuns /\ driver \in DriverRecord /\ driver.waits = {} /\ ReviewersKnown(driver)
      /\ MemoryFits(driver, "resumed-candidate")
      /\ ticket.status \notin {"ready", "reworking", "awaiting-integration"}
  BY <1>1, AtWork, RemainingKnown
<1>3. PICK g : g = Go(driver, "scan")
  OBVIOUS
<1>4. PICK d : d = [g EXCEPT !.todo = Axes]
  OBVIOUS
<1>5. g \in DriverRecord /\ g.at = "scan" /\ g.waits = {} /\ SameMemory(g, driver)
  BY <1>2, <1>3, GoFields DEF Places
<1>6. /\ d \in DriverRecord /\ d.at = "scan" /\ d.waits = {} /\ d.todo = Axes
      /\ ReviewersKnown(d)
  BY <1>2, <1>4, <1>5 DEF DriverRecord, SameMemory, ReviewersKnown, Members
<1>7. MemoryFits(d, "scan")
  BY <1>2, <1>6 DEF MemoryFits, TodoFits, EngineerFits, ReviewersFit, CorrectionFits,
                    ReviewersKnown
<1>8. CASE Raise
  BY <1>2, <1>8, RaiseKeeps
<1>9. CASE Recover(Engineer, "resumed-candidate")
  BY <1>1, <1>2, <1>9, RecoverKeeps DEF Destinations, Members
<1>10. CASE MemberRequest(Engineer, driver)
  BY <1>1, <1>2, <1>10, MemberKeeps DEF Members
<1>11. CASE Proceed(d)
  <2>1. DriverFits(d)
    BY <1>2, <1>6, <1>7, ThereFits DEF StatusFits
  <2>2. QED
    BY <1>2, <1>11, <2>1, ProceedKeeps
<1>12. CASE CandidateRequest(d)
  BY <1>1, <1>6, <1>7, <1>12, CandidateKeeps
<1>13. CASE ~HasCandidate
  BY <1>8, <1>9, <1>13 DEF ResumedCandidate
<1>14. CASE HasCandidate /\ Engineer \notin ticket.seats
  BY <1>10, <1>14 DEF ResumedCandidate
<1>15. CASE HasCandidate /\ Engineer \in ticket.seats
  <2>1. IF ticket.candidate = head THEN Proceed(d) ELSE CandidateRequest(d)
    BY <1>3, <1>4, <1>15 DEF ResumedCandidate
  <2>2. QED
    BY <1>11, <1>12, <2>1
<1>16. QED
  BY <1>13, <1>14, <1>15

\* Stale copies of an axis are removed, of the Round and of what was delivered.
LEMMA StaleKeeps ==
  ASSUME Inv, driver.at = "scan", NEW a \in Axes, NEW d \in DriverRecord, d.at = "scan",
         d.waits = {}, d.todo \subseteq Axes, ReviewersKnown(d), driver' = d,
         rounds' = IF Stale(Here.review[a])
                   THEN [rounds EXCEPT ![ticket.round].review[a] = Absent] ELSE rounds,
         delivered' = IF Stale(delivered[a])
                      THEN [delivered EXCEPT ![a] = Absent] ELSE delivered,
         UNCHANGED <<ticket, registration, head, sessions, stopped, detours>>
  PROVE  Inv'
<1>1. /\ NobodyRuns /\ ticket \in Ticket
      /\ ticket.status \in {"implementing", "reviewing"}
  <2>1. /\ NobodyRuns /\ ticket \in Ticket
        /\ ticket.status \notin {"ready", "reworking", "awaiting-integration"}
    BY AtWork
  <2>2. QED
    BY <2>1 DEF Ticket
<1>2. /\ rounds \in [1..MaxRound -> RoundRecord] /\ ticket.round \in 1..MaxRound
      /\ delivered \in [Axes -> Reports] /\ head \in Commits /\ NoForesight
  BY <1>1 DEF Inv, FilesFit, FilesTyped, Ticket
<1>3. PICK x : x = IF Stale(Here.review[a])
                   THEN [Here EXCEPT !.review = [@ EXCEPT ![a] = Absent]] ELSE Here
  OBVIOUS
<1>4. rounds' = [rounds EXCEPT ![ticket.round] = x]
  <2>1. CASE Stale(Here.review[a])
    BY <1>2, <1>3, <2>1 DEF Here
  <2>2. CASE ~Stale(Here.review[a])
    <3>1. rounds' = rounds /\ x = rounds[ticket.round]
      BY <1>3, <2>2 DEF Here
    <3>2. QED
      BY <1>2, <3>1
  <2>3. QED
    BY <2>1, <2>2
<1>5. Here \in RoundRecord /\ Absent \in Reports
  BY <1>2, BoundsAssumption DEF Here, Absent, Reports, Foreign, BoundsAssumption
<1>6. /\ x \in RoundRecord /\ x.leader = Here.leader /\ x.engineer = Here.engineer
      /\ \A b \in Axes : x.review[b] \in {Absent, Here.review[b]}
  BY <1>3, <1>5 DEF RoundRecord
<1>7. \A n \in {Absent} : UpTo(n, head)
  BY <1>2 DEF UpTo, Absent, Commits
<1>8. RoundWrite(x)
  BY <1>2, <1>6, <1>7 DEF RoundWrite, NoForesight
<1>9. delivered' \in [Axes -> Reports] /\ \A b \in Axes : UpTo(delivered'[b], head)
  BY <1>2, <1>5, <1>7 DEF NoForesight
<1>10. Here' = x
  BY <1>2, <1>4 DEF Here
<1>11. Reported' \subseteq Reported
  BY <1>6, <1>10 DEF Reported
<1>12. ReviewersKnown(d)'
  BY <1>11 DEF ReviewersKnown
<1>13. MemoryFits(d, "scan")'
  BY <1>1, <1>12 DEF MemoryFits, TodoFits, EngineerFits, ReviewersFit, CorrectionFits,
                     ReviewersKnown
<1>14. DriverFits(d)'
  BY <1>1, <1>13, ThereFits DEF StatusFits
<1>15. DriverFits(driver)'
  BY <1>14
<1>16. QED
  BY <1>1, <1>4, <1>8, <1>9, <1>15, WriteKeeps

\* Where one axis after the other is looked for, the rest is free.
LEMMA ScanFits ==
  ASSUME NEW d, d.todo \subseteq Axes, ReviewersKnown(d), ticket.status # "ready"
  PROVE  MemoryFits(d, "scan")
BY DEF MemoryFits, TodoFits, EngineerFits, ReviewersFit, CorrectionFits, ReviewersKnown

LEMMA ScanKeeps ==
  ASSUME Inv, Scan
  PROVE  Inv'
<1>1. driver.at = "scan" /\ driver.todo # {}
  BY DEF Scan, At
<1>2. /\ NobodyRuns /\ driver \in DriverRecord /\ driver.waits = {} /\ ReviewersKnown(driver)
      /\ MemoryFits(driver, "scan")
      /\ ticket.status \notin {"ready", "reworking", "awaiting-integration"}
  BY <1>1, AtWork, RemainingKnown
<1>3. driver.todo \subseteq Axes
  BY <1>2 DEF MemoryFits, TodoFits
<1>4. PICK a \in Axes : a = Turn /\ a \in driver.todo
  BY <1>1, <1>3, TurnMember
<1>5. PICK next : next = [driver EXCEPT !.todo = @ \ {a}]
  OBVIOUS
<1>6. PICK known : known = [driver EXCEPT !.known = @ \cup {a}]
  OBVIOUS
<1>7. PICK done : done = [next EXCEPT !.known = @ \cup {a}]
  OBVIOUS
<1>8. PICK more : more = [done EXCEPT !.remaining = @ \cup {a}]
  OBVIOUS
<1>9. PICK seen : seen = [done EXCEPT !.results = TRUE]
  OBVIOUS
<1>10. /\ next \in DriverRecord /\ next.at = "scan" /\ next.waits = {}
       /\ next.todo = driver.todo \ {a} /\ next.known = driver.known
       /\ next.remaining = driver.remaining
  BY <1>1, <1>2, <1>5 DEF DriverRecord
<1>11. /\ known \in DriverRecord /\ known.at = "scan" /\ known.waits = {}
       /\ known.todo = driver.todo /\ known.known = driver.known \cup {a}
       /\ known.remaining = driver.remaining
  BY <1>1, <1>2, <1>6 DEF DriverRecord
<1>12. /\ done \in DriverRecord /\ done.at = "scan" /\ done.waits = {}
       /\ done.todo = driver.todo \ {a} /\ done.known = driver.known \cup {a}
       /\ done.remaining = driver.remaining
  BY <1>10, <1>7 DEF DriverRecord
<1>13. /\ more \in DriverRecord /\ more.at = "scan" /\ more.waits = {}
       /\ more.todo = driver.todo \ {a} /\ more.known = driver.known \cup {a}
       /\ more.remaining = driver.remaining \cup {a}
  BY <1>12, <1>8 DEF DriverRecord
<1>14. /\ seen \in DriverRecord /\ seen.at = "scan" /\ seen.waits = {}
       /\ seen.todo = driver.todo \ {a} /\ seen.known = driver.known \cup {a}
       /\ seen.remaining = driver.remaining
  BY <1>12, <1>9 DEF DriverRecord
<1>15. \A d \in {next, known, done, more, seen} :
          /\ d \in DriverRecord /\ d.at = "scan" /\ d.waits = {} /\ d.todo \subseteq Axes
          /\ ReviewersKnown(d)
  BY <1>2, <1>3, <1>10, <1>11, <1>12, <1>13, <1>14 DEF ReviewersKnown
<1>16. ASSUME NEW d \in {next, known, done, more, seen}
       PROVE  MemoryFits(d, d.at) /\ DriverFits(d)
  BY <1>2, <1>15, ScanFits, ThereFits DEF StatusFits
<1>17. CASE Raise
  BY <1>2, <1>17, RaiseKeeps
<1>18. ASSUME NEW d \in {next, done, more, seen}, Proceed(d)
       PROVE  Inv'
  BY <1>2, <1>16, <1>18, ProceedKeeps
<1>19. CASE MemberRequest(a, known)
  BY <1>1, <1>15, <1>16, <1>19, MemberKeeps DEF Members
<1>20. CASE CollectReport(a, known)
  <2>1. ASSUME CollectEffect(a)
        PROVE  MemoryFits(known, "scan")'
    <3>1. Reported' \subseteq Reported \cup {a} /\ ticket' = ticket
      BY <1>20, <2>1 DEF CollectEffect, CollectReport
    <3>2. ReviewersKnown(known)'
      BY <1>2, <1>11, <3>1 DEF ReviewersKnown
    <3>3. QED
      BY <1>2, <1>3, <1>11, <3>1, <3>2
         DEF MemoryFits, TodoFits, EngineerFits, ReviewersFit, CorrectionFits, ReviewersKnown
  <2>2. QED
    BY <1>1, <1>11, <1>20, <2>1, CollectReportKeeps
<1>21. CASE /\ rounds' = IF Stale(Here.review[a])
                         THEN [rounds EXCEPT ![ticket.round].review[a] = Absent] ELSE rounds
            /\ delivered' = IF Stale(delivered[a])
                            THEN [delivered EXCEPT ![a] = Absent] ELSE delivered
            /\ driver' = known
            /\ UNCHANGED <<ticket, registration, head, sessions, stopped>>
            /\ Straight
  BY <1>1, <1>15, <1>21, StaleKeeps DEF Straight
<1>22. QED
  <2>1. \/ Raise \/ Proceed(next) \/ Proceed(done) \/ Proceed(more) \/ Proceed(seen)
        \/ MemberRequest(a, known) \/ CollectReport(a, known)
        \/ /\ rounds' = IF Stale(Here.review[a])
                         THEN [rounds EXCEPT ![ticket.round].review[a] = Absent] ELSE rounds
           /\ delivered' = IF Stale(delivered[a])
                            THEN [delivered EXCEPT ![a] = Absent] ELSE delivered
           /\ driver' = known
           /\ UNCHANGED <<ticket, registration, head, sessions, stopped>>
           /\ Straight
    <3> DEFINE removes ==
          /\ rounds' = IF Stale(Here.review[a])
                       THEN [rounds EXCEPT ![ticket.round].review[a] = Absent] ELSE rounds
          /\ delivered' = IF Stale(delivered[a])
                          THEN [delivered EXCEPT ![a] = Absent] ELSE delivered
          /\ driver' = known
          /\ UNCHANGED <<ticket, registration, head, sessions, stopped>>
          /\ Straight
    <3>1. /\ Stale(Here.review[a]) <=> Here.review[a] # Absent /\ Here.review[a] # head
          /\ Stale(delivered[a]) <=> delivered[a] # Absent /\ delivered[a] # head
          /\ a \in Reported <=> Here.review[a] # Absent
          /\ head # Absent
      BY DEF Stale, Reported, Inv, FilesFit, FilesTyped, Commits, Absent
    <3>2. CASE ~Found(a)
      BY <1>4, <1>5, <3>2 DEF Scan
    <3>3. CASE Found(a) /\ (Stale(Here.review[a]) \/ Stale(delivered[a]))
      <4>1. removes
        BY <1>4, <1>6, <3>1, <3>3 DEF Scan
      <4>2. QED
        BY <4>1
    <3>4. CASE Found(a) /\ Here.review[a] = Absent /\ delivered[a] = Absent
      BY <1>4, <1>5, <1>7, <1>8, <3>1, <3>4 DEF Scan
    <3>5. CASE Found(a) /\ Here.review[a] = Absent /\ delivered[a] = head
      <4>1. CollectReport(a, known)
        BY <1>4, <1>6, <3>1, <3>5 DEF Scan
      <4>2. QED
        BY <4>1
    <3>6. CASE Found(a) /\ Here.review[a] = head /\ ~Stale(delivered[a])
      <4>1. IF a \in ticket.seats THEN Proceed(seen) ELSE MemberRequest(a, known)
        BY <1>4, <1>5, <1>6, <1>7, <1>9, <3>1, <3>6 DEF Scan
      <4>2. QED
        BY <4>1
    <3>7. QED
      BY <3>1, <3>2, <3>3, <3>4, <3>5, <3>6
  <2>2. QED
    BY <1>17, <1>18, <1>19, <1>20, <1>21, <2>1

LEMMA ScannedKeeps ==
  ASSUME Inv, Scanned
  PROVE  Inv'
<1>1. driver.at = "scan"
  BY DEF Scanned, At
<1>2. /\ driver \in DriverRecord /\ driver.waits = {} /\ ReviewersKnown(driver)
      /\ ticket.status \notin {"ready", "reworking", "awaiting-integration"}
  BY <1>1, AtWork, RemainingKnown
<1>3. PICK d : d = Go(driver, "scanned")
  OBVIOUS
<1>4. d \in DriverRecord /\ d.at = "scanned" /\ d.waits = {} /\ ReviewersKnown(d)
  BY <1>2, <1>3, GoFields DEF Places, Destinations, SameMemory, ReviewersKnown
<1>5. Proceed(d)
  BY <1>3 DEF Scanned
<1>6. QED
  BY <1>1, <1>2, <1>4, <1>5, PlainKeeps DEF Plain

LEMMA ContinuedKeeps ==
  ASSUME Inv, Continued
  PROVE  Inv'
<1>1. driver.at = "scanned"
  BY DEF Continued, At
<1>2. /\ NobodyRuns /\ driver \in DriverRecord /\ driver.waits = {} /\ ReviewersKnown(driver)
      /\ ticket.status \notin {"ready", "reworking", "awaiting-integration"}
  BY <1>1, AtWork, RemainingKnown
<1>3. Left \subseteq driver.remaining
  BY DEF Left
<1>4. PICK b : b = NextBatch(driver, "resumed-review")
  OBVIOUS
<1>5. PICK left : left = Left
  OBVIOUS
<1>6. PICK d : d = [b EXCEPT !.remaining = left]
  OBVIOUS
<1>7. /\ b \in DriverRecord /\ b.at = "batch" /\ b.waits = {} /\ b.want = "resumed-review"
      /\ b.known = driver.known
  BY <1>2, <1>4, NextBatchFields DEF Wants
<1>8. left \in SUBSET Axes
  BY <1>2, <1>3, <1>5 DEF DriverRecord
<1>9. /\ d \in DriverRecord /\ d.at = "batch" /\ d.waits = {} /\ d.want = "resumed-review"
      /\ d.known = driver.known /\ d.remaining = left
  BY <1>6, <1>7, <1>8 DEF DriverRecord
<1>10. ReviewersKnown(d)
  BY <1>2, <1>3, <1>5, <1>9 DEF ReviewersKnown
<1>11. MemoryFits(d, "batch")
  BY <1>2, <1>9, <1>10, BatchFits DEF Wants, EngineerWants
<1>12. CASE Run(d, {Leader}, "batch")
  <2>1. RunWith(d, {Leader}, "batch", FALSE) /\ Straight
    BY <1>12 DEF Run
  <2>2. QED
    BY <1>1, <1>9, <1>11, <2>1, RunKeeps DEF Destinations, Members
<1>13. CASE Proceed(d)
  <2>1. DriverFits(d)
    BY <1>2, <1>9, <1>11, ThereFits DEF StatusFits
  <2>2. QED
    BY <1>2, <1>13, <2>1, ProceedKeeps
<1>14. CASE Run(driver, {Leader}, "finish")
  <2>1. RunWith(driver, {Leader}, "finish", FALSE) /\ Straight
    BY <1>14 DEF Run
  <2>2. MemoryFits(driver, "finish")
    BY <1>2, PlainFits DEF Plain
  <2>3. QED
    BY <1>1, <1>2, <2>1, <2>2, RunKeeps DEF Destinations, Members
<1>15. CASE Proceed(Go(driver, "finish"))
  <2>1. PICK g : g = Go(driver, "finish")
    OBVIOUS
  <2>2. g \in DriverRecord /\ g.at = "finish" /\ g.waits = {} /\ ReviewersKnown(g)
    BY <1>2, <2>1, GoFields DEF Places, Destinations, SameMemory, ReviewersKnown
  <2>3. QED
    BY <1>1, <1>2, <1>15, <2>1, <2>2, PlainKeeps DEF Plain
<1>16. driver.results \in BOOLEAN
  BY <1>2 DEF DriverRecord
<1>17. QED
  BY <1>4, <1>5, <1>6, <1>12, <1>13, <1>14, <1>15, <1>16 DEF Continued

LEMMA FinishKeeps ==
  ASSUME Inv, Finish
  PROVE  Inv'
<1>1. driver.at = "finish"
  BY DEF Finish, At
<1>2. /\ NobodyRuns /\ driver \in DriverRecord /\ driver.waits = {} /\ ReviewersKnown(driver)
      /\ ticket.status \notin {"ready", "reworking", "awaiting-integration"}
  BY <1>1, AtWork, RemainingKnown
<1>3. PICK b : b = NextBatch(driver, "resumed-final")
  OBVIOUS
<1>4. /\ b \in DriverRecord /\ b.at = "batch" /\ b.waits = {} /\ b.want = "resumed-final"
      /\ ReviewersKnown(b)
  BY <1>2, <1>3, NextBatchFields DEF Wants, ReviewersKnown
<1>5. MemoryFits(b, "batch")
  BY <1>2, <1>4, BatchFits DEF Wants, EngineerWants
<1>6. DriverFits(b)
  BY <1>2, <1>4, <1>5, ThereFits DEF StatusFits
<1>7. Proceed(b)
  BY <1>3 DEF Finish
<1>8. QED
  BY <1>2, <1>6, <1>7, ProceedKeeps

LEMMA WrapUpKeeps ==
  ASSUME Inv, WrapUp
  PROVE  Inv'
<1>1. driver.at \in {"wrap-up", "wrap-up-leader"}
  BY DEF WrapUp, At
<1>2. /\ NobodyRuns /\ driver \in DriverRecord /\ ReviewersKnown(driver)
      /\ ticket.status # "ready"
  BY <1>1, AtWork, RemainingKnown
<1>3. CASE Raise
  BY <1>2, <1>3, RaiseKeeps
<1>4. CASE RunWith(driver, {Engineer}, "wrap-up-leader", TRUE) /\ Straight
  <2>1. MemoryFits(driver, "wrap-up-leader")
    BY <1>2, PlainFits DEF Plain
  <2>2. QED
    BY <1>1, <1>2, <1>4, <2>1, RunKeeps DEF Destinations, Members
<1>5. CASE RunWith(driver, {Leader}, "idle", TRUE) /\ Straight
  <2>1. MemoryFits(driver, "idle")
    BY <1>2, PlainFits
  <2>2. QED
    BY <1>1, <1>2, <1>5, <2>1, RunKeeps DEF Destinations, Members
<1>6. QED
  BY <1>3, <1>4, <1>5 DEF WrapUp

----------------------------------------------------------------------------
(* Corrections *)

LEMMA CorrectionKeeps ==
  ASSUME Inv, Correction
  PROVE  Inv'
<1>1. driver.at \in {"scanned", "finish", "refused", "batch"}
  BY DEF Correction, CorrectionDue, At
<1>2. /\ NobodyRuns /\ driver \in DriverRecord /\ driver.waits = {} /\ ReviewersKnown(driver)
      /\ MemoryFits(driver, driver.at) /\ ticket \in Ticket
  BY <1>1, AtWork, RemainingKnown
<1> DEFINE written == Event([ticket EXCEPT !.candidate = IF Responsible = Engineer
                                                         THEN Absent ELSE @])
           allowed == /\ Responsible \in ({Engineer} \cup driver.known) \cap ticket.seats
                      /\ ticket.status = "reviewing"
           d == [driver EXCEPT !.at = "unlink", !.back = driver.at]
<1>3. Request(allowed, written, d)
  BY DEF Correction
<1>4. CASE /\ allowed /\ Sampled /\ ticket' = written /\ driver' = d
           /\ UNCHANGED <<rounds, delivered, registration, head, sessions>>
  <2>1. ticket' \in Ticket /\ ticket'.round = ticket.round /\ ticket'.status = "reviewing"
    BY <1>2, <1>4 DEF Event, Ticket
  <2>2. PICK e : e = d
    OBVIOUS
  <2>3. /\ e \in DriverRecord /\ e.at = "unlink" /\ e.waits = {} /\ e.back = driver.at
        /\ e.want = driver.want /\ e.known = driver.known /\ e.remaining = driver.remaining
    BY <1>1, <1>2, <2>2 DEF DriverRecord, Places, Backs
  <2>4. Here' = Here /\ Reported' = Reported /\ Responsible' = Responsible
    BY <1>4, <2>1 DEF Here, Reported, Responsible
  <2>5. driver.at = "batch" => driver.want \notin EngineerWants
    <3>1. driver.at = "batch" => driver.want \in {"rework", "review", "resumed-review"}
      BY DEF Correction, CorrectionDue, At
    <3>2. ticket.status = "reviewing"
      BY <1>4
    <3>3. driver.at = "batch" => driver.want # "rework"
      BY <1>2, <3>2 DEF MemoryFits, EngineerFits
    <3>4. QED
      BY <3>1, <3>3 DEF EngineerWants
  <2>6. Responsible \in {Engineer} \cup driver.known
    BY <1>4
  <2>7. MemoryFits(e, "unlink")'
    <3>1. TodoFits(e, "unlink") /\ EngineerFits(e, "unlink")'
      BY <2>1 DEF TodoFits, EngineerFits
    <3>2. ReviewersFit(e, "unlink")'
      BY <1>2, <2>3, <2>4 DEF ReviewersFit, ReviewersKnown
    <3>3. CorrectionFits(e, "unlink")'
      <4>1. e.back # "none" /\ (e.back = "batch" => e.want \notin EngineerWants)
        BY <1>1, <2>3, <2>5
      <4>2. Responsible' \in {Engineer} \cup e.known
        BY <2>3, <2>4, <2>6
      <4>3. QED
        BY <4>1, <4>2 DEF CorrectionFits
    <3>4. QED
      BY <3>1, <3>2, <3>3 DEF MemoryFits
  <2>8. DriverFits(e)'
    BY <2>1, <2>3, <2>7, ThereFits DEF StatusFits
  <2>9. DriverFits(driver)'
    BY <1>4, <2>2, <2>8
  <2>10. QED
    BY <1>2, <1>4, <2>1, <2>9, GrantKeeps
<1> HIDE DEF written, allowed, d
<1>5. QED
  BY <1>2, <1>3, <1>4, RequestCases

LEMMA UnlinkKeeps ==
  ASSUME Inv, Unlink
  PROVE  Inv'
<1>1. driver.at = "unlink"
  BY DEF Unlink, At
<1>2. /\ NobodyRuns /\ driver \in DriverRecord /\ driver.waits = {} /\ ReviewersKnown(driver)
      /\ MemoryFits(driver, "unlink") /\ ticket \in Ticket
      /\ ticket.status \notin {"ready", "reworking", "awaiting-integration"}
  BY <1>1, AtWork, RemainingKnown
<1>3. /\ rounds \in [1..MaxRound -> RoundRecord] /\ ticket.round \in 1..MaxRound
      /\ delivered \in [Axes -> Reports] /\ head \in Commits /\ NoForesight
      /\ ticket.status \in {"implementing", "reviewing"}
  BY <1>2 DEF Inv, FilesFit, FilesTyped, Ticket
<1>4. Here \in RoundRecord /\ Absent \in Reports /\ Responsible \in Members
      /\ NoJudgment \in [decision : {"none", "accepted", "rejected", "rework", "correct"},
                          commit : Reports, by : Members]
  <2>1. Absent \in Reports
    BY BoundsAssumption DEF Absent, Reports, Foreign, BoundsAssumption
  <2>2. Here \in RoundRecord
    BY <1>3 DEF Here
  <2>3. Responsible \in Members
    BY <2>2 DEF RoundRecord, Responsible
  <2>4. QED
    BY <2>1, <2>2, <2>3 DEF NoJudgment, Members
<1>5. PICK who : who = Responsible
  OBVIOUS
<1>6. PICK x : x = [engineer |-> IF who = Engineer THEN Absent ELSE Here.engineer,
                    leader |-> NoJudgment,
                    review |-> [a \in Axes |-> IF a = who THEN Absent ELSE Here.review[a]]]
  OBVIOUS
<1>7. rounds' = [rounds EXCEPT ![ticket.round] = x]
  BY <1>3, <1>5, <1>6 DEF Unlink, Here
<1>8. /\ x.engineer = IF who = Engineer THEN Absent ELSE Here.engineer
      /\ x.leader = NoJudgment
      /\ \A a \in Axes : x.review[a] = IF a = who THEN Absent ELSE Here.review[a]
  BY <1>6
<1>9. x \in RoundRecord
  BY <1>4, <1>6 DEF RoundRecord
<1>10. UpTo(Absent, head)
  BY <1>3 DEF UpTo, Absent, Commits
<1>11. RoundWrite(x)
  BY <1>3, <1>8, <1>9, <1>10 DEF RoundWrite, NoForesight
<1>12. /\ UNCHANGED <<ticket, delivered, registration, head, sessions, stopped, detours>>
       /\ driver' = [driver EXCEPT !.at = "redo", !.todo = {Responsible}, !.previous = head]
  BY DEF Unlink, Straight
<1>13. Here' = x
  BY <1>3, <1>7, <1>12 DEF Here
<1>14. Reported' \subseteq Reported \ {who}
  BY <1>8, <1>13 DEF Reported
<1>15. PICK d : d = [driver EXCEPT !.at = "redo", !.todo = {who}, !.previous = head]
  OBVIOUS
<1>16. /\ d \in DriverRecord /\ d.at = "redo" /\ d.waits = {} /\ d.todo = {who}
       /\ d.previous = head /\ d.known = driver.known /\ d.remaining = driver.remaining
       /\ d.back = driver.back /\ d.want = driver.want
  BY <1>2, <1>3, <1>4, <1>5, <1>15 DEF DriverRecord, Places, Destinations
<1>17. MemoryFits(d, "redo")'
  <2>1. TodoFits(d, "redo") /\ EngineerFits(d, "redo")'
    BY <1>2, <1>12 DEF TodoFits, EngineerFits
  <2>2. ReviewersFit(d, "redo")'
    BY <1>2, <1>14, <1>16 DEF ReviewersFit, ReviewersKnown
  <2>3. CorrectionFits(d, "redo")'
    <3>1. /\ d.back # "none" /\ (d.back = "batch" => d.want \notin EngineerWants)
          /\ who \in {Engineer} \cup d.known
      BY <1>2, <1>5, <1>16 DEF MemoryFits, CorrectionFits
    <3>2. d.todo \cap Axes \subseteq d.known /\ d.todo \cap Reported' = {}
      BY <1>14, <1>16, <3>1, MembersAssumption DEF MembersAssumption
    <3>3. Engineer \in d.todo =>
            /\ Here'.engineer = Absent
            /\ d.previous <= head'
            /\ \A a \in Axes : UpTo(Here'.review[a], d.previous)
      BY <1>3, <1>8, <1>11, <1>12, <1>13, <1>16 DEF RoundWrite, Commits
    <3>4. QED
      BY <3>1, <3>2, <3>3 DEF CorrectionFits
  <2>4. QED
    BY <2>1, <2>2, <2>3 DEF MemoryFits
<1>18. DriverFits(d)'
  BY <1>2, <1>12, <1>16, <1>17, ThereFits DEF StatusFits
<1>19. DriverFits(driver)'
  BY <1>5, <1>12, <1>15, <1>18
<1>20. delivered' \in [Axes -> Reports] /\ \A a \in Axes : UpTo(delivered'[a], head)
  BY <1>3, <1>12 DEF NoForesight
<1>21. QED
  BY <1>2, <1>3, <1>7, <1>11, <1>12, <1>19, <1>20, WriteKeeps

LEMMA RedoKeeps ==
  ASSUME Inv, Redo
  PROVE  Inv'
<1>1. driver.at = "redo"
  BY DEF Redo, At
<1>2. /\ NobodyRuns /\ driver \in DriverRecord /\ driver.waits = {} /\ ReviewersKnown(driver)
      /\ MemoryFits(driver, "redo") /\ ticket.status # "ready"
  BY <1>1, AtWork, RemainingKnown
<1>3. /\ driver.back \in Backs \ {"none"}
      /\ driver.back = "batch" => driver.want \notin EngineerWants
  BY <1>2 DEF MemoryFits, CorrectionFits, DriverRecord
<1>4. CASE driver.todo = {}
  <2>1. PICK d : d = [driver EXCEPT !.back = "none"]
    OBVIOUS
  <2>2. /\ d \in DriverRecord /\ d.want = driver.want /\ ReviewersKnown(d)
    BY <1>2, <2>1 DEF DriverRecord, Backs, ReviewersKnown
  <2>3. PICK place \in Backs \ {"none"} : place = driver.back
    BY <1>3
  <2>4. MemoryFits(d, place)
    <3>1. CASE place = "batch"
      <4>1. d.want \in Wants \ EngineerWants
        BY <1>2, <1>3, <2>2, <2>3, <3>1 DEF DriverRecord
      <4>2. QED
        BY <1>2, <2>2, <3>1, <4>1, BatchFits DEF EngineerWants
    <3>2. CASE place # "batch"
      BY <1>2, <2>2, <2>3, <3>2, PlainFits DEF Plain, Backs
    <3>3. QED
      BY <3>1, <3>2
  <2>5. RunWith(d, {Leader}, place, FALSE) /\ Straight
    BY <1>4, <2>1, <2>3 DEF Redo, Run
  <2>6. place \in Destinations
    BY <2>3 DEF Backs, Destinations
  <2>7. QED
    BY <1>1, <2>2, <2>4, <2>5, <2>6, RunKeeps, MembersAssumption DEF Members, MembersAssumption
<1>5. CASE driver.todo # {}
  <2>1. PICK m \in driver.todo : m = Turn
    BY <1>5, TurnMember
  <2>2. m \in Members
    BY <1>2 DEF DriverRecord
  <2>3. MemoryFits(driver, "redone")
    <3>1. TodoFits(driver, "redone") /\ EngineerFits(driver, "redone")
      BY <1>2, <1>5 DEF TodoFits, EngineerFits
    <3>2. ReviewersFit(driver, "redone")
      BY <1>2 DEF ReviewersFit, ReviewersKnown
    <3>3. CorrectionFits(driver, "redone")
      BY <1>2 DEF MemoryFits, CorrectionFits
    <3>4. QED
      BY <3>1, <3>2, <3>3 DEF MemoryFits
  <2>4. RunWith(driver, {m}, "redone", FALSE) /\ Straight
    BY <1>5, <2>1 DEF Redo, Run
  <2>5. QED
    BY <1>1, <1>2, <2>2, <2>3, <2>4, RunKeeps DEF Destinations
<1>6. QED
  BY <1>4, <1>5

LEMMA RedoneEngineerKeeps ==
  ASSUME Inv, RedoneEngineer
  PROVE  Inv'
<1>1. driver.at = "redone"
  BY DEF RedoneEngineer, At
<1>2. /\ NobodyRuns /\ driver \in DriverRecord /\ driver.waits = {} /\ ReviewersKnown(driver)
      /\ MemoryFits(driver, "redone") /\ ticket \in Ticket
      /\ ticket.status \notin {"ready", "reworking", "awaiting-integration"}
  BY <1>1, AtWork, RemainingKnown
<1>3. CASE Recover(Engineer, "redone")
  BY <1>1, <1>2, <1>3, RecoverKeeps DEF Destinations, Members
<1>4. CASE HasCandidate
  <2>1. /\ rounds \in [1..MaxRound -> RoundRecord] /\ ticket.round \in 1..MaxRound
        /\ delivered \in [Axes -> Reports] /\ head \in Commits /\ NoForesight
        /\ ticket.status \in {"implementing", "reviewing"}
    BY <1>2 DEF Inv, FilesFit, FilesTyped, Ticket
  <2>2. PICK affected : affected = IF head # driver.previous THEN driver.known ELSE {}
    OBVIOUS
  <2>3. PICK x : x = [Here EXCEPT !.review = [a \in Axes |-> IF a \in affected THEN Absent
                                                              ELSE Here.review[a]]]
    OBVIOUS
  <2>4. PICK g : g = Go(driver, "corrected")
    OBVIOUS
  <2>5. PICK d : d = [g EXCEPT !.todo = affected, !.previous = Absent]
    OBVIOUS
  <2>6. /\ rounds' = [rounds EXCEPT ![ticket.round].review =
                        [a \in Axes |-> IF a \in affected THEN Absent ELSE @[a]]]
        /\ driver' = d
        /\ UNCHANGED <<ticket, delivered, registration, head, sessions, stopped, detours>>
    BY <1>4, <2>2, <2>4, <2>5 DEF RedoneEngineer, Straight
  <2>7. Here \in RoundRecord /\ Absent \in Reports /\ UpTo(Absent, head)
    BY <2>1, BoundsAssumption
       DEF Here, Absent, Reports, Foreign, UpTo, Commits, BoundsAssumption
  <2>8. /\ x \in RoundRecord /\ x.leader = Here.leader /\ x.engineer = Here.engineer
        /\ \A a \in Axes : x.review[a] = IF a \in affected THEN Absent ELSE Here.review[a]
    BY <2>3, <2>7 DEF RoundRecord
  <2>9. rounds' = [rounds EXCEPT ![ticket.round] = x]
    BY <2>1, <2>3, <2>6 DEF Here
  <2>10. RoundWrite(x)
    BY <2>1, <2>7, <2>8 DEF RoundWrite, NoForesight
  <2>11. Here' = x
    BY <2>1, <2>6, <2>9 DEF Here
  <2>12. Reported' \subseteq Reported \ affected
    BY <2>8, <2>11 DEF Reported
  <2>13. g \in DriverRecord /\ g.at = "corrected" /\ g.waits = {} /\ SameMemory(g, driver)
    BY <1>2, <2>4, GoFields DEF Places
  <2>14. affected \subseteq driver.known /\ affected \subseteq Axes
    BY <1>2, <2>2 DEF DriverRecord
  <2>15. /\ d \in DriverRecord /\ d.at = "corrected" /\ d.waits = {} /\ d.todo = affected
         /\ d.known = driver.known /\ d.remaining = driver.remaining
         /\ d.back = driver.back /\ d.want = driver.want
    BY <2>5, <2>13, <2>14 DEF DriverRecord, SameMemory, Members
  <2>16. MemoryFits(d, "corrected")'
    <3>1. TodoFits(d, "corrected") /\ EngineerFits(d, "corrected")'
      BY <1>2, <2>6, <2>14, <2>15 DEF TodoFits, EngineerFits
    <3>2. ReviewersFit(d, "corrected")'
      BY <1>2, <2>12, <2>15 DEF ReviewersFit, ReviewersKnown
    <3>3. CorrectionFits(d, "corrected")'
      <4>1. d.back # "none" /\ (d.back = "batch" => d.want \notin EngineerWants)
        BY <1>2, <2>15 DEF MemoryFits, CorrectionFits
      <4>2. d.todo \cap Axes \subseteq d.known /\ d.todo \cap Reported' = {}
        BY <2>12, <2>14, <2>15
      <4>3. QED
        BY <4>1, <4>2 DEF CorrectionFits
    <3>4. QED
      BY <3>1, <3>2, <3>3 DEF MemoryFits
  <2>17. DriverFits(d)'
    BY <1>2, <2>6, <2>15, <2>16, ThereFits DEF StatusFits
  <2>18. DriverFits(driver)'
    BY <2>6, <2>17
  <2>19. delivered' \in [Axes -> Reports] /\ \A a \in Axes : UpTo(delivered'[a], head)
    BY <2>1, <2>6 DEF NoForesight
  <2>20. QED
    BY <1>2, <2>1, <2>6, <2>9, <2>10, <2>18, <2>19, WriteKeeps
<1>5. QED
  BY <1>3, <1>4 DEF RedoneEngineer

LEMMA CorrectedKeeps ==
  ASSUME Inv, Corrected
  PROVE  Inv'
<1>1. driver.at = "corrected"
  BY DEF Corrected, At
<1>2. /\ driver \in DriverRecord /\ driver.waits = {} /\ ReviewersKnown(driver)
      /\ MemoryFits(driver, "corrected") /\ ticket.status # "ready"
  BY <1>1, AtWork, RemainingKnown
<1>3. PICK d : d = Go(driver, "redo")
  OBVIOUS
<1>4. d \in DriverRecord /\ d.at = "redo" /\ d.waits = {} /\ SameMemory(d, driver)
  BY <1>2, <1>3, GoFields DEF Places
<1>5. MemoryFits(d, "redo")
  <2>1. d.todo \subseteq Axes /\ Engineer \notin d.todo
    BY <1>2, <1>4, MembersAssumption
       DEF MemoryFits, TodoFits, SameMemory, MembersAssumption
  <2>2. TodoFits(d, "redo") /\ EngineerFits(d, "redo")
    BY <1>2 DEF TodoFits, EngineerFits
  <2>3. ReviewersFit(d, "redo")
    BY <1>2, <1>4 DEF ReviewersFit, ReviewersKnown, SameMemory
  <2>4. CorrectionFits(d, "redo")
    BY <1>2, <1>4, <2>1 DEF MemoryFits, CorrectionFits, SameMemory
  <2>5. QED
    BY <2>2, <2>3, <2>4 DEF MemoryFits
<1>6. CandidateRequest(d)
  BY <1>3 DEF Corrected
<1>7. QED
  BY <1>1, <1>4, <1>5, <1>6, CandidateKeeps

LEMMA RedoneReviewerKeeps ==
  ASSUME Inv, RedoneReviewer
  PROVE  Inv'
<1>1. driver.at = "redone"
  BY DEF RedoneReviewer, At
<1>2. /\ NobodyRuns /\ driver \in DriverRecord /\ driver.waits = {} /\ ReviewersKnown(driver)
      /\ MemoryFits(driver, "redone") /\ ticket.status # "ready"
  BY <1>1, AtWork, RemainingKnown
<1>3. driver.todo # {}
  BY <1>2 DEF MemoryFits, TodoFits
<1>4. PICK a \in Axes : a = Turn /\ a \in driver.todo /\ Engineer \notin driver.todo
  BY <1>3, TurnMember, MembersAssumption DEF RedoneReviewer, Turn, MembersAssumption
<1>5. CASE Recover(a, "redone")
  BY <1>1, <1>2, <1>5, RecoverKeeps DEF Destinations, Members
<1>6. PICK g : g = Go(driver, "redo")
  OBVIOUS
<1>7. PICK d : d = [g EXCEPT !.todo = @ \ {a}]
  OBVIOUS
<1>8. CASE CollectReport(a, d)
  <2>1. g \in DriverRecord /\ g.at = "redo" /\ g.waits = {} /\ SameMemory(g, driver)
    BY <1>2, <1>6, GoFields DEF Places
  <2>2. /\ d \in DriverRecord /\ d.at = "redo" /\ d.waits = {} /\ d.todo = driver.todo \ {a}
        /\ d.known = driver.known /\ d.remaining = driver.remaining
        /\ d.back = driver.back /\ d.want = driver.want
    BY <1>7, <2>1 DEF DriverRecord, SameMemory
  <2>3. /\ driver.todo \cap Axes \subseteq driver.known /\ driver.todo \cap Reported = {}
        /\ driver.back # "none" /\ (driver.back = "batch" => driver.want \notin EngineerWants)
    BY <1>2 DEF MemoryFits, CorrectionFits
  <2>4. ASSUME CollectEffect(a)
        PROVE  MemoryFits(d, "redo")'
    <3>1. Reported' \subseteq Reported \cup {a} /\ ticket' = ticket
      BY <1>8, <2>4 DEF CollectEffect, CollectReport
    <3>2. TodoFits(d, "redo") /\ EngineerFits(d, "redo")'
      BY <1>2, <3>1 DEF TodoFits, EngineerFits
    <3>3. ReviewersFit(d, "redo")'
      BY <1>2, <1>4, <2>2, <2>3, <3>1 DEF ReviewersFit, ReviewersKnown
    <3>4. CorrectionFits(d, "redo")'
      <4>1. d.todo \cap Axes \subseteq d.known /\ d.todo \cap Reported' = {}
        BY <2>2, <2>3, <3>1
      <4>2. Engineer \notin d.todo
        BY <1>4, <2>2
      <4>3. QED
        BY <2>2, <2>3, <4>1, <4>2 DEF CorrectionFits
    <3>5. QED
      BY <3>2, <3>3, <3>4 DEF MemoryFits
  <2>5. CollectEffect(a) => MemoryFits(d, d.at)'
    BY <2>2, <2>4
  <2>6. QED
    BY <1>1, <1>8, <2>2, <2>5, CollectReportKeeps
<1>9. QED
  BY <1>4, <1>5, <1>6, <1>7, <1>8 DEF RedoneReviewer

----------------------------------------------------------------------------
(* The Agents and their callers *)

\* Where a driver is when its members have ended.
LEMMA WokenFits ==
  ASSUME NEW d \in DriverRecord, d.at = "waiting", NEW now, NEW stop
  PROVE  LET w == Woken(d, now, stop)
         IN  \/ w = IdleDriver
             \/ /\ w \in DriverRecord /\ SameMemory(w, d) /\ w.waits = {}
                /\ \/ w.at = d.then
                   \/ w.at = "wrap-up" /\ d.then \in Plain
<1>1. PICK ended : ended = [d EXCEPT !.waits = {}, !.then = "idle"]
  OBVIOUS
<1>2. PICK x : x = [ended EXCEPT !.at = "wrap-up"]
  OBVIOUS
<1>3. PICK y : y = [ended EXCEPT !.at = d.then]
  OBVIOUS
<1>4. ended \in DriverRecord /\ SameMemory(ended, d) /\ ended.waits = {}
  BY <1>1 DEF DriverRecord, Destinations, SameMemory
<1>5. d.then \in Places
  BY DEF DriverRecord, Places
<1>6. /\ x \in DriverRecord /\ SameMemory(x, d) /\ x.waits = {} /\ x.at = "wrap-up"
      /\ y \in DriverRecord /\ SameMemory(y, d) /\ y.waits = {} /\ y.at = d.then
  BY <1>2, <1>3, <1>4, <1>5 DEF DriverRecord, Places, SameMemory
<1>7. \/ Woken(d, now, stop) = IdleDriver
      \/ Woken(d, now, stop) = y
      \/ Woken(d, now, stop) = x /\ WrapsUp(d)
  BY <1>1, <1>2, <1>3, Zenon DEF Woken
<1>8. WrapsUp(d) => d.then \in Plain
  BY DEF WrapsUp, Plain
<1>9. QED
  BY <1>6, <1>7, <1>8

\* What an Agent does to the files leaves what a driver remembers about them.
LEMMA AgentMemory ==
  ASSUME ticket' = ticket, Here'.review = Here.review, head \in Nat, head' \in Nat,
         head <= head', NEW place \in Destinations, NEW d \in DriverRecord,
         MemoryFits(d, place), Here'.engineer = Here.engineer \/ place # "batch"
  PROVE  MemoryFits(d, place)'
<1>1. Reported' = Reported
  BY DEF Reported
<1>2. place \notin {"start", "run-engineer", "dispatch", "taken", "unlink", "redo", "corrected"}
  BY DEF Destinations
<1>3. TodoFits(d, place)
  BY DEF MemoryFits
<1>4. EngineerFits(d, place)'
  BY <1>2 DEF MemoryFits, EngineerFits
<1>5. ReviewersFit(d, place)'
  BY <1>1 DEF MemoryFits, ReviewersFit
<1>6. CorrectionFits(d, place)'
  <2>1. CASE place = "redone"
    <3>1. /\ d.back # "none" /\ (d.back = "batch" => d.want \notin EngineerWants)
          /\ d.todo \cap Axes \subseteq d.known /\ d.todo \cap Reported = {}
          /\ Engineer \in d.todo =>
               d.previous <= head /\ \A a \in Axes : UpTo(Here.review[a], d.previous)
      BY <2>1 DEF MemoryFits, CorrectionFits
    <3>2. d.previous \in Nat
      BY BoundsAssumption DEF DriverRecord, Absent, Commits
    <3>3. d.previous <= head => d.previous <= head'
      BY <3>2
    <3>4. QED
      BY <1>1, <2>1, <3>1, <3>3 DEF CorrectionFits, UpTo
  <2>2. CASE place # "redone"
    BY <1>2, <2>2 DEF CorrectionFits
  <2>3. QED
    BY <2>1, <2>2
<1>7. QED
  BY <1>3, <1>4, <1>5, <1>6 DEF MemoryFits

\* An execution ends, and the driver that waited for it may notice.
LEMMA EndKeeps ==
  ASSUME Inv, NEW m \in Members, Runs(m), NEW d, driver = d, Noticed(m),
         ~Runs(m)', \A n \in Members \ {m} : sessions'[n] = sessions[n],
         ticket' = ticket, Reported' = Reported, FilesFit',
         d.at = "waiting" => MemoryFits(d, d.then)',
         d.at = "idle" => MemoryFits(d, "idle")'
  PROVE  Inv'
<1>1. /\ d \in DriverRecord /\ WaitsFit(d) /\ StatusFits(d)
      /\ d.at = "waiting" => MemoryFits(d, d.then)
      /\ d.at = "idle" \/ m \in d.waits
  BY DEF Inv, DriverFits, Quiet, At, Place
<1>2. d.at \in {"idle", "waiting"}
  BY <1>1 DEF WaitsFit
<1>3. \A n \in Members : Runs(n)' => Runs(n) /\ n # m
  BY DEF Runs
<1>4. StatusFits(d)'
  BY <1>1 DEF StatusFits
<1>5. CASE driver' = d
  <2>1. MemoryFits(d, Place(d))'
    BY <1>2 DEF Place
  <2>2. DriverFits(d)'
    BY <1>1, <1>4, <2>1 DEF DriverFits
  <2>3. Quiet'
    BY <1>3, <1>5 DEF Inv, Quiet, At
  <2>4. QED
    BY <1>5, <2>2, <2>3 DEF Inv
<1>6. CASE /\ m \in d.waits /\ \A n \in d.waits \ {m} : ~Runs(n)
           /\ driver' = Woken(d, sessions', stopped)
  <2>1. d.at = "waiting"
    BY <1>1, <1>2, <1>6 DEF WaitsFit
  <2>2. \A n \in Members : ~Runs(n)'
    BY <1>3, <1>6, <2>1 DEF Inv, Quiet, At
  <2>3. PICK w : w = Woken(d, sessions', stopped)
    OBVIOUS
  <2>4. \/ w = IdleDriver
        \/ /\ w \in DriverRecord /\ SameMemory(w, d) /\ w.waits = {}
           /\ w.at = d.then \/ (w.at = "wrap-up" /\ d.then \in Plain)
    BY <1>1, <2>1, <2>3, WokenFits
  <2>5. ticket.status \notin {"reworking", "awaiting-integration"}
    BY <1>1, <2>1 DEF StatusFits
  <2>6. ASSUME w \in DriverRecord, SameMemory(w, d), w.waits = {}, w.at = d.then
        PROVE  DriverFits(w)'
    <3>1. MemoryFits(w, w.at)'
      BY <2>1, <2>6, MemoryAlone
    <3>2. w.at # "waiting"
      BY <1>1, <2>6 DEF DriverRecord, Destinations
    <3>3. StatusFits(w)'
      BY <2>5 DEF StatusFits
    <3>4. QED
      BY <2>6, <3>1, <3>2, <3>3, ThereFits
  <2>7. ASSUME w \in DriverRecord, SameMemory(w, d), w.waits = {}, w.at = "wrap-up",
               d.then \in Plain
        PROVE  DriverFits(w)'
    <3>1. ReviewersKnown(d) /\ ticket.status # "ready"
      <4>1. ReviewersKnown(d)
        BY <1>1, <2>1, <2>7, PlainFits
      <4>2. QED
        BY <1>1, <2>1, <2>7, <4>1 DEF MemoryFits, EngineerFits, Plain
    <3>2. ReviewersKnown(w)'
      BY <2>7, <3>1 DEF ReviewersKnown, SameMemory
    <3>3. MemoryFits(w, "wrap-up")'
      BY <3>1, <3>2, PlainFits DEF Plain
    <3>4. StatusFits(w)'
      BY <2>5 DEF StatusFits
    <3>5. QED
      BY <2>7, <3>3, <3>4, ThereFits
  <2>8. DriverFits(w)'
    BY <2>4, <2>6, <2>7, IdleFits
  <2>9. QED
    BY <1>6, <2>2, <2>3, <2>8 DEF Inv, Quiet
<1>7. QED
  BY <1>5, <1>6 DEF Noticed

\* An execution of a member completes.
LEMMA Completed ==
  ASSUME Inv, NEW m \in Members, Runs(m),
         sessions' = [sessions EXCEPT ![m].outcome = "completed"]
  PROVE  /\ SessionsTyped' /\ ~Runs(m)' /\ \A n \in Members \ {m} : sessions'[n] = sessions[n]
         /\ sessions'[m].count = sessions[m].count /\ sessions[m].count > 0
         /\ sessions'[m].outcome = "completed"
         /\ ticket.status # "awaiting-integration"
<1>1. SessionsTyped /\ sessions \in [Members -> Session] /\ sessions[m] \in Session
  BY DEF Inv, FilesFit, SessionsTyped
<1>2. PICK x \in Session : x = [sessions[m] EXCEPT !.outcome = "completed"]
  BY <1>1 DEF Session, Outcomes
<1>3. /\ x.outcome = "completed" /\ x.count = sessions[m].count
      /\ sessions' = [sessions EXCEPT ![m] = x]
  BY <1>1, <1>2 DEF Session, Outcomes
<1>4. sessions' \in [Members -> Session] /\ sessions'[m] = x
  BY <1>1, <1>3
<1>5. \A n \in Members \ {m} : sessions'[n] = sessions[n]
  BY <1>1, <1>3
<1>6. SessionsTyped'
  BY <1>1, <1>3, <1>4, <1>5 DEF SessionsTyped
<1>7. sessions[m].count > 0
  BY <1>1 DEF SessionsTyped, Runs
<1>8. ticket.status # "awaiting-integration"
  BY DEF Inv, FilesFit, NobodyRuns
<1>9. QED
  BY <1>3, <1>4, <1>5, <1>6, <1>7, <1>8 DEF Runs

LEMMA LeaderFiles ==
  ASSUME Inv, LeaderEnds, SessionsTyped', sessions'[Engineer] = sessions[Engineer],
         stopped' = stopped, ticket.status # "awaiting-integration"
  PROVE  /\ FilesFit' /\ ticket' = ticket /\ head' = head
         /\ Here'.review = Here.review /\ Here'.engineer = Here.engineer
<1>1. PICK judgment \in Judgments \cup {Here.leader}, batch \in Formal \cup {NoBatch} :
        LET judges == judgment # Here.leader
            registers == batch # NoBatch
        IN  /\ judges => Writable
            /\ judges /\ judgment.decision = "rework" => ticket.round < MaxRound
            /\ registers => registration = NoBatch /\ ~driver.frugal
            /\ IF judges /\ judgment.decision = "correct" THEN Detour ELSE Straight
            /\ rounds' = [rounds EXCEPT ![ticket.round].leader = judgment]
            /\ registration' = IF registers THEN batch ELSE registration
  BY DEF LeaderEnds
<1>2. /\ ticket \in Ticket /\ ticket.round \in 1..MaxRound
      /\ rounds \in [1..MaxRound -> RoundRecord] /\ Here \in RoundRecord /\ head \in Commits
      /\ registration \in Formal \cup {NoBatch}
  BY DEF Inv, FilesFit, FilesTyped, Ticket, Here
<1>3. /\ judgment \in [decision : {"none", "accepted", "rejected", "rework", "correct"},
                       commit : Reports, by : Members]
      /\ judgment # Here.leader => judgment.decision # "none"
  BY <1>1, <1>2, BoundsAssumption
     DEF Judgments, RoundRecord, Reports, Commits, Foreign, Members
<1>4. UNCHANGED <<ticket, delivered, head>>
  BY DEF LeaderEnds
<1>5. detours' \in 0..MaxDetours
  BY <1>1, DetourTyped
<1>6. PICK x : x = [Here EXCEPT !.leader = judgment]
  OBVIOUS
<1>7. /\ x \in RoundRecord /\ x.leader = judgment /\ x.review = Here.review
      /\ x.engineer = Here.engineer
  BY <1>2, <1>3, <1>6 DEF RoundRecord
<1>8. rounds' = [rounds EXCEPT ![ticket.round] = x]
  BY <1>1, <1>2, <1>6 DEF Here
<1>9. /\ rounds' \in [1..MaxRound -> RoundRecord] /\ Here' = x
      /\ \A r \in 1..MaxRound : r # ticket.round => rounds'[r] = rounds[r]
  BY <1>2, <1>4, <1>7, <1>8 DEF Here
<1>10. FilesTyped'
  BY <1>1, <1>4, <1>5, <1>9 DEF Inv, FilesFit, FilesTyped
<1>11. EngineerKnown'
  BY <1>2, <1>4, <1>7, <1>9 DEF Inv, FilesFit, EngineerKnown, Here
<1>12. RejectionsStand'
  <2>1. ASSUME NEW r \in 1..MaxRound,
               r < ticket.round \/ (r = ticket.round /\ ticket.status = "reworking")
        PROVE  Rejected(r)'
    <3>1. rounds'[r] = rounds[r]
      <4>1. CASE r = ticket.round
        <5>1. judgment = Here.leader
          BY <1>1, <2>1, <4>1, <1>2 DEF Writable
        <5>2. x = Here
          BY <1>2, <1>6, <5>1 DEF RoundRecord
        <5>3. QED
          BY <1>2, <1>8, <5>2, <4>1 DEF Here
      <4>2. QED
        BY <1>9, <4>1
    <3>2. QED
      BY <2>1, <3>1 DEF Inv, FilesFit, RejectionsStand, Rejected, Agreed
  <2>2. QED
    BY <1>4, <2>1 DEF RejectionsStand
<1>13. RoomForRework'
  <2>1. ASSUME NEW r \in 1..MaxRound, rounds'[r].leader.decision = "rework"
        PROVE  r < MaxRound
    <3>1. CASE r = ticket.round /\ judgment # Here.leader
      BY <1>1, <1>2, <1>4, <1>7, <1>9, <2>1, <3>1 DEF Here
    <3>2. CASE r = ticket.round /\ judgment = Here.leader
      BY <1>2, <1>4, <1>7, <1>9, <2>1, <3>2 DEF Here, Inv, FilesFit, RoomForRework
    <3>3. CASE r # ticket.round
      BY <1>9, <2>1, <3>3 DEF Inv, FilesFit, RoomForRework
    <3>4. QED
      BY <3>1, <3>2, <3>3
  <2>2. QED
    BY <2>1 DEF RoomForRework
<1>14. NothingYet' /\ NoForesight'
  BY <1>2, <1>4, <1>7, <1>9 DEF Inv, FilesFit, NothingYet, NoForesight
<1>15. AcceptedEvidence'
  BY <1>4 DEF AcceptedEvidence
<1>16. FilesFit'
  BY <1>4, <1>10, <1>11, <1>12, <1>13, <1>14, <1>15 DEF FilesFit
<1>17. QED
  BY <1>4, <1>7, <1>9, <1>16

LEMMA EngineerFiles ==
  ASSUME Inv, EngineerEnds, SessionsTyped', sessions'[Engineer].count > 0,
         sessions'[Engineer].outcome = "completed", sessions[Engineer].count > 0,
         stopped' = stopped, ticket.status # "awaiting-integration"
  PROVE  /\ FilesFit' /\ ticket' = ticket /\ head' \in Commits /\ head <= head'
         /\ Here'.review = Here.review
<1>1. /\ ticket \in Ticket /\ ticket.round \in 1..MaxRound
      /\ rounds \in [1..MaxRound -> RoundRecord] /\ Here \in RoundRecord /\ head \in Commits
      /\ delivered \in [Axes -> Reports]
  BY DEF Inv, FilesFit, FilesTyped, Ticket, Here
<1>2. head' \in Commits /\ head <= head'
  BY <1>1, BoundsAssumption DEF EngineerEnds, Commits
<1>3. PICK commit \in {Here.engineer, head, head'} :
        /\ commit # Here.engineer => Writable
        /\ rounds' = [rounds EXCEPT ![ticket.round].engineer = commit]
  BY DEF EngineerEnds
<1>4. UNCHANGED <<ticket, delivered, registration, detours>>
  BY DEF EngineerEnds, Straight
<1>5. commit \in Reports
  BY <1>1, <1>2, <1>3, BoundsAssumption DEF RoundRecord, Reports, Commits, Foreign
<1>6. PICK x : x = [Here EXCEPT !.engineer = commit]
  OBVIOUS
<1>7. /\ x \in RoundRecord /\ x.engineer = commit /\ x.review = Here.review
      /\ x.leader = Here.leader
  BY <1>1, <1>5, <1>6 DEF RoundRecord
<1>8. rounds' = [rounds EXCEPT ![ticket.round] = x]
  BY <1>1, <1>3, <1>6 DEF Here
<1>9. /\ rounds' \in [1..MaxRound -> RoundRecord] /\ Here' = x
      /\ \A r \in 1..MaxRound : r # ticket.round => rounds'[r] = rounds[r]
  BY <1>1, <1>4, <1>7, <1>8 DEF Here
<1>10. FilesTyped'
  BY <1>2, <1>4, <1>9 DEF Inv, FilesFit, FilesTyped
<1>11. EngineerKnown'
  <2>1. ticket.status # "ready"
    BY DEF Inv, FilesFit, EngineerKnown
  <2>2. sessions'[Engineer].count \in 0..2
    BY DEF SessionsTyped, Session, Members
  <2>3. QED
    BY <1>4, <2>1, <2>2 DEF EngineerKnown
<1>12. RejectionsStand'
  <2>1. ASSUME NEW r \in 1..MaxRound,
               r < ticket.round \/ (r = ticket.round /\ ticket.status = "reworking")
        PROVE  Rejected(r)'
    <3>1. rounds'[r] = rounds[r]
      <4>1. CASE r = ticket.round
        <5>1. commit = Here.engineer
          BY <1>1, <1>3, <2>1, <4>1 DEF Writable
        <5>2. x = Here
          BY <1>1, <1>6, <5>1 DEF RoundRecord
        <5>3. QED
          BY <1>1, <1>8, <5>2, <4>1 DEF Here
      <4>2. QED
        BY <1>9, <4>1
    <3>2. QED
      BY <2>1, <3>1 DEF Inv, FilesFit, RejectionsStand, Rejected, Agreed
  <2>2. QED
    BY <1>4, <2>1 DEF RejectionsStand
<1>13. RoomForRework'
  BY <1>1, <1>4, <1>7, <1>9 DEF Inv, FilesFit, RoomForRework, Here
<1>14. NothingYet' /\ NoForesight'
  <2>1. NothingYet'
    BY <1>1, <1>4, <1>9 DEF Inv, FilesFit, NothingYet
  <2>2. \A a \in Axes : Here.review[a] \in Reports /\ delivered[a] \in Reports
    BY <1>1 DEF RoundRecord
  <2>3. \A report \in Reports : UpTo(report, head) => UpTo(report, head')
    BY <1>1, <1>2, BoundsAssumption DEF UpTo, Reports, Commits, Foreign
  <2>4. QED
    BY <1>4, <1>7, <1>9, <2>1, <2>2, <2>3 DEF Inv, FilesFit, NoForesight
<1>15. AcceptedEvidence'
  BY <1>4 DEF AcceptedEvidence
<1>16. QED
  BY <1>2, <1>4, <1>7, <1>9, <1>10, <1>11, <1>12, <1>13, <1>14, <1>15 DEF FilesFit

LEMMA ReviewerFiles ==
  ASSUME Inv, NEW a \in Axes, ReviewerEnds(a), SessionsTyped',
         sessions'[Engineer] = sessions[Engineer],
         stopped' = stopped, ticket.status # "awaiting-integration"
  PROVE  FilesFit' /\ UNCHANGED <<ticket, rounds, head>>
<1>1. PICK commit \in {delivered[a], head, Foreign} :
        delivered' = [delivered EXCEPT ![a] = commit]
  BY DEF ReviewerEnds
<1>2. UNCHANGED <<ticket, rounds, registration, head, detours>>
  BY DEF ReviewerEnds, Straight
<1>3. delivered \in [Axes -> Reports] /\ head \in Commits /\ UpTo(delivered[a], head)
  BY DEF Inv, FilesFit, FilesTyped, NoForesight
<1>4. commit \in Reports /\ UpTo(commit, head)
  BY <1>1, <1>3, BoundsAssumption DEF Reports, Commits, Foreign, UpTo
<1>5. FilesTyped'
  BY <1>1, <1>2, <1>3, <1>4 DEF Inv, FilesFit, FilesTyped
<1>6. EngineerKnown'
  BY <1>2 DEF Inv, FilesFit, EngineerKnown
<1>7. Here' = Here
  BY <1>2 DEF Here
<1>8. NoForesight'
  <2>1. \A b \in Axes : delivered'[b] \in {delivered[b], commit}
    BY <1>1, <1>3
  <2>2. QED
    BY <1>2, <1>4, <1>7, <2>1 DEF Inv, FilesFit, NoForesight
<1>9. RejectionsStand' /\ RoomForRework' /\ NothingYet' /\ AcceptedEvidence'
  BY <1>2, <1>7 DEF Inv, FilesFit, RejectionsStand, Rejected, Agreed, RoomForRework, NothingYet,
               AcceptedEvidence
<1>10. QED
  BY <1>2, <1>5, <1>6, <1>8, <1>9 DEF FilesFit

LEMMA CompletesKeeps ==
  ASSUME Inv, NEW m \in Members, Completes(m)
  PROVE  Inv'
<1>1. /\ Runs(m) /\ sessions' = [sessions EXCEPT ![m].outcome = "completed"]
      /\ IF m = Leader THEN LeaderEnds ELSE IF m = Engineer THEN EngineerEnds ELSE ReviewerEnds(m)
      /\ Noticed(m) /\ stopped' = stopped
  BY DEF Completes
<1>2. /\ SessionsTyped' /\ ~Runs(m)' /\ \A n \in Members \ {m} : sessions'[n] = sessions[n]
      /\ sessions'[m].count = sessions[m].count /\ sessions[m].count > 0
      /\ sessions'[m].outcome = "completed"
      /\ ticket.status # "awaiting-integration"
  BY <1>1, Completed
<1>3. PICK d : d = driver
  OBVIOUS
<1>4. PICK place : place = Place(d)
  OBVIOUS
<1>5. /\ d \in DriverRecord /\ WaitsFit(d) /\ MemoryFits(d, place) /\ head \in Commits
      /\ d.at = "idle" \/ m \in d.waits
  BY <1>1, <1>3, <1>4 DEF Inv, DriverFits, Quiet, At, FilesFit, FilesTyped
<1>6. /\ d.at \in {"idle", "waiting"} /\ place = IF d.at = "waiting" THEN d.then ELSE "idle"
      /\ place \in Destinations
  BY <1>4, <1>5 DEF WaitsFit, Place, DriverRecord, Destinations
<1>7. /\ FilesFit' /\ ticket' = ticket /\ Here'.review = Here.review
      /\ head' \in Commits /\ head <= head'
      /\ Here'.engineer = Here.engineer \/ m = Engineer
  <2>1. CASE m = Leader
    <3>1. sessions'[Engineer] = sessions[Engineer]
      BY <1>2, <2>1, MembersAssumption DEF Members, MembersAssumption
    <3>2. LeaderEnds
      BY <1>1, <2>1
    <3>3. QED
      BY <1>1, <1>2, <1>5, <3>1, <3>2, LeaderFiles, BoundsAssumption DEF Commits
  <2>2. CASE m = Engineer
    <3>1. EngineerEnds
      BY <1>1, <2>2, MembersAssumption DEF MembersAssumption
    <3>2. QED
      BY <1>1, <1>2, <2>2, <3>1, EngineerFiles
  <2>3. CASE m # Leader /\ m # Engineer
    <3>1. m \in Axes /\ ReviewerEnds(m) /\ sessions'[Engineer] = sessions[Engineer]
      BY <1>1, <1>2, <2>3 DEF Members
    <3>2. FilesFit' /\ UNCHANGED <<ticket, rounds, head>>
      BY <1>1, <1>2, <3>1, ReviewerFiles
    <3>3. QED
      BY <1>5, <3>2, BoundsAssumption DEF Here, Commits
  <2>4. QED
    BY <2>1, <2>2, <2>3
<1>8. Here'.engineer = Here.engineer \/ place # "batch"
  BY <1>5, <1>6, <1>7 DEF WaitsFit
<1>9. MemoryFits(d, place)'
  <2>1. head \in Nat /\ head' \in Nat
    BY <1>5, <1>7, BoundsAssumption DEF Commits
  <2>2. QED
    BY <1>5, <1>6, <1>7, <1>8, <2>1, AgentMemory
<1>10. Reported' = Reported
  BY <1>7 DEF Reported
<1>11. QED
  BY <1>1, <1>2, <1>3, <1>6, <1>7, <1>9, <1>10, EndKeeps

\* A failed execution may have left no Session; then its member has reported nothing.
LEMMA FailsKeeps ==
  ASSUME Inv, NEW m \in Members, Fails(m), Detour \/ Straight
  PROVE  Inv'
<1>1. PICK count \in {sessions[m].count} \cup (IF sessions[m].outcome = "starting"
                                               THEN {sessions[m].count - 1} ELSE {}) :
        sessions' = [sessions EXCEPT ![m] = [count |-> count, outcome |-> "failed"]]
  BY DEF Fails
<1>2. Runs(m) /\ Noticed(m) /\ UNCHANGED <<ticket, rounds, delivered, registration, head, stopped>>
  BY DEF Fails, files
<1>3. /\ sessions \in [Members -> Session] /\ sessions[m] \in Session /\ sessions[m].count > 0
      /\ Engineer \in Members
  BY <1>2 DEF Inv, FilesFit, SessionsTyped, Runs, Members
<1>4. count \in 0..2 /\ (count = 0 => sessions[m].outcome = "starting")
  BY <1>1, <1>3 DEF Session
<1>5. PICK x : x = [count |-> count, outcome |-> "failed"]
  OBVIOUS
<1>6. x \in Session /\ x.count = count /\ x.outcome = "failed"
  BY <1>4, <1>5 DEF Session, Outcomes
<1>7. /\ sessions' \in [Members -> Session] /\ sessions'[m] = x
      /\ \A n \in Members \ {m} : sessions'[n] = sessions[n]
  BY <1>1, <1>3, <1>5, <1>6
<1>8. SessionsTyped' /\ ~Runs(m)'
  BY <1>6, <1>7 DEF Inv, FilesFit, SessionsTyped, Runs
<1>9. EngineerKnown'
  <2>1. EngineerKnown
    BY DEF Inv, FilesFit
  <2>2. CASE m = Engineer
    BY <1>2, <1>3, <1>4, <1>6, <1>7, <2>1, <2>2 DEF EngineerKnown, Session
  <2>3. CASE m # Engineer
    BY <1>2, <1>3, <1>7, <2>1, <2>3 DEF EngineerKnown
  <2>4. QED
    BY <2>2, <2>3
<1>10. detours' \in 0..MaxDetours
  BY DetourTyped
<1>11. Here' = Here /\ Reported' = Reported
  BY <1>2 DEF Here, Reported
<1>12. ticket.status # "awaiting-integration"
  BY <1>2 DEF Inv, FilesFit, NobodyRuns
<1>13. FilesFit'
  BY <1>2, <1>8, <1>9, <1>10, <1>11, <1>12
     DEF Inv, FilesFit, FilesTyped, RejectionsStand, Rejected, Agreed, RoomForRework, NothingYet,
         NoForesight, AcceptedEvidence
<1>14. PICK d : d = driver
  OBVIOUS
<1>15. DriverFits(d)'
  BY <1>2, <1>14, FilesAlone DEF Inv
<1>16. /\ d.at = "waiting" => MemoryFits(d, d.then)'
       /\ d.at = "idle" => MemoryFits(d, "idle")'
  BY <1>15 DEF DriverFits, Place
<1>17. QED
  BY <1>2, <1>7, <1>8, <1>11, <1>13, <1>14, <1>16, EndKeeps

LEMMA MemberFailsKeeps ==
  ASSUME Inv, NEW m \in Members, MemberFails(m)
  PROVE  Inv'
BY FailsKeeps DEF MemberFails

\* A step of a caller, which leaves the files and no driver at work.
LEMMA CallerKeeps ==
  ASSUME Inv, UNCHANGED files, Detour \/ Straight, stopped' \in BOOLEAN,
         SessionsTyped', ticket.status = "awaiting-integration" => NobodyRuns',
         sessions'[Engineer].count = sessions[Engineer].count,
         sessions'[Engineer].outcome = "starting" => sessions[Engineer].outcome = "starting",
         DriverFits(driver), driver' = driver \/ driver' = IdleDriver, Quiet'
  PROVE  Inv'
<1>1. UNCHANGED <<ticket, rounds, delivered, registration, head>>
  BY DEF files
<1>2. Here' = Here
  BY <1>1 DEF Here
<1>3. detours' \in 0..MaxDetours
  BY DetourTyped
<1>4. EngineerKnown'
  BY <1>1 DEF Inv, FilesFit, EngineerKnown
<1>5. FilesFit'
  BY <1>1, <1>2, <1>3, <1>4
     DEF Inv, FilesFit, FilesTyped, RejectionsStand, Rejected, Agreed, RoomForRework, NothingYet,
         NoForesight, AcceptedEvidence, Reported
<1>6. PICK d : d = driver'
  OBVIOUS
<1>7. DriverFits(d)'
  BY <1>1, <1>6, FilesAlone, IdleFits
<1>8. QED
  BY <1>5, <1>6, <1>7 DEF Inv

LEMMA KillKeeps ==
  ASSUME Inv, Kill
  PROVE  Inv'
<1>1. /\ Detour /\ driver' = IdleDriver /\ UNCHANGED files /\ stopped' = stopped
      /\ sessions \in [Members -> Session]
  BY DEF Kill, Inv, FilesFit, SessionsTyped
<1>2. /\ sessions' \in [Members -> Session]
      /\ \A m \in Members :
           /\ sessions'[m].count = sessions[m].count
           /\ sessions'[m].outcome \in {sessions[m].outcome, "failed"}
  <2>1. CASE UNCHANGED sessions
    BY <1>1, <2>1
  <2>2. CASE sessions' = [m \in Members |-> IF m \in driver.waits /\ Runs(m)
                                            THEN [sessions[m] EXCEPT !.outcome = "failed"]
                                            ELSE sessions[m]]
    <3>1. \A m \in Members : LET x == [sessions[m] EXCEPT !.outcome = "failed"]
                             IN  x \in Session /\ x.count = sessions[m].count
                                 /\ x.outcome = "failed"
      BY <1>1 DEF Session, Outcomes
    <3>2. QED
      BY <1>1, <2>2, <3>1
  <2>3. QED
    BY <2>1, <2>2 DEF Kill
<1>3. SessionsTyped'
  BY <1>2 DEF Inv, FilesFit, SessionsTyped
<1>4. ticket.status = "awaiting-integration" => NobodyRuns'
  BY <1>2 DEF Inv, FilesFit, NobodyRuns, Runs
<1>5. Quiet'
  BY <1>1, IdleFits DEF Quiet, At
<1>6. Engineer \in Members /\ DriverFits(driver) /\ stopped \in BOOLEAN
  BY DEF Members, Inv, FilesFit, FilesTyped
<1>7. /\ sessions'[Engineer].count = sessions[Engineer].count
      /\ sessions'[Engineer].outcome = "starting" => sessions[Engineer].outcome = "starting"
  BY <1>2, <1>6
<1>8. QED
  BY <1>1, <1>3, <1>4, <1>5, <1>6, <1>7, CallerKeeps

LEMMA SendKeeps ==
  ASSUME Inv, NEW m \in Members, Send(m)
  PROVE  Inv'
<1>1. /\ Detour /\ At("idle") /\ Unfinished /\ sessions[m].count > 0
      /\ sessions' = [sessions EXCEPT ![m].outcome = "running"]
      /\ UNCHANGED <<files, stopped, driver>> /\ sessions \in [Members -> Session]
      /\ SessionsTyped
  BY DEF Send, Inv, FilesFit, SessionsTyped
<1>2. PICK x \in Session : x = [sessions[m] EXCEPT !.outcome = "running"]
  BY <1>1 DEF Session, Outcomes
<1>3. x.count = sessions[m].count /\ x.outcome = "running"
  BY <1>1, <1>2 DEF Session, Outcomes
<1>4. /\ sessions' \in [Members -> Session] /\ sessions'[m] = x
      /\ \A n \in Members \ {m} : sessions'[n] = sessions[n]
  BY <1>1, <1>2
<1>5. SessionsTyped'
  BY <1>1, <1>3, <1>4 DEF SessionsTyped
<1>6. ticket.status # "awaiting-integration"
  BY <1>1 DEF Unfinished
<1>7. Quiet'
  BY <1>1 DEF Quiet, At
<1>8. Engineer \in Members /\ DriverFits(driver) /\ stopped \in BOOLEAN
  BY DEF Members, Inv, FilesFit, FilesTyped
<1>9. /\ sessions'[Engineer].count = sessions[Engineer].count
      /\ sessions'[Engineer].outcome = "starting" => sessions[Engineer].outcome = "starting"
  BY <1>3, <1>4, <1>8
<1>10. QED
  BY <1>1, <1>5, <1>6, <1>7, <1>8, <1>9, CallerKeeps

LEMMA BudgetStopsKeeps ==
  ASSUME Inv, BudgetStops
  PROVE  Inv'
<1>1. Detour /\ stopped' = TRUE /\ UNCHANGED <<files, sessions, driver>>
  BY DEF BudgetStops
<1>2. SessionsTyped' /\ Quiet'
  BY <1>1 DEF Inv, FilesFit, SessionsTyped, Quiet, At, Runs
<1>3. ticket.status = "awaiting-integration" => NobodyRuns'
  BY <1>1 DEF Inv, FilesFit, NobodyRuns, Runs
<1>4. QED
  BY <1>1, <1>2, <1>3, CallerKeeps DEF Inv

\* A fresh driver starts the Leader; a resumed one looks for its place.
LEMMA ResumingFits ==
  LET d == [IdleDriver EXCEPT !.at = "resume", !.resumed = TRUE]
  IN  /\ d \in DriverRecord /\ d.at = "resume" /\ d.waits = {} /\ d.remaining = {}
      /\ ReviewersKnown(d) /\ ReviewersKnown(d)'
<1>1. PICK d : d = [IdleDriver EXCEPT !.at = "resume", !.resumed = TRUE]
  OBVIOUS
<1>2. IdleDriver.waits = {} /\ IdleDriver.remaining = {}
  BY DEF IdleDriver
<1>3. d \in DriverRecord /\ d.at = "resume" /\ d.waits = {} /\ d.remaining = {}
  BY <1>1, <1>2, IdleFits DEF DriverRecord, Places
<1>4. ReviewersKnown(d) /\ ReviewersKnown(d)'
  BY <1>3 DEF ReviewersKnown
<1>5. QED
  BY <1>1, <1>3, <1>4

LEMMA ActivateKeeps ==
  ASSUME Inv, Activate
  PROVE  Inv'
<1>1. At("idle") /\ NobodyRuns
  BY DEF Activate
<1>2. CASE /\ ticket.status = "ready"
           /\ Launch([IdleDriver EXCEPT !.want = "start"], {Leader}, "batch", FALSE)
           /\ registration' = NoBatch /\ UNCHANGED <<ticket, rounds, delivered, head>> /\ Straight
  <2>1. PICK d : d = [IdleDriver EXCEPT !.want = "start"]
    OBVIOUS
  <2>2. d \in DriverRecord /\ d.want = "start" /\ d.remaining = {}
    <3>1. IdleDriver.remaining = {}
      BY DEF IdleDriver
    <3>2. QED
      BY <2>1, <3>1, IdleFits DEF DriverRecord, Wants, EngineerWants
  <2>3. Here.engineer = Absent
    BY <1>2 DEF Inv, FilesFit, FilesTyped, Ticket, EngineerKnown, Here
  <2>4. MemoryFits(d, "batch")
    BY <1>2, <2>2, <2>3, BatchFits DEF ReviewersKnown, Wants, EngineerWants
  <2>5. detours' \in 0..MaxDetours
    BY <1>2, DetourTyped
  <2>6. {Leader} \in SUBSET Members /\ {Leader} # {} /\ Engineer \notin {Leader}
    BY MembersAssumption DEF Members, MembersAssumption
  <2>7. Launch(d, {Leader}, "batch", FALSE) /\ registration' \in Formal \cup {NoBatch}
    BY <1>2, <2>1
  <2>8. QED
    BY <1>1, <1>2, <2>2, <2>4, <2>5, <2>6, <2>7, LaunchKeeps DEF Destinations
<1>3. CASE Unfinished /\ Proceed([IdleDriver EXCEPT !.at = "resume", !.resumed = TRUE])
  <2>1. PICK d : d = [IdleDriver EXCEPT !.at = "resume", !.resumed = TRUE]
    OBVIOUS
  <2>2. d \in DriverRecord /\ d.at = "resume" /\ d.waits = {} /\ ReviewersKnown(d)
    BY <2>1, ResumingFits
  <2>3. ticket.status \notin {"ready", "awaiting-integration"}
    BY <1>3 DEF Unfinished
  <2>4. MemoryFits(d, "resume")
    BY <2>2, <2>3, PlainFits DEF Plain
  <2>5. StatusFits(d)
    BY <2>2, <2>3 DEF StatusFits
  <2>6. DriverFits(d)
    BY <2>2, <2>4, <2>5, ThereFits
  <2>7. QED
    BY <1>1, <1>3, <2>1, <2>6, ProceedKeeps
<1>4. QED
  BY <1>2, <1>3 DEF Activate

LEMMA ContinueKeeps ==
  ASSUME Inv, Continue
  PROVE  Inv'
<1>1. /\ NobodyRuns /\ Unfinished /\ stopped' = FALSE
      /\ ticket' = [ticket EXCEPT !.confirmed = FALSE]
      /\ driver' = [IdleDriver EXCEPT !.at = "resume", !.resumed = TRUE]
      /\ UNCHANGED <<rounds, delivered, registration, head, sessions, detours>>
  BY DEF Continue, Straight
<1>2. /\ ticket \in Ticket /\ ticket' \in Ticket /\ ticket'.round = ticket.round
      /\ ticket'.status = ticket.status
      /\ ticket.status \notin {"ready", "awaiting-integration"}
  BY <1>1 DEF Inv, FilesFit, FilesTyped, Ticket, Unfinished
<1>3. Here' = Here
  BY <1>1, <1>2 DEF Here
<1>4. FilesTyped'
  BY <1>1, <1>2 DEF Inv, FilesFit, FilesTyped
<1>5. FilesFit'
  BY <1>1, <1>2, <1>3, <1>4
     DEF Inv, FilesFit, SessionsTyped, EngineerKnown, RejectionsStand, Rejected, Agreed,
         RoomForRework, NothingYet, NoForesight, AcceptedEvidence
<1>6. PICK d : d = [IdleDriver EXCEPT !.at = "resume", !.resumed = TRUE]
  OBVIOUS
<1>7. d \in DriverRecord /\ d.at = "resume" /\ d.waits = {} /\ ReviewersKnown(d)'
  BY <1>6, ResumingFits
<1>8. MemoryFits(d, d.at)'
  BY <1>2, <1>7, PlainFits DEF Plain
<1>9. StatusFits(d)'
  BY <1>2, <1>7 DEF StatusFits
<1>10. DriverFits(driver)'
  <2>1. DriverFits(d)'
    BY <1>7, <1>8, <1>9, ThereFits
  <2>2. QED
    BY <1>1, <1>6, <2>1
<1>11. Quiet'
  BY <1>1 DEF Quiet, NobodyRuns, Runs
<1>12. QED
  BY <1>5, <1>10, <1>11 DEF Inv

----------------------------------------------------------------------------
(* The invariant *)

LEMMA DriverStepKeeps ==
  ASSUME Inv, DriverStep
  PROVE  Inv'
<1>1. CASE Candidate("candidate", Go(driver, "report"))
  <2>1. At("candidate")
    BY <1>1 DEF Candidate
  <2>2. driver \in DriverRecord /\ driver.waits = {} /\ ReviewersKnown(driver)
    BY <2>1, AtWork, RemainingKnown DEF At
  <2>3. PICK next : next = Go(driver, "report")
    OBVIOUS
  <2>4. next \in DriverRecord /\ next.at = "report" /\ next.waits = {} /\ ReviewersKnown(next)
    BY <2>2, <2>3, GoFields DEF Places, SameMemory, ReviewersKnown
  <2>5. QED
    BY <1>1, <2>3, <2>4, CandidateStepKeeps
<1>2. CASE Candidate("rework-candidate", [IdleDriver EXCEPT !.at = "resume", !.resumed = TRUE])
  <2>1. PICK next : next = [IdleDriver EXCEPT !.at = "resume", !.resumed = TRUE]
    OBVIOUS
  <2>2. next \in DriverRecord /\ next.at = "resume" /\ next.waits = {} /\ ReviewersKnown(next)
    BY <2>1, ResumingFits
  <2>3. QED
    BY <1>2, <2>1, <2>2, CandidateStepKeeps
<1>3. Deliver => Inv'
  BY <1>1, <1>2, StartTeamKeeps, RunEngineerKeeps, EngineerDoneKeeps, ReportCandidateKeeps,
     NoRegistrationKeeps, TakeBatchKeeps, TakenTooLateKeeps, TakenEngineerKeeps,
     TakenReviewersKeeps, RefusedKeeps, CollectKeeps, CollectedKeeps, ReviewedKeeps, FinalKeeps,
     ReworkKeeps, DispatchKeeps DEF Deliver
<1>4. Recovery => Inv'
  BY ResumeKeeps, ResumedCandidateKeeps, ScanKeeps, ScannedKeeps, ContinuedKeeps, FinishKeeps
     DEF Recovery
<1>5. Correct => Inv'
  BY CorrectionKeeps, UnlinkKeeps, RedoKeeps, RedoneEngineerKeeps, CorrectedKeeps,
     RedoneReviewerKeeps DEF Correct
<1>6. QED
  BY <1>3, <1>4, <1>5, WrapUpKeeps DEF DriverStep

LEMMA StutterKeeps ==
  ASSUME Inv, UNCHANGED vars
  PROVE  Inv'
<1>1. UNCHANGED <<ticket, rounds, delivered, registration, head, sessions, stopped, driver,
                  detours>>
  BY DEF vars, files
<1>2. FilesFit'
  BY <1>1 DEF Inv, FilesFit, FilesTyped, SessionsTyped, EngineerKnown, RejectionsStand, Rejected,
              Agreed, RoomForRework, NothingYet, NoForesight, Here, AcceptedEvidence, Reported,
              NobodyRuns, Runs
<1>3. PICK d : d = driver
  OBVIOUS
<1>4. DriverFits(d)'
  BY <1>1, <1>3, FilesAlone DEF Inv
<1>5. Quiet'
  BY <1>1 DEF Inv, Quiet, Runs, At
<1>6. QED
  BY <1>1, <1>2, <1>3, <1>4, <1>5 DEF Inv

LEMMA StepKeeps ==
  ASSUME Inv, [Next]_vars
  PROVE  Inv'
BY DriverStepKeeps, CompletesKeeps, MemberFailsKeeps, SendKeeps, ActivateKeeps, ContinueKeeps,
   BudgetStopsKeeps, KillKeeps, StutterKeeps DEF Next, AgentStep

LEMMA InitiallyFits ==
  ASSUME Init
  PROVE  Inv
<1> USE DEF Absent
<1>1. /\ ticket = [status |-> "ready", candidate |-> Absent, round |-> 1, seats |-> {},
                   confirmed |-> FALSE]
      /\ rounds = [r \in 1..MaxRound |-> EmptyRound]
      /\ delivered = [a \in Axes |-> Absent]
      /\ registration = NoBatch /\ head = 1
      /\ sessions = [m \in Members |-> [count |-> 0, outcome |-> "completed"]]
      /\ stopped = FALSE /\ driver = IdleDriver /\ detours = 0
  BY DEF Init
<1>2. 1 \in 1..MaxRound /\ 1 \in Commits /\ MaxDetours \in Nat /\ 0 \in Reports
  BY BoundsAssumption DEF BoundsAssumption, Commits, Reports, Foreign
<1>3. EmptyRound \in RoundRecord
  BY <1>2 DEF EmptyRound, RoundRecord, NoJudgment, Members
<1>4. /\ EmptyRound.engineer = Absent /\ EmptyRound.leader.decision = "none"
      /\ EmptyRound.review = [a \in Axes |-> Absent]
  BY DEF EmptyRound, NoJudgment
<1>5. Here = EmptyRound
  BY <1>1, <1>2 DEF Here
<1>6. FilesTyped
  <2>1. ticket \in Ticket
    BY <1>1, <1>2 DEF Ticket
  <2>2. rounds \in [1..MaxRound -> RoundRecord] /\ delivered \in [Axes -> Reports]
    BY <1>1, <1>2, <1>3
  <2>3. detours \in 0..MaxDetours
    BY <1>1, <1>2
  <2>4. QED
    BY <1>1, <1>2, <2>1, <2>2, <2>3 DEF FilesTyped
<1>7. \A m \in Members : sessions[m].count = 0 /\ sessions[m].outcome = "completed"
  BY <1>1
<1>8. sessions \in [Members -> Session]
  BY <1>1 DEF Session, Outcomes
<1>9. SessionsTyped
  BY <1>7, <1>8 DEF SessionsTyped
<1>10. EngineerKnown
  BY <1>1, <1>4, <1>7 DEF EngineerKnown, Members
<1>11. RejectionsStand /\ RoomForRework /\ NothingYet /\ AcceptedEvidence
  BY <1>1, <1>4 DEF RejectionsStand, RoomForRework, NothingYet, AcceptedEvidence
<1>12. NoForesight
  BY <1>1, <1>2, <1>4, <1>5 DEF NoForesight, UpTo
<1>13. NobodyRuns
  BY <1>7 DEF NobodyRuns, Runs
<1>14. DriverFits(driver) /\ Quiet
  BY <1>1, <1>13, IdleFits DEF Quiet, NobodyRuns
<1>15. QED
  BY <1>6, <1>9, <1>10, <1>11, <1>12, <1>13, <1>14 DEF Inv, FilesFit

\* Every state of the Team fits: the files, the Sessions and what the driver
\* remembers of them at each of its places (team_round.py).
THEOREM Invariant == Spec => []Inv
<1>1. Init => Inv
  BY InitiallyFits
<1>2. Inv /\ [Next]_vars => Inv'
  BY StepKeeps
<1>3. QED
  BY <1>1, <1>2, PTL DEF Spec

\* The state of the Team is well typed, in every Round and at every place of its
\* driver (team_round.py, delivery_state.py).
THEOREM TypeCorrect == Spec => []TypeOK
<1>1. Inv => TypeOK
  <2> SUFFICES ASSUME Inv PROVE TypeOK
    OBVIOUS
  <2>1. FilesTyped /\ sessions \in [Members -> Session] /\ driver \in DriverRecord
    BY DEF Inv, FilesFit, SessionsTyped, DriverFits
  <2>2. registration = {Engineer} \/ registration \subseteq Axes
    BY <2>1 DEF FilesTyped, Formal, NoBatch
  <2>3. /\ driver.waits \in SUBSET Members /\ driver.todo \in SUBSET Members
        /\ driver.known \in SUBSET Axes /\ driver.remaining \in SUBSET Axes
    BY <2>1 DEF DriverRecord
  <2>4. QED
    BY <2>1, <2>2, <2>3 DEF TypeOK, FilesTyped, Ticket, Session, Outcomes
<1>2. QED
  BY <1>1, Invariant, PTL

\* An accepted Ticket rests on evidence about the commit it will integrate,
\* wherever a driver was interrupted on its way (_validate_round, and the stale
\* copies a resumed driver removes).
THEOREM AcceptanceIsEvident == Spec => []AcceptedEvidence
<1>1. Inv => AcceptedEvidence
  BY DEF Inv, FilesFit
<1>2. QED
  BY <1>1, Invariant, PTL

\* A rejected Round has the Reviews of all axes on the rejected commit, and keeps
\* them in every later Round (_validate_implementation_rejection).
THEOREM RejectionIsReviewed == Spec => []ReworkIsReviewed
<1>1. Inv => ReworkIsReviewed
  BY DEF Inv, FilesFit, RejectionsStand, Rejected, ReworkIsReviewed
<1>2. QED
  BY <1>1, Invariant, PTL

----------------------------------------------------------------------------
(* No member repeats what the Round has *)

\* What the property says of one step.
NoneRepeated ==
  \A m \in Members :
     (Starts(m) /\ driver'.at = "waiting" /\ ~driver'.frugal)
     => IF m \in Axes THEN ~HasReview(m) ELSE (m = Engineer => ~HasCandidate)

\* A member that has not reported in the Round.
Fresh(m) == (m \in Axes => m \notin Reported) /\ (m = Engineer => ~HasCandidate)

LEMMA SessionsStay ==
  ASSUME UNCHANGED sessions
  PROVE  NoneRepeated
BY DEF NoneRepeated, Starts, Runs

LEMMA RequestSessions ==
  ASSUME NEW allowed, NEW written, NEW d, Request(allowed, written, d)
  PROVE  UNCHANGED sessions
BY DEF Request, Raise, Proceed

\* Only the members that are started start, a Reviewer without a delivered report.
LEMMA LaunchStarts ==
  ASSUME Inv, NobodyRuns, NEW d \in DriverRecord, NEW ms \in SUBSET Members, ms # {},
         NEW place \in Destinations, NEW frugal \in BOOLEAN,
         Launch(d, ms, place, frugal), frugal \/ \A m \in ms : Fresh(m)
  PROVE  NoneRepeated
<1> SUFFICES ASSUME NEW m \in Members, Starts(m), driver'.at = "waiting", ~driver'.frugal
             PROVE  IF m \in Axes THEN ~HasReview(m) ELSE (m = Engineer => ~HasCandidate)
  BY DEF NoneRepeated
<1>1. Launches(d, ms, place, frugal)
  BY LaunchDriver
<1>2. m \in ms /\ Startable(m) /\ ~frugal
  BY <1>1 DEF Launches, Starts, Runs
<1>3. Fresh(m)
  BY <1>2
<1>4. ASSUME m \in Axes
      PROVE  ~HasReview(m)
  <2>1. Here.review[m] = Absent /\ delivered[m] = Absent
    BY <1>2, <1>3, <1>4 DEF Fresh, Reported, Startable
  <2>2. head # Absent
    BY DEF Inv, FilesFit, FilesTyped, Commits, Absent
  <2>3. QED
    BY <2>1, <2>2 DEF HasReview
<1>5. QED
  BY <1>3, <1>4 DEF Fresh

LEMMA RunStarts ==
  ASSUME Inv, driver.at \notin {"idle", "waiting"}, NEW d \in DriverRecord,
         NEW ms \in SUBSET Members, ms # {}, NEW place \in Destinations, NEW frugal \in BOOLEAN,
         RunWith(d, ms, place, frugal), frugal \/ \A m \in ms : Fresh(m)
  PROVE  NoneRepeated
BY AtWork, LaunchStarts DEF RunWith

LEMMA LeaderFresh == Fresh(Leader)
BY MembersAssumption DEF Fresh, MembersAssumption

\* The Leader reports nothing that another run of it would repeat.
LEMMA LeaderStarts ==
  ASSUME Inv, driver.at \notin {"idle", "waiting"}, NEW d \in DriverRecord,
         NEW place \in Destinations, NEW frugal \in BOOLEAN, RunWith(d, {Leader}, place, frugal)
  PROVE  NoneRepeated
<1>1. {Leader} \in SUBSET Members /\ {Leader} # {}
  BY DEF Members
<1>2. QED
  BY <1>1, LeaderFresh, RunStarts

LEMMA RecoverStarts ==
  ASSUME Inv, NEW m \in Members, NEW place \in Destinations,
         driver.at \notin {"idle", "waiting"}, Recover(m, place), Fresh(m)
  PROVE  NoneRepeated
<1>1. CASE Raise
  BY <1>1, SessionsStay DEF Raise, Proceed
<1>2. CASE Run([driver EXCEPT !.retried = TRUE], {m}, place)
  <2>1. PICK d : d = [driver EXCEPT !.retried = TRUE]
    OBVIOUS
  <2>2. d \in DriverRecord
    BY <2>1, AtWork DEF DriverRecord
  <2>3. RunWith(d, {m}, place, FALSE)
    BY <1>2, <2>1 DEF Run
  <2>4. QED
    BY <2>2, <2>3, RunStarts
<1>3. QED
  BY <1>1, <1>2 DEF Recover

\* HEAD is a commit, so an Engineer that has reported nothing has no candidate.
LEMMA NoReportNoCandidate ==
  ASSUME Inv, Here.engineer = Absent
  PROVE  Fresh(Engineer)
<1>1. head # Absent
  BY DEF Inv, FilesFit, FilesTyped, Commits, Absent
<1>2. QED
  BY <1>1, MembersAssumption DEF Fresh, HasCandidate, MembersAssumption

LEMMA EngineerRunStarts ==
  ASSUME Inv, driver.at \notin {"idle", "waiting"}, NEW d \in DriverRecord,
         NEW place \in Destinations, Run(d, {Engineer}, place), Fresh(Engineer)
  PROVE  NoneRepeated
BY RunStarts DEF Run, Members

LEMMA DispatchStarts ==
  ASSUME Inv, driver.at \in {"batch", "taken"}, RecoverDispatch
  PROVE  NoneRepeated
<1>1. CASE Raise
  BY <1>1, SessionsStay DEF Raise, Proceed
<1>2. CASE Run([driver EXCEPT !.recovered = TRUE, !.todo = {}], {Leader}, "batch")
  <2>1. PICK d : d = [driver EXCEPT !.recovered = TRUE, !.todo = {}]
    OBVIOUS
  <2>2. d \in DriverRecord
    BY <2>1, AtWork DEF DriverRecord
  <2>3. RunWith(d, {Leader}, "batch", FALSE)
    BY <1>2, <2>1 DEF Run
  <2>4. QED
    BY <2>2, <2>3, LeaderStarts DEF Destinations
<1>3. QED
  BY <1>1, <1>2 DEF RecoverDispatch

LEMMA TakenEngineerStarts ==
  ASSUME Inv, TakenEngineer
  PROVE  NoneRepeated
<1>1. driver.at = "taken" /\ driver.want \in EngineerWants
  BY DEF TakenEngineer, At, EngineerWants
<1>2. driver \in DriverRecord /\ MemoryFits(driver, "taken")
  BY <1>1, AtWork
<1>3. PICK d : d = [driver EXCEPT !.todo = {}]
  OBVIOUS
<1>4. d \in DriverRecord
  BY <1>2, <1>3 DEF DriverRecord
<1>5. \/ Raise
      \/ Proceed(Go(d, "start"))
      \/ \E place \in {"engineer-done", "rework-candidate", "resumed-candidate"} :
            Run(d, {Engineer}, place)
  BY <1>3 DEF TakenEngineer
<1>6. Fresh(Engineer)
  <2>1. Here.engineer = Absent
    BY <1>1, <1>2 DEF MemoryFits, EngineerFits
  <2>2. QED
    BY <2>1, NoReportNoCandidate
<1>7. CASE Raise \/ Proceed(Go(d, "start"))
  BY <1>7, SessionsStay DEF Raise, Proceed
<1>8. CASE \E place \in {"engineer-done", "rework-candidate", "resumed-candidate"} :
             Run(d, {Engineer}, place)
  BY <1>1, <1>4, <1>6, <1>8, EngineerRunStarts DEF Destinations
<1>9. QED
  BY <1>5, <1>7, <1>8

\* A Batch names only axes that have not reported in this Round.
LEMMA TakenReviewersStarts ==
  ASSUME Inv, TakenReviewers
  PROVE  NoneRepeated
<1>1. driver.at = "taken"
  BY DEF TakenReviewers, At
<1>2. driver \in DriverRecord /\ MemoryFits(driver, "taken") /\ ReviewersKnown(driver)
  BY <1>1, AtWork, RemainingKnown
<1>3. PICK d : d = [driver EXCEPT !.todo = {}]
  OBVIOUS
<1>4. PICK b : b = [NextBatch(d, "review") EXCEPT !.rejected = TRUE]
  OBVIOUS
<1>5. d \in DriverRecord /\ b \in DriverRecord
  <2>1. d \in DriverRecord
    BY <1>2, <1>3 DEF DriverRecord
  <2>2. NextBatch(d, "review") \in DriverRecord
    BY <2>1, NextBatchFields DEF Wants
  <2>3. QED
    BY <1>4, <2>1, <2>2 DEF DriverRecord
<1>6. \/ driver.todo \subseteq Left /\ Run(driver, driver.todo, "collect")
      \/ UNCHANGED sessions
      \/ RunWith(d, {Leader}, "refused", FALSE)
      \/ Run(b, {Leader}, "batch")
  BY <1>3, <1>4 DEF TakenReviewers, Raise, Proceed
<1>7. ASSUME driver.todo \subseteq Left, Run(driver, driver.todo, "collect")
      PROVE  NoneRepeated
  <2>1. Left \subseteq Axes \ Reported
    BY <1>2 DEF Left, ReviewersKnown, DriverRecord
  <2>2. \A m \in driver.todo : Fresh(m)
    BY <1>7, <2>1, MembersAssumption DEF Fresh, MembersAssumption
  <2>3. driver.todo \in SUBSET Members /\ driver.todo # {}
    BY <1>2, FormalNonempty DEF MemoryFits, TodoFits
  <2>4. QED
    BY <1>1, <1>2, <1>7, <2>2, <2>3, RunStarts DEF Run, Destinations
<1>8. RunWith(d, {Leader}, "refused", FALSE) => NoneRepeated
  BY <1>1, <1>5, LeaderStarts DEF Destinations
<1>9. Run(b, {Leader}, "batch") => NoneRepeated
  BY <1>1, <1>5, LeaderStarts DEF Destinations, Run
<1>10. QED
  BY <1>6, <1>7, <1>8, <1>9, SessionsStay

LEMMA CandidateStarts ==
  ASSUME Inv, NEW place \in {"candidate", "rework-candidate"}, NEW next, Candidate(place, next)
  PROVE  NoneRepeated
<1>1. driver.at = place
  BY DEF Candidate, At
<1>2. CASE CandidateRequest(next)
  BY <1>2, RequestSessions, SessionsStay DEF CandidateRequest
<1>3. CASE ~HasCandidate /\ Recover(Engineer, place)
  <2>1. Fresh(Engineer)
    BY <1>3, MembersAssumption DEF Fresh, MembersAssumption
  <2>2. QED
    BY <1>1, <1>3, <2>1, RecoverStarts DEF Destinations, Members
<1>4. QED
  BY <1>2, <1>3 DEF Candidate

LEMMA ReportCandidateStarts ==
  ASSUME Inv, ReportCandidate
  PROVE  NoneRepeated
<1>1. driver.at = "report"
  BY DEF ReportCandidate, At
<1>2. PICK b : b = NextBatch(driver, "review")
  OBVIOUS
<1>3. PICK d : d = [b EXCEPT !.known = {}, !.rejected = FALSE, !.remaining = Axes \ ReviewedAxes]
  OBVIOUS
<1>4. b \in DriverRecord
  BY <1>1, <1>2, AtWork, NextBatchFields DEF Wants
<1>5. d \in DriverRecord
  BY <1>3, <1>4 DEF DriverRecord
<1>6. RunWith(d, {Leader}, "batch", FALSE)
  BY <1>2, <1>3 DEF ReportCandidate, Run
<1>7. QED
  BY <1>1, <1>5, <1>6, LeaderStarts DEF Destinations

LEMMA CollectStarts ==
  ASSUME Inv, Collect
  PROVE  NoneRepeated
<1>1. driver.at = "collect"
  BY DEF Collect, At
<1>2. /\ driver.todo \subseteq Axes /\ driver.todo # {} /\ driver.todo \cap Reported = {}
  BY <1>1, AtWork DEF MemoryFits, TodoFits, ReviewersFit
<1>3. PICK a \in Axes : a = Turn /\ Fresh(a)
  BY <1>2, TurnMember, MembersAssumption DEF Fresh, MembersAssumption
<1>4. \/ UNCHANGED sessions
      \/ Recover(a, "collect")
  BY <1>3 DEF Collect, Raise, Proceed, CollectReport
<1>5. QED
  BY <1>1, <1>3, <1>4, SessionsStay, RecoverStarts DEF Destinations, Members

LEMMA ReviewedStarts ==
  ASSUME Inv, Reviewed
  PROVE  NoneRepeated
<1>1. driver.at = "reviewed"
  BY DEF Reviewed, At
<1>2. PICK b : b = NextBatch(driver, driver.want)
  OBVIOUS
<1>3. driver \in DriverRecord /\ b \in DriverRecord
  BY <1>1, <1>2, AtWork, NextBatchFields DEF DriverRecord
<1>4. \/ RunWith(driver, {Leader}, "idle", TRUE)
      \/ RunWith(driver, {Leader}, "finish", FALSE)
      \/ RunWith(b, {Leader}, "batch", FALSE)
  BY <1>2 DEF Reviewed, Run
<1>5. QED
  BY <1>1, <1>3, <1>4, LeaderStarts DEF Destinations

LEMMA FinalStarts ==
  ASSUME Inv, Final
  PROVE  NoneRepeated
<1>1. driver.at = "validate"
  BY DEF Final, At
<1>2. \/ UNCHANGED sessions
      \/ Recover(Leader, "validate")
  BY DEF Final, Request, Raise, Proceed
<1>3. QED
  BY <1>1, <1>2, SessionsStay, LeaderFresh, RecoverStarts DEF Destinations, Members

LEMMA DispatchRunStarts ==
  ASSUME Inv, Dispatch
  PROVE  NoneRepeated
<1>1. driver.at = "dispatch"
  BY DEF Dispatch, At
<1>2. PICK want \in Wants : want = IF driver.resumed THEN "resumed-rework" ELSE "rework"
  BY DEF Wants, EngineerWants
<1>3. PICK b : b = NextBatch(driver, want)
  OBVIOUS
<1>4. b \in DriverRecord
  BY <1>1, <1>3, AtWork, NextBatchFields
<1>5. RunWith(b, {Leader}, "batch", FALSE)
  BY <1>2, <1>3 DEF Dispatch, Run
<1>6. QED
  BY <1>1, <1>4, <1>5, LeaderStarts DEF Destinations

LEMMA ResumedCandidateStarts ==
  ASSUME Inv, ResumedCandidate
  PROVE  NoneRepeated
<1>1. driver.at = "resumed-candidate"
  BY DEF ResumedCandidate, At
<1>2. \/ UNCHANGED sessions
      \/ ~HasCandidate /\ Recover(Engineer, "resumed-candidate")
  <2>1. CASE ~HasCandidate /\ sessions[Engineer].outcome # "completed"
    BY <2>1 DEF ResumedCandidate, Raise, Proceed
  <2>2. CASE ~HasCandidate /\ sessions[Engineer].outcome = "completed"
    BY <2>2 DEF ResumedCandidate
  <2>3. CASE HasCandidate /\ Engineer \notin ticket.seats
    BY <2>3, RequestSessions DEF ResumedCandidate, MemberRequest
  <2>4. CASE HasCandidate /\ Engineer \in ticket.seats
    BY <2>4, RequestSessions DEF ResumedCandidate, CandidateRequest, Proceed
  <2>5. QED
    BY <2>1, <2>2, <2>3, <2>4
<1>3. ~HasCandidate => Fresh(Engineer)
  BY MembersAssumption DEF Fresh, MembersAssumption
<1>4. QED
  BY <1>1, <1>2, <1>3, SessionsStay, RecoverStarts DEF Destinations, Members

LEMMA ContinuedStarts ==
  ASSUME Inv, Continued
  PROVE  NoneRepeated
<1>1. driver.at = "scanned"
  BY DEF Continued, At
<1>2. PICK d : d = [NextBatch(driver, "resumed-review") EXCEPT !.remaining = Left]
  OBVIOUS
<1>3. driver \in DriverRecord /\ d \in DriverRecord
  <2>1. driver \in DriverRecord /\ NextBatch(driver, "resumed-review") \in DriverRecord
    BY <1>1, AtWork, NextBatchFields DEF Wants
  <2>2. QED
    BY <1>2, <2>1 DEF DriverRecord, Left
<1>4. \/ UNCHANGED sessions
      \/ RunWith(d, {Leader}, "batch", FALSE)
      \/ RunWith(driver, {Leader}, "finish", FALSE)
  <2>1. CASE Left # {} /\ registration = NoBatch
    BY <1>2, <2>1 DEF Continued, Run
  <2>2. CASE Left # {} /\ registration # NoBatch
    BY <2>2 DEF Continued, Proceed
  <2>3. CASE Left = {} /\ driver.results
    BY <2>3 DEF Continued, Run
  <2>4. CASE Left = {} /\ ~driver.results
    BY <2>4 DEF Continued, Proceed
  <2>5. QED
    BY <2>1, <2>2, <2>3, <2>4
<1>5. QED
  BY <1>1, <1>3, <1>4, SessionsStay, LeaderStarts DEF Destinations

\* A correction runs a member again only after its report is gone.
LEMMA RedoStarts ==
  ASSUME Inv, Redo
  PROVE  NoneRepeated
<1>1. driver.at = "redo"
  BY DEF Redo, At
<1>2. driver \in DriverRecord /\ MemoryFits(driver, "redo")
  BY <1>1, AtWork
<1>3. CASE driver.todo = {}
  <2>1. PICK d : d = [driver EXCEPT !.back = "none"]
    OBVIOUS
  <2>2. d \in DriverRecord /\ driver.back \in Destinations
    BY <1>2, <2>1 DEF DriverRecord, Backs, Destinations, MemoryFits, CorrectionFits
  <2>3. RunWith(d, {Leader}, driver.back, FALSE)
    BY <1>3, <2>1 DEF Redo, Run
  <2>4. QED
    BY <1>1, <2>2, <2>3, LeaderStarts
<1>4. CASE driver.todo # {}
  <2>1. PICK m \in Members : m = Turn /\ m \in driver.todo
    BY <1>2, <1>4, TurnMember DEF DriverRecord
  <2>2. Fresh(m)
    <3>1. m = Engineer => Here.engineer = Absent
      BY <1>2, <2>1 DEF MemoryFits, CorrectionFits
    <3>2. m # Engineer => Fresh(m)
      BY <1>2, <2>1 DEF MemoryFits, CorrectionFits, Fresh
    <3>3. QED
      BY <3>1, <3>2, NoReportNoCandidate
  <2>3. RunWith(driver, {m}, "redone", FALSE)
    BY <1>4, <2>1 DEF Redo, Run
  <2>4. {m} \in SUBSET Members /\ {m} # {} /\ \A n \in {m} : Fresh(n)
    BY <2>2
  <2>5. "redone" \in Destinations
    BY DEF Destinations
  <2>6. QED
    BY <1>1, <1>2, <2>3, <2>4, <2>5, RunStarts
<1>5. QED
  BY <1>3, <1>4

LEMMA RedoneStarts ==
  ASSUME Inv, RedoneEngineer \/ RedoneReviewer
  PROVE  NoneRepeated
<1>1. driver.at = "redone"
  BY DEF RedoneEngineer, RedoneReviewer, At
<1>2. /\ MemoryFits(driver, "redone") /\ driver.todo # {} /\ driver.todo \cap Reported = {}
  BY <1>1, AtWork DEF MemoryFits, TodoFits, CorrectionFits
<1>3. CASE RedoneEngineer
  <2>1. \/ UNCHANGED sessions
        \/ ~HasCandidate /\ Recover(Engineer, "redone")
    BY <1>3 DEF RedoneEngineer
  <2>2. ~HasCandidate => Fresh(Engineer)
    BY MembersAssumption DEF Fresh, MembersAssumption
  <2>3. QED
    BY <1>1, <2>1, <2>2, SessionsStay, RecoverStarts DEF Destinations, Members
<1>4. CASE RedoneReviewer
  <2>1. PICK a \in Axes : a = Turn /\ Fresh(a)
    BY <1>2, <1>4, TurnMember, MembersAssumption DEF RedoneReviewer, Fresh, MembersAssumption
  <2>2. \/ UNCHANGED sessions
        \/ Recover(a, "redone")
    BY <1>4, <2>1 DEF RedoneReviewer, CollectReport
  <2>3. QED
    BY <1>1, <2>1, <2>2, SessionsStay, RecoverStarts DEF Destinations, Members
<1>5. QED
  BY <1>3, <1>4

LEMMA WrapUpStarts ==
  ASSUME Inv, WrapUp
  PROVE  NoneRepeated
<1>1. driver.at \in {"wrap-up", "wrap-up-leader"}
  BY DEF WrapUp, At
<1>2. driver \in DriverRecord
  BY <1>1, AtWork
<1>3. \/ UNCHANGED sessions
      \/ RunWith(driver, {Engineer}, "wrap-up-leader", TRUE)
      \/ RunWith(driver, {Leader}, "idle", TRUE)
  BY DEF WrapUp, Raise, Proceed
<1>4. QED
  BY <1>1, <1>2, <1>3, SessionsStay, RunStarts DEF Destinations, Members

\* What a scan does to the files: it removes stale copies, or collects a report.
Removes(a) ==
  /\ rounds' = IF Stale(Here.review[a])
               THEN [rounds EXCEPT ![ticket.round].review[a] = Absent] ELSE rounds
  /\ delivered' = IF Stale(delivered[a]) THEN [delivered EXCEPT ![a] = Absent] ELSE delivered
  /\ UNCHANGED <<ticket, head>>

Collects(a) ==
  /\ Collectable(a)
  /\ rounds' = [rounds EXCEPT ![ticket.round].review[a] = delivered[a]]
  /\ delivered' = [delivered EXCEPT ![a] = Absent]
  /\ UNCHANGED <<ticket, head>>

LEMMA ScanEffect ==
  ASSUME Inv, Scan
  PROVE  /\ UNCHANGED sessions
         /\ \/ UNCHANGED <<rounds, delivered>>
            \/ \E a \in Axes : Removes(a) \/ Collects(a)
<1>1. driver.at = "scan" /\ driver.todo # {}
  BY DEF Scan, At
<1>2. driver.todo \subseteq Axes
  BY <1>1, AtWork DEF MemoryFits, TodoFits
<1>3. PICK a \in Axes : a = Turn
  BY <1>1, <1>2, TurnMember
<1>4. /\ Stale(Here.review[a]) <=> Here.review[a] # Absent /\ Here.review[a] # head
      /\ Stale(delivered[a]) <=> delivered[a] # Absent /\ delivered[a] # head
      /\ a \in Reported <=> Here.review[a] # Absent
      /\ head # Absent
  BY DEF Stale, Reported, Inv, FilesFit, FilesTyped, Commits, Absent
<1>5. CASE ~Found(a)
  BY <1>3, <1>5 DEF Scan, Raise, Proceed, files
<1>6. CASE Found(a) /\ (Stale(Here.review[a]) \/ Stale(delivered[a]))
  <2>1. Removes(a) /\ UNCHANGED sessions
    BY <1>3, <1>4, <1>6 DEF Scan, Removes
  <2>2. QED
    BY <2>1
<1>7. CASE Found(a) /\ Here.review[a] = Absent /\ delivered[a] = Absent
  <2>1. \/ \E d : Proceed(d)
    BY <1>3, <1>4, <1>7 DEF Scan
  <2>2. QED
    BY <2>1 DEF Proceed, files
<1>8. CASE Found(a) /\ Here.review[a] = Absent /\ delivered[a] = head
  <2>1. PICK d : CollectReport(a, d)
    BY <1>3, <1>4, <1>8 DEF Scan
  <2>2. Collects(a) /\ UNCHANGED sessions
    BY <1>4, <1>8, <2>1 DEF CollectReport, Collects, Collectable
  <2>3. QED
    BY <2>2
<1>9. CASE Found(a) /\ Here.review[a] = head /\ ~Stale(delivered[a])
  <2>1. \E d : Proceed(d) \/ MemberRequest(a, d)
    BY <1>3, <1>4, <1>9 DEF Scan
  <2>2. QED
    BY <2>1 DEF MemberRequest, Request, Raise, Proceed, files
<1>10. QED
  BY <1>4, <1>5, <1>6, <1>7, <1>8, <1>9

\* The driver's other steps start nobody.
LEMMA DriverStarts ==
  ASSUME Inv, DriverStep
  PROVE  NoneRepeated
<1>1. CASE RunEngineer
  <2>1. driver.at = "run-engineer"
    BY <1>1 DEF RunEngineer, At
  <2>2. driver \in DriverRecord /\ Here.engineer = Absent
    BY <2>1, AtWork DEF MemoryFits, EngineerFits
  <2>3. QED
    BY <1>1, <2>1, <2>2, NoReportNoCandidate, EngineerRunStarts DEF RunEngineer, Destinations
<1>2. CASE NoRegistration
  <2>1. driver.at = "batch"
    BY <1>2 DEF NoRegistration, At
  <2>2. RecoverDispatch \/ UNCHANGED sessions
    <3>1. CASE driver.want \in {"review", "resumed-final"}
      BY <1>2, <3>1 DEF NoRegistration, Proceed
    <3>2. CASE driver.want = "resumed-review" /\ Left = {}
      BY <1>2, <3>2 DEF NoRegistration, Proceed
    <3>3. CASE /\ driver.want \notin {"review", "resumed-final"}
               /\ ~(driver.want = "resumed-review" /\ Left = {})
      BY <1>2, <3>3 DEF NoRegistration
    <3>4. QED
      BY <3>1, <3>2, <3>3
  <2>3. QED
    BY <2>1, <2>2, DispatchStarts, SessionsStay
<1>3. CASE TakenTooLate
  BY <1>3, DispatchStarts DEF TakenTooLate, At
<1>4. CASE StartTeam \/ EngineerDone \/ Collected \/ Rework \/ Correction \/ Corrected
  <2>1. UNCHANGED sessions
    BY <1>4, RequestSessions
       DEF StartTeam, EngineerDone, Collected, Rework, Correction, Corrected, MemberRequest,
           ReworkRequest, CandidateRequest, Proceed
  <2>2. QED
    BY <2>1, SessionsStay
<1>5. CASE TakeBatch \/ Refused \/ Scanned \/ Finish \/ Unlink
  BY <1>5, SessionsStay DEF TakeBatch, Refused, Scanned, Finish, Unlink, Raise, Proceed
<1>6. CASE Resume
  <2>1. UNCHANGED sessions
    <3>1. CASE ~Unfinished
      BY <1>6, <3>1 DEF Resume, Raise, Proceed
    <3>2. CASE Unfinished /\ sessions[Engineer].count = 0
      BY <1>6, <3>2 DEF Resume, Raise, Proceed
    <3>3. CASE Unfinished /\ sessions[Engineer].count > 0
      BY <1>6, <3>3 DEF Resume, Raise, Proceed
    <3>4. sessions[Engineer].count \in 0..2
      BY DEF Inv, FilesFit, SessionsTyped, Session, Members
    <3>5. QED
      BY <3>1, <3>2, <3>3, <3>4
  <2>2. QED
    BY <2>1, SessionsStay
<1>7. CASE Scan
  <2>1. UNCHANGED sessions
    BY <1>7, ScanEffect
  <2>2. QED
    BY <2>1, SessionsStay
<1>8. CASE \/ Candidate("candidate", Go(driver, "report"))
           \/ Candidate("rework-candidate", [IdleDriver EXCEPT !.at = "resume", !.resumed = TRUE])
  BY <1>8, CandidateStarts
<1>9. Deliver => NoneRepeated
  BY <1>1, <1>2, <1>3, <1>4, <1>5, <1>8, ReportCandidateStarts, TakenEngineerStarts,
     TakenReviewersStarts, CollectStarts, ReviewedStarts, FinalStarts, DispatchRunStarts DEF Deliver
<1>10. Recovery => NoneRepeated
  BY <1>5, <1>6, <1>7, ResumedCandidateStarts, ContinuedStarts DEF Recovery
<1>11. Correct => NoneRepeated
  BY <1>4, <1>5, RedoStarts, RedoneStarts DEF Correct
<1>12. QED
  BY <1>9, <1>10, <1>11, WrapUpStarts DEF DriverStep

LEMMA NobodyRepeats ==
  ASSUME Inv, [Next]_vars
  PROVE  NoneRepeated
<1>1. ASSUME NEW m \in Members, Completes(m) \/ MemberFails(m)
      PROVE  NoneRepeated
  <2>1. sessions \in [Members -> Session]
    BY DEF Inv, FilesFit, SessionsTyped
  <2>2. PICK x : sessions' = [sessions EXCEPT ![m] = x] /\ x.outcome \in {"completed", "failed"}
    <3>1. CASE Completes(m)
      <4>1. sessions[m] \in Session
        BY <2>1
      <4>2. [sessions[m] EXCEPT !.outcome = "completed"].outcome = "completed"
        BY <4>1 DEF Session
      <4>3. QED
        BY <3>1, <4>2 DEF Completes
    <3>2. CASE MemberFails(m)
      <4>1. PICK count : sessions' = [sessions EXCEPT ![m] = [count |-> count, outcome |-> "failed"]]
        BY <3>2 DEF MemberFails, Fails
      <4>2. [count |-> count, outcome |-> "failed"].outcome = "failed"
        OBVIOUS
      <4>3. QED
        BY <4>1, <4>2
    <3>3. QED
      BY <1>1, <3>1, <3>2
  <2>3. \A n \in Members : Runs(n)' => Runs(n)
    BY <2>1, <2>2 DEF Runs
  <2>4. QED
    BY <2>3 DEF NoneRepeated, Starts
<1>2. CASE (\E m \in Members : Send(m)) \/ Kill
  <2>1. driver'.at = "idle"
    BY <1>2, IdleFits DEF Send, Kill, At
  <2>2. QED
    BY <2>1 DEF NoneRepeated
<1>3. CASE Activate
  <2>1. CASE Launch([IdleDriver EXCEPT !.want = "start"], {Leader}, "batch", FALSE)
    <3>1. PICK d : d = [IdleDriver EXCEPT !.want = "start"]
      OBVIOUS
    <3>2. d \in DriverRecord
      BY <3>1, IdleFits DEF DriverRecord, Wants, EngineerWants
    <3>3. {Leader} \in SUBSET Members /\ {Leader} # {} /\ \A m \in {Leader} : Fresh(m)
      BY LeaderFresh DEF Members
    <3>4. NobodyRuns
      BY <1>3 DEF Activate
    <3>5. QED
      BY <2>1, <3>1, <3>2, <3>3, <3>4, LaunchStarts DEF Destinations
  <2>2. CASE UNCHANGED sessions
    BY <2>2, SessionsStay
  <2>3. QED
    BY <1>3, <2>1, <2>2 DEF Activate, Proceed
<1>4. CASE Continue \/ BudgetStops \/ UNCHANGED vars
  BY <1>4, SessionsStay DEF Continue, BudgetStops, vars
<1>5. QED
  BY <1>1, <1>2, <1>3, <1>4, DriverStarts DEF Next, AgentStep

\* "do not repeat completed Team work": a driver starts a Reviewer only while its
\* axis has no report on the commit at HEAD, and the Engineer only while the Round
\* has no candidate, whatever kills, corrections and continuations came before.
THEOREM NothingRepeated == Spec => NothingIsRepeated
<1>1. Inv /\ [Next]_vars => [NoneRepeated]_vars
  BY NobodyRepeats
<1>2. [][NoneRepeated]_vars => NothingIsRepeated
  BY PTL DEF NoneRepeated, NothingIsRepeated
<1>3. QED
  BY <1>1, <1>2, Invariant, PTL DEF Spec

----------------------------------------------------------------------------
(* Valid Reviews survive *)

\* What the property says of one step.
Survives ==
  \A a \in Axes :
     (/\ HasReview(a) /\ ~HasReview(a)'
      /\ head' = head /\ ticket'.round = ticket.round
      /\ ~Runs(a))
     => At("unlink") /\ Responsible = a

LEMMA FilesStay ==
  ASSUME UNCHANGED <<rounds, delivered>>
  PROVE  Survives
BY DEF Survives, HasReview, Here

LEMMA RequestFiles ==
  ASSUME NEW allowed, NEW written, NEW d, Request(allowed, written, d)
  PROVE  UNCHANGED <<rounds, delivered>>
BY DEF Request, Raise, Proceed, files

LEMMA RecoverFiles ==
  ASSUME NEW m, NEW place, Recover(m, place)
  PROVE  UNCHANGED <<rounds, delivered>>
BY DEF Recover, Run, RunWith, Raise, Proceed, files

\* A report that is collected is still there.
LEMMA CollectsSurvive ==
  ASSUME Inv, NEW a \in Axes, Collects(a)
  PROVE  Survives
<1>1. /\ rounds \in [1..MaxRound -> RoundRecord] /\ ticket.round \in 1..MaxRound
      /\ Here \in RoundRecord /\ delivered \in [Axes -> Reports] /\ head # Absent
  BY DEF Inv, FilesFit, FilesTyped, Ticket, Here, Commits, Absent
<1>2. UNCHANGED <<ticket, head>> /\ Here.review[a] = Absent
  BY DEF Collects, Collectable, Reported
<1>3. ASSUME NEW b \in Axes
      PROVE  /\ Here'.review[b] = IF b = a THEN delivered[a] ELSE Here.review[b]
             /\ delivered'[b] = IF b = a THEN Absent ELSE delivered[b]
  <2>1. PICK x : x = [Here EXCEPT !.review = [@ EXCEPT ![a] = delivered[a]]]
    OBVIOUS
  <2>2. rounds' = [rounds EXCEPT ![ticket.round] = x]
    BY <1>1, <2>1 DEF Collects, Here
  <2>3. Here' = x
    BY <1>1, <1>2, <2>2 DEF Here
  <2>4. x.review[b] = IF b = a THEN delivered[a] ELSE Here.review[b]
    BY <1>1, <2>1 DEF RoundRecord
  <2>5. QED
    BY <1>1, <2>3, <2>4 DEF Collects
<1>4. \A b \in Axes : HasReview(b) => HasReview(b)'
  BY <1>1, <1>2, <1>3 DEF HasReview
<1>5. QED
  BY <1>4 DEF Survives

\* What a scan removes names another commit.
LEMMA RemovesSurvive ==
  ASSUME Inv, NEW a \in Axes, Removes(a)
  PROVE  Survives
<1>1. /\ rounds \in [1..MaxRound -> RoundRecord] /\ ticket.round \in 1..MaxRound
      /\ Here \in RoundRecord /\ delivered \in [Axes -> Reports]
  BY DEF Inv, FilesFit, FilesTyped, Ticket, Here
<1>2. UNCHANGED <<ticket, head>>
  BY DEF Removes
<1>3. ASSUME NEW b \in Axes
      PROVE  /\ Here.review[b] = head => Here'.review[b] = head
             /\ delivered[b] = head => delivered'[b] = head
  <2>1. delivered[b] = head => delivered'[b] = head
    BY <1>1 DEF Removes, Stale
  <2>2. CASE rounds' = rounds
    BY <1>2, <2>1, <2>2 DEF Here
  <2>3. CASE Stale(Here.review[a]) /\ rounds' = [rounds EXCEPT ![ticket.round].review[a] = Absent]
    <3>1. PICK x : x = [Here EXCEPT !.review = [@ EXCEPT ![a] = Absent]]
      OBVIOUS
    <3>2. rounds' = [rounds EXCEPT ![ticket.round] = x]
      BY <1>1, <2>3, <3>1 DEF Here
    <3>3. Here' = x
      BY <1>1, <1>2, <3>2 DEF Here
    <3>4. x.review[b] = IF b = a THEN Absent ELSE Here.review[b]
      BY <1>1, <3>1 DEF RoundRecord
    <3>5. QED
      BY <2>1, <2>3, <3>3, <3>4 DEF Stale
  <2>4. QED
    BY <2>2, <2>3 DEF Removes
<1>4. \A b \in Axes : HasReview(b) => HasReview(b)'
  BY <1>2, <1>3 DEF HasReview
<1>5. QED
  BY <1>4 DEF Survives

\* A correction removes the report of its member only.
LEMMA UnlinkSurvives ==
  ASSUME Inv, Unlink
  PROVE  Survives
<1>1. /\ rounds \in [1..MaxRound -> RoundRecord] /\ ticket.round \in 1..MaxRound
      /\ Here \in RoundRecord
  BY DEF Inv, FilesFit, FilesTyped, Ticket, Here
<1>2. PICK x : x = [engineer |-> IF Responsible = Engineer THEN Absent ELSE Here.engineer,
                    leader |-> NoJudgment,
                    review |-> [a \in Axes |-> IF a = Responsible THEN Absent ELSE Here.review[a]]]
  OBVIOUS
<1>3. /\ rounds' = [rounds EXCEPT ![ticket.round] = x] /\ UNCHANGED <<ticket, delivered, head>>
      /\ At("unlink")
  BY <1>1, <1>2 DEF Unlink, Here
<1>4. Here' = x
  BY <1>1, <1>3 DEF Here
<1>5. \A a \in Axes : a # Responsible => Here'.review[a] = Here.review[a]
  BY <1>2, <1>4
<1>6. \A a \in Axes : HasReview(a) /\ ~HasReview(a)' => a = Responsible
  BY <1>3, <1>5 DEF HasReview
<1>7. QED
  BY <1>3, <1>6 DEF Survives

\* A changed candidate is a new commit, which no Review of the old one names.
LEMMA RedoneEngineerSurvives ==
  ASSUME Inv, RedoneEngineer
  PROVE  Survives
<1>1. driver.at = "redone" /\ Turn = Engineer
  BY DEF RedoneEngineer, At
<1>2. driver \in DriverRecord /\ MemoryFits(driver, "redone")
  BY <1>1, AtWork
<1>3. Engineer \in driver.todo
  BY <1>1, <1>2, TurnMember DEF MemoryFits, TodoFits
<1>4. /\ driver.previous <= head
      /\ \A a \in Axes : UpTo(Here.review[a], driver.previous)
  BY <1>2, <1>3 DEF MemoryFits, CorrectionFits
<1>5. /\ rounds \in [1..MaxRound -> RoundRecord] /\ ticket.round \in 1..MaxRound
      /\ Here \in RoundRecord /\ head \in Commits /\ head # Foreign
      /\ driver.previous \in {Absent} \cup Commits
  BY <1>2, BoundsAssumption
     DEF Inv, FilesFit, FilesTyped, Ticket, Here, DriverRecord, Commits, Foreign
<1>6. CASE ~HasCandidate /\ Recover(Engineer, "redone")
  BY <1>6, RecoverFiles, FilesStay
<1>7. CASE HasCandidate
  <2>1. PICK affected : affected = IF head # driver.previous THEN driver.known ELSE {}
    OBVIOUS
  <2>2. /\ rounds' = [rounds EXCEPT ![ticket.round].review =
                        [a \in Axes |-> IF a \in affected THEN Absent ELSE @[a]]]
        /\ UNCHANGED <<ticket, delivered, head>>
    BY <1>7, <2>1 DEF RedoneEngineer
  <2>3. PICK x : x = [Here EXCEPT !.review =
                        [a \in Axes |-> IF a \in affected THEN Absent ELSE Here.review[a]]]
    OBVIOUS
  <2>4. rounds' = [rounds EXCEPT ![ticket.round] = x]
    BY <1>5, <2>2, <2>3 DEF Here
  <2>5. Here' = x
    BY <1>5, <2>2, <2>4 DEF Here
  <2>6. \A a \in Axes : Here'.review[a] = IF a \in affected THEN Absent ELSE Here.review[a]
    BY <1>5, <2>3, <2>5 DEF RoundRecord
  <2>7. ASSUME NEW a \in affected, a \in Axes
        PROVE  Here.review[a] # head
    <3>1. head # driver.previous /\ UpTo(Here.review[a], driver.previous)
      BY <1>4, <2>1, <2>7
    <3>2. QED
      BY <1>4, <1>5, <3>1, BoundsAssumption DEF UpTo, Absent, Commits
  <2>8. \A a \in Axes : HasReview(a) => HasReview(a)'
    BY <2>2, <2>6, <2>7 DEF HasReview
  <2>9. QED
    BY <2>8 DEF Survives
<1>8. QED
  BY <1>6, <1>7 DEF RedoneEngineer

\* An Agent writes its own report.
LEMMA AgentSurvives ==
  ASSUME Inv, NEW m \in Members, Completes(m)
  PROVE  Survives
<1>1. /\ rounds \in [1..MaxRound -> RoundRecord] /\ ticket.round \in 1..MaxRound
      /\ Here \in RoundRecord /\ delivered \in [Axes -> Reports]
  BY DEF Inv, FilesFit, FilesTyped, Ticket, Here
<1>2. CASE LeaderEnds \/ EngineerEnds
  <2>1. UNCHANGED <<ticket, delivered>>
    BY <1>2 DEF LeaderEnds, EngineerEnds
  <2>2. Here'.review = Here.review
    <3>1. CASE LeaderEnds
      <4>1. PICK judgment : rounds' = [rounds EXCEPT ![ticket.round].leader = judgment]
        BY <3>1 DEF LeaderEnds
      <4>2. PICK x : x = [Here EXCEPT !.leader = judgment]
        OBVIOUS
      <4>3. rounds' = [rounds EXCEPT ![ticket.round] = x] /\ x.review = Here.review
        BY <1>1, <4>1, <4>2 DEF Here, RoundRecord
      <4>4. QED
        BY <1>1, <2>1, <4>3 DEF Here
    <3>2. CASE EngineerEnds
      <4>1. PICK commit : rounds' = [rounds EXCEPT ![ticket.round].engineer = commit]
        BY <3>2 DEF EngineerEnds
      <4>2. PICK x : x = [Here EXCEPT !.engineer = commit]
        OBVIOUS
      <4>3. rounds' = [rounds EXCEPT ![ticket.round] = x] /\ x.review = Here.review
        BY <1>1, <4>1, <4>2 DEF Here, RoundRecord
      <4>4. QED
        BY <1>1, <2>1, <4>3 DEF Here
    <3>3. QED
      BY <1>2, <3>1, <3>2
  <2>3. QED
    BY <2>1, <2>2 DEF Survives, HasReview
<1>3. ASSUME NEW a \in Axes, a = m, ReviewerEnds(a)
      PROVE  Survives
  <2>1. /\ UNCHANGED <<ticket, rounds>> /\ Runs(a)
        /\ \A b \in Axes : b # a => delivered'[b] = delivered[b]
    BY <1>1, <1>3 DEF ReviewerEnds, Completes
  <2>2. QED
    BY <2>1 DEF Survives, HasReview, Here
<1>4. m = Leader \/ m = Engineer \/ m \in Axes
  BY DEF Members
<1>5. QED
  BY <1>2, <1>3, <1>4 DEF Completes

LEMMA CollectReportSurvives ==
  ASSUME Inv, NEW a \in Axes, Collectable(a), NEW d, CollectReport(a, d)
  PROVE  Survives
<1>1. Collects(a)
  BY DEF CollectReport, Collects
<1>2. QED
  BY <1>1, CollectsSurvive

LEMMA DispatchFiles ==
  ASSUME RecoverDispatch
  PROVE  UNCHANGED <<rounds, delivered>>
BY DEF RecoverDispatch, Run, RunWith, Raise, Proceed, files

LEMMA DeliverSurvives ==
  ASSUME Inv, Deliver
  PROVE  Survives
<1> USE DEF Run, RunWith, Raise, Proceed, files
<1>1. CASE StartTeam \/ EngineerDone \/ Collected \/ Rework
  <2>1. UNCHANGED <<rounds, delivered>>
    BY <1>1, RequestFiles
       DEF StartTeam, EngineerDone, Collected, Rework, MemberRequest, ReworkRequest
  <2>2. QED
    BY <2>1, FilesStay
<1>2. CASE RunEngineer \/ ReportCandidate \/ Refused \/ Reviewed \/ Dispatch \/ TakeBatch
  BY <1>2, FilesStay DEF RunEngineer, ReportCandidate, Refused, Reviewed, Dispatch, TakeBatch
<1>3. ASSUME NEW place, NEW next, Candidate(place, next)
      PROVE  Survives
  <2>1. UNCHANGED <<rounds, delivered>>
    BY <1>3, RequestFiles, RecoverFiles DEF Candidate, CandidateRequest
  <2>2. QED
    BY <2>1, FilesStay
<1>4. CASE NoRegistration
  <2>1. CASE driver.want \in {"review", "resumed-final"}
    BY <1>4, <2>1, FilesStay DEF NoRegistration
  <2>2. CASE driver.want = "resumed-review" /\ Left = {}
    BY <1>4, <2>2, FilesStay DEF NoRegistration
  <2>3. CASE /\ driver.want \notin {"review", "resumed-final"}
             /\ ~(driver.want = "resumed-review" /\ Left = {})
    BY <1>4, <2>3, DispatchFiles, FilesStay DEF NoRegistration
  <2>4. QED
    BY <2>1, <2>2, <2>3
<1>5. CASE TakenTooLate
  BY <1>5, DispatchFiles, FilesStay DEF TakenTooLate
<1>6. CASE TakenEngineer
  BY <1>6, FilesStay DEF TakenEngineer
<1>7. CASE TakenReviewers
  BY <1>7, FilesStay DEF TakenReviewers
<1>8. CASE Collect
  <2>1. driver.at = "collect"
    BY <1>8 DEF Collect, At
  <2>2. Turn \in Axes
    BY <2>1, AtWork, TurnMember DEF MemoryFits, TodoFits
  <2>3. UNCHANGED <<rounds, delivered>> \/ \E d : Collectable(Turn) /\ CollectReport(Turn, d)
    BY <1>8, RecoverFiles DEF Collect
  <2>4. QED
    BY <2>2, <2>3, FilesStay, CollectReportSurvives
<1>9. CASE Final
  <2>1. UNCHANGED <<rounds, delivered>>
    BY <1>9, RequestFiles, RecoverFiles DEF Final
  <2>2. QED
    BY <2>1, FilesStay
<1>10. QED
  BY <1>1, <1>2, <1>3, <1>4, <1>5, <1>6, <1>7, <1>8, <1>9 DEF Deliver

LEMMA RecoverySurvives ==
  ASSUME Inv, Recovery
  PROVE  Survives
<1> USE DEF Run, RunWith, Raise, Proceed, files
<1>1. CASE Resume
  <2>1. CASE ~Unfinished
    BY <1>1, <2>1, FilesStay DEF Resume
  <2>2. CASE Unfinished /\ sessions[Engineer].count = 0
    BY <1>1, <2>2, FilesStay DEF Resume
  <2>3. CASE Unfinished /\ sessions[Engineer].count > 0
    BY <1>1, <2>3, FilesStay DEF Resume
  <2>4. sessions[Engineer].count \in 0..2
    BY DEF Inv, FilesFit, SessionsTyped, Session, Members
  <2>5. QED
    BY <2>1, <2>2, <2>3, <2>4
<1>2. CASE ResumedCandidate
  <2>1. UNCHANGED <<rounds, delivered>>
    <3>1. CASE ~HasCandidate /\ sessions[Engineer].outcome # "completed"
      BY <1>2, <3>1 DEF ResumedCandidate
    <3>2. CASE ~HasCandidate /\ sessions[Engineer].outcome = "completed"
      BY <1>2, <3>2, RecoverFiles DEF ResumedCandidate
    <3>3. CASE HasCandidate /\ Engineer \notin ticket.seats
      BY <1>2, <3>3, RequestFiles DEF ResumedCandidate, MemberRequest
    <3>4. CASE HasCandidate /\ Engineer \in ticket.seats
      BY <1>2, <3>4, RequestFiles DEF ResumedCandidate, CandidateRequest
    <3>5. QED
      BY <3>1, <3>2, <3>3, <3>4
  <2>2. QED
    BY <2>1, FilesStay
<1>3. CASE Scan
  BY <1>3, ScanEffect, FilesStay, CollectsSurvive, RemovesSurvive
<1>4. CASE Continued
  <2>1. CASE Left # {} /\ registration = NoBatch
    BY <1>4, <2>1, FilesStay DEF Continued
  <2>2. CASE Left # {} /\ registration # NoBatch
    BY <1>4, <2>2, FilesStay DEF Continued
  <2>3. CASE Left = {} /\ driver.results
    BY <1>4, <2>3, FilesStay DEF Continued
  <2>4. CASE Left = {} /\ ~driver.results
    BY <1>4, <2>4, FilesStay DEF Continued
  <2>5. QED
    BY <2>1, <2>2, <2>3, <2>4
<1>5. CASE Scanned \/ Finish
  BY <1>5, FilesStay DEF Scanned, Finish
<1>6. QED
  BY <1>1, <1>2, <1>3, <1>4, <1>5 DEF Recovery

LEMMA CorrectSurvives ==
  ASSUME Inv, Correct
  PROVE  Survives
<1>1. CASE Correction \/ Corrected
  <2>1. UNCHANGED <<rounds, delivered>>
    BY <1>1, RequestFiles DEF Correction, Corrected, CandidateRequest
  <2>2. QED
    BY <2>1, FilesStay
<1>2. CASE Redo
  BY <1>2, FilesStay DEF Redo, Run, RunWith, files
<1>3. CASE RedoneReviewer
  <2>1. Turn \in Axes
    BY <1>3 DEF RedoneReviewer
  <2>2. UNCHANGED <<rounds, delivered>> \/ \E d : Collectable(Turn) /\ CollectReport(Turn, d)
    BY <1>3, RecoverFiles DEF RedoneReviewer
  <2>3. QED
    BY <2>1, <2>2, FilesStay, CollectReportSurvives
<1>4. QED
  BY <1>1, <1>2, <1>3, UnlinkSurvives, RedoneEngineerSurvives DEF Correct

LEMMA ReviewsSurvive ==
  ASSUME Inv, [Next]_vars
  PROVE  Survives
<1>1. CASE WrapUp
  BY <1>1, FilesStay DEF WrapUp, RunWith, Raise, Proceed, files
<1>2. CASE \/ \E m \in Members : MemberFails(m) \/ Send(m)
           \/ Activate \/ Continue \/ BudgetStops \/ Kill
           \/ UNCHANGED vars
  <2>1. UNCHANGED <<rounds, delivered>>
    BY <1>2
       DEF MemberFails, Fails, Send, Activate, Continue, BudgetStops, Kill, Proceed, vars, files
  <2>2. QED
    BY <2>1, FilesStay
<1>3. QED
  BY <1>1, <1>2, DeliverSurvives, RecoverySurvives, CorrectSurvives, AgentSurvives
     DEF Next, DriverStep, AgentStep

\* "Keep valid Review copies until the corrected candidate is known": nothing but
\* a correction of the axis itself, and a new run of it, removes a Review of the
\* commit at HEAD from the open Round (_process_corrections, _resume_active_ticket).
THEOREM ReviewsStay == Spec => ValidReviewsSurvive
<1>1. Inv /\ [Next]_vars => [Survives]_vars
  BY ReviewsSurvive
<1>2. [][Survives]_vars => ValidReviewsSurvive
  BY PTL DEF Survives, ValidReviewsSurvive
<1>3. QED
  BY <1>1, <1>2, Invariant, PTL DEF Spec

============================================================================
