----------------------------- MODULE TeamRound -----------------------------
(***************************************************************************)
(* The driver of one Ticket (teams/coding/team_round.py): it runs the      *)
(* Leader, the Engineer and the Reviewers one after another, reads the     *)
(* reports they leave in the Round's directory and asks for the Delivery   *)
(* State changes these justify.  A killed or failed driver leaves only     *)
(* files behind; the next one finds its place in them again.               *)
(*                                                                         *)
(* A fresh driver (_deliver_ticket) and a resumed one                      *)
(* (_resume_active_ticket) share the operations below the first line.      *)
(* A Delivery State request is one step here (DeliveryState opens it), a   *)
(* report is the commit it names, an Agent any choice of the reports that  *)
(* Runner lets it write.  An execution takes effect when it ends.          *)
(*                                                                         *)
(* The callers keep the rule of task-delivery/references/coding.md ("Wait  *)
(* for the recovered execution to finish"): no driver starts, and no       *)
(* Session is sent to, while an execution of the Team runs.                *)
(***************************************************************************)
EXTENDS Naturals, FiniteSets

CONSTANTS Axes,            \* the Review axes, each with its seat and report
          Leader, Engineer,
          MaxCommits, MaxRound,
          MaxDetours       \* kills, failed executions and requests, Batches
                           \* without room, budget stops, corrections, sends

ASSUME BoundsAssumption ==
  MaxCommits \in Nat \ {0} /\ MaxRound \in Nat \ {0} /\ MaxDetours \in Nat

Members == {Leader, Engineer} \cup Axes

ASSUME MembersAssumption ==
  IsFiniteSet(Axes) /\ Leader # Engineer /\ Leader \notin Axes /\ Engineer \notin Axes

VARIABLES ticket,        \* ticket.yml and team.yml
          rounds,        \* the directory of each Round
          delivered,     \* reviews/<axis>.md: reports not yet collected
          registration,  \* the Leader's child-registration.yml
          head,          \* HEAD of the Worktree
          sessions,      \* the retained Sessions of the Team
          stopped,       \* the execution budget selected stopping
          driver,
          detours

files == <<ticket, rounds, delivered, registration, head>>
vars == <<files, sessions, stopped, driver, detours>>

\* What a report names: a commit, some other text, or there is no report.
Absent == 0
Foreign == MaxCommits + 1
Commits == 1..MaxCommits
Reports == 0..Foreign

\* leader.md: the decision, the commit and, of a correction, the responsible.
NoJudgment == [decision |-> "none", commit |-> Absent, by |-> Leader]

Judgments ==
  [decision : {"accepted", "rework"}, commit : {head, Foreign}, by : {Leader}]
    \cup [decision : {"rejected"}, commit : {head}, by : {Leader}]
    \cup [decision : {"correct"}, commit : {head}, by : Members]

EmptyRound == [engineer |-> Absent, leader |-> NoJudgment, review |-> [a \in Axes |-> Absent]]

\* The current Round's directory.
Here == rounds[ticket.round]

NoBatch == {}

\* register_child_batch: one Engineer, or Reviewers.
Formal == {{Engineer}} \cup ((SUBSET Axes) \ {{}})

\* Statuses in which the Team works, and those in which the directory is writable.
Unfinished == ticket.status \in {"implementing", "reviewing", "reworking"}
Writable == ticket.status \in {"ready", "implementing", "reviewing"}

Detour == detours < MaxDetours /\ detours' = detours + 1
Straight == UNCHANGED detours

----------------------------------------------------------------------------
(* The driver: where it is, and what it has in memory.                     *)

IdleDriver ==
  [at |-> "idle",
   waits |-> {},             \* the members whose end it waits for
   then |-> "idle",          \* where it goes on when they have ended
   frugal |-> FALSE,         \* they only write reports (reports_only)
   resumed |-> FALSE,        \* _resume_active_ticket
   first |-> TRUE,           \* first_round
   want |-> "none",          \* what the next Batch is for
   recovered |-> FALSE,      \* recovered_dispatch
   rejected |-> FALSE,       \* rejected_batch
   retried |-> FALSE,        \* the evidence recovery of this step was used
   known |-> {},             \* the axes in `sessions`
   remaining |-> {},         \* the axes a Batch may still select
   results |-> FALSE,        \* reviewer_results is not empty
   todo |-> {},              \* members still to collect, look up or run again
   previous |-> Absent,      \* previous_candidate
   back |-> "none"]          \* where a correction returns to

At(place) == driver.at = place

Go(d, place) == [d EXCEPT !.at = place, !.retried = FALSE]

\* The driver goes on without touching anything; or it raises, or returns.
Proceed(d) == driver' = d /\ UNCHANGED <<files, sessions, stopped>> /\ Straight
Raise == Proceed(IdleDriver)

\* A Reviewer needs a report path that is new.
Startable(m) == m \in Axes => delivered[m] = Absent

\* A run without a known Session creates one, whatever Sessions there are.
Creates(d, m) ==
  \/ sessions[m].count = 0
  \/ m \in Axes \ ticket.seats /\ d.then = "collect" /\ ~d.retried

Launched(d) ==
  [m \in Members |->
     IF m \notin d.waits THEN sessions[m]
     ELSE IF ~Startable(m) THEN [sessions[m] EXCEPT !.outcome = "failed"]
     ELSE IF Creates(d, m) /\ sessions[m].count < 2
     THEN [count |-> sessions[m].count + 1, outcome |-> "starting"]
     ELSE [sessions[m] EXCEPT !.outcome = "running"]]

\* An execution of the member, which creates its Session or resumes it.
Runs(m) == sessions[m].outcome \in {"starting", "running"}

\* Where the driver is when the executions it waited for have ended: a budget
\* stop ends it, or lets the Engineer and the Leader wrap up; a failure ends it,
\* except that a Batch's results are looked at one by one.
WrapsUp(d) == d.then \in {"engineer-done", "resumed-candidate", "rework-candidate"} /\ ~d.retried

Woken(d, now, stop) ==
  LET ended == [d EXCEPT !.waits = {}, !.then = "idle"]
  IN  IF stop /\ ~d.frugal /\ d.waits \cap {Leader, Engineer} # {}
      THEN IF WrapsUp(d) THEN [ended EXCEPT !.at = "wrap-up"] ELSE IdleDriver
      ELSE IF d.then = "idle" THEN IdleDriver
      ELSE IF d.then = "collect" \/ \A m \in d.waits : now[m].outcome = "completed"
      THEN [ended EXCEPT !.at = d.then]
      ELSE IdleDriver

\* _run_agent and _run_batch_workers: start these members and wait for them.
Launch(d, ms, place, frugal) ==
  LET waiting == [d EXCEPT !.at = "waiting", !.waits = ms, !.then = place, !.frugal = frugal]
  IN  /\ sessions' = Launched(waiting)
      /\ driver' = IF \E m \in ms : Startable(m) THEN waiting
                   ELSE Woken(waiting, sessions', FALSE)
      /\ UNCHANGED stopped

RunWith(d, ms, place, frugal) == Launch(d, ms, place, frugal) /\ UNCHANGED files

Run(d, ms, place) == RunWith(d, ms, place, FALSE) /\ Straight

\* One recovery of a step whose evidence is missing or invalid.
Recover(m, place) ==
  IF driver.retried THEN Raise ELSE Run([driver EXCEPT !.retried = TRUE], {m}, place)

----------------------------------------------------------------------------
(* Agents and their callers *)

\* What the Leader leaves: a judgment, a registered child Batch, or nothing new.
LeaderEnds ==
  /\ \E judgment \in Judgments \cup {Here.leader}, batch \in Formal \cup {NoBatch} :
        LET judges == judgment # Here.leader
            registers == batch # NoBatch
        IN  /\ judges => Writable
            /\ judges /\ judgment.decision = "rework" => ticket.round < MaxRound
            /\ registers => registration = NoBatch /\ ~driver.frugal
            /\ IF judges /\ judgment.decision = "correct" THEN Detour ELSE Straight
            /\ rounds' = [rounds EXCEPT ![ticket.round].leader = judgment]
            /\ registration' = IF registers THEN batch ELSE registration
  /\ UNCHANGED <<ticket, delivered, head>>

\* The Engineer may commit, and reports a commit it knows or nothing new.
EngineerEnds ==
  /\ head' \in {head, IF head < MaxCommits THEN head + 1 ELSE head}
  /\ \E commit \in {Here.engineer, head, head'} :
        /\ commit # Here.engineer => Writable
        /\ rounds' = [rounds EXCEPT ![ticket.round].engineer = commit]
  /\ Straight
  /\ UNCHANGED <<ticket, delivered, registration>>

\* A Reviewer delivers a report on the candidate it was given, or another text.
ReviewerEnds(a) ==
  /\ \E commit \in {delivered[a], head, Foreign} :
        delivered' = [delivered EXCEPT ![a] = commit]
  /\ Straight
  /\ UNCHANGED <<ticket, rounds, registration, head>>

\* The driver notices the end of the last execution it waits for.
Noticed(m) ==
  driver' = IF m \in driver.waits /\ \A n \in driver.waits \ {m} : ~Runs(n)
            THEN Woken(driver, sessions', stopped) ELSE driver

Completes(m) ==
  /\ Runs(m)
  /\ sessions' = [sessions EXCEPT ![m].outcome = "completed"]
  /\ IF m = Leader THEN LeaderEnds ELSE IF m = Engineer THEN EngineerEnds ELSE ReviewerEnds(m)
  /\ Noticed(m)
  /\ UNCHANGED stopped

\* An execution that fails may have left no Session, if it was to create one.
Fails(m) ==
  /\ Runs(m)
  /\ \E count \in {sessions[m].count} \cup (IF sessions[m].outcome = "starting"
                                            THEN {sessions[m].count - 1} ELSE {}) :
        sessions' = [sessions EXCEPT ![m] = [count |-> count, outcome |-> "failed"]]
  /\ Noticed(m)
  /\ UNCHANGED <<files, stopped>>

\* A failure of its own, or the end that a budget stop puts to it.
MemberFails(m) ==
  /\ Fails(m)
  /\ IF stopped /\ m \in driver.waits \cap {Leader, Engineer} THEN Straight ELSE Detour

\* The driver dies: its Agents with it (SIGTERM), or they go on alone.
Kill ==
  /\ ~At("idle")
  /\ Detour
  /\ driver' = IdleDriver
  /\ \/ UNCHANGED sessions
     \/ sessions' = [m \in Members |-> IF m \in driver.waits /\ Runs(m)
                                       THEN [sessions[m] EXCEPT !.outcome = "failed"]
                                       ELSE sessions[m]]
  /\ UNCHANGED <<files, stopped>>

NobodyRuns == \A m \in Members : ~Runs(m)

\* A member's parent resumes its Session with `send`, outside any driver.
Send(m) ==
  /\ At("idle") /\ NobodyRuns
  /\ Unfinished
  /\ sessions[m].count > 0
  /\ Detour
  /\ sessions' = [sessions EXCEPT ![m].outcome = "running"]
  /\ UNCHANGED <<files, stopped, driver>>

\* The monitor latches a stop of the Ticket's execution budget.
BudgetStops ==
  /\ ~stopped
  /\ At("waiting")
  /\ Detour
  /\ stopped' = TRUE
  /\ UNCHANGED <<files, sessions, driver>>

\* Main launches the Team: from a new Leader, who has registered nothing, until
\* the Team has started, and from its files after.
Activate ==
  /\ At("idle") /\ NobodyRuns
  /\ ~stopped
  /\ \/ /\ ticket.status = "ready"
        /\ Launch([IdleDriver EXCEPT !.want = "start"], {Leader}, "batch", FALSE)
        /\ registration' = NoBatch /\ UNCHANGED <<ticket, rounds, delivered, head>> /\ Straight
     \/ /\ Unfinished
        /\ Proceed([IdleDriver EXCEPT !.at = "resume", !.resumed = TRUE])

\* continue_stopped_ticket: the continuation is one more event of the Ticket.
Continue ==
  /\ At("idle") /\ NobodyRuns
  /\ stopped
  /\ Unfinished
  /\ stopped' = FALSE
  /\ ticket' = [ticket EXCEPT !.confirmed = FALSE]
  /\ driver' = [IdleDriver EXCEPT !.at = "resume", !.resumed = TRUE]
  /\ UNCHANGED <<rounds, delivered, registration, head, sessions>> /\ Straight

----------------------------------------------------------------------------
(* Delivery State requests: granted, refused, or lost to a failure         *)

\* The request is an execution too, of the Delivery State role, which the monitor
\* samples but never ends.
Sampled ==
  \/ UNCHANGED stopped /\ Straight
  \/ ~stopped /\ stopped' = TRUE /\ Detour

Request(allowed, written, d) ==
  \/ /\ allowed
     /\ ticket' = written
     /\ driver' = d
     /\ UNCHANGED <<rounds, delivered, registration, head, sessions>>
     /\ Sampled
  \/ ~allowed /\ Raise
  \/ /\ Detour
     /\ driver' = IdleDriver
     /\ stopped' \in {stopped, TRUE}
     /\ UNCHANGED <<files, sessions>>

\* Every event but a confirmed rejection follows that rejection.
Event(t) == [t EXCEPT !.confirmed = FALSE]

MemberRequest(m, d) ==
  Request(/\ m \notin ticket.seats
          /\ ticket.status = IF m = Engineer THEN "implementing" ELSE "reviewing",
          Event([ticket EXCEPT !.seats = @ \cup {m}]), d)

CandidateRequest(d) ==
  Request(/\ ticket.status \in {"implementing", "reviewing"}
          /\ ticket.candidate # head
          /\ Engineer \in ticket.seats,
          Event([ticket EXCEPT !.status = "reviewing", !.candidate = head]), d)

ReworkRequest(d) ==
  Request(ticket.status = "reworking" /\ ticket.confirmed,
          Event([ticket EXCEPT !.status = "implementing", !.candidate = Absent,
                               !.round = @ + 1]), d)

\* The axes whose report the Round holds, and those reported in any Round.
Reported == {a \in Axes : Here.review[a] # Absent}
ReviewedAxes == {a \in Axes : \E r \in 1..MaxRound : rounds[r].review[a] # Absent}

----------------------------------------------------------------------------
(* _next_formal_batch *)

\* A correction judgment is older than a registered Batch, which goes first.
Correcting == registration = NoBatch /\ Here.leader.decision = "correct"

\* Where a driver looks for corrections before it goes on.
CorrectionDue ==
  /\ Correcting
  /\ \/ driver.at \in {"scanned", "finish", "refused"}
     \/ At("batch") /\ driver.want \in {"rework", "review", "resumed-review"}

\* A mutated form: without the Reviews that a correction completed.
LeftUncorrected == driver.remaining

\* The axes still to be reviewed: a correction may have completed some.
Left == driver.remaining \ (driver.known \cap Reported)

NextBatch(d, want) == [d EXCEPT !.at = "batch", !.want = want, !.recovered = FALSE,
                                !.retried = FALSE, !.todo = {}]

\* A mutated form: without the latch.
RecoverDispatchAgain ==
  Run([driver EXCEPT !.recovered = TRUE, !.todo = {}], {Leader}, "batch")

RecoverDispatch ==
  IF driver.recovered THEN Raise
  ELSE Run([driver EXCEPT !.recovered = TRUE, !.todo = {}], {Leader}, "batch")

\* No Batch: the Reviews or the Round are complete, or the Leader has to register.
NoRegistration ==
  /\ At("batch") /\ ~CorrectionDue
  /\ registration = NoBatch
  /\ CASE driver.want \in {"review", "resumed-final"} -> Proceed(Go(driver, "validate"))
       [] driver.want = "resumed-review" /\ Left = {} -> Proceed(Go(driver, "finish"))
       [] OTHER -> RecoverDispatch

\* _registered_batch consumes the registration.
TakeBatch ==
  /\ At("batch") /\ ~CorrectionDue
  /\ registration # NoBatch
  /\ registration' = NoBatch
  /\ driver' = [driver EXCEPT !.at = "taken", !.todo = registration]
  /\ UNCHANGED <<ticket, rounds, delivered, head, sessions, stopped>> /\ Straight

\* A completed Round refuses another Batch.
TakenTooLate ==
  /\ At("taken")
  /\ driver.want = "resumed-final"
  /\ RecoverDispatch

\* The Engineer's Batch: one Engineer, started where the Round needs it.
TakenEngineer ==
  /\ At("taken")
  /\ driver.want \in {"start", "rework", "resumed-engineer", "resumed-rework"}
  /\ LET d == [driver EXCEPT !.todo = {}]
     IN  CASE driver.todo # {Engineer} -> Raise
           [] driver.todo = {Engineer} /\ driver.want = "start" -> Proceed(Go(d, "start"))
           [] driver.todo = {Engineer} /\ driver.want = "rework" ->
                Run(d, {Engineer}, "engineer-done")
           [] driver.todo = {Engineer} /\ driver.want = "resumed-rework" ->
                Run(d, {Engineer}, "rework-candidate")
           [] driver.todo = {Engineer} /\ driver.want = "resumed-engineer" ->
                Run(d, {Engineer}, "resumed-candidate")

\* The Reviewers' Batch: axes that may still run, side by side, if there is room.
TakenReviewers ==
  /\ At("taken")
  /\ driver.want \in {"review", "resumed-review"}
  /\ LET d == [driver EXCEPT !.todo = {}]
     IN  IF driver.todo \subseteq Left
         THEN \/ Run(driver, driver.todo, "collect")
              \/ /\ Detour
                 /\ IF driver.resumed
                    THEN driver' = IdleDriver /\ UNCHANGED <<files, sessions, stopped>>
                    ELSE RunWith(d, {Leader}, "refused", FALSE)
         ELSE IF driver.resumed \/ driver.rejected THEN Raise
         ELSE Run([NextBatch(d, "review") EXCEPT !.rejected = TRUE], {Leader}, "batch")

\* After a refused Batch the Leader registers again.
Refused ==
  /\ At("refused") /\ ~CorrectionDue
  /\ IF registration = NoBatch THEN Raise ELSE Proceed(NextBatch(driver, "review"))

----------------------------------------------------------------------------
(* A Round, from the Engineer's run to the Leader's decision               *)

\* _deliver_ticket registers the Team once the Engineer's Batch is there.
StartTeam ==
  /\ At("start")
  /\ Request(ticket.status = "ready", Event([ticket EXCEPT !.status = "implementing"]),
             Go(driver, "run-engineer"))

RunEngineer ==
  /\ At("run-engineer")
  /\ Run(driver, {Engineer}, "engineer-done")

EngineerDone ==
  /\ At("engineer-done")
  /\ IF driver.first THEN MemberRequest(Engineer, Go(driver, "candidate"))
     ELSE Proceed(Go(driver, "candidate"))

\* _candidate: the Engineer's reports name HEAD.
HasCandidate == Here.engineer = head

Candidate(place, next) ==
  /\ At(place)
  /\ IF HasCandidate THEN CandidateRequest(next) ELSE Recover(Engineer, place)

\* A new candidate: the Leader chooses among the axes that have not reported.
ReportCandidate ==
  /\ At("report")
  /\ Run([NextBatch(driver, "review") EXCEPT !.known = {}, !.rejected = FALSE,
                                             !.remaining = Axes \ ReviewedAxes],
         {Leader}, "batch")

\* The member whose turn it is: the Engineer, then the axes in a fixed order.
Turn == IF Engineer \in driver.todo THEN Engineer ELSE CHOOSE a \in driver.todo : TRUE

\* _collect_review_report: a delivered report, and none yet in the Round.
Collectable(a) == delivered[a] # Absent /\ a \notin Reported

CollectReport(a, d) ==
  /\ rounds' = [rounds EXCEPT ![ticket.round].review[a] = delivered[a]]
  /\ delivered' = [delivered EXCEPT ![a] = Absent]
  /\ driver' = d
  /\ UNCHANGED <<ticket, registration, head, sessions, stopped>> /\ Straight

Collect ==
  /\ At("collect")
  /\ IF sessions[Turn].outcome = "failed" THEN Raise
     ELSE IF Collectable(Turn)
     THEN CollectReport(Turn, [Go(driver, "collected") EXCEPT !.known = @ \cup {Turn}])
     ELSE Recover(Turn, "collect")

\* The seat of a Reviewer is recorded in the first Round, or when it is vacant.
Collected ==
  LET d == [driver EXCEPT !.todo = @ \ {Turn}, !.remaining = @ \ {Turn}, !.results = TRUE,
                          !.at = IF driver.todo = {Turn} THEN "reviewed" ELSE "collect"]
  IN  /\ At("collected")
      /\ IF IF driver.resumed THEN Turn \notin ticket.seats ELSE driver.first
         THEN MemberRequest(Turn, d) ELSE Proceed(d)

\* A stopped Round ends with the Leader's report; otherwise the Leader goes on.
Reviewed ==
  /\ At("reviewed")
  /\ IF stopped THEN RunWith(driver, {Leader}, "idle", TRUE) /\ Straight
     ELSE IF driver.resumed /\ Left = {} THEN Run(driver, {Leader}, "finish")
     ELSE Run(NextBatch(driver, driver.want), {Leader}, "batch")

\* A mutated form: the Leader's commit only.
LeaderAgrees ==
  HasCandidate /\ Here.leader.decision # "none" /\ Here.leader.commit = head

\* _validate_round: the Leader judged the Engineer's commit, and no Review another.
RoundComplete ==
  /\ HasCandidate
  /\ Here.leader.decision # "none"
  /\ {Here.leader.commit} \cup {Here.review[a] : a \in Reported} = {head}

\* A mutated form: without the Reviews of a confirmed rejection.
DecidableUnreviewed ==
  /\ ticket.status = "reviewing"
  /\ ticket.candidate = head
  /\ {Engineer} \cup Reported \subseteq ticket.seats

\* final: the seats of the reports, both Reviews for a confirmed rejection.
Decidable ==
  /\ ticket.status = "reviewing"
  /\ ticket.candidate = head
  /\ {Engineer} \cup Reported \subseteq ticket.seats
  /\ Here.leader.decision = "rework" => Reported = Axes

Final ==
  /\ At("validate")
  /\ IF ~RoundComplete THEN Recover(Leader, "validate")
     ELSE Request(Decidable,
            CASE Here.leader.decision = "accepted" ->
                   Event([ticket EXCEPT !.status = "awaiting-integration"])
              [] Here.leader.decision = "rework" ->
                   [ticket EXCEPT !.status = "reworking", !.confirmed = TRUE]
              [] OTHER -> Event(ticket),
            IF Here.leader.decision # "rework" THEN IdleDriver
            ELSE IF driver.resumed
            THEN [IdleDriver EXCEPT !.at = "resume", !.resumed = TRUE]
            ELSE [Go(driver, "rework") EXCEPT !.first = FALSE])

\* rework: the next Round, and the Leader dispatches the same Engineer.
Rework ==
  /\ At("rework")
  /\ ReworkRequest(Go(driver, "dispatch"))

Dispatch ==
  /\ At("dispatch")
  /\ Run(NextBatch(driver, IF driver.resumed THEN "resumed-rework" ELSE "rework"),
         {Leader}, "batch")

----------------------------------------------------------------------------
(* _resume_active_ticket: the driver finds its place                       *)

Resume ==
  /\ At("resume")
  /\ CASE ~Unfinished -> Raise
       [] Unfinished /\ sessions[Engineer].count = 0 ->
            Proceed(NextBatch(driver, "resumed-engineer"))
       [] Unfinished /\ sessions[Engineer].count > 0 ->
            Proceed(Go(driver, IF ticket.status = "reworking" THEN "rework"
                               ELSE "resumed-candidate"))

\* The candidate is looked for first; an Engineer that failed is not asked again.
ResumedCandidate ==
  LET scan == [Go(driver, "scan") EXCEPT !.todo = Axes]
  IN  /\ At("resumed-candidate")
      /\ CASE ~HasCandidate /\ sessions[Engineer].outcome # "completed" -> Raise
           [] ~HasCandidate /\ sessions[Engineer].outcome = "completed" ->
                Recover(Engineer, "resumed-candidate")
           [] HasCandidate /\ Engineer \notin ticket.seats -> MemberRequest(Engineer, driver)
           [] HasCandidate /\ Engineer \in ticket.seats ->
                IF ticket.candidate = head THEN Proceed(scan) ELSE CandidateRequest(scan)

\* member_session: the seat's Session, or the only one of its role.
Found(a) == a \in ticket.seats \/ sessions[a].count = 1

\* A mutated form: every copy an interruption left.
AnyCopy(report) == report # Absent

\* The reports of an axis that name another commit.
Stale(report) == report \notin {Absent, head}

\* One axis after the other: stale copies go, delivered reports are collected,
\* vacant seats recorded; an axis without report remains to be reviewed.
Scan ==
  LET a == Turn
      next == [driver EXCEPT !.todo = @ \ {a}]
      known == [driver EXCEPT !.known = @ \cup {a}]
      done == [next EXCEPT !.known = @ \cup {a}]
  IN  /\ At("scan") /\ driver.todo # {}
      /\ CASE ~Found(a) -> IF a \in Reported THEN Raise ELSE Proceed(next)
           [] Found(a) /\ (Stale(Here.review[a]) \/ Stale(delivered[a])) ->
                /\ rounds' = IF Stale(Here.review[a])
                             THEN [rounds EXCEPT ![ticket.round].review[a] = Absent] ELSE rounds
                /\ delivered' = IF Stale(delivered[a])
                                THEN [delivered EXCEPT ![a] = Absent] ELSE delivered
                /\ driver' = known
                /\ UNCHANGED <<ticket, registration, head, sessions, stopped>>
                /\ Straight
           [] Found(a) /\ a \notin Reported /\ delivered[a] = Absent ->
                Proceed(IF a \in ReviewedAxes THEN done
                        ELSE [done EXCEPT !.remaining = @ \cup {a}])
           [] Found(a) /\ Here.review[a] = Absent /\ delivered[a] = head -> CollectReport(a, known)
           [] Found(a) /\ Here.review[a] = head /\ ~Stale(delivered[a]) ->
                IF a \in ticket.seats THEN Proceed([done EXCEPT !.results = TRUE])
                ELSE MemberRequest(a, known)

Scanned ==
  /\ At("scan") /\ driver.todo = {}
  /\ Proceed(Go(driver, "scanned"))

\* The Leader is told what there is, and registers what remains.
Continued ==
  LET d == [NextBatch(driver, "resumed-review") EXCEPT !.remaining = Left]
  IN  /\ At("scanned") /\ ~CorrectionDue
      /\ CASE Left # {} /\ registration = NoBatch -> Run(d, {Leader}, "batch")
           [] Left # {} /\ registration # NoBatch -> Proceed(d)
           [] Left = {} /\ driver.results -> Run(driver, {Leader}, "finish")
           [] Left = {} /\ ~driver.results -> Proceed(Go(driver, "finish"))

Finish ==
  /\ At("finish") /\ ~CorrectionDue
  /\ Proceed(NextBatch(driver, "resumed-final"))

----------------------------------------------------------------------------
(* _process_corrections *)

Responsible == Here.leader.by

Correction ==
  /\ CorrectionDue
  /\ Request(/\ Responsible \in ({Engineer} \cup driver.known) \cap ticket.seats
             /\ ticket.status = "reviewing",
             Event([ticket EXCEPT !.candidate = IF Responsible = Engineer THEN Absent ELSE @]),
             [driver EXCEPT !.at = "unlink", !.back = driver.at])

\* The judgment and the reports of the responsible member are removed.
Unlink ==
  /\ At("unlink")
  /\ rounds' = [rounds EXCEPT ![ticket.round] =
                  [engineer |-> IF Responsible = Engineer THEN Absent ELSE @.engineer,
                   leader |-> NoJudgment,
                   review |-> [a \in Axes |-> IF a = Responsible THEN Absent ELSE @.review[a]]]]
  /\ driver' = [driver EXCEPT !.at = "redo", !.todo = {Responsible}, !.previous = head]
  /\ UNCHANGED <<ticket, delivered, registration, head, sessions, stopped>> /\ Straight

\* Each affected member runs again; then the Leader assesses the evidence.
Redo ==
  /\ At("redo")
  /\ IF driver.todo = {} THEN Run([driver EXCEPT !.back = "none"], {Leader}, driver.back)
     ELSE Run(driver, {Turn}, "redone")

\* A changed candidate takes the known Reviews with it.
RedoneEngineer ==
  /\ At("redone") /\ Turn = Engineer
  /\ IF ~HasCandidate THEN Recover(Engineer, "redone")
     ELSE LET affected == IF head # driver.previous THEN driver.known ELSE {}
          IN  /\ rounds' = [rounds EXCEPT ![ticket.round].review =
                              [a \in Axes |-> IF a \in affected THEN Absent ELSE @[a]]]
              /\ driver' = [Go(driver, "corrected") EXCEPT !.todo = affected, !.previous = Absent]
              /\ UNCHANGED <<ticket, delivered, registration, head, sessions, stopped>>
              /\ Straight

Corrected ==
  /\ At("corrected")
  /\ CandidateRequest(Go(driver, "redo"))

RedoneReviewer ==
  /\ At("redone") /\ Turn \in Axes
  /\ IF Collectable(Turn)
     THEN CollectReport(Turn, [Go(driver, "redo") EXCEPT !.todo = @ \ {Turn}])
     ELSE Recover(Turn, "redone")

----------------------------------------------------------------------------
(* _wrap_up_budget_stop *)

WrapUp ==
  \/ /\ At("wrap-up")
     /\ IF sessions[Engineer].count = 0 THEN Raise
        ELSE RunWith(driver, {Engineer}, "wrap-up-leader", TRUE) /\ Straight
  \/ /\ At("wrap-up-leader")
     /\ RunWith(driver, {Leader}, "idle", TRUE) /\ Straight

----------------------------------------------------------------------------
Init ==
  /\ ticket = [status |-> "ready", candidate |-> Absent, round |-> 1, seats |-> {},
               confirmed |-> FALSE]
  /\ rounds = [r \in 1..MaxRound |-> EmptyRound]
  /\ delivered = [a \in Axes |-> Absent]
  /\ registration = NoBatch
  /\ head = 1
  /\ sessions = [m \in Members |-> [count |-> 0, outcome |-> "completed"]]
  /\ stopped = FALSE
  /\ driver = IdleDriver
  /\ detours = 0

Deliver ==
  \/ StartTeam \/ RunEngineer \/ EngineerDone \/ ReportCandidate
  \/ Candidate("candidate", Go(driver, "report"))
  \/ Candidate("rework-candidate", [IdleDriver EXCEPT !.at = "resume", !.resumed = TRUE])
  \/ NoRegistration \/ TakeBatch \/ TakenTooLate
  \/ TakenEngineer \/ TakenReviewers \/ Refused
  \/ Collect \/ Collected \/ Reviewed \/ Final \/ Rework \/ Dispatch

Recovery ==
  Resume \/ ResumedCandidate \/ Scan \/ Scanned \/ Continued \/ Finish

Correct == Correction \/ Unlink \/ Redo \/ RedoneEngineer \/ Corrected \/ RedoneReviewer

DriverStep == Deliver \/ Recovery \/ Correct \/ WrapUp

AgentStep(m) == Completes(m) \/ MemberFails(m)

Next ==
  \/ DriverStep
  \/ \E m \in Members : AgentStep(m) \/ Send(m)
  \/ Activate \/ Continue \/ BudgetStops \/ Kill

\* A driver that is not killed goes on, an execution ends some time (the Runtime's
\* turn ends, or its owner dies); nothing is assumed of Main and the callers.
Spec == Init /\ [][Next]_vars /\ WF_vars(DriverStep)
             /\ \A m \in Members : WF_vars(AgentStep(m))

----------------------------------------------------------------------------
(* Properties *)

RoundRecord == [engineer : Reports,
                leader : [decision : {"none", "accepted", "rejected", "rework", "correct"},
                          commit : Reports, by : Members],
                review : [Axes -> Reports]]

TypeOK ==
  /\ ticket \in [status : {"ready", "implementing", "reviewing", "reworking",
                            "awaiting-integration"},
                  candidate : {Absent} \cup Commits, round : 1..MaxRound,
                  seats : SUBSET Members, confirmed : BOOLEAN]
  /\ rounds \in [1..MaxRound -> RoundRecord]
  /\ delivered \in [Axes -> Reports]
  /\ registration = {Engineer} \/ registration \subseteq Axes
  /\ head \in Commits
  /\ sessions \in [Members -> [count : 0..2,
                                outcome : {"starting", "running", "completed", "failed"}]]
  /\ stopped \in BOOLEAN
  /\ driver.waits \in SUBSET Members
  /\ driver.todo \in SUBSET Members
  /\ driver.known \in SUBSET Axes /\ driver.remaining \in SUBSET Axes
  /\ detours \in 0..MaxDetours

\* The Leader's decision on a Round: it and every report name one commit.
Agreed(r, commit) ==
  /\ rounds[r].engineer = commit /\ rounds[r].leader.commit = commit
  /\ \A a \in Axes : rounds[r].review[a] \in {Absent, commit}

\* An accepted Ticket rests on evidence about the commit it will integrate: the
\* Engineer, the Leader and every Review of the Round name the candidate, which
\* is still HEAD, wherever the driver was interrupted on its way (_validate_round,
\* and the stale copies a resumed driver removes).
AcceptedEvidence ==
  ticket.status = "awaiting-integration" =>
     /\ Agreed(ticket.round, ticket.candidate)
     /\ Here.leader.decision = "accepted"
     /\ head = ticket.candidate
     /\ {Engineer} \cup Reported \subseteq ticket.seats

\* A Round is closed by a confirmed rejection only with the Reviews of all axes on
\* the rejected commit (_validate_implementation_rejection), and they stay there.
ReworkIsReviewed ==
  \A r \in 1..MaxRound :
     (r < ticket.round \/ (r = ticket.round /\ ticket.status = "reworking")) =>
        /\ rounds[r].leader.decision = "rework"
        /\ Agreed(r, rounds[r].engineer)
        /\ \A a \in Axes : rounds[r].review[a] # Absent

\* The report of an axis on the commit at HEAD, collected or not.
HasReview(a) == head \in {Here.review[a], delivered[a]}

\* "Keep valid Review copies until the corrected candidate is known": nothing but
\* a correction of the axis itself, and a new run of it, removes a Review of the
\* commit at HEAD from the open Round.
ValidReviewsSurvive ==
  [][\A a \in Axes :
       (/\ HasReview(a) /\ ~HasReview(a)'
        /\ head' = head /\ ticket'.round = ticket.round
        /\ ~Runs(a))
       => At("unlink") /\ Responsible = a]_vars

\* "do not repeat completed Team work": a driver starts a Reviewer only while the
\* axis has no report on the commit at HEAD, and the Engineer only while the
\* Round has no candidate, in whatever order runs, corrections and kills came.
Starts(m) == ~Runs(m) /\ Runs(m)'

NothingIsRepeated ==
  [][\A m \in Members :
       (Starts(m) /\ driver'.at = "waiting" /\ ~driver'.frugal)
       => IF m \in Axes THEN ~HasReview(m) ELSE (m = Engineer => ~HasCandidate)]_vars

\* A driver comes to an end: each recovery is used once, no member waits for
\* another that will not run.
DriverReturns == ~At("idle") ~> At("idle")

============================================================================
