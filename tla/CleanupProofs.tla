--------------------------- MODULE CleanupProofs ---------------------------
(* What a cleanup guarantees for any number of concurrent calls, Sessions,  *)
(* commits, failures, kills and operator's commands.                        *)
EXTENDS Cleanup, TLAPS

\* A call has found the Ticket integrated, or has also found its branch in dev.
Past == {"git", "clean", "tip", "merged", "worktree", "mappings", "branch"}
Merged == {"worktree", "mappings", "branch"}

\* A commit that a call has read stays behind the branch, and dev as it was read
\* holds it once that was checked.
TipsHeld ==
  \A c \in Cleaners :
     /\ pc[c] = "merged" => /\ seen[c].tip \in 0 .. MaxCommits
                            /\ branch # Absent => seen[c].tip <= branch
     /\ pc[c] \in Merged => /\ seen[c].tip \in 0 .. MaxCommits
                            /\ seen[c].tip <= seen[c].dev.holds

\* Calls go on only for an integrated Ticket, and the removal of the Worktree
\* lets one of them through.
OneRemover ==
  \A c \in Cleaners :
     /\ pc[c] \in Past => status = "integrated"
     /\ pc[c] \in {"mappings", "branch"} =>
          /\ worktree = "removed"
          /\ \A d \in Cleaners : pc[d] \in {"mappings", "branch"} => d = c

\* What a Session directory holds while its Worker lives, and that none is torn or
\* lost as long as the Worktree stands.
DirectoriesHold ==
  \A s \in Sessions :
     /\ worker[s] = "running" => record[s] \in {"live", "none", "torn"}
     /\ worker[s] = "starting" => record[s] \in {"launch", "ended", "none", "torn"}
     /\ worktree # "removed" => /\ record[s] # "torn"
                                /\ worker[s] # "none" => record[s] # "none"

Attributed == {"empty", "failed", "ended", "live"}

\* The directories a call has found, or has still to remove, stay attributed.
FoundAttributed ==
  \A c \in Cleaners :
     /\ worktree # "removed" /\ pc[c] \in Past =>
          \A s \in seen[c].found : record[s] \in Attributed
     /\ left[c] # {} => pc[c] = "mappings"
     /\ \A s \in left[c] : record[s] \in Attributed

\* Without a send, no Worker is left when a call has read the Sessions, and every
\* directory is one it has found, and then one it has still to remove.
FoundAll ==
  \A s \in Sessions \ resumed :
     /\ worker[s] # "none" => record[s] \in {"launch", "live"}
     /\ \A c \in Cleaners :
          /\ pc[c] \in Past => worker[s] = "none" /\ (record[s] = "none" \/ s \in seen[c].found)
          /\ pc[c] \in {"mappings", "branch"} => record[s] = "none" \/ s \in left[c]
          /\ pc[c] = "branch" => record[s] = "none"

\* What the last answer of a process says.
AnswersTrue ==
  (\E c \in Cleaners : answer[c] \in {"cleaned", "already-cleaned"}) =>
     /\ status = "integrated" /\ worktree = "removed" /\ branch = Absent
     /\ \A s \in Sessions \ resumed : record[s] = "none" /\ worker[s] = "none"

Inv == TypeOK /\ TipsHeld /\ OneRemover /\ DirectoriesHold /\ FoundAttributed
         /\ FoundAll /\ AnswersTrue

----------------------------------------------------------------------------
(* Types *)

\* What a call does to its own records when it answers, goes on or learns.
LEMMA AnswerTyped ==
  ASSUME TypeOK, NEW c \in Cleaners,
         NEW what \in {"none", "cleaned", "already-cleaned"} \cup Refusals, Answer(c, what)
  PROVE  /\ pc' \in [Cleaners -> {"idle", "sessions", "git", "clean", "tip", "merged",
                                  "worktree", "mappings", "branch"}]
         /\ seen' \in [Cleaners -> Read \cup {Unread}]
         /\ left' \in [Cleaners -> SUBSET Sessions]
         /\ \A d \in Cleaners : pc'[d] = "idle" <=> seen'[d] = Unread
         /\ answer' \in [Cleaners -> {"none", "cleaned", "already-cleaned"} \cup Refusals]
BY DEF TypeOK, Answer, Goes, Forgets

\* The rest of the system keeps the types.
LEMMA EnvironmentTyped ==
  ASSUME TypeOK, BoundAssumption, Environment
  PROVE  TypeOK'
<1>1. CASE Integrate
  BY <1>1, BoundAssumption DEF TypeOK, Integrate, Dev, Tips, tree, session, call, BoundAssumption
<1>2. CASE OthersIntegrate
  BY <1>2 DEF TypeOK, OthersIntegrate, Dev, tree, session, call
<1>3. CASE Operate
  <2>1. faults' \in 0 .. MaxFaults
    BY <1>3, BoundAssumption DEF TypeOK, Operate, Fault, BoundAssumption
  <2>2. dev' \in Dev
    BY <1>3, BoundAssumption DEF TypeOK, Operate, Dev, BoundAssumption
  <2>3. branch' \in Tips /\ worktree' \in Worktrees /\ dirty' \in BOOLEAN
    BY <1>3 DEF TypeOK, Operate, Worktrees, tree
  <2>. QED BY <1>3, <2>1, <2>2, <2>3 DEF TypeOK, Operate, session, call
<1>4. ASSUME NEW s \in Sessions,
             \/ Allocate(s) \/ Launch(s) \/ Send(s) \/ Register(s)
             \/ FailStart(s) \/ Heartbeat(s) \/ End(s)
      PROVE  TypeOK'
  BY <1>4 DEF TypeOK, Allocate, Launch, Send, Register, FailStart, Heartbeat, End,
              Records, ticket, tree, call
<1>5. ASSUME NEW s \in Sessions, Edit(s) \/ Commit(s)
      PROVE  TypeOK'
  <2>1. branch' \in Tips
    BY <1>5, BoundAssumption DEF TypeOK, Edit, Commit, Tips, BoundAssumption
  <2>2. dirty' \in BOOLEAN
    BY <1>5 DEF Edit, Commit
  <2>. QED BY <1>5, <2>1, <2>2 DEF TypeOK, Edit, Commit, ticket, session, call
<1>. QED BY <1>1, <1>2, <1>3, <1>4, <1>5 DEF Environment

\* So does every step of a call.
LEMMA CleanerTyped ==
  ASSUME TypeOK, BoundAssumption, NEW c \in Cleaners, Cleaner(c)
  PROVE  TypeOK'
<1>1. CASE Call(c)
  <2>1. [dev |-> dev, tip |-> Absent, found |-> {}] \in Read
    BY DEF TypeOK, Read, Tips
  <2>2. calls' \in 0 .. MaxCalls
    BY <1>1, BoundAssumption DEF TypeOK, Call, BoundAssumption
  <2>3. seen' \in [Cleaners -> Read \cup {Unread}]
    BY <1>1, <2>1 DEF TypeOK, Call
  <2>4. \A d \in Cleaners : pc'[d] = "idle" <=> seen'[d] = Unread
    BY <1>1, <2>1, BoundAssumption DEF TypeOK, Call, Goes, BoundAssumption
  <2>. QED BY <1>1, <2>2, <2>3, <2>4 DEF TypeOK, Call, At, Goes, ticket, tree, session
<1>2. CASE ReadSessions(c)
  BY <1>2, AnswerTyped, BoundAssumption
  DEF TypeOK, ReadSessions, At, Goes, Learns, Read, Refusals, ticket, tree, session, BoundAssumption
<1>3. CASE ReadGit(c) \/ ReadStatus(c) \/ ReadMerged(c)
  BY <1>3, AnswerTyped
  DEF TypeOK, ReadGit, ReadStatus, ReadMerged, At, Goes, Refusals, ticket, tree, session
<1>4. CASE ReadTip(c)
  BY <1>4, AnswerTyped, BoundAssumption
  DEF TypeOK, ReadTip, At, Goes, Learns, Read, Refusals, ticket, tree, session, BoundAssumption
<1>5. CASE RemoveWorktree(c)
  BY <1>5, AnswerTyped
  DEF TypeOK, RemoveWorktree, At, Goes, Read, Refusals, Worktrees, ticket, session
<1>6. CASE RemoveMapping(c)
  BY <1>6, AnswerTyped
  DEF TypeOK, RemoveMapping, At, Goes, Refusals, Records, ticket, tree
<1>7. CASE DeleteBranch(c)
  BY <1>7, AnswerTyped
  DEF TypeOK, DeleteBranch, At, Tips, Refusals, ticket, session
<1>8. CASE Fail(c) \/ Kill(c)
  BY <1>8, AnswerTyped, BoundAssumption
  DEF TypeOK, Fail, Kill, Fault, Refusals, ticket, tree, session, BoundAssumption
<1>. QED BY <1>1, <1>2, <1>3, <1>4, <1>5, <1>6, <1>7, <1>8 DEF Cleaner

\* The system starts with its types.
LEMMA InitTyped ==
  ASSUME Init
  PROVE  TypeOK
<1>1. dev \in Dev /\ branch \in Tips
  BY BoundAssumption DEF Init, Dev, Tips, BoundAssumption
<1>2. calls \in 0 .. MaxCalls /\ faults \in 0 .. MaxFaults
  BY BoundAssumption DEF Init, BoundAssumption
<1>3. dirty \in BOOLEAN /\ worktree \in Worktrees /\ record \in [Sessions -> Records]
  BY DEF Init, Worktrees, Records
<1>. QED BY <1>1, <1>2, <1>3 DEF Init, TypeOK

\* Files, git and calls keep their types.
THEOREM TypeCorrect == Spec => []TypeOK
<1>1. TypeOK /\ [Next]_vars => TypeOK'
  <2>1. ASSUME TypeOK, Next PROVE TypeOK'
    BY <2>1, EnvironmentTyped, CleanerTyped, BoundAssumption DEF Next
  <2>2. ASSUME TypeOK, UNCHANGED vars PROVE TypeOK'
    BY <2>2 DEF TypeOK, vars, ticket, tree, session, call
  <2>. QED BY <2>1, <2>2
<1>. QED BY <1>1, InitTyped, PTL DEF Spec

----------------------------------------------------------------------------
(* The commits and the one remover *)

\* The rest of the system leaves the calls alone.
LEMMA CallsStay ==
  ASSUME Environment
  PROVE  /\ UNCHANGED <<pc, seen, left, answer>>
         /\ status = "integrated" => status' = "integrated"
         /\ worktree = "removed" => worktree' = "removed"
BY DEF Environment, Integrate, OthersIntegrate, Operate, Allocate, Launch, Send, Register,
       FailStart, Heartbeat, End, Edit, Commit, tree, call, ticket

\* A call changes its own records only, and none of the Ticket or of the Workers.
LEMMA CallIsAlone ==
  ASSUME TypeOK, NEW c \in Cleaners, Cleaner(c)
  PROVE  /\ \A d \in Cleaners \ {c} : /\ pc'[d] = pc[d] /\ seen'[d] = seen[d]
                                      /\ left'[d] = left[d] /\ answer'[d] = answer[d]
         /\ UNCHANGED <<status, dev, dirty, worker, resumed>>
         /\ worktree = "removed" => worktree' = "removed"
         /\ branch' \in {branch, Absent}
<1>. USE DEF TypeOK, Answer, Goes, Learns, Forgets, ticket, tree, session
<1>1. CASE Call(c)
  BY <1>1 DEF Call
<1>2. CASE ReadSessions(c)
  BY <1>2 DEF ReadSessions
<1>3. CASE ReadGit(c) \/ ReadStatus(c) \/ ReadTip(c) \/ ReadMerged(c)
  BY <1>3 DEF ReadGit, ReadStatus, ReadTip, ReadMerged
<1>4. CASE RemoveWorktree(c)
  BY <1>4 DEF RemoveWorktree
<1>5. CASE RemoveMapping(c)
  BY <1>5 DEF RemoveMapping
<1>6. CASE DeleteBranch(c)
  BY <1>6 DEF DeleteBranch
<1>7. CASE Fail(c) \/ Kill(c)
  BY <1>7 DEF Fail, Kill
<1>. QED BY <1>1, <1>2, <1>3, <1>4, <1>5, <1>6, <1>7 DEF Cleaner

\* How a call gets to each of its steps.
LEMMA HowACallGoes ==
  ASSUME TypeOK, NEW c \in Cleaners, Cleaner(c)
  PROVE  /\ pc'[c] = "git" => ReadSessions(c) /\ status = "integrated"
         /\ pc'[c] = "clean" => pc[c] = "git" /\ seen'[c] = seen[c] /\ UNCHANGED session
         /\ pc'[c] = "tip" => pc[c] = "clean" /\ seen'[c] = seen[c] /\ UNCHANGED session
         /\ pc'[c] = "merged" => ReadTip(c) /\ pc[c] = "tip" /\ branch # Absent
         /\ pc'[c] = "worktree" => ReadMerged(c) /\ pc[c] = "merged"
         /\ pc'[c] = "mappings" =>
              \/ RemoveWorktree(c) /\ pc[c] = "worktree" /\ worktree # "removed"
              \/ RemoveMapping(c) /\ pc[c] = "mappings"
         /\ pc'[c] = "branch" => RemoveMapping(c) /\ pc[c] = "mappings" /\ left[c] = {}
<1>. USE DEF TypeOK, Answer, Goes, Learns, Forgets, At, session
<1>1. CASE Call(c)
  BY <1>1 DEF Call
<1>2. CASE ReadSessions(c)
  BY <1>2 DEF ReadSessions
<1>3. CASE ReadGit(c) \/ ReadStatus(c)
  BY <1>3 DEF ReadGit, ReadStatus
<1>4. CASE ReadTip(c)
  BY <1>4 DEF ReadTip
<1>5. CASE ReadMerged(c)
  BY <1>5 DEF ReadMerged
<1>6. CASE RemoveWorktree(c)
  BY <1>6 DEF RemoveWorktree, Removable
<1>7. CASE RemoveMapping(c)
  BY <1>7 DEF RemoveMapping
<1>8. CASE DeleteBranch(c) \/ Fail(c) \/ Kill(c)
  BY <1>8 DEF DeleteBranch, Fail, Kill
<1>. QED BY <1>1, <1>2, <1>3, <1>4, <1>5, <1>6, <1>7, <1>8 DEF Cleaner

\* A step keeps what was read of the branch behind it.
LEMMA TipsStay ==
  ASSUME Inv, TypeOK', BoundAssumption, Next
  PROVE  TipsHeld'
<1>1. CASE Environment
  <2>1. branch' = branch \/ (branch \in Nat /\ branch' = branch + 1)
    BY <1>1, BoundAssumption
    DEF Environment, Integrate, OthersIntegrate, Operate, Allocate, Launch, Send, Register,
        FailStart, Heartbeat, End, Edit, Commit, tree, BoundAssumption
  <2>2. UNCHANGED <<pc, seen>>
    BY <1>1, CallsStay
  <2>3. branch' # Absent => branch # Absent
    BY <2>1, BoundAssumption DEF BoundAssumption
  <2>. QED BY <2>1, <2>2, <2>3, BoundAssumption DEF Inv, TypeOK, TipsHeld, Tips, BoundAssumption
<1>2. ASSUME NEW c \in Cleaners, Cleaner(c) PROVE TipsHeld'
  <2>1. TypeOK /\ TipsHeld
    BY DEF Inv
  <2>2. ASSUME NEW d \in Cleaners \ {c}
        PROVE  /\ pc'[d] = "merged" => /\ seen'[d].tip \in 0 .. MaxCommits
                                       /\ branch' # Absent => seen'[d].tip <= branch'
               /\ pc'[d] \in Merged => /\ seen'[d].tip \in 0 .. MaxCommits
                                       /\ seen'[d].tip <= seen'[d].dev.holds
    BY <1>2, <2>1, CallIsAlone DEF TipsHeld
  <2>3. ASSUME pc'[c] = "merged"
        PROVE  /\ seen'[c].tip \in 0 .. MaxCommits
               /\ branch' # Absent => seen'[c].tip <= branch'
    <3>1. ReadTip(c) /\ pc[c] = "tip" /\ branch # Absent
      BY <1>2, <2>1, <2>3, HowACallGoes
    <3>2. seen[c] \in Read
      BY <2>1, <3>1 DEF TypeOK
    <3>3. seen' = [seen EXCEPT ![c]["tip"] = branch] /\ branch' = branch
      BY <2>3, <2>1, <3>1 DEF ReadTip, Answer, Goes, Learns, TypeOK, tree
    <3>4. seen'[c].tip = branch
      BY <2>1, <3>2, <3>3 DEF TypeOK, Read
    <3>. QED BY <2>1, <3>1, <3>3, <3>4, BoundAssumption DEF TypeOK, Tips, BoundAssumption
  <2>4. ASSUME pc'[c] \in Merged
        PROVE  seen'[c].tip \in 0 .. MaxCommits /\ seen'[c].tip <= seen'[c].dev.holds
    <3>1. CASE pc'[c] = "worktree"
      <4>1. ReadMerged(c) /\ pc[c] = "merged"
        BY <1>2, <2>1, <3>1, HowACallGoes
      <4>2. seen' = seen /\ branch # Absent /\ branch <= seen[c].dev.holds
        BY <2>1, <3>1, <4>1 DEF ReadMerged, Answer, Goes, TypeOK
      <4>3. branch \in 0 .. MaxCommits /\ seen[c] \in Read
        BY <2>1, <4>1, <4>2 DEF TypeOK, Tips
      <4>. QED BY <2>1, <4>1, <4>2, <4>3, BoundAssumption
               DEF TipsHeld, Read, Dev, BoundAssumption
    <3>2. CASE pc'[c] \in {"mappings", "branch"}
      <4>1. pc[c] \in Merged
        BY <1>2, <2>1, <3>2, HowACallGoes DEF Merged
      <4>2. seen'[c] = seen[c]
        BY <1>2, <2>1, <3>2, HowACallGoes
        DEF RemoveWorktree, RemoveMapping, Answer, Goes, TypeOK
      <4>. QED BY <2>1, <4>1, <4>2 DEF TipsHeld
    <3>. QED BY <2>4, <3>1, <3>2 DEF Merged
  <2>. QED BY <2>2, <2>3, <2>4 DEF TipsHeld
<1>. QED BY <1>1, <1>2 DEF Next

\* A step lets at most one call past the removal of the Worktree.
LEMMA OneRemoverStays ==
  ASSUME Inv, Next
  PROVE  OneRemover'
<1>0. TypeOK /\ OneRemover
  BY DEF Inv
<1>1. CASE Environment
  BY <1>0, <1>1, CallsStay DEF OneRemover
<1>2. ASSUME NEW c \in Cleaners, Cleaner(c) PROVE OneRemover'
  <2>1. ASSUME NEW d \in Cleaners, pc'[d] \in Past PROVE status' = "integrated"
    BY <1>0, <1>2, <2>1, CallIsAlone, HowACallGoes DEF OneRemover, Past
  <2>2. ASSUME pc'[c] \in {"mappings", "branch"}
        PROVE  /\ worktree' = "removed"
               /\ \A d \in Cleaners \ {c} : pc[d] \notin {"mappings", "branch"}
    <3>1. CASE pc[c] \in {"mappings", "branch"}
      BY <1>0, <1>2, <3>1, CallIsAlone DEF OneRemover
    <3>2. CASE RemoveWorktree(c) /\ pc[c] = "worktree" /\ worktree # "removed"
      BY <1>0, <2>2, <3>2 DEF OneRemover, RemoveWorktree, Answer, Goes, TypeOK
    <3>. QED BY <1>0, <1>2, <2>2, <3>1, <3>2, HowACallGoes
  <2>3. ASSUME NEW d \in Cleaners, NEW e \in Cleaners,
               pc'[d] \in {"mappings", "branch"}, pc'[e] \in {"mappings", "branch"}
        PROVE  worktree' = "removed" /\ d = e
    BY <1>0, <1>2, <2>2, <2>3, CallIsAlone DEF OneRemover
  <2>. QED BY <2>1, <2>3 DEF OneRemover
<1>. QED BY <1>1, <1>2 DEF Next

----------------------------------------------------------------------------
(* The Sessions *)

\* What a step does to a Session: Workers are started before the integration or by
\* a send, and a call removes only what it has found, after the Worktree.
LEMMA HowASessionGoes ==
  ASSUME TypeOK, FoundAttributed, OneRemover, Next, NEW s \in Sessions
  PROVE  \/ record'[s] = record[s] /\ worker'[s] = worker[s]
         \/ status = "active" /\ record[s] = "none" /\ record'[s] = "empty"
            /\ worker[s] = "none" /\ worker'[s] = "none"
         \/ status = "active" /\ record[s] = "empty" /\ record'[s] = "launch"
            /\ worker'[s] = "starting"
         \/ record[s] = "ended" /\ record'[s] = "ended" /\ worker[s] = "none"
            /\ worker'[s] = "starting" /\ s \in resumed'
         \/ worker[s] = "starting" /\ record[s] # "none"
            /\ worker'[s] = "running" /\ record'[s] = "live"
         \/ worker[s] = "starting" /\ worker'[s] = "none"
            /\ \/ record[s] = "launch" /\ record'[s] \in {"launch", "failed"}
               \/ record[s] # "launch" /\ record'[s] = record[s]
         \/ worker[s] # "none" /\ worker'[s] = worker[s]
            /\ record[s] = "none" /\ record'[s] = "torn"
         \/ worker[s] = "running" /\ worker'[s] = "none"
            /\ \/ record[s] = "live" /\ record'[s] = "ended"
               \/ record[s] # "live" /\ record'[s] \in {record[s], "torn"}
         \/ worktree = "removed" /\ record[s] \in Attributed
            /\ record'[s] = "none" /\ worker'[s] = worker[s]
<1>. USE DEF TypeOK
<1>1. CASE Integrate \/ OthersIntegrate \/ Operate
  BY <1>1 DEF Integrate, OthersIntegrate, Operate, session
<1>2. ASSUME NEW t \in Sessions, Allocate(t) \/ Launch(t) \/ Send(t) \/ Register(t)
      PROVE  \/ record'[s] = record[s] /\ worker'[s] = worker[s]
             \/ status = "active" /\ record[s] = "none" /\ record'[s] = "empty"
                /\ worker[s] = "none" /\ worker'[s] = "none"
             \/ status = "active" /\ record[s] = "empty" /\ record'[s] = "launch"
                /\ worker'[s] = "starting"
             \/ record[s] = "ended" /\ record'[s] = "ended" /\ worker[s] = "none"
                /\ worker'[s] = "starting" /\ s \in resumed'
             \/ worker[s] = "starting" /\ record[s] # "none"
                /\ worker'[s] = "running" /\ record'[s] = "live"
  BY <1>2 DEF Allocate, Launch, Send, Register
<1>3. ASSUME NEW t \in Sessions, FailStart(t) \/ Heartbeat(t) \/ End(t)
      PROVE  \/ record'[s] = record[s] /\ worker'[s] = worker[s]
             \/ worker[s] = "starting" /\ worker'[s] = "none"
                /\ \/ record[s] = "launch" /\ record'[s] \in {"launch", "failed"}
                   \/ record[s] # "launch" /\ record'[s] = record[s]
             \/ worker[s] # "none" /\ worker'[s] = worker[s]
                /\ record[s] = "none" /\ record'[s] = "torn"
             \/ worker[s] = "running" /\ worker'[s] = "none"
                /\ \/ record[s] = "live" /\ record'[s] = "ended"
                   \/ record[s] # "live" /\ record'[s] \in {record[s], "torn"}
  BY <1>3 DEF FailStart, Heartbeat, End
<1>4. ASSUME NEW t \in Sessions, Edit(t) \/ Commit(t)
      PROVE  record'[s] = record[s] /\ worker'[s] = worker[s]
  BY <1>4 DEF Edit, Commit, session
<1>5. ASSUME NEW c \in Cleaners, Cleaner(c)
      PROVE  \/ record'[s] = record[s] /\ worker'[s] = worker[s]
             \/ worktree = "removed" /\ record[s] \in Attributed
                /\ record'[s] = "none" /\ worker'[s] = worker[s]
  <2>1. worker' = worker
    BY <1>5, CallIsAlone
  <2>2. CASE RemoveMapping(c)
    <3>1. pc[c] = "mappings" /\ worktree = "removed"
      BY <2>2 DEF RemoveMapping, At, OneRemover
    <3>2. \A t \in left[c] : record[t] \in Attributed
      BY DEF FoundAttributed
    <3>3. \/ record' = record
          \/ \E t \in left[c] : record' = [record EXCEPT ![t] = "none"]
      BY <2>2 DEF RemoveMapping
    <3>. QED BY <2>1, <3>1, <3>2, <3>3
  <2>3. CASE ~RemoveMapping(c)
    BY <1>5, <2>1, <2>3
    DEF Cleaner, Call, ReadSessions, ReadGit, ReadStatus, ReadTip, ReadMerged,
        RemoveWorktree, DeleteBranch, Fail, Kill, session
  <2>. QED BY <2>2, <2>3
<1>. QED BY <1>1, <1>2, <1>3, <1>4, <1>5 DEF Next, Environment

\* A step keeps the directories of the living Workers.
LEMMA DirectoriesStay ==
  ASSUME Inv, Next
  PROVE  DirectoriesHold'
<1>1. TypeOK /\ FoundAttributed /\ OneRemover /\ DirectoriesHold
  BY DEF Inv
<1>2. worktree = "removed" => worktree' = "removed"
  BY <1>1, CallsStay, CallIsAlone DEF Next
<1>3. ASSUME NEW s \in Sessions
      PROVE  /\ worker'[s] = "running" => record'[s] \in {"live", "none", "torn"}
             /\ worker'[s] = "starting" => record'[s] \in {"launch", "ended", "none", "torn"}
             /\ worktree' # "removed" => /\ record'[s] # "torn"
                                         /\ worker'[s] # "none" => record'[s] # "none"
  BY <1>1, <1>2, HowASessionGoes DEF DirectoriesHold
<1>. QED BY <1>3 DEF DirectoriesHold

\* What a call has found stays what it has found.
LEMMA FoundStays ==
  ASSUME TypeOK, NEW c \in Cleaners, Cleaner(c), pc'[c] \in Past, ~ReadSessions(c)
  PROVE  pc[c] \in Past /\ seen'[c].found = seen[c].found
<1>1. CASE ReadTip(c)
  <2>1. seen[c] \in Read /\ pc[c] = "tip"
    BY <1>1 DEF TypeOK, ReadTip, At
  <2>2. seen' = [seen EXCEPT ![c]["tip"] = branch]
    BY <1>1 DEF ReadTip, Answer, Goes, Learns, TypeOK, Past
  <2>. QED BY <2>1, <2>2 DEF TypeOK, Read, Past
<1>2. CASE Call(c) \/ ReadGit(c) \/ ReadStatus(c) \/ ReadMerged(c)
  BY <1>2 DEF TypeOK, Call, ReadGit, ReadStatus, ReadMerged, At, Answer, Goes, Past
<1>3. CASE RemoveWorktree(c) \/ RemoveMapping(c)
  BY <1>3 DEF TypeOK, RemoveWorktree, RemoveMapping, At, Answer, Goes, Past
<1>4. CASE DeleteBranch(c) \/ Fail(c) \/ Kill(c)
  BY <1>4 DEF TypeOK, DeleteBranch, Fail, Kill, Answer, Goes, Past
<1>. QED BY <1>1, <1>2, <1>3, <1>4 DEF Cleaner

\* A step keeps what the calls have found attributed.
LEMMA FoundStaysAttributed ==
  ASSUME Inv, TypeOK', Next
  PROVE  FoundAttributed'
<1>0. TypeOK /\ FoundAttributed /\ OneRemover /\ DirectoriesHold
  BY DEF Inv
<1>1. CASE Environment
  <2>1. UNCHANGED <<pc, seen, left>> /\ (worktree' # "removed" => worktree # "removed")
    BY <1>1, CallsStay
  <2>2. \A s \in Sessions : record[s] \in Attributed /\ status = "integrated"
                              => record'[s] \in Attributed
    BY <1>0, <1>1
    DEF TypeOK, DirectoriesHold, Environment, Integrate, OthersIntegrate, Operate, Allocate, Launch, Send, Register,
        FailStart, Heartbeat, End, Edit, Commit, session, Attributed
  <2>. QED BY <1>0, <2>1, <2>2 DEF FoundAttributed, OneRemover, Past, TypeOK, Read
<1>2. ASSUME NEW c \in Cleaners, RemoveMapping(c) PROVE FoundAttributed'
  <2>1. Cleaner(c) /\ pc[c] = "mappings" /\ worktree' = "removed"
    BY <1>0, <1>2, CallIsAlone DEF Cleaner, RemoveMapping, At, OneRemover
  <2>2. \A d \in Cleaners \ {c} : left'[d] = {}
    BY <1>0, <2>1, CallIsAlone DEF FoundAttributed, OneRemover
  <2>3. /\ left'[c] # {} => pc'[c] = "mappings"
        /\ \A s \in left'[c] : s \in left[c] /\ record'[s] = record[s]
    BY <1>0, <1>2, <2>1 DEF RemoveMapping, Answer, Goes, TypeOK
  <2>. QED BY <1>0, <2>1, <2>2, <2>3 DEF FoundAttributed
<1>3. ASSUME NEW c \in Cleaners, RemoveWorktree(c) PROVE FoundAttributed'
  <2>1. Cleaner(c) /\ record' = record
    BY <1>3 DEF Cleaner, RemoveWorktree, session
  <2>2. CASE worktree' = "removed" /\ worktree # "removed" /\ left' = [left EXCEPT ![c] = seen[c].found]
             /\ pc' = [pc EXCEPT ![c] = "mappings"]
    <3>1. pc[c] \in Past
      BY <1>3 DEF RemoveWorktree, At, Past
    <3>2. \A s \in seen[c].found : record[s] \in Attributed
      BY <1>0, <2>2, <3>1 DEF FoundAttributed
    <3>. QED BY <1>0, <2>1, <2>2, <3>2 DEF FoundAttributed, TypeOK
  <2>3. CASE Answer(c, "failed") /\ worktree' = worktree
    BY <1>0, <2>1, <2>3 DEF FoundAttributed, TypeOK, Answer, Goes, Forgets, Past
  <2>. QED BY <1>3, <2>2, <2>3 DEF RemoveWorktree, Removable, Goes
<1>4. ASSUME NEW c \in Cleaners, Cleaner(c), ~RemoveMapping(c), ~RemoveWorktree(c)
      PROVE  FoundAttributed'
  <2>1. record' = record /\ worktree' = worktree
    BY <1>4
    DEF Cleaner, Call, ReadSessions, ReadGit, ReadStatus, ReadTip, ReadMerged,
        DeleteBranch, Fail, Kill, session, tree
  <2>2. left' \in {left, [left EXCEPT ![c] = {}]}
    BY <1>4
    DEF Cleaner, Call, ReadSessions, ReadGit, ReadStatus, ReadTip, ReadMerged,
        DeleteBranch, Fail, Kill, Answer
  <2>3. left'[c] = {}
    BY <1>0, <1>4, <2>2
    DEF Cleaner, Call, ReadSessions, ReadGit, ReadStatus, ReadTip, ReadMerged,
        DeleteBranch, Fail, Kill, Answer, At, FoundAttributed, TypeOK
  <2>4. ASSUME pc'[c] \in Past, worktree # "removed", NEW s \in seen'[c].found
        PROVE  record[s] \in Attributed
    <3>1. CASE ~ReadSessions(c)
      BY <1>0, <1>4, <2>4, <3>1, FoundStays DEF FoundAttributed
    <3>2. CASE ReadSessions(c)
      <4>1. seen[c] \in Read
        BY <1>0, <3>2 DEF TypeOK, ReadSessions, At
      <4>2. /\ seen' = [seen EXCEPT ![c]["found"] = {t \in Sessions : record[t] # "none"}]
            /\ Unattributed = {} /\ \A t \in Sessions : record[t] # "live"
        BY <1>0, <2>4, <3>2 DEF TypeOK, ReadSessions, Answer, Goes, Learns, Past
      <4>3. seen'[c].found = {t \in Sessions : record[t] # "none"}
        BY <1>0, <4>1, <4>2 DEF TypeOK, Read
      <4>. QED BY <1>0, <2>4, <4>2, <4>3 DEF TypeOK, Records, Unattributed, Attributed
    <3>. QED BY <3>1, <3>2
  <2>. QED BY <1>0, <1>4, <2>1, <2>3, <2>4, CallIsAlone DEF FoundAttributed
<1>. QED BY <1>1, <1>2, <1>3, <1>4 DEF Next

\* A Session that no send resumes gets no Worker and no directory once a call has
\* read it, whatever the step.
LEMMA UnresumedStays ==
  ASSUME Inv, Next, NEW s \in Sessions, s \notin resumed'
  PROVE  /\ s \notin resumed
         /\ worker'[s] # "none" => record'[s] \in {"launch", "live"}
         /\ status = "integrated" /\ worker[s] = "none" =>
              /\ worker'[s] = "none"
              /\ record'[s] \in {record[s], "none"}
<1>1. TypeOK /\ FoundAttributed /\ OneRemover /\ DirectoriesHold /\ FoundAll
  BY DEF Inv
<1>2. resumed \subseteq resumed'
  <2>1. CASE Environment
    BY <2>1
    DEF Environment, Integrate, OthersIntegrate, Operate, Allocate, Launch, Send, Register,
        FailStart, Heartbeat, End, Edit, Commit, session
  <2>2. ASSUME NEW c \in Cleaners, Cleaner(c) PROVE resumed \subseteq resumed'
    BY <1>1, <2>2, CallIsAlone
  <2>. QED BY <2>1, <2>2 DEF Next
<1>3. s \notin resumed
  BY <1>2
<1>4. worker[s] # "none" => record[s] \in {"launch", "live"}
  BY <1>1, <1>3 DEF FoundAll
<1>5. \A c \in Cleaners : \A t \in left[c] : t \notin resumed => worker[t] = "none"
  BY <1>1 DEF FoundAttributed, FoundAll, Past, TypeOK
<1>6. worker[s] # "none" => record'[s] # "none"
  <2>1. CASE Environment
    BY <1>1, <1>4, <2>1
    DEF Environment, Integrate, OthersIntegrate, Operate, Allocate, Launch, Send, Register,
        FailStart, Heartbeat, End, Edit, Commit, session, TypeOK
  <2>2. ASSUME NEW c \in Cleaners, Cleaner(c), worker[s] # "none" PROVE record'[s] # "none"
    <3>1. record[s] # "none" /\ s \notin left[c]
      BY <1>3, <1>4, <1>5, <2>2
    <3>2. record' = record \/ \E t \in left[c] : record' = [record EXCEPT ![t] = "none"]
      BY <2>2
      DEF Cleaner, Call, ReadSessions, ReadGit, ReadStatus, ReadTip, ReadMerged,
          RemoveWorktree, RemoveMapping, DeleteBranch, Fail, Kill, session
    <3>. QED BY <1>1, <3>1, <3>2 DEF TypeOK
  <2>. QED BY <2>1, <2>2 DEF Next
<1>. QED BY <1>1, <1>3, <1>4, <1>6, HowASessionGoes DEF TypeOK

\* A step keeps the directories of the Sessions among those a call has found.
LEMMA FoundStaysAll ==
  ASSUME Inv, Next
  PROVE  FoundAll'
<1>0. TypeOK /\ FoundAttributed /\ OneRemover /\ FoundAll
  BY DEF Inv
<1>1. SUFFICES ASSUME NEW s \in Sessions, s \notin resumed', NEW c \in Cleaners
      PROVE  /\ pc'[c] \in Past =>
                  worker'[s] = "none" /\ (record'[s] = "none" \/ s \in seen'[c].found)
             /\ pc'[c] \in {"mappings", "branch"} => record'[s] = "none" \/ s \in left'[c]
             /\ pc'[c] = "branch" => record'[s] = "none"
  BY UnresumedStays DEF FoundAll
<1>2. CASE pc'[c] = pc[c] /\ seen'[c] = seen[c] /\ left'[c] = left[c]
  BY <1>0, <1>1, <1>2, UnresumedStays DEF FoundAll, OneRemover, Past
<1>3. CASE Cleaner(c)
  <2>1. UNCHANGED worker /\ s \notin resumed
    BY <1>0, <1>1, <1>3, UnresumedStays, CallIsAlone
  <2>2. CASE ReadSessions(c)
    <3>1. CASE Answer(c, "not-integrated") \/ Answer(c, "ownership-mismatch") \/ Answer(c, "busy")
      BY <1>0, <3>1 DEF Answer, Goes, TypeOK, Past
    <3>2. CASE /\ Unattributed = {} /\ \A t \in Sessions : record[t] # "live"
               /\ Learns(c, "found", {t \in Sessions : record[t] # "none"})
               /\ Goes(c, "git")
      <4>1. worker[s] = "none" /\ record' = record
        BY <1>0, <2>1, <2>2, <3>2 DEF FoundAll, Unattributed, ReadSessions, session
      <4>2. seen[c] \in Read /\ pc'[c] = "git"
        BY <1>0, <2>2, <3>2 DEF TypeOK, ReadSessions, At, Goes
      <4>3. seen'[c].found = {t \in Sessions : record[t] # "none"}
        BY <1>0, <3>2, <4>2 DEF TypeOK, Read, Learns
      <4>. QED BY <2>1, <4>1, <4>2, <4>3
    <3>. QED BY <2>2, <3>1, <3>2 DEF ReadSessions
  <2>3. ASSUME ~ReadSessions(c), pc'[c] \in Past
        PROVE  worker'[s] = "none" /\ (record'[s] = "none" \/ s \in seen'[c].found)
    BY <1>0, <1>1, <1>3, <2>1, <2>3, FoundStays, UnresumedStays DEF FoundAll, OneRemover
  <2>4. ASSUME pc'[c] = "mappings" PROVE record'[s] = "none" \/ s \in left'[c]
    <3>1. CASE RemoveWorktree(c) /\ pc[c] = "worktree" /\ worktree # "removed"
      <4>1. left'[c] = seen[c].found /\ record' = record
        BY <1>0, <2>4, <3>1 DEF RemoveWorktree, Answer, Goes, TypeOK, session
      <4>. QED BY <1>0, <2>1, <3>1, <4>1 DEF FoundAll, Past
    <3>2. CASE RemoveMapping(c) /\ pc[c] = "mappings"
      <4>1. \/ record' = record /\ left' = left
            \/ \E t \in left[c] : /\ record' = [record EXCEPT ![t] = "none"]
                                  /\ left' = [left EXCEPT ![c] = @ \ {t}]
        BY <1>0, <2>4, <3>2 DEF RemoveMapping, Answer, Goes, TypeOK
      <4>. QED BY <1>0, <2>1, <3>2, <4>1 DEF FoundAll, TypeOK
    <3>. QED BY <1>0, <1>3, <2>4, <3>1, <3>2, HowACallGoes
  <2>5. ASSUME pc'[c] = "branch" PROVE record'[s] = "none"
    <3>1. pc[c] = "mappings" /\ left[c] = {}
      BY <1>0, <1>3, <2>5, HowACallGoes
    <3>2. record[s] = "none" /\ worker[s] = "none" /\ status = "integrated"
      BY <1>0, <2>1, <3>1 DEF FoundAll, OneRemover, Past
    <3>. QED BY <1>1, <3>2, UnresumedStays
  <2>. QED BY <2>2, <2>3, <2>4, <2>5 DEF Past
<1>4. CASE ~Cleaner(c)
  <2>1. CASE Environment
    BY <1>2, <2>1, CallsStay
  <2>2. ASSUME NEW d \in Cleaners, Cleaner(d)
        PROVE  pc'[c] = pc[c] /\ seen'[c] = seen[c] /\ left'[c] = left[c]
    BY <1>0, <1>4, <2>2, CallIsAlone
  <2>. QED BY <1>2, <2>1, <2>2 DEF Next
<1>. QED BY <1>3, <1>4

\* Nothing comes back after an answer of success, and a call that gives one has seen
\* to everything.
LEMMA AnswersStayTrue ==
  ASSUME Inv, Next
  PROVE  AnswersTrue'
<1>0. TypeOK /\ OneRemover /\ FoundAll /\ AnswersTrue
  BY DEF Inv
<1> DEFINE Clean == /\ status = "integrated" /\ worktree = "removed" /\ branch = Absent
                    /\ \A s \in Sessions \ resumed : record[s] = "none" /\ worker[s] = "none"
<1>1. ASSUME Clean PROVE Clean'
  <2>1. status' = "integrated" /\ worktree' = "removed"
    BY <1>0, <1>1, CallsStay, CallIsAlone DEF Next
  <2>2. branch' = Absent
    <3>1. CASE Environment
      BY <1>1, <3>1, BoundAssumption
      DEF Environment, Integrate, OthersIntegrate, Operate, Allocate, Launch, Send, Register,
          FailStart, Heartbeat, End, Edit, Commit, tree, BoundAssumption
    <3>2. ASSUME NEW c \in Cleaners, Cleaner(c) PROVE branch' = Absent
      BY <1>0, <1>1, <3>2, CallIsAlone
    <3>. QED BY <3>1, <3>2 DEF Next
  <2>3. \A s \in Sessions \ resumed' : record'[s] = "none" /\ worker'[s] = "none"
    BY <1>1, UnresumedStays
  <2>. QED BY <2>1, <2>2, <2>3
<1>2. ASSUME NEW c \in Cleaners, Cleaner(c), answer'[c] \in {"cleaned", "already-cleaned"}
      PROVE  Clean'
  <2>1. CASE answer'[c] = answer[c]
    BY <1>0, <1>1, <1>2, <2>1 DEF AnswersTrue
  <2>2. CASE ReadGit(c) /\ NothingLeft /\ seen[c].found = {}
    <3>1. Clean
      BY <1>0, <2>2 DEF ReadGit, At, NothingLeft, OneRemover, FoundAll, Past
    <3>. QED BY <1>1, <3>1
  <2>3. CASE DeleteBranch(c) /\ branch' = Absent
    <3>1. pc[c] = "branch" /\ UNCHANGED <<worktree, session, status>>
      BY <2>3 DEF DeleteBranch, At, ticket
    <3>. QED BY <1>0, <2>3, <3>1 DEF OneRemover, FoundAll, Past, session
  <2>4. \/ answer'[c] = answer[c]
        \/ ReadGit(c) /\ NothingLeft /\ seen[c].found = {}
        \/ DeleteBranch(c) /\ branch' = Absent
    BY <1>0, <1>2
    DEF Cleaner, Call, ReadSessions, ReadGit, ReadStatus, ReadTip, ReadMerged,
        RemoveWorktree, RemoveMapping, DeleteBranch, Fail, Kill, Answer, TypeOK
  <2>. QED BY <2>1, <2>2, <2>3, <2>4
<1>3. ASSUME NEW c \in Cleaners, answer'[c] \in {"cleaned", "already-cleaned"}
      PROVE  Clean'
  <2>1. CASE answer'[c] = answer[c]
    BY <1>0, <1>1, <1>3, <2>1 DEF AnswersTrue
  <2>2. CASE answer'[c] # answer[c]
    BY <1>0, <1>2, <1>3, <2>2, CallsStay, CallIsAlone DEF Next
  <2>. QED BY <2>1, <2>2
<1>. QED BY <1>3 DEF AnswersTrue

----------------------------------------------------------------------------
(* The invariant and what it says                                          *)

\* Whatever the steps, what the calls rely on holds.
THEOREM Invariant == Spec => []Inv
<1>1. ASSUME Init PROVE Inv
  <2>1. TypeOK
    BY <1>1, InitTyped
  <2>. QED BY <1>1, <2>1
           DEF Init, Inv, TipsHeld, OneRemover, DirectoriesHold, FoundAttributed, FoundAll,
               AnswersTrue, Past, Merged
<1>2. Inv /\ [Next]_vars => Inv'
  <2>1. ASSUME Inv, Next PROVE Inv'
    <3>1. TypeOK'
      BY <2>1, EnvironmentTyped, CleanerTyped, BoundAssumption DEF Inv, Next
    <3>. QED BY <2>1, <3>1, TipsStay, OneRemoverStays, DirectoriesStay, FoundStaysAttributed,
                FoundStaysAll, AnswersStayTrue, BoundAssumption
             DEF Inv
  <2>2. ASSUME Inv, UNCHANGED vars PROVE Inv'
    BY <2>2 DEF Inv, TypeOK, TipsHeld, OneRemover, DirectoriesHold, FoundAttributed, FoundAll,
                AnswersTrue, vars, ticket, tree, session, call
  <2>. QED BY <2>1, <2>2
<1>. QED BY <1>1, <1>2, PTL DEF Spec

\* An answer of success is true for good (runner_cleanup.py:195 and :239).
THEOREM SuccessStays == Spec => []SuccessIsFinal
<1>1. Inv => SuccessIsFinal
  BY DEF Inv, AnswersTrue, SuccessIsFinal
<1>. QED BY <1>1, Invariant, PTL

\* No commit and no edit of the Agents is removed (runner_cleanup.py:418 and :207).
THEOREM NothingIsLost == Spec => NoWorkLost
<1>1. Inv /\ [Next]_vars =>
        [/\ branch # Absent /\ branch' = Absent => branch <= dev.holds
         /\ worktree # "removed" /\ worktree' = "removed" => ~dirty]_vars
  <2>1. ASSUME Inv, Environment
        PROVE  /\ branch # Absent => branch' # Absent
               /\ worktree # "removed" => worktree' # "removed"
    BY <2>1, BoundAssumption
    DEF Environment, Integrate, OthersIntegrate, Operate, Allocate, Launch, Send, Register,
        FailStart, Heartbeat, End, Edit, Commit, tree, BoundAssumption
  <2>2. ASSUME Inv, NEW c \in Cleaners, Cleaner(c)
        PROVE  /\ branch # Absent /\ branch' = Absent => branch <= dev.holds
               /\ worktree # "removed" /\ worktree' = "removed" => ~dirty
    <3>1. CASE DeleteBranch(c)
      <4>1. pc[c] \in Merged /\ UNCHANGED worktree
        BY <3>1 DEF DeleteBranch, At, Merged
      <4>2. branch' = branch \/ (dev = seen[c].dev /\ branch = seen[c].tip)
        BY <3>1 DEF DeleteBranch, AsRead
      <4>. QED BY <2>2, <4>1, <4>2 DEF Inv, TipsHeld
    <3>2. CASE RemoveWorktree(c)
      BY <3>2 DEF RemoveWorktree, Removable
    <3>3. CASE ~DeleteBranch(c) /\ ~RemoveWorktree(c)
      BY <2>2, <3>3
      DEF Cleaner, Call, ReadSessions, ReadGit, ReadStatus, ReadTip, ReadMerged,
          RemoveMapping, Fail, Kill, tree
    <3>. QED BY <3>1, <3>2, <3>3
  <2>. QED BY <2>1, <2>2 DEF Next
<1>. QED BY <1>1, Invariant, PTL DEF Spec, NoWorkLost

\* A directory is removed only once its Session was attributed to the Ticket
\* (runner_cleanup.py:273).
THEOREM RemovalIsAttributed == Spec => OnlyAttributedAreRemoved
<1>1. Inv /\ [Next]_vars =>
        [\A s \in Sessions : record[s] # "none" /\ record'[s] = "none"
                               => record[s] \notin {"launch", "torn"}]_vars
  <2>1. ASSUME Inv, Next, NEW s \in Sessions, record[s] # "none", record'[s] = "none"
        PROVE  record[s] \notin {"launch", "torn"}
    BY <2>1, HowASessionGoes DEF Inv, Attributed
  <2>. QED BY <2>1
<1>. QED BY <1>1, Invariant, PTL DEF Spec, OnlyAttributedAreRemoved
=============================================================================
