------------------------------ MODULE Cleanup ------------------------------
(***************************************************************************)
(* Removal of what one integrated Ticket no longer needs: its Worktree,    *)
(* its Session directories and its branch (execution/runner_cleanup.py).   *)
(* A call takes no lock.  It reads the Ticket, the Sessions and git one    *)
(* after the other, and removes afterwards what it found; meanwhile other  *)
(* calls do the same, Agents commit or leave edits, sends resume retained  *)
(* Sessions, `dev` moves, and an operator rearranges Worktrees.            *)
(***************************************************************************)
EXTENDS Naturals, FiniteSets

CONSTANTS Cleaners,   \* processes that run the command
          Sessions,   \* the Sessions whose alias names the Ticket
          Absent,     \* the branch does not exist
          Unread,     \* a call that has read nothing
          MaxCommits, \* bound: commits of the branch
          MaxCalls,   \* bound: calls of the command
          MaxFaults   \* bound: failures, kills and operator's commands

\* What dev may hold, what the branch may be, and what a call has read of both.
Dev == [holds : 0 .. MaxCommits, others : 0 .. 1]
Tips == (0 .. MaxCommits) \cup {Absent}
Read == [dev : Dev, tip : Tips, found : SUBSET Sessions]

ASSUME BoundAssumption == /\ MaxCommits \in Nat \ {0} /\ MaxCalls \in Nat /\ MaxFaults \in Nat
                          /\ Absent \notin Nat /\ Unread \notin Read

VARIABLES status,   \* the Ticket: "active" or "integrated"
          dev,      \* dev: the branch's commits it holds, others' work
          branch,   \* the branch: its last commit
          worktree, \* the canonical Worktree and its registration
          dirty,    \* it has uncommitted work
          record,   \* what each Session directory holds
          worker,   \* the Worker of each Session
          resumed,  \* the Sessions a send has resumed
          pc,       \* where each call is
          seen,     \* what it has read
          left,     \* the Session directories it has still to remove
          answer,   \* the last answer of each process
          calls, faults

ticket == <<status, dev>>
tree == <<branch, worktree, dirty>>
session == <<record, worker, resumed>>
call == <<pc, seen, left, answer>>
vars == <<ticket, tree, session, call, calls, faults>>

\* "moved": registered at another path; "switched": it has another branch
\* checked out; "deleted": registered, but its directory is gone.
Worktrees == {"ours", "moved", "switched", "deleted", "removed"}

\* "empty": allocated only; "launch": launch.yml and nothing of its outcome;
\* "failed": with its launch error; "ended" and "live": mapping.yml names
\* dead processes or live ones; "torn": no launch and no mapping.
Records == {"none", "empty", "launch", "failed", "ended", "live", "torn"}

Refusals == {"not-integrated", "ownership-mismatch", "busy", "dirty", "failed"}

TypeOK ==
  /\ status \in {"active", "integrated"}
  /\ dev \in Dev /\ branch \in Tips
  /\ worktree \in Worktrees /\ dirty \in BOOLEAN
  /\ record \in [Sessions -> Records]
  /\ worker \in [Sessions -> {"none", "starting", "running"}]
  /\ resumed \subseteq Sessions
  /\ pc \in [Cleaners -> {"idle", "sessions", "git", "clean", "tip", "merged",
                          "worktree", "mappings", "branch"}]
  /\ seen \in [Cleaners -> Read \cup {Unread}] /\ left \in [Cleaners -> SUBSET Sessions]
  /\ \A c \in Cleaners : pc[c] = "idle" <=> seen[c] = Unread
  /\ answer \in [Cleaners -> {"none", "cleaned", "already-cleaned"} \cup Refusals]
  /\ calls \in 0 .. MaxCalls /\ faults \in 0 .. MaxFaults

Init ==
  /\ status = "active" /\ dev = [holds |-> 0, others |-> 0]
  /\ branch = 1 /\ worktree = "ours" /\ dirty = FALSE
  /\ record = [s \in Sessions |-> "none"]
  /\ worker = [s \in Sessions |-> "none"] /\ resumed = {}
  /\ pc = [c \in Cleaners |-> "idle"] /\ seen = [c \in Cleaners |-> Unread]
  /\ left = [c \in Cleaners |-> {}] /\ answer = [c \in Cleaners |-> "none"]
  /\ calls = 0 /\ faults = 0

Fault == faults < MaxFaults /\ faults' = faults + 1

----------------------------------------------------------------------------
(* The rest of the system, as far as a cleanup meets it.                   *)

\* The integration of a candidate, which may not be the last commit.
Integrate ==
  /\ status = "active" /\ branch # Absent
  /\ \E candidate \in 1 .. branch :
        dev' = [dev EXCEPT !.holds = IF @ < candidate THEN candidate ELSE @]
  /\ status' = "integrated"
  /\ UNCHANGED <<tree, session, call, calls, faults>>

\* dev takes another Ticket's candidate.
OthersIntegrate ==
  /\ dev.others = 0 /\ dev' = [dev EXCEPT !.others = 1]
  /\ UNCHANGED <<status, tree, session, call, calls, faults>>

\* Allocate(s): a Session directory is created, by the driver of a Team or by
\* the integration, both over before the Ticket is integrated.
Allocate(s) ==
  /\ status = "active" /\ record[s] = "none" /\ worker[s] = "none"
  /\ record' = [record EXCEPT ![s] = "empty"]
  /\ UNCHANGED <<ticket, tree, worker, resumed, call, calls, faults>>

\* Launch(s): launch.yml is written and the Worker started.
Launch(s) ==
  /\ status = "active" /\ record[s] = "empty"
  /\ record' = [record EXCEPT ![s] = "launch"]
  /\ worker' = [worker EXCEPT ![s] = "starting"]
  /\ UNCHANGED <<ticket, tree, resumed, call, calls, faults>>

\* Send(s): a send resumes an ended Session.  It asks only whether the
\* Worktree is still there.
Send(s) ==
  /\ record[s] = "ended" /\ worker[s] = "none"
  /\ s \notin resumed /\ worktree \in {"ours", "switched"}
  /\ worker' = [worker EXCEPT ![s] = "starting"]
  /\ resumed' = resumed \cup {s}
  /\ UNCHANGED <<ticket, tree, record, call, calls, faults>>

\* record_session: the mapping names the live processes.  A Worker whose
\* directory was removed publishes no mapping, until its heartbeat has made
\* the directory anew.
Register(s) ==
  /\ worker[s] = "starting" /\ record[s] # "none"
  /\ worker' = [worker EXCEPT ![s] = "running"]
  /\ record' = [record EXCEPT ![s] = "live"]
  /\ UNCHANGED <<ticket, tree, resumed, call, calls, faults>>

\* The start fails, with a launch error of a new Session or killed without.
FailStart(s) ==
  /\ worker[s] = "starting"
  /\ worker' = [worker EXCEPT ![s] = "none"]
  /\ \E kept \in IF record[s] = "launch" THEN {"launch", "failed"} ELSE {record[s]} :
        record' = [record EXCEPT ![s] = kept]
  /\ UNCHANGED <<ticket, tree, resumed, call, calls, faults>>

\* write_heartbeat makes the directory of a live Worker anew.
Heartbeat(s) ==
  /\ worker[s] # "none" /\ record[s] = "none"
  /\ record' = [record EXCEPT ![s] = "torn"]
  /\ UNCHANGED <<ticket, tree, worker, resumed, call, calls, faults>>

\* The execution ends.  Its terminal record makes the directory anew as well,
\* unless the Worker was killed.
End(s) ==
  /\ worker[s] = "running"
  /\ worker' = [worker EXCEPT ![s] = "none"]
  /\ \E kept \in IF record[s] = "live" THEN {"ended"} ELSE {record[s], "torn"} :
        record' = [record EXCEPT ![s] = kept]
  /\ UNCHANGED <<ticket, tree, resumed, call, calls, faults>>

\* A running Agent edits the Worktree and commits.
Edit(s) ==
  /\ worker[s] = "running" /\ worktree = "ours" /\ ~dirty
  /\ dirty' = TRUE
  /\ UNCHANGED <<ticket, branch, worktree, session, call, calls, faults>>

Commit(s) ==
  /\ worker[s] = "running" /\ worktree = "ours" /\ dirty
  /\ branch \in 0 .. MaxCommits - 1 /\ branch' = branch + 1
  /\ dirty' = FALSE
  /\ UNCHANGED <<ticket, worktree, session, call, calls, faults>>

\* An operator moves the Worktree, switches its branch, deletes its
\* directory, or takes the candidate back out of dev.
Operate ==
  /\ Fault
  /\ \/ /\ worktree = "ours"
        /\ \/ worktree' = "moved" /\ UNCHANGED dirty
           \/ worktree' = "switched" /\ UNCHANGED dirty
           \/ worktree' = "deleted" /\ dirty' = FALSE
        /\ UNCHANGED <<dev, branch>>
     \/ /\ dev.holds > 0 /\ dev' = [dev EXCEPT !.holds = 0]
        /\ UNCHANGED tree
  /\ UNCHANGED <<status, session, call, calls>>

----------------------------------------------------------------------------
(* The command.                                                            *)

At(c, where) == pc[c] = where

Goes(c, where) == pc' = [pc EXCEPT ![c] = where]

Learns(c, what, value) == seen' = [seen EXCEPT ![c][what] = value]

\* The call is over and nothing of it is left.
Forgets(c) == [seen EXCEPT ![c] = Unread]

Answer(c, what) ==
  /\ Goes(c, "idle")
  /\ seen' = Forgets(c) /\ left' = [left EXCEPT ![c] = {}]
  /\ answer' = [answer EXCEPT ![c] = what]

\* cleanup_ticket: the project is discovered, with the commit of dev.
Call(c) ==
  /\ At(c, "idle") /\ calls < MaxCalls /\ calls' = calls + 1
  /\ seen' = [seen EXCEPT ![c] = [dev |-> dev, tip |-> Absent, found |-> {}]]
  /\ answer' = [answer EXCEPT ![c] = "none"]
  /\ Goes(c, "sessions")
  /\ UNCHANGED <<ticket, tree, session, left, faults>>

\* A mutated form: a launch whose outcome is open counts as terminal.
UnattributedButLaunch == {s \in Sessions : record[s] = "torn"}

\* Session directories of the Ticket's alias that cannot be attributed.
Unattributed == {s \in Sessions : record[s] \in {"launch", "torn"}}

\* _target and _ticket_mappings.
ReadSessions(c) ==
  /\ At(c, "sessions")
  /\ \/ /\ status # "integrated" /\ Answer(c, "not-integrated")
     \/ /\ status = "integrated" /\ Unattributed # {}
        /\ Answer(c, "ownership-mismatch")
     \/ /\ status = "integrated" /\ Unattributed = {}
        /\ \E s \in Sessions : record[s] = "live"
        /\ Answer(c, "busy")
     \/ /\ status = "integrated" /\ Unattributed = {}
        /\ \A s \in Sessions : record[s] # "live"
        /\ Learns(c, "found", {s \in Sessions : record[s] # "none"})
        /\ Goes(c, "git") /\ UNCHANGED <<left, answer>>
  /\ UNCHANGED <<ticket, tree, session, calls, faults>>

\* A mutated form: only the Worktree is looked for.
NoWorktree == worktree = "removed"

\* No directory, no registration of it or of the branch, and no branch.
NothingLeft == worktree = "removed" /\ branch = Absent

\* The directory, the branch, and the registration of one with the other.
Canonical == worktree = "ours" /\ branch # Absent

ReadGit(c) ==
  /\ At(c, "git")
  /\ \/ NothingLeft /\ seen[c].found = {} /\ Answer(c, "already-cleaned")
     \/ NothingLeft /\ seen[c].found # {} /\ Answer(c, "ownership-mismatch")
     \/ ~NothingLeft /\ ~Canonical /\ Answer(c, "ownership-mismatch")
     \/ ~NothingLeft /\ Canonical
        /\ Goes(c, "clean") /\ UNCHANGED <<seen, left, answer>>
  /\ UNCHANGED <<ticket, tree, session, calls, faults>>

\* git status in the Worktree; git fails where there is none any more.
ReadStatus(c) ==
  /\ At(c, "clean")
  /\ \/ worktree \notin {"ours", "switched"} /\ Answer(c, "failed")
     \/ worktree \in {"ours", "switched"} /\ dirty /\ Answer(c, "dirty")
     \/ worktree \in {"ours", "switched"} /\ ~dirty
        /\ Goes(c, "tip") /\ UNCHANGED <<seen, left, answer>>
  /\ UNCHANGED <<ticket, tree, session, calls, faults>>

ReadTip(c) ==
  /\ At(c, "tip")
  /\ \/ branch = Absent /\ Answer(c, "failed")
     \/ /\ branch # Absent /\ Learns(c, "tip", branch)
        /\ Goes(c, "merged") /\ UNCHANGED <<left, answer>>
  /\ UNCHANGED <<ticket, tree, session, calls, faults>>

\* git merge-base looks the branch up again; dev is the commit first read.
ReadMerged(c) ==
  /\ At(c, "merged")
  /\ \/ branch = Absent /\ Answer(c, "failed")
     \/ /\ branch # Absent /\ branch > seen[c].dev.holds
        /\ Answer(c, "not-integrated")
     \/ /\ branch # Absent /\ branch <= seen[c].dev.holds
        /\ Goes(c, "worktree") /\ UNCHANGED <<seen, left, answer>>
  /\ UNCHANGED <<ticket, tree, session, calls, faults>>

\* A mutated form: git worktree remove --force.
ForcedRemoval == worktree \in {"ours", "switched", "deleted"}

\* git worktree remove refuses modified and untracked files, and takes a
\* registered Worktree whatever it has checked out.
Removable == worktree \in {"ours", "switched", "deleted"} /\ ~dirty

RemoveWorktree(c) ==
  /\ At(c, "worktree")
  /\ \/ /\ ~Removable /\ Answer(c, "failed") /\ UNCHANGED worktree
     \/ /\ Removable /\ worktree' = "removed"
        /\ left' = [left EXCEPT ![c] = seen[c].found]
        /\ Goes(c, "mappings") /\ UNCHANGED <<seen, answer>>
  /\ UNCHANGED <<ticket, branch, dirty, session, calls, faults>>

\* shutil.rmtree of one directory; it fails for one that is gone.
RemoveMapping(c) ==
  /\ At(c, "mappings")
  /\ \/ /\ left[c] = {} /\ Goes(c, "branch")
        /\ UNCHANGED <<seen, left, answer, record>>
     \/ \E s \in left[c] :
          \/ record[s] = "none" /\ Answer(c, "failed") /\ UNCHANGED record
          \/ /\ record[s] # "none"
             /\ record' = [record EXCEPT ![s] = "none"]
             /\ left' = [left EXCEPT ![c] = @ \ {s}]
             /\ UNCHANGED <<pc, seen, answer>>
  /\ UNCHANGED <<ticket, tree, worker, resumed, calls, faults>>

\* A mutated form: the transaction verifies the branch only.
SameBranch(c) == branch = seen[c].tip

\* The transaction verifies dev and the branch as they were read.
AsRead(c) == dev = seen[c].dev /\ branch = seen[c].tip

\* _delete_branch_if_dev_unchanged.
DeleteBranch(c) ==
  /\ At(c, "branch")
  /\ \/ AsRead(c) /\ branch' = Absent /\ Answer(c, "cleaned")
     \/ ~AsRead(c) /\ Answer(c, "failed") /\ UNCHANGED branch
  /\ UNCHANGED <<ticket, worktree, dirty, session, calls, faults>>

\* A command of git, a read or a removal fails.
Fail(c) ==
  /\ pc[c] # "idle" /\ Fault /\ Answer(c, "failed")
  /\ UNCHANGED <<ticket, tree, session, calls>>

\* The process is killed and answers nothing.
Kill(c) ==
  /\ pc[c] # "idle" /\ Fault /\ Answer(c, "none")
  /\ UNCHANGED <<ticket, tree, session, calls>>

----------------------------------------------------------------------------
Environment ==
  \/ Integrate \/ OthersIntegrate \/ Operate
  \/ \E s \in Sessions : \/ Allocate(s) \/ Launch(s) \/ Send(s) \/ Register(s)
                         \/ FailStart(s) \/ Heartbeat(s) \/ End(s)
                         \/ Edit(s) \/ Commit(s)

Cleaner(c) ==
  \/ Call(c) \/ ReadSessions(c) \/ ReadGit(c) \/ ReadStatus(c) \/ ReadTip(c)
  \/ ReadMerged(c) \/ RemoveWorktree(c) \/ RemoveMapping(c) \/ DeleteBranch(c)
  \/ Fail(c) \/ Kill(c)

Next == Environment \/ \E c \in Cleaners : Cleaner(c)

Spec == Init /\ [][Next]_vars

----------------------------------------------------------------------------
(* Whatever interferes, no work is lost: the branch goes only while dev    *)
(* holds its last commit, and the Worktree only without uncommitted work,  *)
(* although both were checked many steps before they are removed.          *)
NoWorkLost ==
  [][/\ branch # Absent /\ branch' = Absent => branch <= dev.holds
     /\ worktree # "removed" /\ worktree' = "removed" => ~dirty]_vars

(* `cleaned` and `already-cleaned` are true for good: no call answers one  *)
(* of them while the Worktree, its registration, the branch or a Session   *)
(* directory of the Ticket is left, nor does any of them come back, unless *)
(* a send resumed that Session.                                            *)
SuccessIsFinal ==
  (\E c \in Cleaners : answer[c] \in {"cleaned", "already-cleaned"}) =>
     /\ worktree = "removed" /\ branch = Absent
     /\ \A s \in Sessions \ resumed : record[s] = "none"

(* A Session directory is removed only when its Session was attributed to  *)
(* the Ticket: never one whose launch may still be under way or one whose  *)
(* Worker made it anew, whichever call meets it.                           *)
OnlyAttributedAreRemoved ==
  [][\A s \in Sessions :
       record[s] # "none" /\ record'[s] = "none" => record[s] \notin {"launch", "torn"}]_vars
=============================================================================
