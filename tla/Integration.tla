---------------------------- MODULE Integration ----------------------------
(***************************************************************************)
(* Main's serial integration of accepted candidates into dev               *)
(* (teams/coding/ticket_integration.py): the merge, the validation, the    *)
(* resolution of a retained conflict by a Merge Resolver, the records on   *)
(* ticket.yml and the Worldline, and the release of dependents.            *)
(*                                                                         *)
(* One run holds integration.lock from its first read to its end.  It      *)
(* reads the Ticket once and writes that copy back, status changed, up to  *)
(* the end of the validation; only the single writes take tickets/.lock.   *)
(* Meanwhile Main updates and revises Tickets and Teams deliver them.      *)
(*                                                                         *)
(* A Team fixes one candidate: the commit of Team g of Ticket t is         *)
(* <<t, g>>.  Every Ticket is active here; TicketGraph retires them.       *)
(***************************************************************************)
EXTENDS Tickets, Naturals

CONSTANTS Dependencies,      \* Ticket -> the Tickets it waits for
          Updates,           \* the statuses Main's updates ask for
          NoCommit, Foreign, \* no commit; a commit no Team made
          NoRun,             \* no integration holds integration.lock
          TidyFirst,         \* Main has a semantic conflict resolved only in a
                             \* worktree without a merge in progress
          LastTeam,          \* Ticket -> how many Teams it may get
          LastDefinition,    \* Ticket -> how many definitions it may get
          MaxTeams, MaxDefinitions, MaxHead, MaxCrashes     \* bounds

ASSUME DependenciesAssumption == Dependencies \in [TicketIds -> SUBSET TicketIds]
ASSUME UpdatesAssumption == Updates \subseteq Status
ASSUME LastTeamAssumption == LastTeam \in [TicketIds -> 0..MaxTeams]
ASSUME LastDefinitionAssumption == LastDefinition \in [TicketIds -> 1..MaxDefinitions]
ASSUME IntegrationBounds ==
  /\ MaxTeams \in Nat /\ MaxDefinitions \in Nat \ {0}
  /\ MaxHead \in Nat /\ MaxCrashes \in Nat /\ TidyFirst \in BOOLEAN

VARIABLES record,     \* ticket.yml: status, Team ordinal, candidate, definition
          revised,    \* the definition the latest revision event gave the Ticket
          accepted,   \* commits with a team-round-accepted event
          retained,   \* the conflict in the Ticket's latest integration event
          escalated,  \* Tickets with a ticket-integration-escalated event
          validated,  \* commits whose integration succeeded on dev
          dev,        \* the dev Integration Worktree
          run,        \* the integration in progress
          crashes

graph == <<record, revised>>
events == <<accepted, retained, escalated>>
vars == <<graph, events, validated, dev, run, crashes>>

Commits == TicketIds \X (1..MaxTeams)

TicketRecord == [status : Status, ordinal : 0..MaxTeams, candidate : 0..MaxTeams,
                 definition : 1..MaxDefinitions]

Conflicts == {"none", "textual", "semantic"}

\* What a ticket-integration-failed event with a conflict_kind retains, for as long
\* as no later ticket-integration-* event follows; NoConflict otherwise.
Conflict == [kind : Conflicts, candidate : 0..MaxTeams, head : 0..MaxHead]
NoConflict == [kind |-> "none", candidate |-> 0, head |-> 0]

\* head counts the commits of dev; merged are the Team commits it contains,
\* merging is MERGE_HEAD and dirty says that other changes are uncommitted.
Worktree == [head : 0..MaxHead, merged : SUBSET (Commits \cup {Foreign}),
             merging : Commits \cup {NoCommit, Foreign}, dirty : BOOLEAN]

Clean == dev.merging = NoCommit /\ ~dev.dirty

\* The commit a record names, and its acceptance by the Ticket's current Team.
CommitOf(t) == <<t, record[t].candidate>>

AcceptedNow(t) ==
  /\ record[t].candidate # 0
  /\ record[t].candidate = record[t].ordinal
  /\ CommitOf(t) \in accepted

\* A Ticket whose integration stands unfinished for every other Ticket.
Unfinished(t) ==
  \/ record[t].status \in {"integrating", "resolving-integration"}
  \/ record[t].status = "escalated" /\ t \in escalated

----------------------------------------------------------------------------
(* Main's other commands, and the Teams *)

\* update_ticket_state, with the ordinal and candidate Main reads in the graph.
MainUpdates(t, status) ==
  /\ status \in Transitions[record[t].status] \ IntegrationOnly
  /\ record' = [record EXCEPT ![t].status = status]
  /\ UNCHANGED <<revised, events, validated, dev, run, crashes>>

\* revise_tickets gives t its next definition, whatever t's status.
MainRevises(t) ==
  /\ revised[t] < LastDefinition[t]
  /\ revised' = [revised EXCEPT ![t] = @ + 1]
  /\ record' = [record EXCEPT ![t].definition = revised[t] + 1]
  /\ UNCHANGED <<events, validated, dev, run, crashes>>

\* The first Team of a ready Ticket, or the successor of a retired Team.
TeamStarts(t) ==
  /\ record[t].ordinal < LastTeam[t]
  /\ record[t].ordinal = 0 => record[t].status = "ready"
  /\ record' = [record EXCEPT ![t].status = "implementing", ![t].ordinal = @ + 1,
                              ![t].candidate = 0]
  /\ UNCHANGED <<revised, events, validated, dev, run, crashes>>

\* candidate and final, in one step: the Leader accepts the Team's commit.
TeamAccepts(t) ==
  /\ record[t].ordinal # 0
  /\ record[t].status \in {"implementing", "reviewing"}
  /\ record' = [record EXCEPT ![t].status = "awaiting-integration",
                              ![t].candidate = record[t].ordinal]
  /\ accepted' = accepted \cup {<<t, record[t].ordinal>>}
  /\ UNCHANGED <<revised, retained, escalated, validated, dev, run, crashes>>

\* Main (git in the Integration Worktree) aborts a merge or discards leftovers.
MainTidies ==
  /\ run = NoRun
  /\ ~Clean
  /\ dev' = [dev EXCEPT !.merging = NoCommit, !.dirty = FALSE]
  /\ UNCHANGED <<graph, events, validated, run, crashes>>

----------------------------------------------------------------------------
(* An integration run *)

Steps == {"starting", "merging", "resolving", "committing", "validating",
          "recording", "loading", "unlocking"}

\* A run: its step, its Ticket, the copy it read, whether it resolves a retained
\* conflict, the conflict and status it will report, and the copies it read of the
\* dependents it has still to release.
Run == [step : Steps, id : TicketIds, copy : TicketRecord, resolves : BOOLEAN,
        conflict : Conflicts, status : Status,
        waiting : UNION {[some -> TicketRecord] : some \in SUBSET TicketIds}]

At(step) == run # NoRun /\ run.step = step

\* A mutated form: a Ticket being resolved does not stand in another's way.
AloneButForResolution(t) ==
  \A u \in TicketIds \ {t} : record[u].status # "integrating"

Alone(t) == \A u \in TicketIds \ {t} : ~Unfinished(u)

\* The checks every integration starts with.
Integrable(t) ==
  /\ record[t].status \in {"awaiting-integration", "integrating"}
  /\ AcceptedNow(t)
  /\ Alone(t)

Begin(t, resolves, conflict) ==
  /\ run = NoRun
  /\ Integrable(t)
  /\ run' = [step |-> "starting", id |-> t, copy |-> record[t], resolves |-> resolves,
             conflict |-> conflict, status |-> "integrating", waiting |-> <<>>]
  /\ UNCHANGED <<graph, events, validated, dev, crashes>>

\* ticket integrate: dev must be clean.
BeginMerge(t) == Clean /\ Begin(t, FALSE, "none")

\* ticket integrate --resolve-conflict: the latest event retains a conflict of this
\* candidate at this very state of dev.
BeginResolution(t) ==
  /\ retained[t] # NoConflict
  /\ retained[t].candidate = record[t].candidate
  /\ retained[t].head = dev.head
  /\ retained[t].kind = "textual" => dev.merging = CommitOf(t)
  /\ (TidyFirst /\ retained[t].kind = "semantic") => dev.merging = NoCommit
  /\ Begin(t, TRUE, retained[t].kind)

Retained(kind) == [kind |-> kind, candidate |-> run.copy.candidate, head |-> dev.head]

\* _record: the run's copy goes back to ticket.yml with a new status.
Record(status) ==
  record' = [record EXCEPT ![run.id] = [run.copy EXCEPT !.status = status]]

Retain(conflict) == retained' = [retained EXCEPT ![run.id] = conflict]

RecordStart ==
  /\ At("starting")
  /\ LET status == IF run.resolves THEN "resolving-integration" ELSE "integrating"
     IN  /\ Record(status)
         /\ run' = [run EXCEPT !.step = IF run.resolves THEN "resolving" ELSE "merging",
                               !.copy.status = status]
  /\ Retain(NoConflict)
  /\ UNCHANGED <<revised, accepted, escalated, validated, dev, crashes>>

RunCommit == <<run.id, run.copy.candidate>>

\* A commit on dev: everything staged goes into it, the incoming merge included.
Committed(incoming) ==
  [head |-> dev.head + 1, merged |-> dev.merged \cup incoming,
   merging |-> NoCommit, dirty |-> FALSE]

\* git merge --no-edit: already there, merged, conflicting, or refused by git.
Merge ==
  /\ At("merging")
  /\ \/ /\ RunCommit \in dev.merged
        /\ run' = [run EXCEPT !.step = "validating"]
        /\ UNCHANGED dev
     \/ /\ RunCommit \notin dev.merged /\ dev.head < MaxHead
        /\ run' = [run EXCEPT !.step = "validating"]
        /\ dev' = Committed({RunCommit})
     \/ /\ RunCommit \notin dev.merged
        /\ run' = [run EXCEPT !.step = "recording", !.conflict = "textual"]
        /\ dev' = [dev EXCEPT !.merging = RunCommit]
     \/ /\ RunCommit \notin dev.merged
        /\ run' = [run EXCEPT !.step = "recording"]
        /\ UNCHANGED dev
  /\ UNCHANGED <<graph, events, validated, crashes>>

\* A mutated form: the incoming merge is not looked at again.
OnlyHeadKept(before, after) == after.head = before.head

\* What the run demands of a Resolver that says RESOLVED: the same dev commit and,
\* for a textual conflict, the same incoming merge.
ResolverKept(before, after) ==
  /\ after.head = before.head
  /\ run.conflict = "textual" => after.merging = RunCommit

\* What a Merge Resolver, an Agent with a shell, may leave in the worktree: edits, a
\* commit of its own, another incoming merge in place of the conflicting one.  (No
\* check of the run would see a merge started while it resolves a semantic conflict;
\* a Resolver is taken not to start one there.)
ResolverLeaves ==
  {[dev EXCEPT !.dirty = dirty] : dirty \in BOOLEAN}
  \cup (IF run.conflict = "textual" THEN {[dev EXCEPT !.merging = Foreign]} ELSE {})
  \cup {[dev EXCEPT !.merging = NoCommit, !.head = @ + 1]}

\* _resolve: RESOLVED, ESCALATE (or no decision), or a launch that failed.
Resolve ==
  /\ At("resolving")
  /\ \E after \in ResolverLeaves, decision \in {"resolved", "escalated", "failed"} :
        /\ after.head <= MaxHead
        /\ dev' = after
        /\ run' = IF decision = "resolved" /\ ResolverKept(dev, after)
                  THEN [run EXCEPT !.step = "committing"]
                  ELSE [run EXCEPT !.step = "recording",
                                   !.status = IF decision = "failed" THEN "integrating"
                                              ELSE "escalated"]
  /\ UNCHANGED <<graph, events, validated, crashes>>

\* git commit of the resolution, or git refuses: unmerged files, nothing staged.
CommitResolution ==
  /\ At("committing")
  /\ \/ /\ dev.head < MaxHead
        /\ dev' = Committed({dev.merging} \ {NoCommit})
        /\ run' = [run EXCEPT !.step = "validating"]
     \/ /\ run' = [run EXCEPT !.step = "recording"]
        /\ UNCHANGED dev
  /\ UNCHANGED <<graph, events, validated, crashes>>

\* A mutated form: exit status 0 is enough.
PassesOnExit(succeeds, dirty) == succeeds

\* The validation passes only if dev contains the candidate and was left clean.
Passes(succeeds, dirty) == succeeds /\ RunCommit \in dev.merged /\ ~dirty

\* The project's validation command runs in dev, and may leave files there.
Validate ==
  /\ At("validating")
  /\ \E succeeds, dirty \in BOOLEAN :
        /\ dev' = [dev EXCEPT !.dirty = dirty]
        /\ run' = [run EXCEPT !.step = "recording",
                              !.conflict = IF succeeds THEN @ ELSE "semantic",
                              !.status = IF Passes(succeeds, dirty) THEN "integrated" ELSE @]
        /\ validated' = IF succeeds /\ ~dirty /\ RunCommit \in dev.merged
                        THEN validated \cup {RunCommit} ELSE validated
  /\ UNCHANGED <<graph, events, crashes>>

\* The outcome, written over the copy; a success goes on to the dependents.
RecordOutcome ==
  /\ At("recording")
  /\ Record(run.status)
  /\ IF run.status = "integrating" /\ run.conflict # "none"
     THEN Retain(Retained(run.conflict))
     ELSE Retain(NoConflict)
  /\ escalated' = IF run.status = "escalated" THEN escalated \cup {run.id} ELSE escalated
  /\ run' = IF run.status = "integrated" THEN [run EXCEPT !.step = "loading"] ELSE NoRun
  /\ UNCHANGED <<revised, accepted, validated, dev, crashes>>

\* The dependents of t that no longer wait for anything.
UnlockedBy(t, d) ==
  /\ record[d].status = "pending"
  /\ t \in Dependencies[d]
  /\ \A b \in Dependencies[d] : record[b].status = "integrated"

LoadDependents ==
  /\ At("loading")
  /\ run' = [run EXCEPT !.step = "unlocking",
                        !.waiting = [d \in {u \in TicketIds : UnlockedBy(run.id, u)}
                                       |-> record[d]]]
  /\ UNCHANGED <<graph, events, validated, dev, crashes>>

Unlock(d) ==
  /\ At("unlocking")
  /\ d \in DOMAIN run.waiting
  /\ record' = [record EXCEPT ![d] = [run.waiting[d] EXCEPT !.status = "ready"]]
  /\ run' = [run EXCEPT !.waiting = [u \in DOMAIN @ \ {d} |-> @[u]]]
  /\ UNCHANGED <<revised, events, validated, dev, crashes>>

Finish ==
  /\ At("unlocking")
  /\ DOMAIN run.waiting = {}
  /\ run' = NoRun
  /\ UNCHANGED <<graph, events, validated, dev, crashes>>

\* The process is killed, or an append raises: integration.lock is free again.
Crash ==
  /\ run # NoRun
  /\ crashes < MaxCrashes
  /\ crashes' = crashes + 1
  /\ run' = NoRun
  /\ UNCHANGED <<graph, events, validated, dev>>

----------------------------------------------------------------------------
Init ==
  /\ record = [t \in TicketIds |-> [status |-> "pending", ordinal |-> 0,
                                     candidate |-> 0, definition |-> 1]]
  /\ revised = [t \in TicketIds |-> 1]
  /\ accepted = {}
  /\ retained = [t \in TicketIds |-> NoConflict]
  /\ escalated = {}
  /\ validated = {}
  /\ dev = [head |-> 0, merged |-> {}, merging |-> NoCommit, dirty |-> FALSE]
  /\ run = NoRun
  /\ crashes = 0

Others ==
  \/ \E t \in TicketIds, status \in Updates : MainUpdates(t, status)
  \/ \E t \in TicketIds : MainRevises(t) \/ TeamStarts(t) \/ TeamAccepts(t)
  \/ MainTidies

Integrate ==
  \/ \E t \in TicketIds : BeginMerge(t) \/ BeginResolution(t)
  \/ RecordStart
  \/ Merge
  \/ Resolve
  \/ CommitResolution
  \/ Validate
  \/ RecordOutcome
  \/ LoadDependents
  \/ \E d \in TicketIds : Unlock(d)
  \/ Finish
  \/ Crash

Next == Others \/ Integrate

Spec == Init /\ [][Next]_vars

----------------------------------------------------------------------------
(* Properties *)

TypeOK ==
  /\ record \in [TicketIds -> TicketRecord]
  /\ revised \in [TicketIds -> 1..MaxDefinitions]
  /\ accepted \subseteq Commits
  /\ retained \in [TicketIds -> Conflict]
  /\ escalated \subseteq TicketIds
  /\ validated \subseteq Commits
  /\ dev \in Worktree
  /\ run = NoRun \/ run \in Run
  /\ crashes \in 0..MaxCrashes

\* A Ticket is integrated only with a candidate that its Team Leader accepted and
\* that a validation has passed on dev, which still contains it: "Only validated
\* dev integration satisfies a dependency" (README), whatever runs meanwhile.
IntegratedIsValidated ==
  \A t \in TicketIds :
     record[t].status = "integrated" =>
        CommitOf(t) \in accepted \cap validated \cap dev.merged

\* A run brings no commit into dev but the candidate of its Ticket: "The retained
\* merge must still target the fixed candidate."  A Resolver that swaps the incoming
\* merge does not get through, nor does what an earlier run left behind.
RunMergesItsCandidate ==
  [][\A commit \in dev'.merged \ dev.merged : commit = RunCommit]_vars

\* At most one Ticket is between its merge and its outcome, across failures,
\* escalations, crashes and Main's updates.
OneUnfinishedIntegration ==
  \A t, u \in TicketIds :
     ({record[t].status, record[u].status} \subseteq {"integrating", "resolving-integration"})
        => t = u

\* README: "Product-preserving graph corrections retain prior definitions and
\* evidence".  A Ticket's current definition is the one its latest revision gave it.
RevisionsSurvive == \A t \in TicketIds : record[t].definition = revised[t]
============================================================================
