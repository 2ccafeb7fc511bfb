------------------------- MODULE IntegrationProofs -------------------------
(***************************************************************************)
(* What holds of Integration for any set of Tickets, any dependencies,     *)
(* updates and budgets of Teams and definitions.                           *)
(***************************************************************************)
EXTENDS Integration, TLAPS

\* Between its merge and its outcome.
Underway == {"integrating", "resolving-integration"}

\* What a run goes by, however far it is: the candidate it read was accepted, no other
\* Ticket has come between its merge and its outcome, and a success it will record was
\* seen on dev.
RunIsSound ==
  run # NoRun =>
    /\ RunCommit \in accepted
    /\ \A u \in TicketIds \ {run.id} : record[u].status \notin Underway
    /\ run.status = "integrated" => RunCommit \in validated \cap dev.merged

Inv == TypeOK /\ RunIsSound /\ IntegratedIsValidated /\ OneUnfinishedIntegration

\* A retained event has a conflict.
RetainedIsAConflict ==
  \A t \in TicketIds : retained[t].kind = "none" => retained[t] = NoConflict

\* What a resolution finds in the worktree: the merge of its candidate for a textual
\* conflict, no merge for a semantic one.
ResolutionIsSound ==
  run # NoRun /\ run.step \in {"starting", "resolving", "committing"} =>
    /\ run.step # "starting" => run.resolves
    /\ run.resolves =>
         \/ run.conflict = "textual" /\ dev.merging = RunCommit
         \/ run.conflict = "semantic" /\ dev.merging = NoCommit

----------------------------------------------------------------------------
(* Typing *)

\* The numbers that the records count with.
LEMMA Counters ==
  /\ 0 \in 0..MaxTeams /\ 1 \in 1..MaxDefinitions /\ 0 \in 0..MaxHead /\ 0 \in 0..MaxCrashes
  /\ \A n \in 0..MaxTeams : n # 0 => n \in 1..MaxTeams
  /\ \A n \in 1..MaxTeams : n \in 0..MaxTeams
BY IntegrationBounds DEF IntegrationBounds

\* The commit of a run is one of the Teams' commits once it was accepted.
LEMMA RunFields ==
  ASSUME TypeOK, RunIsSound, run # NoRun
  PROVE  /\ run \in Run /\ run.id \in TicketIds /\ run.copy \in TicketRecord
         /\ run.status \in Status /\ run.conflict \in Conflicts
         /\ run.copy.candidate \in 0..MaxTeams /\ RunCommit \in Commits
         /\ run.waiting \in UNION {[some -> TicketRecord] : some \in SUBSET TicketIds}
<1>1. run \in Run
  BY DEF TypeOK
<1>2. run.copy \in TicketRecord /\ run.id \in TicketIds /\ run.status \in Status
      /\ run.conflict \in Conflicts
      /\ run.waiting \in UNION {[some -> TicketRecord] : some \in SUBSET TicketIds}
  BY <1>1 DEF Run
<1>3. run.copy.candidate \in 0..MaxTeams
  BY <1>2 DEF TicketRecord
<1>4. RunCommit \in Commits
  BY DEF RunIsSound, TypeOK
<1>. QED BY <1>1, <1>2, <1>3, <1>4

\* Writing one Ticket keeps the graph typed.
LEMMA RecordTyped ==
  ASSUME TypeOK, NEW t \in TicketIds, NEW new \in TicketRecord,
         record' = [record EXCEPT ![t] = new]
  PROVE  record' \in [TicketIds -> TicketRecord]
BY DEF TypeOK

\* A commit on dev of what is being merged keeps the worktree typed.
LEMMA CommittedTyped ==
  ASSUME TypeOK, dev.head < MaxHead, NEW incoming \in SUBSET (Commits \cup {Foreign}),
         dev' = Committed(incoming)
  PROVE  dev' \in Worktree
<1>1. dev \in Worktree
  BY DEF TypeOK
<1>2. dev.head + 1 \in 0..MaxHead
  BY <1>1, IntegrationBounds DEF Worktree, IntegrationBounds
<1>3. dev.merged \in SUBSET (Commits \cup {Foreign})
  BY <1>1 DEF Worktree
<1>. QED BY <1>2, <1>3 DEF Committed, Worktree

\* The commands of Main and the Teams keep the types.
LEMMA OthersTyped ==
  ASSUME TypeOK, Others
  PROVE  TypeOK'
<1>1. ASSUME NEW t \in TicketIds, NEW status \in Updates, MainUpdates(t, status)
      PROVE  TypeOK'
  <2>. DEFINE new == [record[t] EXCEPT !.status = status]
  <2>1. new \in TicketRecord
    BY UpdatesAssumption DEF UpdatesAssumption, TypeOK, TicketRecord
  <2>2. record' = [record EXCEPT ![t] = new]
    BY <1>1 DEF MainUpdates
  <2>3. record' \in [TicketIds -> TicketRecord]
    BY <2>1, <2>2, RecordTyped
  <2>. QED BY <1>1, <2>3 DEF MainUpdates, TypeOK, events
<1>2. ASSUME NEW t \in TicketIds, MainRevises(t)
      PROVE  TypeOK'
  <2>. DEFINE new == [record[t] EXCEPT !.definition = revised[t] + 1]
  <2>0. revised[t] \in 1..MaxDefinitions /\ LastDefinition[t] \in 1..MaxDefinitions
    BY LastDefinitionAssumption DEF LastDefinitionAssumption, TypeOK
  <2>1. revised[t] + 1 \in 1..MaxDefinitions
    BY <1>2, <2>0, IntegrationBounds DEF IntegrationBounds, MainRevises
  <2>2. new \in TicketRecord
    BY <2>1 DEF TypeOK, TicketRecord
  <2>3. record' = [record EXCEPT ![t] = new]
    BY <1>2 DEF MainRevises
  <2>4. record' \in [TicketIds -> TicketRecord]
    BY <2>2, <2>3, RecordTyped
  <2>5. revised' \in [TicketIds -> 1..MaxDefinitions]
    BY <1>2, <2>1 DEF MainRevises, TypeOK
  <2>. QED BY <1>2, <2>4, <2>5 DEF MainRevises, TypeOK, events
<1>3. ASSUME NEW t \in TicketIds, TeamStarts(t)
      PROVE  TypeOK'
  <2>. DEFINE new == [record[t] EXCEPT !.status = "implementing",
                                       !.ordinal = record[t].ordinal + 1, !.candidate = 0]
  <2>0. record[t] \in TicketRecord
    BY DEF TypeOK
  <2>1. record[t].ordinal + 1 \in 0..MaxTeams
    BY <1>3, <2>0, LastTeamAssumption, IntegrationBounds
       DEF LastTeamAssumption, IntegrationBounds, TeamStarts, TicketRecord
  <2>2. new \in TicketRecord
    BY <2>0, <2>1, Counters DEF TicketRecord, Status
  <2>3. record' = [record EXCEPT ![t] = new]
    BY <1>3 DEF TeamStarts
  <2>4. record' \in [TicketIds -> TicketRecord]
    BY <2>2, <2>3, RecordTyped
  <2>. QED BY <1>3, <2>4 DEF TeamStarts, TypeOK, events
<1>4. ASSUME NEW t \in TicketIds, TeamAccepts(t)
      PROVE  TypeOK'
  <2>. DEFINE new == [record[t] EXCEPT !.status = "awaiting-integration",
                                       !.candidate = record[t].ordinal]
  <2>0. record[t] \in TicketRecord
    BY DEF TypeOK
  <2>2. new \in TicketRecord
    BY <2>0 DEF TicketRecord, Status
  <2>3. record' = [record EXCEPT ![t] = new]
    BY <1>4 DEF TeamAccepts
  <2>4. record' \in [TicketIds -> TicketRecord]
    BY <2>2, <2>3, RecordTyped
  <2>5. <<t, record[t].ordinal>> \in Commits
    BY <1>4, <2>0, Counters DEF TeamAccepts, TicketRecord, Commits
  <2>6. accepted' \subseteq Commits
    BY <1>4, <2>5 DEF TeamAccepts, TypeOK
  <2>. QED BY <1>4, <2>4, <2>6 DEF TeamAccepts, TypeOK
<1>5. CASE MainTidies
  <2>1. dev' \in Worktree
    BY <1>5 DEF MainTidies, TypeOK, Worktree
  <2>. QED BY <1>5, <2>1 DEF MainTidies, TypeOK, graph, events
<1>. QED BY <1>1, <1>2, <1>3, <1>4, <1>5 DEF Others

\* The copies a run still holds of dependents, with one of them taken out.
LEMMA WaitingShrinks ==
  ASSUME NEW waiting \in UNION {[some -> TicketRecord] : some \in SUBSET TicketIds}, NEW d
  PROVE  [u \in DOMAIN waiting \ {d} |-> waiting[u]]
            \in UNION {[some -> TicketRecord] : some \in SUBSET TicketIds}
<1>1. PICK some \in SUBSET TicketIds : waiting \in [some -> TicketRecord]
  OBVIOUS
<1>2. [u \in DOMAIN waiting \ {d} |-> waiting[u]] \in [some \ {d} -> TicketRecord]
  BY <1>1
<1>. QED BY <1>1, <1>2

\* A run that begins has read an accepted candidate.
LEMMA BeginTyped ==
  ASSUME TypeOK, NEW t \in TicketIds, NEW resolves \in BOOLEAN, NEW conflict \in Conflicts,
         Begin(t, resolves, conflict)
  PROVE  TypeOK'
<1>1. <<>> \in UNION {[some -> TicketRecord] : some \in SUBSET TicketIds}
  <2>1. <<>> \in [{} -> TicketRecord]
    OBVIOUS
  <2>. QED BY <2>1
<1>2. run' \in Run
  BY <1>1 DEF Begin, TypeOK, Run, Steps, Status
<1>. QED BY <1>2 DEF Begin, TypeOK, graph, events

\* The run writes its copy back.
LEMMA WriteTyped ==
  ASSUME TypeOK, RunIsSound, run # NoRun, NEW status \in Status, Record(status)
  PROVE  record' \in [TicketIds -> TicketRecord]
<1>. DEFINE new == [run.copy EXCEPT !.status = status]
<1>1. new \in TicketRecord
  BY RunFields DEF TicketRecord
<1>2. record' = [record EXCEPT ![run.id] = new]
  BY DEF Record
<1>. QED BY <1>1, <1>2, RecordTyped, RunFields

\* The steps of a run keep the types.
LEMMA IntegrateTyped ==
  ASSUME TypeOK, RunIsSound, Integrate
  PROVE  TypeOK'
<1>1. ASSUME NEW t \in TicketIds, BeginMerge(t) \/ BeginResolution(t)
      PROVE  TypeOK'
  <2>1. "none" \in Conflicts /\ retained[t].kind \in Conflicts
    BY DEF TypeOK, Conflict, Conflicts
  <2>. QED BY <1>1, <2>1, BeginTyped DEF BeginMerge, BeginResolution
<1>2. CASE RecordStart
  <2>. DEFINE status == IF run.resolves THEN "resolving-integration" ELSE "integrating"
  <2>1. run # NoRun /\ status \in Status /\ Record(status)
    BY <1>2 DEF RecordStart, At, Status
  <2>2. record' \in [TicketIds -> TicketRecord]
    BY <2>1, WriteTyped
  <2>3. [run.copy EXCEPT !.status = status] \in TicketRecord
    BY <2>1, RunFields DEF TicketRecord
  <2>4. run' = [run EXCEPT !.step = IF run.resolves THEN "resolving" ELSE "merging",
                           !.copy = [run.copy EXCEPT !.status = status]]
    BY <1>2, <2>1, RunFields DEF RecordStart, Run
  <2>5. run' \in Run
    BY <2>1, <2>3, <2>4, RunFields DEF Run, Steps
  <2>6. retained' \in [TicketIds -> Conflict]
    BY <1>2, <2>1, RunFields, Counters DEF RecordStart, Retain, NoConflict, Conflict, Conflicts, TypeOK
  <2>. QED BY <1>2, <2>2, <2>5, <2>6 DEF RecordStart, TypeOK
<1>3. CASE Merge
  <2>1. run # NoRun /\ dev \in Worktree
    BY <1>3 DEF Merge, At, TypeOK
  <2>2. run' \in Run
    BY <1>3, <2>1, RunFields DEF Merge, Run, Steps, Conflicts
  <2>3. RunCommit \in Commits \cup {NoCommit, Foreign}
    BY <2>1, RunFields
  <2>4. CASE dev.head < MaxHead /\ dev' = Committed({RunCommit})
    <3>1. {RunCommit} \in SUBSET (Commits \cup {Foreign})
      BY <2>1, RunFields
    <3>2. dev' \in Worktree
      BY <2>4, <3>1, CommittedTyped
    <3>. QED BY <1>3, <2>2, <3>2 DEF Merge, TypeOK, graph, events
  <2>5. CASE dev' = [dev EXCEPT !.merging = RunCommit]
    <3>1. dev' \in Worktree
      BY <2>1, <2>3, <2>5 DEF Worktree
    <3>. QED BY <1>3, <2>2, <3>1 DEF Merge, TypeOK, graph, events
  <2>6. CASE UNCHANGED dev
    BY <1>3, <2>2, <2>6 DEF Merge, TypeOK, graph, events
  <2>. QED BY <1>3, <2>4, <2>5, <2>6 DEF Merge
<1>4. CASE Resolve
  <2>1. run # NoRun /\ dev \in Worktree
    BY <1>4 DEF Resolve, At, TypeOK
  <2>2. PICK after \in ResolverLeaves : after.head <= MaxHead /\ dev' = after
    BY <1>4 DEF Resolve
  <2>3. dev' \in Worktree
    <3>1. ASSUME NEW dirty \in BOOLEAN, after = [dev EXCEPT !.dirty = dirty]
          PROVE  after \in Worktree
      BY <2>1, <3>1 DEF Worktree
    <3>2. CASE after = [dev EXCEPT !.merging = Foreign]
      BY <2>1, <2>2, <3>2 DEF Worktree
    <3>3. CASE after = [dev EXCEPT !.merging = NoCommit, !.head = dev.head + 1]
      <4>1. after.head = dev.head + 1 /\ dev.head + 1 \in 0..MaxHead
        BY <2>1, <2>2, <3>3, IntegrationBounds DEF Worktree, IntegrationBounds
      <4>. QED BY <2>1, <2>2, <3>3, <4>1 DEF Worktree
    <3>. QED BY <2>2, <3>1, <3>2, <3>3 DEF ResolverLeaves
  <2>4. run' \in Run
    BY <1>4, <2>1, RunFields DEF Resolve, Run, Steps, Status
  <2>. QED BY <1>4, <2>3, <2>4 DEF Resolve, TypeOK, graph, events
<1>5. CASE CommitResolution
  <2>1. run # NoRun /\ dev \in Worktree
    BY <1>5 DEF CommitResolution, At, TypeOK
  <2>2. run' \in Run
    BY <1>5, <2>1, RunFields DEF CommitResolution, Run, Steps
  <2>3. {dev.merging} \ {NoCommit} \in SUBSET (Commits \cup {Foreign})
    BY <2>1 DEF Worktree
  <2>4. dev' \in Worktree
    BY <1>5, <2>1, <2>3, CommittedTyped DEF CommitResolution
  <2>. QED BY <1>5, <2>2, <2>4 DEF CommitResolution, TypeOK, graph, events
<1>6. CASE Validate
  <2>1. run # NoRun /\ dev \in Worktree
    BY <1>6 DEF Validate, At, TypeOK
  <2>2. run' \in Run
    BY <1>6, <2>1, RunFields DEF Validate, Run, Steps, Status, Conflicts
  <2>3. dev' \in Worktree
    BY <1>6, <2>1 DEF Validate, Worktree
  <2>4. validated' \subseteq Commits
    BY <1>6, <2>1, RunFields DEF Validate, TypeOK
  <2>. QED BY <1>6, <2>2, <2>3, <2>4 DEF Validate, TypeOK, graph, events
<1>7. CASE RecordOutcome
  <2>1. run # NoRun /\ Record(run.status)
    BY <1>7 DEF RecordOutcome, At
  <2>2. record' \in [TicketIds -> TicketRecord]
    BY <2>1, RunFields, WriteTyped
  <2>3. run' = NoRun \/ run' \in Run
    BY <1>7, <2>1, RunFields DEF RecordOutcome, Run, Steps
  <2>4. NoConflict \in Conflict /\ Retained(run.conflict) \in Conflict
    BY <2>1, RunFields, Counters DEF NoConflict, Retained, Conflict, Conflicts, TypeOK, Worktree
  <2>5. retained' \in [TicketIds -> Conflict]
    BY <1>7, <2>4 DEF RecordOutcome, Retain, TypeOK
  <2>6. escalated' \subseteq TicketIds
    BY <1>7, <2>1, RunFields DEF RecordOutcome, TypeOK
  <2>. QED BY <1>7, <2>2, <2>3, <2>5, <2>6 DEF RecordOutcome, TypeOK
<1>8. CASE LoadDependents
  <2>1. run # NoRun
    BY <1>8 DEF LoadDependents, At
  <2>. DEFINE some == {u \in TicketIds : UnlockedBy(run.id, u)}
  <2>2. [d \in some |-> record[d]] \in [some -> TicketRecord]
    BY DEF TypeOK
  <2>3. [d \in some |-> record[d]] \in UNION {[ids -> TicketRecord] : ids \in SUBSET TicketIds}
    BY <2>2
  <2>4. run' \in Run
    BY <1>8, <2>1, <2>3, RunFields DEF LoadDependents, Run, Steps
  <2>. QED BY <1>8, <2>4 DEF LoadDependents, TypeOK, graph, events
<1>9. ASSUME NEW d \in TicketIds, Unlock(d)
      PROVE  TypeOK'
  <2>1. run # NoRun /\ d \in DOMAIN run.waiting
    BY <1>9 DEF Unlock, At
  <2>2. run.waiting[d] \in TicketRecord
    BY <2>1, RunFields
  <2>. DEFINE new == [run.waiting[d] EXCEPT !.status = "ready"]
  <2>3. new \in TicketRecord
    BY <2>2 DEF TicketRecord, Status
  <2>4. record' \in [TicketIds -> TicketRecord]
    BY <1>9, <2>3, RecordTyped DEF Unlock
  <2>5. run' \in Run
    BY <1>9, <2>1, RunFields, WaitingShrinks DEF Unlock, Run
  <2>. QED BY <1>9, <2>4, <2>5 DEF Unlock, TypeOK, events
<1>10. CASE Finish
  BY <1>10 DEF Finish, TypeOK, graph, events
<1>11. CASE Crash
  <2>1. crashes' \in 0..MaxCrashes
    BY <1>11, IntegrationBounds DEF Crash, TypeOK, IntegrationBounds
  <2>. QED BY <1>11, <2>1 DEF Crash, TypeOK, graph, events
<1>. QED BY <1>1, <1>2, <1>3, <1>4, <1>5, <1>6, <1>7, <1>8, <1>9, <1>10, <1>11 DEF Integrate

----------------------------------------------------------------------------
(* Who stands between its merge and its outcome, and what dev has validated *)

\* A Resolver brings nothing into dev by itself; of a semantic conflict it leaves dev at
\* another commit or the merge as it was.
LEMMA ResolverLimits ==
  ASSUME TypeOK, NEW after \in ResolverLeaves
  PROVE  /\ after.merged = dev.merged
         /\ run.conflict # "textual" /\ after.head = dev.head => after.merging = dev.merging
<1>0. dev \in Worktree
  BY DEF TypeOK
<1>1. ASSUME NEW dirty \in BOOLEAN, after = [dev EXCEPT !.dirty = dirty]
      PROVE  after.merged = dev.merged /\ after.merging = dev.merging
  BY <1>0, <1>1 DEF Worktree
<1>2. CASE run.conflict = "textual" /\ after = [dev EXCEPT !.merging = Foreign]
  BY <1>0, <1>2 DEF Worktree
<1>3. CASE after = [dev EXCEPT !.merging = NoCommit, !.head = dev.head + 1]
  <2>1. after.head = dev.head + 1 /\ after.merged = dev.merged
    BY <1>0, <1>3 DEF Worktree
  <2>2. dev.head \in Nat
    BY <1>0, IntegrationBounds DEF Worktree, IntegrationBounds
  <2>. QED BY <2>1, <2>2
<1>. QED BY <1>1, <1>2, <1>3 DEF ResolverLeaves

\* A Ticket gets to stand between its merge and its outcome, or becomes integrated,
\* only by what its own run writes.
StatusKept(t) ==
  /\ record'[t].status \in Underway => record[t].status \in Underway
  /\ record'[t].status = "integrated" =>
        record[t].status = "integrated" /\ record'[t].candidate = record[t].candidate

\* Evidence is never taken back.
Grows ==
  /\ accepted \subseteq accepted'
  /\ validated \subseteq validated'
  /\ dev.merged \subseteq dev'.merged

\* Main's commands and the Teams neither finish an integration nor start one.
LEMMA OthersKeep ==
  ASSUME TypeOK, Others
  PROVE  /\ \A t \in TicketIds : StatusKept(t)
         /\ Grows
         /\ run' = run
<1>1. ASSUME NEW t \in TicketIds, NEW status \in Updates, MainUpdates(t, status)
      PROVE  \A u \in TicketIds : StatusKept(u)
  <2>1. record[t].status \in Status
    BY DEF TypeOK, TicketRecord
  <2>2. status \notin IntegrationOnly
    BY <1>1 DEF MainUpdates
  <2>3. status = "resolving-integration" => record[t].status = "integrating"
    BY <1>1, <2>1 DEF MainUpdates, Transitions, Status, Halted
  <2>4. record'[t].status = status
    BY <1>1 DEF MainUpdates, TypeOK, TicketRecord
  <2>5. \A u \in TicketIds \ {t} : record'[u] = record[u]
    BY <1>1 DEF MainUpdates, TypeOK
  <2>. QED BY <2>2, <2>3, <2>4, <2>5 DEF StatusKept, Underway, IntegrationOnly
<1>2. ASSUME NEW t \in TicketIds, MainRevises(t)
      PROVE  \A u \in TicketIds : StatusKept(u)
  <2>1. \A u \in TicketIds : /\ record'[u].status = record[u].status
                             /\ record'[u].candidate = record[u].candidate
    BY <1>2 DEF MainRevises, TypeOK, TicketRecord
  <2>. QED BY <2>1 DEF StatusKept
<1>3. ASSUME NEW t \in TicketIds, TeamStarts(t) \/ TeamAccepts(t)
      PROVE  \A u \in TicketIds : StatusKept(u)
  <2>1. record'[t].status \in {"implementing", "awaiting-integration"}
    BY <1>3 DEF TeamStarts, TeamAccepts, TypeOK, TicketRecord
  <2>2. \A u \in TicketIds \ {t} : record'[u] = record[u]
    BY <1>3 DEF TeamStarts, TeamAccepts, TypeOK
  <2>. QED BY <2>1, <2>2 DEF StatusKept, Underway
<1>4. CASE MainTidies
  <2>1. record' = record /\ dev'.merged = dev.merged
    BY <1>4 DEF MainTidies, TypeOK, Worktree, graph
  <2>2. \A u \in TicketIds : StatusKept(u)
    BY <2>1 DEF StatusKept
  <2>. QED BY <1>4, <2>1, <2>2 DEF MainTidies, Grows, graph, events
<1>5. Grows /\ run' = run
  BY <1>4 DEF Others, MainUpdates, MainRevises, TeamStarts, TeamAccepts, MainTidies, Grows,
              events, TypeOK, Worktree
<1>. QED BY <1>1, <1>2, <1>3, <1>4, <1>5 DEF Others

\* So they keep what runs go by.
LEMMA OthersSound ==
  ASSUME Inv, Others
  PROVE  RunIsSound' /\ IntegratedIsValidated' /\ OneUnfinishedIntegration'
<1>. USE OthersKeep DEF Inv
<1>1. RunIsSound'
  BY DEF RunIsSound, Grows, RunCommit, StatusKept
<1>2. IntegratedIsValidated'
  BY DEF IntegratedIsValidated, Grows, CommitOf, StatusKept
<1>3. OneUnfinishedIntegration'
  BY DEF OneUnfinishedIntegration, StatusKept, Underway
<1>. QED BY <1>1, <1>2, <1>3

\* A run that begins stands alone, with an accepted candidate.
LEMMA BeginSound ==
  ASSUME Inv, NEW t \in TicketIds, NEW resolves \in BOOLEAN, NEW conflict \in Conflicts,
         Begin(t, resolves, conflict)
  PROVE  RunIsSound' /\ IntegratedIsValidated' /\ OneUnfinishedIntegration'
<1>1. record' = record /\ accepted' = accepted /\ validated' = validated /\ dev' = dev
  BY DEF Begin, graph, events
<1>2. run'.id = t /\ run'.copy = record[t] /\ run'.status = "integrating"
  BY DEF Begin
<1>3. RunCommit' \in accepted'
  BY <1>1, <1>2 DEF Begin, Integrable, AcceptedNow, CommitOf, RunCommit
<1>4. \A u \in TicketIds \ {t} : record[u].status \notin Underway
  BY DEF Begin, Integrable, Alone, Unfinished, Underway
<1>5. RunIsSound'
  BY <1>1, <1>2, <1>3, <1>4 DEF RunIsSound
<1>. QED BY <1>1, <1>5 DEF Inv, IntegratedIsValidated, CommitOf, OneUnfinishedIntegration

\* A run writes over its own Ticket only, so the others stay as they are.
LEMMA RecordSound ==
  ASSUME Inv, run # NoRun, NEW status \in Status, Record(status), Grows,
         status = "integrated" => RunCommit \in validated \cap dev.merged
  PROVE  /\ IntegratedIsValidated' /\ OneUnfinishedIntegration'
         /\ \A u \in TicketIds \ {run.id} : record'[u].status \notin Underway
<1>1. \A u \in TicketIds \ {run.id} : record'[u] = record[u]
  BY DEF Record, Inv, TypeOK
<1>2. /\ record'[run.id].status = status
      /\ record'[run.id].candidate = run.copy.candidate
  BY RunFields DEF Record, Inv, TypeOK, TicketRecord
<1>3. \A u \in TicketIds \ {run.id} : record[u].status \notin Underway
  BY DEF Inv, RunIsSound
<1>4. IntegratedIsValidated'
  <2>. SUFFICES ASSUME NEW t \in TicketIds, record'[t].status = "integrated"
                PROVE  CommitOf(t)' \in (accepted \cap validated \cap dev.merged)'
    BY DEF IntegratedIsValidated
  <2>1. CASE t = run.id
    BY <1>2, <2>1 DEF Inv, RunIsSound, RunCommit, CommitOf, Grows
  <2>2. CASE t # run.id
    BY <1>1, <2>2 DEF Inv, IntegratedIsValidated, CommitOf, Grows
  <2>. QED BY <2>1, <2>2
<1>5. OneUnfinishedIntegration'
  BY <1>1, <1>3 DEF OneUnfinishedIntegration, Underway
<1>. QED BY <1>1, <1>3, <1>4, <1>5

\* A step of a run that leaves the Tickets alone keeps its Ticket and its copy.
LEMMA QuietSound ==
  ASSUME Inv, record' = record, Grows,
         \/ run' = NoRun
         \/ /\ run # NoRun /\ run'.id = run.id
            /\ run'.copy.candidate = run.copy.candidate
            /\ run'.status = "integrated" =>
                  run.status = "integrated" \/ RunCommit \in validated' \cap dev'.merged
  PROVE  RunIsSound' /\ IntegratedIsValidated' /\ OneUnfinishedIntegration'
<1>1. RunIsSound'
  BY DEF Inv, RunIsSound, RunCommit, Grows
<1>. QED BY <1>1 DEF Inv, IntegratedIsValidated, OneUnfinishedIntegration, CommitOf, Grows

\* Every step of a run keeps the invariant.
LEMMA IntegrateSound ==
  ASSUME Inv, Integrate
  PROVE  RunIsSound' /\ IntegratedIsValidated' /\ OneUnfinishedIntegration'
<1>0. dev \in Worktree /\ TypeOK /\ RunIsSound
  BY DEF Inv, TypeOK
<1>1. ASSUME NEW t \in TicketIds, BeginMerge(t) \/ BeginResolution(t)
      PROVE  RunIsSound' /\ IntegratedIsValidated' /\ OneUnfinishedIntegration'
  <2>1. "none" \in Conflicts /\ retained[t].kind \in Conflicts
    BY <1>0 DEF TypeOK, Conflict, Conflicts
  <2>. QED BY <1>1, <2>1, BeginSound DEF BeginMerge, BeginResolution
<1>2. CASE RecordStart
  <2>. DEFINE status == IF run.resolves THEN "resolving-integration" ELSE "integrating"
  <2>1. run # NoRun /\ status \in Status /\ status # "integrated" /\ Record(status)
    BY <1>2 DEF RecordStart, At, Status
  <2>2. Grows
    BY <1>2 DEF RecordStart, Grows
  <2>3. /\ IntegratedIsValidated' /\ OneUnfinishedIntegration'
        /\ \A u \in TicketIds \ {run.id} : record'[u].status \notin Underway
    BY <2>1, <2>2, RecordSound
  <2>4. /\ run'.id = run.id /\ run'.status = run.status
        /\ run'.copy.candidate = run.copy.candidate
    BY <1>0, <1>2, <2>1, RunFields DEF RecordStart, Run, TicketRecord
  <2>5. RunIsSound'
    BY <1>0, <1>2, <2>1, <2>2, <2>3, <2>4 DEF RunIsSound, RunCommit, Grows
  <2>. QED BY <2>3, <2>5
<1>3. CASE Merge
  <2>1. run # NoRun /\ record' = record
    BY <1>3 DEF Merge, At, graph
  <2>2. Grows
    BY <1>0, <1>3 DEF Merge, Committed, Worktree, Grows, events
  <2>3. run'.id = run.id /\ run'.copy = run.copy /\ run'.status = run.status
    BY <1>0, <1>3, <2>1, RunFields DEF Merge, Run
  <2>. QED BY <2>1, <2>2, <2>3, QuietSound
<1>4. CASE Resolve
  <2>1. run # NoRun /\ record' = record
    BY <1>4 DEF Resolve, At, graph
  <2>2. Grows
    <3>1. dev'.merged = dev.merged
      BY <1>0, <1>4, ResolverLimits DEF Resolve
    <3>. QED BY <1>4, <3>1 DEF Resolve, Grows, events
  <2>3. run'.id = run.id /\ run'.copy = run.copy
        /\ (run'.status = "integrated" => run.status = "integrated")
    BY <1>0, <1>4, <2>1, RunFields DEF Resolve, Run
  <2>. QED BY <2>1, <2>2, <2>3, QuietSound
<1>5. CASE CommitResolution
  <2>1. run # NoRun /\ record' = record
    BY <1>5 DEF CommitResolution, At, graph
  <2>2. Grows
    BY <1>0, <1>5 DEF CommitResolution, Committed, Worktree, Grows, events
  <2>3. run'.id = run.id /\ run'.copy = run.copy /\ run'.status = run.status
    BY <1>0, <1>5, <2>1, RunFields DEF CommitResolution, Run
  <2>. QED BY <2>1, <2>2, <2>3, QuietSound
<1>6. CASE Validate
  <2>1. run # NoRun /\ record' = record
    BY <1>6 DEF Validate, At, graph
  <2>2. PICK succeeds \in BOOLEAN, dirty \in BOOLEAN :
          /\ dev' = [dev EXCEPT !.dirty = dirty]
          /\ run' = [run EXCEPT !.step = "recording",
                       !.conflict = IF succeeds THEN run.conflict ELSE "semantic",
                       !.status = IF Passes(succeeds, dirty) THEN "integrated" ELSE run.status]
          /\ validated' = IF succeeds /\ ~dirty /\ RunCommit \in dev.merged
                          THEN validated \cup {RunCommit} ELSE validated
    BY <1>6 DEF Validate
  <2>3. dev'.merged = dev.merged
    BY <1>0, <2>2 DEF Worktree
  <2>4. Grows
    BY <1>6, <2>2, <2>3 DEF Validate, Grows, events
  <2>5. run'.id = run.id /\ run'.copy = run.copy
        /\ run'.status = IF Passes(succeeds, dirty) THEN "integrated" ELSE run.status
    BY <1>0, <2>1, <2>2, RunFields DEF Run
  <2>6. Passes(succeeds, dirty) => RunCommit \in validated' \cap dev'.merged
    BY <2>2, <2>3 DEF Passes
  <2>. QED BY <2>1, <2>4, <2>5, <2>6, QuietSound
<1>7. CASE RecordOutcome
  <2>1. run # NoRun /\ run.status \in Status /\ Record(run.status)
    BY <1>0, <1>7, RunFields DEF RecordOutcome, At
  <2>2. Grows
    BY <1>7 DEF RecordOutcome, Grows
  <2>3. run.status = "integrated" => RunCommit \in validated \cap dev.merged
    BY <1>0, <2>1 DEF RunIsSound
  <2>4. /\ IntegratedIsValidated' /\ OneUnfinishedIntegration'
        /\ \A u \in TicketIds \ {run.id} : record'[u].status \notin Underway
    BY <2>1, <2>2, <2>3, RecordSound
  <2>5. \/ run' = NoRun
        \/ run'.id = run.id /\ run'.copy = run.copy /\ run'.status = run.status
    BY <1>0, <1>7, <2>1, RunFields DEF RecordOutcome, Run
  <2>6. RunIsSound'
    BY <1>0, <2>1, <2>2, <2>4, <2>5 DEF RunIsSound, RunCommit, Grows
  <2>. QED BY <2>4, <2>6
<1>8. CASE LoadDependents
  <2>1. run # NoRun /\ record' = record /\ Grows
    BY <1>8 DEF LoadDependents, At, Grows, graph, events
  <2>2. run'.id = run.id /\ run'.copy = run.copy /\ run'.status = run.status
    BY <1>0, <1>8, <2>1, RunFields DEF LoadDependents, Run
  <2>. QED BY <2>1, <2>2, QuietSound
<1>9. ASSUME NEW d \in TicketIds, Unlock(d)
      PROVE  RunIsSound' /\ IntegratedIsValidated' /\ OneUnfinishedIntegration'
  <2>1. run # NoRun /\ Grows
    BY <1>9 DEF Unlock, At, Grows, events
  <2>2. run'.id = run.id /\ run'.copy = run.copy /\ run'.status = run.status
    BY <1>0, <1>9, <2>1, RunFields DEF Unlock, Run
  <2>3. run.waiting[d] \in TicketRecord
    BY <1>0, <1>9, <2>1, RunFields DEF Unlock
  <2>4. record'[d].status = "ready"
    BY <1>0, <1>9, <2>3 DEF Unlock, TypeOK, TicketRecord
  <2>5. \A u \in TicketIds \ {d} : record'[u] = record[u]
    BY <1>0, <1>9 DEF Unlock, TypeOK
  <2>6. RunIsSound'
    BY <1>0, <2>1, <2>2, <2>4, <2>5 DEF RunIsSound, RunCommit, Grows, Underway
  <2>7. IntegratedIsValidated'
    BY <2>1, <2>4, <2>5 DEF Inv, IntegratedIsValidated, CommitOf, Grows
  <2>8. OneUnfinishedIntegration'
    BY <2>4, <2>5 DEF Inv, OneUnfinishedIntegration
  <2>. QED BY <2>6, <2>7, <2>8
<1>10. CASE Finish \/ Crash
  <2>1. record' = record /\ Grows /\ run' = NoRun
    BY <1>10 DEF Finish, Crash, Grows, graph, events
  <2>. QED BY <2>1, QuietSound
<1>. QED BY <1>1, <1>2, <1>3, <1>4, <1>5, <1>6, <1>7, <1>8, <1>9, <1>10 DEF Integrate

----------------------------------------------------------------------------
(* The invariant, and what follows from it *)

\* The invariant holds of every reachable state: what a run read when it began is still
\* enough to go by when it records its outcome.
THEOREM Invariant == Spec => []Inv
<1>1. Init => Inv
  <2>1. Init => TypeOK
    <3>. SUFFICES ASSUME Init PROVE TypeOK
      OBVIOUS
    <3>1. record \in [TicketIds -> TicketRecord] /\ revised \in [TicketIds -> 1..MaxDefinitions]
      BY Counters DEF Init, TicketRecord, Status
    <3>2. retained \in [TicketIds -> Conflict]
      BY Counters DEF Init, NoConflict, Conflict, Conflicts
    <3>3. dev \in Worktree
      BY Counters DEF Init, Worktree
    <3>. QED BY <3>1, <3>2, <3>3, Counters DEF Init, TypeOK
  <2>2. Init => RunIsSound /\ IntegratedIsValidated /\ OneUnfinishedIntegration
    BY DEF Init, RunIsSound, IntegratedIsValidated, OneUnfinishedIntegration
  <2>. QED BY <2>1, <2>2 DEF Inv
<1>2. Inv /\ [Next]_vars => Inv'
  <2>. SUFFICES ASSUME Inv, [Next]_vars PROVE Inv'
    OBVIOUS
  <2>1. CASE Others
    BY <2>1, OthersTyped, OthersSound DEF Inv
  <2>2. CASE Integrate
    BY <2>2, IntegrateTyped, IntegrateSound DEF Inv
  <2>3. CASE UNCHANGED vars
    BY <2>3 DEF vars, graph, events, Inv, TypeOK, RunIsSound, RunCommit, IntegratedIsValidated,
                CommitOf, OneUnfinishedIntegration
  <2>. QED BY <2>1, <2>2, <2>3 DEF Next
<1>. QED BY <1>1, <1>2, PTL DEF Spec

\* ticket.yml, the events, dev and the run keep their types.
THEOREM TypeCorrect == Spec => []TypeOK
<1>1. Inv => TypeOK
  BY DEF Inv
<1>. QED BY <1>1, Invariant, PTL

\* An integrated Ticket has a candidate that its Leader accepted, that a validation has
\* passed on dev, and that dev contains: the one fact that dependents wait for.
THEOREM IntegrationIsEarned == Spec => []IntegratedIsValidated
<1>1. Inv => IntegratedIsValidated
  BY DEF Inv
<1>. QED BY <1>1, Invariant, PTL

\* At most one Ticket is between its merge and its outcome, whatever failed, was killed
\* or was updated in between.
THEOREM IntegrationsAreSerial == Spec => []OneUnfinishedIntegration
<1>1. Inv => OneUnfinishedIntegration
  BY DEF Inv
<1>. QED BY <1>1, Invariant, PTL

----------------------------------------------------------------------------
(* What a run merges *)

\* What is retained of a failure is a conflict.
LEMMA RetainedStep ==
  ASSUME Inv, RetainedIsAConflict, [Next]_vars
  PROVE  RetainedIsAConflict'
<1>. SUFFICES ASSUME NEW t \in TicketIds
              PROVE  retained'[t].kind = "none" => retained'[t] = NoConflict
  BY DEF RetainedIsAConflict
<1>1. \/ retained' = retained
      \/ Retain(NoConflict)
      \/ run.conflict # "none" /\ Retain(Retained(run.conflict))
  BY DEF Next, Others, MainUpdates, MainRevises, TeamStarts, TeamAccepts, MainTidies, Integrate,
         BeginMerge, BeginResolution, Begin, RecordStart, Merge, Resolve, CommitResolution,
         Validate, RecordOutcome, LoadDependents, Unlock, Finish, Crash, vars, events
<1>2. Retained(run.conflict).kind = run.conflict
  BY DEF Retained
<1>3. retained \in [TicketIds -> Conflict]
  BY DEF Inv, TypeOK
<1>. QED BY <1>1, <1>2, <1>3 DEF Retain, RetainedIsAConflict

\* A resolution finds the merge of its own candidate, or none, from its first step to
\* its commit: nobody else touches the worktree, and a Resolver that swaps the merge
\* does not get to the commit.
LEMMA ResolutionStep ==
  ASSUME TidyFirst, Inv, RetainedIsAConflict, ResolutionIsSound, [Next]_vars
  PROVE  ResolutionIsSound'
<1>0. dev \in Worktree /\ TypeOK /\ RunIsSound
  BY DEF Inv, TypeOK
<1>1. CASE Others
  <2>1. run' = run /\ RunCommit' = RunCommit
    BY <1>0, <1>1, OthersKeep DEF RunCommit
  <2>2. dev' = dev \/ run = NoRun
    BY <1>1 DEF Others, MainUpdates, MainRevises, TeamStarts, TeamAccepts, MainTidies
  <2>. QED BY <2>1, <2>2 DEF ResolutionIsSound
<1>2. ASSUME NEW t \in TicketIds, BeginMerge(t)
      PROVE  ResolutionIsSound'
  <2>1. run'.step = "starting" /\ ~run'.resolves
    BY <1>2 DEF BeginMerge, Begin
  <2>. QED BY <2>1 DEF ResolutionIsSound
<1>3. ASSUME NEW t \in TicketIds, BeginResolution(t)
      PROVE  ResolutionIsSound'
  <2>1. /\ run'.step = "starting" /\ run'.conflict = retained[t].kind
        /\ RunCommit' = CommitOf(t) /\ dev' = dev
    BY <1>3 DEF BeginResolution, Begin, RunCommit, CommitOf
  <2>2. retained[t].kind \in {"none", "textual", "semantic"}
    BY <1>0 DEF TypeOK, Conflict, Conflicts
  <2>3. retained[t].kind # "none"
    BY <1>3 DEF BeginResolution, RetainedIsAConflict
  <2>. QED BY <1>3, <2>1, <2>2, <2>3 DEF ResolutionIsSound, BeginResolution
<1>4. CASE RecordStart
  <2>1. run # NoRun /\ run.step = "starting" /\ dev' = dev
    BY <1>4 DEF RecordStart, At
  <2>2. /\ run'.step = IF run.resolves THEN "resolving" ELSE "merging"
        /\ run'.id = run.id /\ run'.resolves = run.resolves /\ run'.conflict = run.conflict
        /\ run'.copy.candidate = run.copy.candidate
    BY <1>0, <1>4, <2>1, RunFields DEF RecordStart, Run, TicketRecord
  <2>. QED BY <2>1, <2>2 DEF ResolutionIsSound, RunCommit
<1>5. CASE Resolve
  <2>1. run # NoRun /\ run.step = "resolving"
    BY <1>5 DEF Resolve, At
  <2>2. run.resolves
    BY <2>1 DEF ResolutionIsSound
  <2>3. /\ run'.id = run.id /\ run'.resolves = run.resolves /\ run'.conflict = run.conflict
        /\ run'.copy = run.copy /\ run'.step \in {"committing", "recording"}
    BY <1>0, <1>5, <2>1, RunFields DEF Resolve, Run
  <2>4. ASSUME run'.step = "committing"
        PROVE  ResolverKept(dev, dev') /\ dev' \in ResolverLeaves
    BY <1>0, <1>5, <2>1, <2>4, RunFields DEF Resolve, Run
  <2>5. ASSUME run.conflict = "semantic", dev' \in ResolverLeaves, dev'.head = dev.head
        PROVE  dev'.merging = dev.merging
    BY <1>0, <2>5, ResolverLimits
  <2>. QED BY <2>1, <2>2, <2>3, <2>4, <2>5 DEF ResolutionIsSound, ResolverKept, RunCommit
<1>6. CASE Merge \/ CommitResolution \/ Validate \/ LoadDependents
  <2>1. run # NoRun
    BY <1>6 DEF Merge, CommitResolution, Validate, LoadDependents, At
  <2>2. run'.step \in {"validating", "recording", "unlocking"}
    BY <1>0, <1>6, <2>1, RunFields DEF Merge, CommitResolution, Validate, LoadDependents, Run
  <2>. QED BY <2>2 DEF ResolutionIsSound
<1>7. ASSUME NEW d \in TicketIds, Unlock(d)
      PROVE  ResolutionIsSound'
  <2>1. run # NoRun /\ run.step = "unlocking"
    BY <1>7 DEF Unlock, At
  <2>2. run'.step = "unlocking"
    BY <1>0, <1>7, <2>1, RunFields DEF Unlock, Run
  <2>. QED BY <2>2 DEF ResolutionIsSound
<1>8. CASE RecordOutcome
  <2>1. run # NoRun
    BY <1>8 DEF RecordOutcome, At
  <2>2. run' = NoRun \/ run'.step = "loading"
    BY <1>0, <1>8, <2>1, RunFields DEF RecordOutcome, Run
  <2>. QED BY <2>2 DEF ResolutionIsSound
<1>9. CASE Finish \/ Crash
  BY <1>9 DEF Finish, Crash, ResolutionIsSound
<1>10. CASE UNCHANGED vars
  BY <1>10 DEF vars, ResolutionIsSound, RunCommit
<1>. QED BY <1>1, <1>2, <1>3, <1>4, <1>5, <1>6, <1>7, <1>8, <1>9, <1>10 DEF Next, Integrate

\* A run brings no commit into dev but its Ticket's candidate, provided Main aborts a
\* merge in progress before it has a semantic conflict resolved (TidyFirst).
THEOREM OnlyTheCandidateIsMerged ==
  ASSUME TidyFirst
  PROVE  Spec => RunMergesItsCandidate
<1>1. Init => RetainedIsAConflict /\ ResolutionIsSound
  BY DEF Init, RetainedIsAConflict, ResolutionIsSound
<1>2. Inv /\ RetainedIsAConflict /\ ResolutionIsSound /\ [Next]_vars
         => RetainedIsAConflict' /\ ResolutionIsSound'
  BY TidyFirst, RetainedStep, ResolutionStep
<1>3. Inv /\ ResolutionIsSound /\ [Next]_vars
         => [\A commit \in dev'.merged \ dev.merged : commit = RunCommit]_vars
  <2>. SUFFICES ASSUME Inv, ResolutionIsSound, [Next]_vars,
                       NEW commit \in dev'.merged \ dev.merged
                PROVE  commit = RunCommit
    OBVIOUS
  <2>0. dev \in Worktree
    BY DEF Inv, TypeOK
  <2>1. CASE Others
    BY <2>0, <2>1 DEF Others, MainUpdates, MainRevises, TeamStarts, TeamAccepts, MainTidies,
           Worktree
  <2>2. CASE Merge
    BY <2>0, <2>2 DEF Merge, Committed, Worktree
  <2>3. CASE CommitResolution
    <3>1. dev.merging \in {RunCommit, NoCommit}
      BY <2>3 DEF CommitResolution, At, ResolutionIsSound
    <3>. QED BY <2>3, <3>1 DEF CommitResolution, Committed
  <2>4. CASE Resolve
    BY <2>4, ResolverLimits DEF Resolve, Inv
  <2>5. CASE Validate
    BY <2>0, <2>5 DEF Validate, Worktree
  <2>6. CASE dev' = dev
    BY <2>6
  <2>7. CASE Integrate
    BY <2>2, <2>3, <2>4, <2>5, <2>6, <2>7 DEF Integrate, BeginMerge, BeginResolution, Begin,
           RecordStart, RecordOutcome, LoadDependents, Unlock, Finish, Crash
  <2>. QED BY <2>1, <2>6, <2>7 DEF Next, vars
<1>. QED BY <1>1, <1>2, <1>3, Invariant, PTL DEF Spec, RunMergesItsCandidate
============================================================================
