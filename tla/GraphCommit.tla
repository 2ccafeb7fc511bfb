---------------------------- MODULE GraphCommit ----------------------------
(***************************************************************************)
(* How a registration or a revision reaches the disk                       *)
(* (graph/ticket_graph.py): under tickets/.lock the graph is read and the  *)
(* change computed; then, under worldline/.lock as well, one Ticket after  *)
(* the other is written and the event appended                             *)
(* (graph/delivery_worldline.py).  A failure undoes what was written; a    *)
(* kill frees the locks and undoes nothing.  TicketGraph takes each of     *)
(* these commands as one step: that this is what a reader under the lock   *)
(* sees is the refinement of CommittedHistory stated below.                *)
(***************************************************************************)
EXTENDS Tickets, Worldline

CONSTANTS Authors,      \* the processes that run commands
          Nobody,       \* the owner of a free lock
          Absent,       \* a Ticket without a directory
          Bare,         \* a Ticket directory without its ticket.yml
          NoSuchEvent,  \* a cause that names no event
          Texts,        \* "plain", or "separated": with a Unicode line separator
          MaxEvents,    \* bound: events in the log
          MaxFailures,  \* bound: failing writes
          MaxKills      \* bound: processes killed inside a command

\* One line of the log.
Event == [id : EventId, causes : SUBSET EventId, affected : SUBSET TicketIds]

ASSUME MarkerAssumption ==
  /\ {Absent, Bare, NoSuchEvent} \cap EventId = {} /\ TornLine \notin Event
  /\ Absent # Bare /\ Nobody \notin Authors
ASSUME BoundsAssumption ==
  /\ IsFiniteSet(TicketIds)
  /\ Texts \subseteq {"plain", "separated"}
  /\ MaxEvents \in Nat /\ MaxFailures \in Nat /\ MaxKills \in Nat

VARIABLES tickets,      \* per Ticket the event whose definition ticket.yml names
          ticketsLock, worldlineLock,
          author,       \* per process its command and how far it is
          failures, kills

vars == <<shards, tickets, ticketsLock, worldlineLock, author, failures, kills>>

Idle == [pc |-> "idle", todo |-> <<>>, changed |-> <<>>, event |-> NoSuchEvent,
         affected |-> {}, text |-> "plain"]

\* One Ticket that a command has touched, and what it was before.
Change == [ticket : TicketIds, was : EventId \cup {Absent, Bare}]

Command == [pc : {"idle", "waiting", "writing", "restoring"}, todo : Seq(TicketIds),
            changed : Seq(Change), event : Event \cup {NoSuchEvent},
            affected : SUBSET TicketIds, text : {"plain", "separated"}]

TypeOK ==
  /\ IsFiniteSet(DOMAIN shards) /\ DOMAIN shards \subseteq EventId
  /\ shards \in [DOMAIN shards -> Seq(Event \cup {TornLine})]
  /\ tickets \in [TicketIds -> EventId \cup {Absent, Bare}]
  /\ author \in [Authors -> Command]
  /\ {ticketsLock, worldlineLock} \subseteq Authors \cup {Nobody}
  /\ \A p \in Authors :
        /\ worldlineLock = p <=> author[p].pc \in {"writing", "restoring"}
        /\ ticketsLock = p => author[p].pc # "idle"
  /\ failures \in 0 .. MaxFailures /\ kills \in 0 .. MaxKills

Init ==
  /\ shards = <<>>
  /\ tickets = [t \in TicketIds |-> Absent]
  /\ ticketsLock = Nobody /\ worldlineLock = Nobody
  /\ author = [p \in Authors |-> Idle]
  /\ failures = 0 /\ kills = 0

----------------------------------------------------------------------------
(* One command *)

\* A mutated form: a lock outlives the command that took it.
Kept(lock, p) == lock

\* A lock once p is done.
Free(lock, p) == IF lock = p THEN Nobody ELSE lock

\* The command returns or raises: its locks are released, in whatever state.
Ends(p) ==
  /\ author' = [author EXCEPT ![p] = Idle]
  /\ ticketsLock' = Free(ticketsLock, p)
  /\ worldlineLock' = Free(worldlineLock, p)

\* _load_states: every directory has its ticket.yml.
Loadable == \A t \in TicketIds : tickets[t] # Bare

\* The orders in which a command may name Tickets.
Orders == {order \in UNION {[1 .. n -> TicketIds] : n \in 1 .. Cardinality(TicketIds)} :
             IsInjective(order)}

\* register_ticket, revise_tickets or update_ticket_state: the graph is read under
\* tickets/.lock, which is kept.  One new Ticket may be a registration; all else
\* needs a registered graph.
Begin(p, order) ==
  /\ author[p].pc = "idle" /\ ticketsLock = Nobody
  /\ Loadable
  /\ \/ Len(order) = 1 /\ tickets[order[1]] = Absent
     \/ \E t \in TicketIds : tickets[t] # Absent
  /\ ticketsLock' = p
  /\ author' = [author EXCEPT ![p] = [Idle EXCEPT !.pc = "waiting", !.todo = order,
                                                  !.affected = ToSet(order)]]
  /\ UNCHANGED <<shards, tickets, worldlineLock, failures, kills>>

\* append_project_worldline_event, up to the mutation: the log is read whole, the
\* causes, the clock and the identifier are settled.  A process that has begun no
\* graph command appends an event without a Ticket (worldline append, and the
\* other components, whose mutations are not the graph's).
Capture(p, now, causes, text) ==
  /\ author[p].pc \in {"idle", "waiting"} /\ worldlineLock = Nobody
  /\ author[p].pc = "waiting" => text = "plain"
  /\ Len(Lines) < MaxEvents
  /\ IF Readable /\ causes \subseteq EventIds(Lines) /\ InTime(now)
     THEN /\ worldlineLock' = p
          /\ author' = [author EXCEPT ![p].pc = "writing", ![p].text = text,
                          ![p].event = [id |-> NextEventId(now), causes |-> causes,
                                        affected |-> author[p].affected]]
          /\ UNCHANGED ticketsLock
     ELSE Ends(p)
  /\ UNCHANGED <<shards, tickets, failures, kills>>

\* What the next Ticket of p becomes: a new one gets its directory first.
NextVersion(p) ==
  IF tickets[author[p].todo[1]] = Absent THEN Bare ELSE author[p].event.id

\* A mutated form: a Ticket that the command creates is not noted for the rollback.
NotedOld(p) ==
  LET t == author[p].todo[1]
  IN  IF tickets[t] \in {Absent, Bare} THEN author[p].changed
      ELSE Append(author[p].changed, [ticket |-> t, was |-> tickets[t]])

\* The Tickets p has touched once it goes on with the next one.
Noted(p) ==
  LET t == author[p].todo[1]
  IN  IF tickets[t] = Bare THEN author[p].changed
      ELSE Append(author[p].changed, [ticket |-> t, was |-> tickets[t]])

\* The mutation writes one Ticket, or makes its directory.
Mutate(p) ==
  /\ author[p].pc = "writing" /\ author[p].todo # <<>>
  /\ tickets' = [tickets EXCEPT ![author[p].todo[1]] = NextVersion(p)]
  /\ author' = [author EXCEPT ![p].changed = Noted(p),
                              ![p].todo = IF NextVersion(p) = Bare THEN @ ELSE Tail(@)]
  /\ UNCHANGED <<shards, ticketsLock, worldlineLock, failures, kills>>

\* The lines that an event is read back as: a separator inside it splits it.
LinesOf(event, text) ==
  IF text = "plain" THEN <<event>> ELSE <<TornLine, TornLine>>

\* The mutation is complete and the evidence is there: the line is written and
\* synced, and the command returns.
Write(p) ==
  /\ author[p].pc = "writing" /\ author[p].todo = <<>>
  /\ shards' = WithLines(Target(author[p].event.id),
                         LinesOf(author[p].event, author[p].text))
  /\ Ends(p)
  /\ UNCHANGED <<tickets, failures, kills>>

\* The mutation, the evidence or the write fails: the file gets its former length
\* back, and what was changed is to be restored.
Fail(p) ==
  /\ author[p].pc = "writing" /\ failures < MaxFailures
  /\ failures' = failures + 1
  /\ author' = [author EXCEPT ![p].pc = "restoring"]
  /\ UNCHANGED <<shards, tickets, ticketsLock, worldlineLock, kills>>

\* _rollback_revision, _remove_ticket_directory: the last change first; a directory
\* is emptied before it goes.
Restore(p) ==
  /\ author[p].pc = "restoring"
  /\ IF author[p].changed = <<>>
     THEN Ends(p) /\ UNCHANGED tickets
     ELSE LET last  == Last(author[p].changed)
              empty == last.was = Absent /\ tickets[last.ticket] \notin {Absent, Bare}
          IN  /\ tickets' = [tickets EXCEPT ![last.ticket] = IF empty THEN Bare ELSE last.was]
              /\ author' = [author EXCEPT ![p].changed = IF empty THEN @ ELSE Front(@)]
              /\ UNCHANGED <<ticketsLock, worldlineLock>>
  /\ UNCHANGED <<shards, failures, kills>>

\* What a kill leaves of the log: a kill inside the write leaves a new file empty,
\* or a torn line at the end.
Leftovers(p) ==
  {shards} \cup
  (IF author[p].pc = "writing" /\ author[p].todo = <<>>
   THEN {WithLines(Target(author[p].event.id), lines) : lines \in {<<>>, <<TornLine>>}}
   ELSE {})

\* A process dies inside a command; the system frees its locks.
Kill(p) ==
  /\ author[p].pc # "idle" /\ kills < MaxKills
  /\ kills' = kills + 1
  /\ shards' \in Leftovers(p)
  /\ Ends(p)
  /\ UNCHANGED <<tickets, failures>>

\* Bound: a request names no cause, the latest event or one that does not exist.
CauseChoices ==
  {{}, {NoSuchEvent}} \cup (IF Lines = <<>> THEN {} ELSE {EventIds(<<Last(Lines)>>)})

Next ==
  \E p \in Authors :
     \/ \E order \in Orders : Begin(p, order)
     \/ \E now \in Instants, causes \in CauseChoices, text \in Texts :
          Capture(p, now, causes, text)
     \/ Mutate(p)
     \/ Write(p)
     \/ Fail(p)
     \/ Restore(p)
     \/ Kill(p)

Spec == Init /\ [][Next]_vars

----------------------------------------------------------------------------
(* Properties *)

\* What is seen of Ticket t by a reader that holds tickets/.lock: nothing of a
\* command under way.
Seen(t) ==
  IF ticketsLock = Nobody THEN tickets[t]
  ELSE LET mine == {author[ticketsLock].changed[i] : i \in DOMAIN author[ticketsLock].changed}
       IN  IF \E c \in mine : c.ticket = t THEN (CHOOSE c \in mine : c.ticket = t).was
           ELSE tickets[t]

History == INSTANCE CommittedHistory
             WITH Subjects <- TicketIds, NoVersion <- Absent, HalfMade <- Bare,
                  log <- Recorded, versions <- [t \in TicketIds |-> Seen(t)], deaths <- kills

\* The commands are atomic to whoever takes the lock: the log read from its files
\* only grows, by one event with a fresh identifier and earlier causes, and the
\* Tickets of that event change in the same step and no other; only a kill leaves
\* some of the Tickets of one command changed without an event.  Locks, rollback,
\* file names and file limits all take part in this
\* (delivery_worldline.py:41-94, ticket_graph.py:283-420).
CommandsAreAtomic == History!Spec

\* As long as no process dies inside a command, the log can be read after every
\* append, whichever clock readings and file boundaries it met, and the Tickets can
\* be loaded: one unreadable line or one empty directory would stop every later
\* command of the project.
ReadableUnlessKilled ==
  kills = 0 => /\ worldlineLock = Nobody => Readable
               /\ ticketsLock = Nobody => Loadable
=============================================================================
