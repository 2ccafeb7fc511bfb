----------------------------- MODULE Worldline -----------------------------
(***************************************************************************)
(* The project's event log (graph/delivery_worldline.py) as it lies on     *)
(* disk: files of at most ShardSize lines, each named after its first      *)
(* event, read in the order of their names.  An event is identified by the *)
(* instant it was captured and by how many events that instant had before. *)
(* Who appends, under which lock and with which mutation, is GraphCommit.  *)
(***************************************************************************)
EXTENDS Naturals, Sequences, FiniteSets, SequencesExt

CONSTANTS Instants,     \* the readings of the clock
          ShardSize,    \* lines in a full file, 200 in the code
          TornLine      \* a line that is not one whole JSON document

ASSUME ShardAssumption == ShardSize \in Nat \ {0} /\ Instants \subseteq Nat

VARIABLE shards         \* the lines of every file, by the file's name

EventId == Instants \X Nat

\* _shard_order: by instant, and by suffix among the names of one instant.
Earlier(a, b) == a[1] < b[1] \/ (a[1] = b[1] /\ a[2] < b[2])

\* Every line, by its file and where it is in it.
Positions == UNION {{name} \X DOMAIN shards[name] : name \in DOMAIN shards}

LineAt(position) == shards[position[1]][position[2]]

\* Files are read in the order of their names.
Before(p, q) == Earlier(p[1], q[1]) \/ (p[1] = q[1] /\ p[2] < q[2])

\* The lines at some positions, in that order: the k-th has k - 1 before it.
InOrder(positions) ==
  [k \in 1 .. Cardinality(positions) |->
     LineAt(CHOOSE p \in positions :
              Cardinality({q \in positions : Before(q, p)}) = k - 1)]

Lines == InOrder(Positions)

\* The events that a reader can make out.
Recorded == InOrder({p \in Positions : LineAt(p) # TornLine})

EventIds(lines) == {lines[i].id : i \in {j \in DOMAIN lines : lines[j] # TornLine}}

At(line) == line.id[1]

SameInstant(lines, instant) ==
  Cardinality({i \in DOMAIN lines : lines[i] # TornLine /\ At(lines[i]) = instant})

\* _validate_recorded_event for each line: whole, in time, with the identifier
\* that was due, and with causes that come before it.
WellRecorded(lines) ==
  \A i \in DOMAIN lines :
     LET before == SubSeq(lines, 1, i - 1)
     IN  /\ lines[i] # TornLine
         /\ i > 1 => At(lines[i - 1]) <= At(lines[i])
         /\ lines[i].id = <<At(lines[i]), SameInstant(before, At(lines[i]))>>
         /\ lines[i].causes \subseteq EventIds(before)

\* _read_shards accepts what is on disk.
Readable ==
  /\ \A name \in DOMAIN shards :
        /\ Len(shards[name]) \in 1 .. ShardSize
        /\ Head(shards[name]) # TornLine /\ Head(shards[name]).id = name
  /\ WellRecorded(Lines)

\* A clock that has gone back is refused.
InTime(now) == Lines # <<>> => now >= At(Last(Lines))

\* How many events of this instant the log has.
Suffix(now) == SameInstant(Lines, now)

NextEventId(now) == <<now, Suffix(now)>>

\* A mutated form: a file takes one line more than a reader accepts.
RoomForOneMore(name) == Len(shards[name]) <= ShardSize

\* The file is not full.
HasRoom(name) == Len(shards[name]) < ShardSize

\* The last file in the order of the names.
LastFile == CHOOSE name \in DOMAIN shards : \A n \in DOMAIN shards : ~Earlier(name, n)

\* The file the next event goes to: the last one, or a new one of its own name.
Target(id) == IF DOMAIN shards # {} /\ HasRoom(LastFile) THEN LastFile ELSE id

\* The files after `more` is written to the end of file `name`.
WithLines(name, more) ==
  [n \in DOMAIN shards \cup {name} |->
     (IF n \in DOMAIN shards THEN shards[n] ELSE <<>>)
       \o (IF n = name THEN more ELSE <<>>)]
=============================================================================
