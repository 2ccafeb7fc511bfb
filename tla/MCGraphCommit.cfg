SPECIFICATION Spec
CONSTANTS
  TicketIds = {t1, t2}
  Authors = {p1, p2}
  Nobody = Nobody
  Absent = Absent
  Bare = Bare
  NoSuchEvent = NoSuchEvent
  TornLine = TornLine
  Instants <- Clock
  ShardSize = 2
  Texts = {"plain"}
  MaxEvents = 3
  MaxFailures = 1
  MaxKills = 1
SYMMETRY Interchangeable
INVARIANT TypeOK
 
PROPERTY CommandsAreAtomic
CHECK_DEADLOCK FALSE
