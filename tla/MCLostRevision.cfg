SPECIFICATION Spec
CONSTANTS
  t1 = t1
  t2 = t2
  TicketIds <- TwoTickets
  Dependencies <- Chain
  Updates <- Restarts
  LastTeam <- TwoOfTheFirst
  LastDefinition <- TwoOfTheFirst
  NoCommit = NoCommit
  Foreign = Foreign
  NoRun = NoRun
  TidyFirst = TRUE
  MaxTeams = 2
  MaxDefinitions = 2
  MaxHead = 2
  MaxCrashes = 0
INVARIANT RevisionsSurvive
CHECK_DEADLOCK FALSE
