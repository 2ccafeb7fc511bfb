SPECIFICATION Spec
CONSTANTS
  t1 = t1
  t2 = t2
  TicketIds <- TwoTickets
  Dependencies <- Chain
  Updates <- Halts
  LastTeam <- TwoOfTheFirst
  LastDefinition <- TwoOfTheFirst
  NoCommit = NoCommit
  Foreign = Foreign
  NoRun = NoRun
  TidyFirst = TRUE
  MaxTeams = 2
  MaxDefinitions = 2
  MaxHead = 2
  MaxCrashes = 1
INVARIANT IntegratedIsValidated
INVARIANT OneUnfinishedIntegration
 
CHECK_DEADLOCK FALSE
