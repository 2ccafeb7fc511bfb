SPECIFICATION SerialSpec
CONSTANTS
  TicketIds = {t1}
  Candidates = {a}
  Reviewers = {spec}
  Clients = {c1}
  NoCandidate = NoCandidate
  Engineer = engineer
  Nobody = nobody
  MaxGeneration = 2
  MaxRound = 2
  MaxCrashes = 1
INVARIANT SupersededTeamsAreRetired
 
INVARIANT RoundsOpenedByRejection
INVARIANT StatusFollowsWorldline
INVARIANT IntegratedWasAccepted
PROPERTY TicketsKeepTheirLife
PROPERTY IntegratedReopensOnlyByReplacement
SYMMETRY Symmetry
CHECK_DEADLOCK FALSE
