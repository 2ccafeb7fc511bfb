SPECIFICATION Spec
CONSTANTS
  leader = leader
  engineer = engineer
  c1 = c1
  c2 = c2
  NoSession = NoSession
  Sessions <- TwoSessions
  Parent <- LeaderLaunches
  Calls <- TwoCalls
  MaxWorkers = 3
  MaxKills = 1
  Orderly = TRUE
SYMMETRY AnyCall
PROPERTY OnlyLostSessionsAreAnswered
CHECK_DEADLOCK FALSE
