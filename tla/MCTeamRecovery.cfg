SPECIFICATION Spec
CONSTANTS
  Axes = {standards}
  Leader = leader
  Engineer = engineer
  MaxCommits = 2
  MaxRound = 2
  MaxDetours = 3
PROPERTY ValidReviewsSurvive
PROPERTY DriverReturns
CHECK_DEADLOCK FALSE
