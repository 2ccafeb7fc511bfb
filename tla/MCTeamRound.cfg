SPECIFICATION Spec
CONSTANTS
  Axes = {standards, spec}
  Leader = leader
  Engineer = engineer
  MaxCommits = 2
  MaxRound = 2
  MaxDetours = 1
 
INVARIANT ReworkIsReviewed
PROPERTY NothingIsRepeated
CHECK_DEADLOCK FALSE
