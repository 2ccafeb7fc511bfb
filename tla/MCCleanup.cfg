SPECIFICATION Spec
CONSTANTS
  Cleaners = {main, user}
  Sessions = {engineer, reviewer}
  Absent = Absent
  Unread = Unread
  MaxCommits = 2
  MaxCalls = 3
  MaxFaults = 1
SYMMETRY Interchangeable
 
PROPERTY NoWorkLost
 
CHECK_DEADLOCK FALSE
