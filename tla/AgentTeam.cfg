SPECIFICATION Spec
CONSTANTS
  Agents <- MCAgents
  Rosters <- MCFullRoster
  a1 = a1
  a2 = a2
  Searches = {FALSE}
  Processes = {server}
  Server = server
  MaxAssignments = 3
  MaxActive = 2
  MaxConcurrent = 1
  MaxFollowUps = 1
  OutputRetries = 0
  MaxExits = 1
  MaxTold = 0
SYMMETRY MCSymmetry
CHECK_DEADLOCK FALSE
INVARIANTS
  TypeOK
  CapacityKept
  ReviewTells
  FollowUpsBounded
