SPECIFICATION Spec
CONSTANTS
  Agents <- MCAgents
  Rosters <- MCFullRoster
  a1 = a1
  a2 = a2
  Searches = {FALSE}
  Processes = {server}
  Server = server
  MaxAssignments = 2
  MaxActive = 2
  MaxConcurrent = 2
  MaxFollowUps = 0
  OutputRetries = 0
  MaxExits = 0
  MaxTold = 2
CHECK_DEADLOCK FALSE
INVARIANT
  ReviewAnnouncedOnce
