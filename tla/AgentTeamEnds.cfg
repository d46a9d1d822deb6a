SPECIFICATION FairSpec
CONSTANTS
  Agents <- MCAgents
  Rosters <- MCRosters
  a1 = a1
  a2 = a2
  Searches = {TRUE, FALSE}
  Processes = {server, cli}
  Server = server
  MaxAssignments = 1
  MaxActive = 2
  MaxConcurrent = 1
  MaxFollowUps = 1
  OutputRetries = 1
  MaxExits = 2
  MaxTold = 0
CHECK_DEADLOCK FALSE
INVARIANTS
  RunsOnce
  RecordsAgree
PROPERTIES
  EndedStays
  AssignmentsEnd
  SearchRoundsEnd
