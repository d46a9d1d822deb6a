\* Liveness on one kind of ticket: every kind is synced alike.
SPECIFICATION FairSpec
CONSTANTS
  Callers = {gary}
  Loop = loop
  Requests <- MCReviewed
  Columns <- MCColumns
  MaxIssues = 3
  MaxItems = 3
  MaxCalls = 2
  MaxMoves = 2
  MaxFaults = 1
CHECK_DEADLOCK FALSE
PROPERTY BoardIsAdopted
