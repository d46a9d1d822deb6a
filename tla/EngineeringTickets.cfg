SPECIFICATION Spec
CONSTANTS
  Callers = {gary}
  Loop = loop
  Requests <- MCRequests
  Columns <- MCColumns
  MaxIssues = 3
  MaxItems = 3
  MaxCalls = 2
  MaxMoves = 2
  MaxFaults = 1
CHECK_DEADLOCK FALSE
INVARIANTS
  TypeOK
  CompletedWasReviewed
  IssuesAccountedFor
PROPERTY ClosedTaskStays
