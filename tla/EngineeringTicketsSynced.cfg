SPECIFICATION Spec
CONSTANTS
  Callers = {gary}
  Loop = loop
  Requests <- MCPlain
  Columns <- MCColumns
  MaxIssues = 2
  MaxItems = 2
  MaxCalls = 1
  MaxMoves = 0
  MaxFaults = 1
CHECK_DEADLOCK FALSE
INVARIANT SyncedIsFullyCreated
