SPECIFICATION Spec
CONSTANTS
  Approvals = {p1}
  Topics <- MCTopics
  Kinds <- MCLiveKinds
  MaxMessages = 1
  MaxOpen = 1
  MaxDaily = 1
  MaxRepeats = 0
  ExpiryAge = 0
  MaxFaults = 0
  MaxHeard = 2
CHECK_DEADLOCK FALSE
INVARIANT SpokenAtMostOnce
