SPECIFICATION Spec
CONSTANTS
  Approvals = {p1}
  Topics <- MCTopics
  Kinds <- MCKinds
  MaxMessages = 2
  MaxOpen = 1
  MaxDaily = 1
  MaxRepeats = 0
  ExpiryAge = 0
  MaxFaults = 0
  MaxHeard = 1
CHECK_DEADLOCK FALSE
INVARIANTS
  TypeOK
  AnsweredWasSaid
  AskingIsBounded
  AnnouncedOnce
