\* One message, carried by every coroutine; a repeat; one fault.  A second
\* message would only add notes to interleave.
SPECIFICATION FairSpec
CONSTANTS
  Approvals = {p1}
  Topics <- MCTopics
  Kinds <- MCDeliveryKinds
  MaxMessages = 1
  MaxOpen = 1
  MaxDaily = 1
  MaxRepeats = 1
  ExpiryAge = 0
  MaxFaults = 1
  MaxHeard = 2
CHECK_DEADLOCK FALSE
INVARIANTS
  RecordIsTrue
PROPERTIES
  EverythingIsDelivered
