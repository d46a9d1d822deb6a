\* Two actions: a step touches one action, except the expiry and the briefing,
\* which two already make interleave.  No symmetry, as some properties are
\* temporal.
SPECIFICATION FairSpec
CONSTANTS
  Actions = {a1, a2}
  RequestTypes <- MCRequestTypes
  ExpiryAge = 1
  MaxInterruptions = 1
CHECK_DEADLOCK FALSE
INVARIANTS
  TypeOK
  EffectIsAuthorised
  EffectOnce
  RecordsAreHonest
PROPERTIES
  DecidedStays
  ImplementsGate
  WorkIsSettled
