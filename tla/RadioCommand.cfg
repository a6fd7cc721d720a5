\* Two clients with two calls each, one of which may die, and a spurious wakeup.
SPECIFICATION FairSpec
CONSTANTS
  Clients = {uucpd, client}
  MaxCalls = 2
  MaxCrashes = 1
  MaxSpurious = 1
INVARIANTS TypeOK OwnResponse ExecutedOnce
PROPERTY CallsReturn
\* The clients may have made all their calls.
CHECK_DEADLOCK FALSE
