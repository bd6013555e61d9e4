SPECIFICATION FairSpec
CONSTANTS
  Records = 3
  Tearable = {1}
  Unlawful = {2}
  ReadLimit = 3
  MaxCrashes = 2
  MaxFaults = 2
INVARIANTS ConfirmedKept OrderKept
PROPERTY KeepsPromise
CHECK_DEADLOCK FALSE
