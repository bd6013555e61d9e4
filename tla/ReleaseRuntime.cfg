SPECIFICATION FairSpec
CONSTANTS
  Release = {a, b, c}
  Buildable = {a, b}
  Source = {s1}
  Request = {r1, r2}
  Interval = 1
  Retry = 1
  Grace = 1
  MaxSwitches = 3
  MaxFaults = 1
  None = None
INVARIANT SnapshotWhole
PROPERTIES SnapshotsAdvance WaitersReturn EventuallyServesActive
CHECK_DEADLOCK FALSE
