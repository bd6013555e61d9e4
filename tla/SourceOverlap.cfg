SPECIFICATION FairSpec
CONSTANTS
  s1 = s1  s2 = s2  v1 = v1  v1b = v1b  v2 = v2
  Source = {s1}
  MetadataFsc <- FscFirst
  DataFsc <- FscFirst
  Catalog <- OnlyFirst
  Reconciler = {r1, r2}
  Document = {v1, v2}
  Version <- MCVersion
  Expiry <- MCExpiry
  Freshness = 1
  StaleGrace = 1
  MinValidity = 1
  Faults <- NothingLost
  Legacy = {}
  MaxTime = 3
  NoCandidate = NoCandidate
  NoRelease = NoRelease
  NoDigest = NoDigest
PROPERTIES RollbackSurvivesReplay CycleEnds
CHECK_DEADLOCK FALSE
