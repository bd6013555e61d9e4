SPECIFICATION Spec
CONSTANTS
  s1 = s1  s2 = s2  v1 = v1  v1b = v1b  v2 = v2
  Source = {s1, s2}
  MetadataFsc <- FscFirst
  DataFsc <- FscFirst
  Catalog <- Growing
  Reconciler = {r1}
  Document = {v1, v1b, v2}
  Version <- MCVersion
  Expiry <- MCShortExpiry
  Freshness = 1
  StaleGrace = 1
  MinValidity = 1
  Faults <- AllFaults
  Legacy = {v2}
  MaxTime = 3
  NoCandidate = NoCandidate
  NoRelease = NoRelease
  NoDigest = NoDigest
INVARIANTS OneCycleReleases StatusActiveHonest SettledByCycle
PROPERTIES ReconcilerNeverDowngrades
CHECK_DEADLOCK FALSE
