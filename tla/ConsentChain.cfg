SPECIFICATION FairSpec
CONSTANTS
  z1 = z1  z2 = z2  g1 = g1  g2 = g2  v1 = v1  a1 = a1
  Citizen = {z1, z2}
  Grant = {g1, g2}
  Revocation = {v1}
  Ask = {a1}
  Owner <- OwnedByZ1
  Under <- UnderG1
  BatchSize = 2
  MaxFaults = 1
  None = None
INVARIANTS RevocationBites LogMatchesStore GrantLoggedFirst
PROPERTIES RegisterKeepsPromise
CHECK_DEADLOCK FALSE
