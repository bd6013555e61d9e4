SPECIFICATION Spec
CONSTANTS
  Citizen = {c1, c2}
  Grant = {g1, g2}
  Source = {s1, s2}
  Version = {1, 2}
  MaxRelyingParties = 1
  MaxAge = 1
  MaxTime = 2
  MaxChanges = 2
  None = None
SYMMETRY MCSymmetry
INVARIANTS FollowsTheList ValuesNameTheCitizen
PROPERTIES StaysReadable
CHECK_DEADLOCK FALSE
