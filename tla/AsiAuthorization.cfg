SPECIFICATION FairSpec
CONSTANTS
  a1 = a1  c1 = c1  c2 = c2  h1 = h1  h2 = h2  s1 = s1  s2 = s2
  m1 = m1  r1 = r1  r2 = r2
  Auth = {a1}
  Client = {c1, c2}
  Configured = {c2}
  ClientOf <- OneRequest
  Handler = {h1, h2}
  Session = {s1, s2}
  Request = {r1, r2}
  Message = {m1}
  SignedBy <- OneAssertion
  End <- EndsFirst
  TransactionLifetime = 0
  AuthorizationCodeLifetime = 0
  MaxClock = 1
  MaxChanges = 1
  Digid = Digid  Denied = Denied  None = None
INVARIANT SecondUseOnlyLate
PROPERTIES KeepsPromise WithdrawnLosesAccess
CHECK_DEADLOCK FALSE
