SPECIFICATION Spec
CONSTANTS
  Person = {p1, p2}
  Browser = {b1}
  Handler = {h1}
  Wallet = {w1, w2}
  a1 = a1
  a2 = a2
  Attribute <- MCAttribute
  Provides <- MCProvides
  Asked <- MCAsked
  Gone = Gone
  Sound = {1, 2}
  Lifetime = 1
  LoginLifetime = 1
  SessionLifetime = 1
  RequestLifetime = 1
  MaxResults = 2
  MaxClients = 1
  MaxRestarts = 1
  MaxLogins = 2
  MaxSessions = 2
  MaxRequests = 1
  MaxTime = 1
SYMMETRY People
INVARIANT IssuedToRequester
PROPERTIES WaitsItsTime OwnDisclosure
CHECK_DEADLOCK FALSE
