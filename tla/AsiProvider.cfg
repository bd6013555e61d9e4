SPECIFICATION ProviderSpec
CONSTANTS
  address = address
  trade = trade
  country = country
  street = street
  number = number
  names = names
  T1 = T1
  T2 = T2
  x = x
  y = y
  xv = xv
  NoType = NoType
  Nothing = Nothing
  SourceField <- MCSourceField
  Norm <- MCNorm
  Catalogue <- MCCatalogue
  Call = {h1, h2}
  Source <- MCSource
  Proof = {j1}
  Capability <- MCCapability
  StaleTimes = {1, 2}
  Person <- MCPerson
  Requests <- MCRequests
  TokenAttributes <- MCGranted
  Operations <- MCOperations
  Window = 1
  Leeway = 0
  TokenLife = 1
  RefetchInterval = 2
  MaxKeys = 2
  MaxTime = 2
INVARIANTS AnswersTruthfully AsksOnlyGranted StaleInTime
SYMMETRY Calls
CHECK_DEADLOCK FALSE
