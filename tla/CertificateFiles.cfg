CONSTANTS
    Registrations <- MCRegistrations
    NoLogo = "none"
    NoCert = NoCert
    MaxRuns = 2
SPECIFICATION FairSpec
CHECK_DEADLOCK FALSE
INVARIANTS
    KeysFit
    OneOrganisation
PROPERTY
    ReleaseCatchesUp
