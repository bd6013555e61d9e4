CONSTANTS
    BadPointers = {}
    BadNames = {}
    Parse <- MCParse
    Consumer <- MCConsumer
    Configuration <- MCSource
    Identity <- MCIdentity
    Documents <- MCDocuments
    Contracts <- MCContracts
    Changing <- MCChanging
    Citizens = {"c1", ""}
    Requests <- MCRequests
    Rows <- MCRows
    Unwritable = {}
    QtspMaterial = "present"
    MaxReleases = 2
    Absent = Absent
SPECIFICATION IssuanceSpec
CHECK_DEADLOCK FALSE
INVARIANTS
    IssuedAsPublished
    AskedAsOffered
    NothingLeavesUnrecorded
