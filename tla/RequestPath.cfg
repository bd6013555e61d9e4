SPECIFICATION Spec
CONSTANTS
  None = None
  Limits <- MCLimits
  Asips = {"asip"}
  Issuers = {"issuer"}
  AllowedYears = {2024, 2025}
  YearScope <- MCYearScope
  OwnershipScope = "owner"
  Requests <- MCRequests
  Questions <- MCQuestions
  ConsumerParty = "dv"
  Contracts <- MCContracts
  MaxContracts = 1
  Configurations <- MCConfigurations
  Forms <- MCForms
  SeedDemoData = TRUE
  Deployments <- MCDeployments
  Pinned = {"bri", "brp", "lvg"}
  OwnOIN <- MCOwnOIN
  Declarations <- MCDeclarations
  Persons <- MCPersons
  Owners <- MCOwners
INVARIANTS RunsOnlyWhatWasJudged DriftFreeReadsAlike ExactlyTheConsented NothingUnrecorded WithdrawnOncePulled
