SPECIFICATION FairSpec
CONSTANTS
  node = node
  site = site
  Clients <- AllClients
  Names <- TwoNames
  Node = node
  MaxCalls = 6
  Absent = Absent
  Nobody = Nobody
  Fresh = 3
  SelfSignedMinDays = 2
  ACMEMinDays = 2
  Checks <- TwoChecks
  Scenarios <- Environments
INVARIANTS JobsAreAnswered
PROPERTIES AcmeServed ExpiredIsRenewed ExpiryAnnounced
CHECK_DEADLOCK FALSE
