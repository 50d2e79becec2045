SPECIFICATION Spec
CONSTANTS
  node = node
  site = site
  Clients <- AllClients
  Names <- TwoNames
  Node = node
  MaxCalls = 6
  Absent = Absent
  Nobody = Nobody
  Fresh = 3
  SelfSignedMinDays = 2
  ACMEMinDays = 2
  Checks <- TwoChecks
  Scenarios <- SameJob
INVARIANT WaitersHaveJob
CHECK_DEADLOCK FALSE
