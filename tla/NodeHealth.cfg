SPECIFICATION FairNodeSpec
CONSTANTS
  runner = runner
  worker = worker
  handler = handler
  Runner = runner
  Worker = worker
  Handler = handler
  Writers <- MCWriters
  Values <- MCHealth
  NoValue = NoValue
  Leased = TRUE
  MaxRevision = 12
  MaxSyncs = 2
  Scenarios <- MCScenarios
INVARIANTS
  KeyIsLeased
  OkMeansStored
  RevisionIsOwn
PROPERTIES HealthIsReported NodeIsForgotten
CHECK_DEADLOCK FALSE
