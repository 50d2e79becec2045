SPECIFICATION Spec
CONSTANTS
  c1 = c1
  c2 = c2
  node = node
  A = A
  B = B
  Clients <- MCClients
  Callers <- MCCallers
  Contents <- MCContents
  Scenarios <- MCScenarios
  Node = node
  None = None
  Empty = Empty
  Torn = Torn
  Unknown = Unknown
  MaxFiles = 2
INVARIANTS
  AnswersAreTrue
  OnlyWholeBundles
  SyncStages
SYMMETRY Symmetry
