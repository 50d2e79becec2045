SPECIFICATION FairSpec
CONSTANTS
  n1 = n1
  n2 = n2
  c1 = c1
  c2 = c2
  j1 = j1
  Nodes <- TwoNodes
  Clients <- TwoClients
  Jobs <- OneJob
  JobOf <- JobOfBoth
  Nobody = Nobody
  Scenarios <- Environments
INVARIANTS LeaderOwnsKey DoneMeansServed
PROPERTY WaitEnds
CHECK_DEADLOCK FALSE
