SPECIFICATION Spec
CONSTANTS
  n1 = n1
  n2 = n2
  w1 = w1
  w2 = w2
  s1 = s1
  s2 = s2
  s3 = s3
  k1 = k1
  dh = dh
  Nodes <- TwoNodes
  Ops <- TwoOps
  NodeOf <- OnePerNode
  Sites <- AllSites
  DomainOf <- Domains
  Secrets <- AllSecrets
  DHParams <- dh
  Nobody = Nobody
  Scenarios <- NoFault
INVARIANT AckedIsStored
CHECK_DEADLOCK FALSE
