SPECIFICATION Spec
CONSTANTS
  h1 = h1
  h2 = h2
  h3 = h3
  n1 = n1
  n2 = n2
  n3 = n3
  cert = cert
  app = app
  Names <- ThreeNames
  Certs <- OneCert
  SelfSigned = SelfSigned
  Apps <- OneApp
  NoApp = NoApp
  Handlers <- ThreeHandlers
  Scenarios <- Environments
SYMMETRY Symmetry
INVARIANTS NamesAreUnique CertificatesExist  ChangesAreApplied
CHECK_DEADLOCK FALSE
