SPECIFICATION FairApiSpec
CONSTANTS
  callback = callback
  monitor = monitor
  handler = handler
  resync = resync
  again = again
  main = main
  Callers <- AllCallers
  Callbacks <- OneCallback
  Handlers <- OneHandler
  Resyncs <- TwoResyncs
  Main <- main
  MaxVersion = 1
  MaxServers = 5
  Scenarios <- Environments
INVARIANTS OneRunner NoRequestLost QuietMeansApplied RestartIsSafe CertIsServed
PROPERTIES ImplementsRequests NobodyStarves ServerComesBack
CHECK_DEADLOCK FALSE
