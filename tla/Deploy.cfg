SPECIFICATION Spec
CONSTANTS
  d1 = d1
  d2 = d2
  good = good
  bad = bad
  Domains <- TwoDomains
  Apps <- TwoApps
  Manifest <- Rules
  NoApp = NoApp
  NoSite = NoSite
  Missing = Missing
  Torn = Torn
  Scenarios <- Environments
INVARIANTS DiskMatches RulesApplied AppsComplete ServedIsCurrent
PROPERTY BlameIsFair
CHECK_DEADLOCK FALSE
