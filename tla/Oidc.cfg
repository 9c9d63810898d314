SPECIFICATION Spec
CONSTANTS
  c1 = c1
  c2 = c2
  k1 = k1
  k2 = k2
  Callers = {c1, c2}
  Keys = {k1, k2}
  Initially = {{k1}}
  Tokens <- MCTokens
  Holdings <- MCHoldings
  DiscoveryTimeout = 0
  RequireTyped = TRUE
INVARIANTS TypeOK PublishedKeyNotRefused LearnedKeySurvivesOutage AcceptedIsTrusted
PROPERTIES DiscoveryEnds EveryVerifyEnds EventuallyServes
