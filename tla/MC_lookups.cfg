SPECIFICATION FlowSpec
CONSTANTS
  None = None
  o1 = o1  o2 = o2  w1 = w1  w2 = w2  sA = sA  sB = sB
  OpId = {o1, o2}
  Intents <- TwoCaptures
  Outcomes <- Answers
  Observations <- Notices
  Evidence = {"claim"}
  Resolutions <- Nothing
  Reviewers = {}
  InitialFacts <- Authorized
  Times = {0, 1}
  Deadlines = {}
  Scopes = {}
  EventId = {}
  Correlations = {}
  ExternalIds = {}
  MaxAttempts = 1
  Workers = {w1, w2}
  Capabilities <- LookupCapabilities
  Verdicts = {"succeeded", "rejected", "provider_pending"}
  Retention <- KeysKept
  ProviderTimeout = 1
  MaxTime = 0
  MaxFaults = 1
SYMMETRY SameWorkers
CHECK_DEADLOCK FALSE
INVARIANTS
  FlowTypeOK
  RejectionIsFinal
  BooksMatchProvider
  NeverOvercaptured
