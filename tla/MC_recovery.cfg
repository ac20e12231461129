SPECIFICATION FairFlowSpec
CONSTANTS
  None = None
  o1 = o1  o2 = o2  w1 = w1  w2 = w2  sA = sA  sB = sB
  OpId = {o1}
  Intents <- OneCapture
  Outcomes <- Answers
  Observations <- Nothing
  Evidence = {"claim"}
  Resolutions <- Nothing
  Reviewers = {}
  InitialFacts <- Authorized
  Times = {0}
  Deadlines = {2}
  Scopes = {sA}
  EventId = {}
  Correlations = {}
  ExternalIds = {}
  MaxAttempts = 2
  Workers = {w1, w2}
  Capabilities <- RecoveryCapabilities
  Verdicts = {"succeeded", "rejected", "provider_pending"}
  Retention <- KeysKept
  ProviderTimeout = 1
  MaxTime = 0
  MaxFaults = 1
CHECK_DEADLOCK FALSE
PROPERTIES
  SubmissionsAreDecided
