SPECIFICATION FlowSpec
CONSTANTS
  None = None
  o1 = o1  o2 = o2  w1 = w1  w2 = w2  sA = sA  sB = sB
  OpId = {o1}
  Intents <- OneCapture
  Outcomes <- Answers
  Observations <- Nothing
  Evidence = {"claim"}
  Resolutions <- Nothing
  Reviewers = {}
  InitialFacts <- Authorized
  Times = {0, 1, 2, 3}
  Deadlines = {2, 3, 4, 5, 6}
  Scopes = {sA, sB}
  EventId = {}
  Correlations = {}
  ExternalIds = {}
  MaxAttempts = 2
  Workers = {w1, w2}
  Capabilities <- RetryCapabilities
  Verdicts = {"succeeded"}
  Retention <- KeysKept
  ProviderTimeout = 1
  MaxTime = 3
  MaxFaults = 1
SYMMETRY SameWorkers
CHECK_DEADLOCK FALSE
INVARIANTS
  TakenAtMostOnce
  EffectsStayDiscoverable
  ProducersHoldTheirClaims
PROPERTIES
  KeepsPromise
  ReservationIsFrozen
