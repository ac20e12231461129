SPECIFICATION Spec
CONSTANTS
  None = None
  o1 = o1  o2 = o2  o3 = o3  w1 = w1
  e1 = e1  e2 = e2  e3 = e3  cA = cA  cB = cB  x1 = x1  x2 = x2
  OpId = {o1}
  Intents <- CallbackIntents
  Outcomes <- CallbackOutcomes
  Observations <- CallbackObservations
  Evidence <- Nothing
  Resolutions <- Nothing
  Reviewers = {}
  InitialFacts <- StartNew
  Times = {0}
  Deadlines = {}
  Scopes = {}
  EventId = {e1, e2}
  Correlations = {cA, cB}
  ExternalIds = {x1, x2}
  MaxAttempts = 1
INVARIANTS
  TypeOK
  FundsBounded
  StatusTruthful
  OpenRefundIsShown
PROPERTIES
  FundsNeverRegress
  IdentitiesAreStable
