SPECIFICATION Spec
CONSTANTS
  None = None
  o1 = o1  o2 = o2  o3 = o3  w1 = w1
  e1 = e1  e2 = e2  e3 = e3  cA = cA  cB = cB  x1 = x1  x2 = x2
  OpId = {o1, o2}
  Intents <- DecisionIntents
  Outcomes <- DecisionOutcomes
  Observations <- Nothing
  Evidence <- LostResponse
  Resolutions <- DecisionResolutions
  Reviewers = {w1}
  InitialFacts <- StartAuthorized
  Times = {0}
  Deadlines = {}
  Scopes = {}
  EventId = {}
  Correlations = {cA, cB}
  ExternalIds = {}
  MaxAttempts = 1
INVARIANTS
  LaterIntentsBuildOnCaptures
PROPERTIES
  DisputesOutliveEverything
  ConfirmedEffectsStand
