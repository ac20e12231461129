SPECIFICATION MigrationSpec
CONSTANTS
  None = None
  t1 = t1  t2 = t2  o1 = o1  o2 = o2  x1 = x1
  Tasks = {t1, t2}
  Openings <- AnyOpening
  OrderIds = {x1}
  MaxCalls = 3
  OpId = {o1}
  Intents <- Commands
  Outcomes <- Nothing
  Observations <- Nothing
  Evidence <- Nothing
  Resolutions <- Nothing
  Reviewers = {}
  InitialFacts <- Nothing
  Times = {}
  Deadlines = {}
  Scopes = {}
  EventId <- Names
  Correlations = {}
  ExternalIds = {x1}
  MaxAttempts = 0
SYMMETRY SameTasks
CHECK_DEADLOCK FALSE
INVARIANTS
  InFlightMigratesBlocked
