SPECIFICATION RecordedSpec
CONSTANTS
  None = None
  w1 = w1  w2 = w2
  Callers = {w1, w2}
  Commands <- LedgerCommands
  Required = 2
  Times = {0, 1}
  Attempts = 2
SYMMETRY SameCallers
INVARIANTS
  LedgerTypeOK
  LedgerAddsUp
  LedgerStaysReadable
  AuditTrailIsOrdered
  ConflictsAreReal
