SPECIFICATION LedgerSpec
CONSTANTS
  Key = {g1, g2}
  Provider = {g2}
  Worker = {w1}
  Token = {t1, t2}
  NoToken = NoToken
  NoJob = NoJob
  NoPayload = NoPayload
  BatchSize = 2
  MaxAttempts = 1
  RepairLimit = 1
  MaxRevision = 0
  MaxFaults = 1
  MaxOverruns = 0
  MaxMutations = 3
  MaxErrors = 1
  MaxLate = 0
SYMMETRY Symmetry
INVARIANTS
  LedgerInv
PROPERTIES
  ImplementsAtLeastOnce
CHECK_DEADLOCK FALSE
