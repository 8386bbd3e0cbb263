SPECIFICATION LedgerSpec
CONSTANTS
  Key = {g1}
  Provider = {}
  Worker = {w1}
  Token = {t1, t2}
  NoToken = NoToken
  NoJob = NoJob
  NoPayload = NoPayload
  BatchSize = 1
  MaxAttempts = 1
  RepairLimit = 1
  MaxRevision = 0
  MaxFaults = 0
  MaxOverruns = 0
  MaxMutations = 2
  MaxErrors = 1
  MaxLate = 0
SYMMETRY Symmetry
INVARIANTS
  FailureIsOfThisRevision
CHECK_DEADLOCK FALSE
