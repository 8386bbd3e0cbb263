SPECIFICATION LedgerSpec
CONSTANTS
  Key = {g1}
  Provider = {}
  Worker = {w1, w2}
  Token = {t1, t2}
  NoToken = NoToken
  NoJob = NoJob
  NoPayload = NoPayload
  BatchSize = 1
  MaxAttempts = 2
  RepairLimit = 1
  MaxRevision = 0
  MaxFaults = 1
  MaxOverruns = 1
  MaxMutations = 3
  MaxErrors = 1
  MaxLate = 1
SYMMETRY Symmetry
CONSTRAINT FewMutations
INVARIANTS
  RetryBudgetIsExact
  NothingIsStranded
  AppliedIsVerified
  AccessIsVerified
  TupleAgrees
PROPERTIES
  AccessEndsByRevocation
CHECK_DEADLOCK FALSE
