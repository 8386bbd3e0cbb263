SPECIFICATION Spec
CONSTANTS
  Key = {k1, k2}
  Worker = {w1, w2}
  Token = {t1, t2, t3, t4}
  NoToken = NoToken
  NoJob = NoJob
  BatchSize = 2
  MaxAttempts = 2
  MaxRevision = 3
  MaxFaults = 2
  MaxOverruns = 1
INVARIANTS
  BudgetInv
  DeadLetterIsExhausted
  CompletedIsHandled
  RetryBudgetIsExact
  HandlingIsExclusive
PROPERTIES
  ImplementsAtLeastOnce
CONSTRAINT FewPayloads
SYMMETRY Symmetry
CHECK_DEADLOCK FALSE
