SPECIFICATION FairLedgerSpec
CONSTANTS
  Key = {g1}
  Provider = {}
  Worker = {w1}
  Token = {t1, t2}
  NoToken = NoToken
  NoJob = NoJob
  NoPayload = NoPayload
  BatchSize = 1
  MaxAttempts = 2
  RepairLimit = 1
  MaxRevision = 0
  MaxFaults = 2
  MaxOverruns = 0
  MaxMutations = 2
  MaxErrors = 1
  MaxLate = 1
PROPERTIES
  Converges
  EverythingSettles
CHECK_DEADLOCK FALSE
