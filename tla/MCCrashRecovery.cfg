\* One person and one worker that keeps losing its lease.
SPECIFICATION CountedSpec
CONSTANTS
  j1 = j1 p1 = p1
  Job = {j1}
  Person = {p1}
  JobOf <- OnlyJob
  RowOf <- OnlyRow
  Worker = {w1}
  Token = {t1, t2, t3}
  NoToken = NoToken
  NoWorker = NoWorker
  Item = {}
  RecoveryReasons <- Reasons
  OutageCode = {}
  FailureCode = {}
  Url = {}
  Size = {}
  MaxAttempts = 2
  LeaseTicks = 1
  RecoveryTicks = 1
  RetryAfter = {0}
  MaxCacheBytes = 0
  MaxLag = 0
INVARIANTS
  CrashRecoveryIsLimited
