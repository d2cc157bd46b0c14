\* A job of one person, or of two: sampled clocks that lag, evidence, a cache of two
\* pages.
SPECIFICATION Spec
CONSTANTS
  j1 = j1 j2 = j2 p1 = p1 p2 = p2 p3 = p3
  Job = {j1, j2}
  NoToken = NoToken
  NoWorker = NoWorker
  RecoveryReasons <- Reasons
  FailureCode = {"RESEARCH_FAILED"}
  MaxAttempts = 2
  LeaseTicks = 2
  RecoveryTicks = 1
  RetryAfter = {0}
  Person = {p1, p2, p3}
  JobOf <- Batches
  RowOf <- Rows
  Worker = {w1}
  Token = {t1, t2}
  Item = {i1}
  OutageCode = {"OTHER"}
  Url = {u1, u2}
  Size = {1, 2}
  MaxCacheBytes = 2
  MaxLag = 1
SYMMETRY Symmetric
CONSTRAINT OneJobAtATime
INVARIANTS
  TypeOK
  OpenPersonIsReachable
  JobStatusIsCurrent
  AckedOutcomeStands
  PublishedProfile
  CacheWithinBudget
  ClosedJobKeepsNoCache
PROPERTIES
  OwnerKeepsUnexpiredLease
  NoWriteAfterClose
  ImplementsQueue
