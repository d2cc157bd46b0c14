\* A process with two leases and a fault: stale, orphaned and repeated calls, and
\* checkpoints that are abandoned.
SPECIFICATION FairWorkerSpec
CONSTANTS
  j1 = j1 p1 = p1
  Job = {j1}
  Person = {p1}
  JobOf <- OnlyJob
  RowOf <- OnlyRow
  Worker = {w1}
  Token = {t1, t2}
  NoToken = NoToken
  NoWorker = NoWorker
  Item = {}
  RecoveryReasons <- Reasons
  OutageCode = {"PROVIDER_UNAVAILABLE"}
  FailureCode = {"PERSON_TIMEOUT", "RESEARCH_FAILED", "INSUFFICIENT_EVIDENCE"}
  Url = {}
  Size = {}
  MaxAttempts = 1
  LeaseTicks = 2
  RecoveryTicks = 1
  RetryAfter = {0}
  MaxCacheBytes = 0
  MaxLag = 0
  MaxConcurrent = 2
  MaxVersion = 2
  MaxFaults = 1
PROPERTIES
  ResumePointHolds
  EndedBossLeavesNoLease
  PersonIsAnswered
  LostLeaseEndsWork
