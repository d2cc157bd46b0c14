SPECIFICATION FairSpec
CONSTANTS
  j1 = j1 p1 = p1 p2 = p2 s1 = s1 s2 = s2 x1 = x1 d1 = d1
  Job = {j1}
  Person = {p1, p2}
  JobOf <- BothOfOneJob
  Token = {t1}
  NoToken = NoToken
  Item = {i1}
  Saver = {s1, s2}
  Exporter = {x1}
  Remover = {d1}
  Traffic <- Together
  NoRequest = NoRequest
  NoCaller = NoCaller
  NoProfile = NoProfile
  Caller = {s1, s2}
  Size = {1, 2, 3}
  MaxFileBytes = 2
  MaxFiles = 1
  MaxBytes = 3
  Ttl = {0, 1}
  MaxTime = 1
INVARIANTS
  QuotaHolds
  SavedResultStands
  ExportRestsOnEvidence
  FreshCertificates
CHECK_DEADLOCK FALSE
PROPERTIES
  EveryRequestEnds
