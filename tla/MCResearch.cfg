\* The research of a person, interrupted twice.
SPECIFICATION FairSpec
CONSTANTS
  a = a b = b c = c d = d
  q0 = q0 f1 = f1 r = r w = w s = s p = p
  Url = {a, b, c}
  Ranking <- ByRank
  Query = {q0, f1, r, w, s, p}
  NoQuery = NoQuery
  InitialQuery = q0
  FieldQuery = {f1}
  FallbackQuery <- Fallback
  RoleQuery = s
  WikipediaQuery = w
  PlanQuery <- Plans
  FinalOf <- Redirected
  BodyOf <- Redirected
  Stranger = {b}
  Chunks <- OneChunk
  Grounded <- OfA
  Supplied = {a, c}
  Wikipedia = {b}
  Found <- Answers
  MaxSources = 2
  PerRound = 1
  MaxNoNew = 2
  MaxQueries = 4
  MaxCalls = 4
  MaxResults = 8
  PerQuery = 2
  MaxRuns = 3
INVARIANTS
  NoCandidateIsLost
  WorkCountsOnce
  NothingLeftBehind
PROPERTIES
  
  RunEnds
\* Research ends.
CHECK_DEADLOCK FALSE
