\* Results for three searches and a half, and two searches for open fields: the
\* second one is put in front of the first, which was interrupted.
SPECIFICATION Spec
CONSTANTS
  a = a b = b c = c d = d
  q0 = q0 f1 = f1 r = r w = w s = s p = p
  Url = {a, b, c, d}
  Ranking <- FourByRank
  Query = {q0, f1, r, w, s, p}
  NoQuery = NoQuery
  InitialQuery = q0
  FieldQuery = {f1, p}
  FallbackQuery <- Fallback
  RoleQuery = s
  WikipediaQuery = w
  PlanQuery <- Plans
  FinalOf <- Itself
  BodyOf <- Itself
  Stranger = {}
  Chunks <- OneChunk
  Grounded <- OfA
  Supplied = {}
  Wikipedia = {}
  Found <- Pairs
  MaxSources = 3
  PerRound = 1
  MaxNoNew = 2
  MaxQueries = 4
  MaxCalls = 4
  MaxResults = 7
  PerQuery = 2
  MaxRuns = 2
INVARIANT
  SearchIsBoughtOnce
\* Research ends.
CHECK_DEADLOCK FALSE
