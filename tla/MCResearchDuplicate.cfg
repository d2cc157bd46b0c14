\* Four distinct pages; the second interruption finds a page resumed but not
\* begun again.
SPECIFICATION Spec
CONSTANTS
  a = a b = b c = c d = d
  q0 = q0 f1 = f1 r = r w = w s = s p = p
  Url = {a, b, c, d}
  Ranking <- FourByRank
  Query = {q0, f1, r, w, s, p}
  NoQuery = NoQuery
  InitialQuery = q0
  FieldQuery = {f1}
  FallbackQuery <- Fallback
  RoleQuery = s
  WikipediaQuery = w
  PlanQuery <- Plans
  FinalOf <- Itself
  BodyOf <- Itself
  Stranger = {}
  Chunks <- OneChunk
  Grounded <- OfA
  Supplied = {}
  Wikipedia = {}
  Found <- Pairs
  MaxSources = 3
  PerRound = 2
  MaxNoNew = 2
  MaxQueries = 3
  MaxCalls = 3
  MaxResults = 6
  PerQuery = 2
  MaxRuns = 3
INVARIANT
  OnlyCopiesAreDuplicates
\* Research ends.
CHECK_DEADLOCK FALSE
