\* A search and a completion at once, with a retry and limits they reach
\* together, and a run that takes the person over.
SPECIFICATION Spec
CONSTANTS
  search = search complete = complete other = other
  MaxRuns = 2
  MaxCalls = 2
  Key = {search, complete}
  NoKey = NoKey
  SearchKey = {search}
  Reserve <- Tokens
  Results <- Slots
  Actual = {1}
  MaxRetries = 1
  MaxLlmCalls = 2
  MaxTokens = 3
  MaxSearchCalls = 1
  MaxResults = 1
CONSTRAINT InOrder
INVARIANTS
  SendsWithinLimits
  UncertainStaysReserved
PROPERTIES
  NoBlindRepeatInOrder
CHECK_DEADLOCK FALSE
