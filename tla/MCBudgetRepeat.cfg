\* The request of a chunk that was cancelled, and one of the next page.
SPECIFICATION Spec
CONSTANTS
  search = search complete = complete other = other
  MaxRuns = 2
  MaxCalls = 2
  Key = {complete, other}
  NoKey = NoKey
  SearchKey = {}
  Reserve <- Tokens
  Results <- Slots
  Actual = {1}
  MaxRetries = 0
  MaxLlmCalls = 2
  MaxTokens = 2
  MaxSearchCalls = 1
  MaxResults = 1
PROPERTIES
  NoBlindRepeat
CHECK_DEADLOCK FALSE
