SPECIFICATION Spec
CONSTANTS
  Calls = {k1, k2}
  MaxCommands = 2
  Loads <- MCLoads
  MaxActive = 2
  MaxOutput = 1
  MaxCompleted = 1
  MaxRetained = 2
  MaxTokens <- MCMaxTokens
INVARIANTS OutputWhole RecordsExpire
PROPERTIES CallAnswered AbortEndsGroup
CHECK_DEADLOCK FALSE
