SPECIFICATION Spec
CONSTANTS
  Calls = {k1, k2}
  MaxCommands = 1
  Loads <- MCOneChunk
  MaxActive = 2
  MaxOutput = 1
  MaxCompleted = 1
  MaxRetained = 2
  MaxTokens <- MCMaxTokens
INVARIANTS CommandCannotCrash
CHECK_DEADLOCK FALSE
