SPECIFICATION Spec
CONSTANTS
  MaxExecs = 2
  Waits = {w1}
  MaxCalls = 1
  MaxReplay = 1
INVARIANTS ScopesMatchCells ReplayOnce
PROPERTIES AbortTerminates
CHECK_DEADLOCK FALSE
