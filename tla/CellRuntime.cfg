SPECIFICATION Spec
CONSTANTS
  Calls = {1, 2, 3}
  Yields = {1, 2}
  Timers = {1, 2}
  MaxOps = 4
  MaxObservations = 3
  Sizes = {1, 2}
  ObserverLimits = {1, 3}
  MaxOutput = 3
  MaxToolCalls = 2
  MaxConcurrent = 1
  MaxResult = 2
  MaxTotalResult = 2
  MaxTimers = 1
  None = None
INVARIANTS OutputDelivered ToolBudget TimersKept
PROPERTIES CallsProceed
CHECK_DEADLOCK FALSE
