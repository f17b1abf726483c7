SPECIFICATION Spec
CONSTANTS
  Requests = {r1, r2, r3}
  Sessions = {s1}
  CellIds = {x}
  MaxSessionCells = 2
  MaxHostCells = 2
  ReuseIds = FALSE
  None = None
INVARIANTS AbortedExecReleased
CHECK_DEADLOCK FALSE
