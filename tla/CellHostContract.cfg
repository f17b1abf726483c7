SPECIFICATION Spec
CONSTANTS
  Requests = {r1, r2, r3}
  Sessions = {s1}
  CellIds = {x}
  MaxSessionCells = 1
  MaxHostCells = 1
  ReuseIds = FALSE
  None = None
INVARIANTS SlotReachable
PROPERTIES CancelledNeverStarts ContractHolds RequestAnswered
CHECK_DEADLOCK FALSE
