SPECIFICATION Spec
CONSTANTS
  Requests = {r1, r2, r3, r4}
  Sessions = {s1}
  CellIds = {x}
  MaxSessionCells = 3
  MaxHostCells = 2
  ReuseIds = TRUE
  None = None
SYMMETRY Symmetry
INVARIANTS TypeOK SlotAccounting RunningHoldsSlot ObserverTracked
CHECK_DEADLOCK FALSE
