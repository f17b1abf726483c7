SPECIFICATION Spec
CONSTANTS
  outer = outer
  inner = inner
  deep = deep
  side = side
  first = first
  second = second
  Paths = {outer, inner, deep, side}
  Parent <- MCParent
  Named = {deep, side}
  Nowhere = Nowhere
  Modes = {"new", "own", "masked"}
  NewMode = "new"
  Masked <- MCMasked
  Start <- MCStart
  Size <- MCSizes
  Texts <- MCTexts
  PatchPaths = {"f", "bad"}
  BadPath = "bad"
  MaxPatch = 4
  Characters = {"a", "lf", "cr"}
  MaxContent = 5
  Failed = Failed
  MaxInodes = 3
  Outside = Outside
  Missing = Missing
  MaxFaults = 1
  Tasks = {first, second}
INVARIANTS TypeOK PatchTextSound ReadToolsSound
PROPERTIES PatchesAreTransactions PatchAnswered
CHECK_DEADLOCK FALSE
