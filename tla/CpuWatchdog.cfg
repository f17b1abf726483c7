SPECIFICATION WatchdogSpec
CONSTANTS
  Limit = 3
  MaxSlices = 4
INVARIANTS WatchdogTypeOK TripJustified StopNamed
PROPERTIES ExecutionEnds
CHECK_DEADLOCK FALSE
