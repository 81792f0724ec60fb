SPECIFICATION Spec
CONSTANTS
  Images <- FewImages
  Times <- Clock
  Ideal = 1
  None = None
  WriteInterval = 2
  MaxParts = 1
  MaxCrashes = 1
INVARIANTS TypeOK RunWithinUpTime InsertsAreFresh RowsInRange
PROPERTIES PausedWhileDown Reconnects InsertsResume
CHECK_DEADLOCK FALSE
