SPECIFICATION HistorySpec
CONSTANTS
  Images <- BeltImages
  Times <- Instant
  Ideal = 1
  None = None
  Gap = Gap
  MaxHistory = 6
INVARIANTS CountsMatchHistory CountsBalance
CHECK_DEADLOCK FALSE
