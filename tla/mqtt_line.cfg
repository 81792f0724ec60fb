SPECIFICATION Spec
CONSTANTS
  P3 = P3
  B4 = B4
  Tags = {P3, B4}
  Staleness = 2
  Period = 2
  Delays = {3}
  MaxRises <- FewRises
  MaxWire = 2
  Chatter <- Partial
  None = None
INVARIANTS TypeOK LiveIsOfThisSession
PROPERTIES ImplementsLineSource BaselineAfterReconnect SilenceShows StaysLive
CHECK_DEADLOCK FALSE
