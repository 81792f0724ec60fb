SPECIFICATION Spec
CONSTANTS
  Inputs <- InputTags
  Outputs <- OutputTags
  Readers = {r1}
  MaxRises <- FewRises
  None = None
INVARIANTS TypeOK LiveValuesAreOfThisSession SnapshotCoherent
PROPERTIES ImplementsLineSource Reconnects Stops
CHECK_DEADLOCK FALSE
