SPECIFICATION Spec
CONSTANTS
  Inputs <- InputTags
  Outputs <- OutputTags
  Readers = {r1}
  MaxRises <- FewRises
  None = None
INVARIANTS BaselineOnReconnect
CHECK_DEADLOCK FALSE
