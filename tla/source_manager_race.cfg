SPECIFICATION Spec
CONSTANTS
  b1 = b1
  b2 = b2
  r1 = r1
  r2 = r2
  s1 = s1
  None = None
  Brokers = {b1, b2}
  Requests = {r1, r2}
  Readers = {}
  MaxSources = 3
INVARIANT OneActiveSource
CHECK_DEADLOCK FALSE
