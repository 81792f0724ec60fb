SPECIFICATION Spec
CONSTANTS
  t1 = t1
  t2 = t2
  r1 = r1
  cycle = cycle
  metal = metal
  Window = 2
  EventTypes = {cycle, metal}
  Threads = {t1, t2}
  Readers = {r1}
  ClockSteps <- Forward
  MaxMinute = 4
  MaxEvents = 4
INVARIANTS TypeOK WindowExact BucketsBounded
PROPERTIES ImplementsCountLog
CHECK_DEADLOCK FALSE
