SPECIFICATION Spec
CONSTANTS
  Second = 7
  frequency = 2
  MaxTime = 11
INVARIANTS
  NoBurst
  NotFaster
CHECK_DEADLOCK FALSE
