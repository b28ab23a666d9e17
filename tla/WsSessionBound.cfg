SPECIFICATION Spec
CONSTANTS
  Threads = {t1}
  QueueMax = 2
  MaxSends = 5
  MaxRecv = 0
INVARIANT QueueWithinMax
CHECK_DEADLOCK FALSE
