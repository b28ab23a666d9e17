SPECIFICATION Spec
CONSTANTS
  a = a
  b = b
  Streams = {a}
  Sessions = {s1}
  NoStream = none
  MaxPackets <- OneStream
INVARIANT CleanShutdown
CHECK_DEADLOCK FALSE
