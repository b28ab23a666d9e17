SPECIFICATION FairSpec
CONSTANTS
  a = a
  b = b
  Streams = {a, b}
  Sessions = {s1, s2}
  NoStream = none
  MaxPackets <- Bounds
INVARIANTS RoomHoldsOpenSessions GapFree AtMostOneStale
PROPERTIES ShutdownTerminates WatcherIsServed
CHECK_DEADLOCK FALSE
