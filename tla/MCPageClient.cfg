SPECIFICATION Spec
CONSTANTS
  MaxPlayers = 3
  MaxThrows = 1
  Frames <- TestFrames
INVARIANTS
  OwnDecoder
  OnlyThrowsLeak
  DrawsTheFrame
