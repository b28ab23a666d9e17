SPECIFICATION FairSpec
CONSTANTS
  decode_datas_maxsize = 2
  MaxPackets = 4
INVARIANTS
  NullIsNotDecoded
  KeysAreKept
  DecodedInOrder
  ShownInOrder
PROPERTIES
  QueueIsTaken
  StopReturns
CHECK_DEADLOCK FALSE
