SPECIFICATION FairSpec
CONSTANTS
  Threads = {t1, t2, t3}
  QueueMax = 2
  MaxSends = 5
  MaxRecv = 1
INVARIANTS SingleWrite WriteBufferOwned OverlapsOnly
PROPERTIES SilentAfterFailure FeedSpec ChannelSpec LeavesRoom NoStall
CHECK_DEADLOCK FALSE
