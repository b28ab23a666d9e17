SPECIFICATION ThreadFairSpec
INVARIANTS StopIsFinal EndIsAnnounced OneMoreOpen
PROPERTIES JoinReturns
