SPECIFICATION Spec
INVARIANT DrawsLiveFrame
CHECK_DEADLOCK FALSE
