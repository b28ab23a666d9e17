SPECIFICATION FairSpec
CONSTANT
  UiWaitSecs = {0, 1, 4}
INVARIANTS
  OpensSized
  NullOnlyBefore
  StopsLiveContext
PROPERTY
  ProcessEnds
CHECK_DEADLOCK FALSE
