SPECIFICATION FairSpec
CONSTANTS
  Chains <- TestChains
  MaxHeld = 2
INVARIANTS
  PacketsAccounted
  StaleOnlyBehind
  Described
  NullOnlyOfClosed
PROPERTY
  ProxyEnds
CHECK_DEADLOCK FALSE
