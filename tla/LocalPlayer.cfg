SPECIFICATION FairSpec
INVARIANTS DanglesOnlyBetween CapturesOutlive
PROPERTIES PlayerEnds
CHECK_DEADLOCK FALSE
