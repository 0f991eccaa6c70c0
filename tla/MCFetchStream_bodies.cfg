CONSTANTS
  Bodies <- TwoBodies
  Limits <- TwoLimits
  MaxLine = 3
  Plans <- FewUnusual
SPECIFICATION FairSpec
INVARIANTS TypeOK BodiesExact OkMeansAll LeftInStep ScanSound
PROPERTY FetchEnds
CHECK_DEADLOCK FALSE
