CONSTANTS
  Bodies <- TwoBodies
  Limits <- TwoLimits
  MaxLine = 3
  Plans <- FewUnusual
SPECIFICATION Spec
INVARIANT EndsOnOwnStatus
CHECK_DEADLOCK FALSE
