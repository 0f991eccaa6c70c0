CONSTANTS
  Mechanisms <- AllMechanisms
  MaxLines = 2
SPECIFICATION FairSpec
INVARIANTS TypeOK CleanUpgrade PayloadsInOrder OkMeansAuthenticated CapabilityIsFresh
PROPERTY SessionEnds
CHECK_DEADLOCK FALSE
