CONSTANTS
  Exchanges <- IdleThenAppend
  MaxUntagged = 1
SPECIFICATION FairSpec
INVARIANTS TypeOK OwnCompletion OkMeansWritten UntaggedInOrder
PROPERTY ExchangeEnds
CHECK_DEADLOCK FALSE
