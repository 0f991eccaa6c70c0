CONSTANTS
  Exchanges <- StreamThenNoop
  MaxUntagged = 2
SPECIFICATION FairSpec
INVARIANT UntaggedInOrder
PROPERTY ExchangeEnds
CHECK_DEADLOCK FALSE
