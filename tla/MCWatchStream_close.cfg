CONSTANTS
  Capacity = 2
  MaxEvents = 4
  PollSteps = 2
SPECIFICATION FairSpec
PROPERTY CloseReturns
CHECK_DEADLOCK FALSE
