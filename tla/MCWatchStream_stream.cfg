CONSTANTS
  Capacity = 2
  MaxEvents = 4
  PollSteps = 2
SPECIFICATION FairSpec
INVARIANTS TypeOK DeliveredInOrder NoSilentStop ClosesWithinPoll
PROPERTIES Implements EventsReachConsumer CloseReturnsWithRoom
CHECK_DEADLOCK FALSE
