CONSTANTS
  seen = seen
  flagged = flagged
  MaxUid = 1
  Flags = {}
  MaxChanges = 1
  MaxElapsed = 0
  Eager = {TRUE}
SPECIFICATION FairSpec
PROPERTY ChangesReported
CHECK_DEADLOCK FALSE
