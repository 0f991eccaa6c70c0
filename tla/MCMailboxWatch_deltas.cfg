CONSTANTS
  seen = seen
  flagged = flagged
  MaxUid = 2
  Flags <- TwoFlags
  MaxChanges = 2
  MaxElapsed = 1
  Eager = {TRUE, FALSE}
SPECIFICATION FairSpec
INVARIANTS TypeOK ReplicaTracksShadow EventsApplicable ShadowIsServerState KeyedOnOneMailbox
PROPERTIES ReportedWhileIdling ShutdownEnds
CHECK_DEADLOCK FALSE
