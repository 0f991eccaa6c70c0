CONSTANTS
  Exchanges <- AppendOnly
  MaxUntagged = 1
SPECIFICATION Spec
INVARIANT LiteralAfterContinuation
CHECK_DEADLOCK FALSE
