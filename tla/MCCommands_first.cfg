CONSTANTS
  Known = {1, 2, 3}
  MaxUid = 4
  Names <- TwoNames
  Created <- NoneOrOne
  Strays <- StrayNames
  IdSets <- SomeIds
  Criteria <- SortBy
  Attributes <- Messages
  Batches <- RawInputs
  Replies <- RawReplies
  Lengths = {1, 2}
  LiteralWidth = 2
  MaxChunk = 1
  MaxCommands = 1
  MaxChanges = 1
SPECIFICATION Spec
INVARIANT FirstIsOwn
CHECK_DEADLOCK FALSE
