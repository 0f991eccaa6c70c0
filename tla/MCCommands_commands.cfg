CONSTANTS
  Known = {1, 2, 3}
  MaxUid = 4
  Names <- TwoNames
  Created <- NoneOrOne
  Strays <- StrayNames
  IdSets <- SomeIds
  Criteria <- SortBy
  Attributes <- Messages
  Batches <- RawInputs
  Replies <- RawReplies
  Lengths = {1, 2}
  LiteralWidth = 2
  MaxChunk = 1
  MaxCommands = 2
  MaxChanges = 1
SPECIFICATION Spec
INVARIANTS TypeOK OutcomeTrue RawVerbatim AsTold CopyPairs NamesExact FallbackSorts
CHECK_DEADLOCK FALSE
