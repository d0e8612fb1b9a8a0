SPECIFICATION MCSpec
CONSTANTS
  MessageLists <- Lists
  Requests <- AnyRequest
  MaxLength = 3
  MaxPasses = 2
  MaxRetries = 2
  MaxCalls = 2
  MaxEdits = 1
INVARIANTS TypeOK ResponsesMatched
PROPERTIES SecondPassStable CallEnds
CHECK_DEADLOCK FALSE
