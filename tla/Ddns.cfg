SPECIFICATION FairSpec
CONSTANT MaxChanges = 3
INVARIANTS TypeOK
PROPERTIES SuccessMeansWritten NeverOlder RecordFollows
