INIT MCInit
NEXT MCNext
CONSTANTS
  MaxContext = 40
  BasePrompt = 15
  NameLength = 3
  MaxPrompt = 60
  MaxText = 50
  MaxLen = 6
INVARIANTS CandidatesApart OutermostFound ObjectInProseFound
PROPERTIES FitsWithRoom
CHECK_DEADLOCK FALSE
