SPECIFICATION Spec
CONSTANTS
  Tags = {"reviewed", "bill", "tax"}
  Marks = {"reviewed"}
  Correspondents = {"bank"}
  DocumentTypes = {"letter"}
  NoName = "null"
  MaxRetries = 2
  MaxEdits = 2
  MaxDeletes = 1
INVARIANTS TypeOK StaleTextOnlyIfRaced RejectedOnlyIfStaleOrUnfit
 
CHECK_DEADLOCK FALSE
