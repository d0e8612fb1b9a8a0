SPECIFICATION Spec
CONSTANTS
  Words = {"hey_jarvis", "cortana"}
  MaxCells = 5
  MaxRemoved = 1
PROPERTIES DataOnce ConvertedIsTrained
CHECK_DEADLOCK FALSE
