\* Up to five lines of three levels.
SPECIFICATION Spec
CONSTANTS
  NumberMax = 65535
  SizeMax = 65535
  MaxLevel = 2
  BadLevels = {1}
  Lines <- MCLines
  MaxLines = 5
INVARIANTS TypeOK PrintsTree PrintsAtOnce WholeTags PrintedNest
PROPERTIES Terminates
CHECK_DEADLOCK FALSE
