\* Definite tags and ends of contents.
SPECIFICATION Spec
CONSTANTS
  NumberMax = 65535
  SizeMax = 65535
  MaxLevel = 2
  BadLevels = {}
  Lines <- FewLines
  MaxLines = 3
INVARIANTS InvalidIsRefused
CHECK_DEADLOCK FALSE
