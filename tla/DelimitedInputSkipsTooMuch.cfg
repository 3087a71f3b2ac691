\* One exception that the program survives.
SPECIFICATION Spec
CONSTANTS
  SizeMax = 4
  MaxDepth = 2
  MaxThrows = 1
INVARIANTS Contained
CHECK_DEADLOCK FALSE
