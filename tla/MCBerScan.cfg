\* Streams of tags, whole, cut and followed by others, and every stream of up to
\* five octets over five.
SPECIFICATION Spec
CONSTANTS
  NumberMax = 127
  SizeMax = 255
  Inputs <- AllStreams
  MaxInput = 5
  MaxDepth = 5
  IntSize = 1
  CompSize = 2
INVARIANTS TypeOK PrintsWhatArrived LevelsNest Unwound
PROPERTIES LoopEndsAtEnd Terminates
CHECK_DEADLOCK FALSE
