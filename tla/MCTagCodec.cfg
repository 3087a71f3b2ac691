\* Two headers out of twenty-one, refused anywhere.
SPECIFICATION Spec
CONSTANTS
  NumberMax = 65535
  SizeMax = 65535
  Headers <- MCHeaders
  MaxCalls = 2
INVARIANTS SizesAddUp DecodedIsPrefix FailsOnlyWhereInterrupted EncodeTestsPass
PROPERTIES AllDecoded
CHECK_DEADLOCK FALSE
