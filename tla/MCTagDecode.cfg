\* Identifiers of both forms, number and length octets at their limits; the streams of
\* the unit tests.
SPECIFICATION MCSpec
CONSTANTS
  NumberMax = 65535
  SizeMax = 65535
  Octets = {0, 31, 62, 63, 127, 128, 130, 131, 132, 255}
  MaxOctets = 7
INVARIANTS TypeOK DecodesExactly OverflowIsReal DecodeTestsPass
PROPERTIES NoBitLost
CHECK_DEADLOCK FALSE
