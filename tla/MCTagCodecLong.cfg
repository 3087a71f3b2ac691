\* One header whose length takes two octets.
SPECIFICATION Spec
CONSTANTS
  NumberMax = 65535
  SizeMax = 65535
  Headers <- LongHeaders
  MaxCalls = 1
INVARIANTS RoundTrip
CHECK_DEADLOCK FALSE
