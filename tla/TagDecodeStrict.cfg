\* A strict call on a number with a leading zero group.
SPECIFICATION Spec
CONSTANTS
  NumberMax = 65535
  SizeMax = 65535
  Octets = {0, 31, 128}
  MaxOctets = 5
INVARIANTS StrictNumberHasNoLeadingZero
CHECK_DEADLOCK FALSE
