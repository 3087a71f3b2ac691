\* Integers and components of 16 bits.
SPECIFICATION Spec
CONSTANTS
  IntSize = 2
  CompSize = 2
  Octets = {0, 1, 39, 40, 79, 80, 127, 128, 129, 255}
  MaxOctets = 4
INVARIANTS TypeOK IntegerIsContentModulo OidIsContent OidOverflowIsReal
CHECK_DEADLOCK FALSE
