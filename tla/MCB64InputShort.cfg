\* What follows a short count.
SPECIFICATION Spec
CONSTANTS
  MaxText = 5
  Texts <- AllTexts
  MaxAsk = 2
  MaxGot = 3
INVARIANTS NoneAfterShort
CHECK_DEADLOCK FALSE
