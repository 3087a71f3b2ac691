\* A wrapped stream that throws up to twice; the program may stop in std::terminate.
SPECIFICATION Spec
CONSTANTS
  SizeMax = 5
  MaxDepth = 3
  MaxThrows = 2
INVARIANTS TypeOK DelimitersNested ContainedUnlessThrown DelimiterOfInnermost
PROPERTIES ScopeIsConsumed ScopedSpec
CHECK_DEADLOCK FALSE
