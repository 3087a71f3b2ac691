\* Up to three octets in lines of three characters, of two, or of any length; and
\* every text of up to six characters; the texts of the tests.
SPECIFICATION PipeSpec
CONSTANTS
  Octets <- MCOctets
  MaxPuts = 3
  Script <- MCScript
  Formats <- MCFormats
  MaxText = 6
  Found <- MCFound
  MaxAsk = 2
INVARIANTS PipeTypeOK DecodesText ReadIsPrefixOfPut AtMostLastLost LinesFull QuartetsWhole
PROPERTIES ReaderEnds TestsPass
CHECK_DEADLOCK FALSE
