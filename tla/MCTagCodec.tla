----------------------------- MODULE MCTagCodec -----------------------------
(* Headers at the edges of the forms of numbers and lengths, and those of  *)
(* the unit tests.                                                         *)
EXTENDS TagCodecTests

\* Lengths of one octet at most.
ShortHeaders ==
  { Tag(0, 0, "primitive", 0), Tag(0, 30, "primitive", 127), Tag(3, 31, "primitive", 128),
    Tag(1, 127, "constructed_definite", 255), Tag(2, 128, "constructed_indefinite", 7),
    Tag(0, 16383, "primitive", 200), Tag(2, 16384, "constructed_definite", 0),
    Tag(1, 65535, "primitive", 129) }

MCHeaders == ShortHeaders \cup TestHeaders

\* A length of two octets.
LongHeaders == { Tag(0, 4, "primitive", 300), Tag(0, 16, "constructed_definite", 256) }
=============================================================================
