--------------------------- MODULE TagCodecTests ---------------------------
(***************************************************************************)
(* What the unit tests of tag_sizeof and tag_encode expect                 *)
(* (testsuite/lib/unit/test-tag.cxx:514-1078) of the first header that the *)
(* writer of TagCodec encodes.                                             *)
(***************************************************************************)
EXTENDS TagCodec

Tag(c, n, s, l) == [tclass |-> c, number |-> n, shape |-> s, length |-> l]
Zero == Tag(0, 0, "primitive", 0)
Numbered(n) == [Zero EXCEPT !.number = n]
Long(l) == [Zero EXCEPT !.length = l]
Shaped(s) == [Zero EXCEPT !.shape = s]
Indefinitely(l) == [Shaped("constructed_indefinite") EXCEPT !.length = l]

NumberOctets == (Digits(NumberMax) + 6) \div 7
LengthOctets == (Digits(SizeMax) + 7) \div 8

\* test_sizeof_min_low_number to test_sizeof_indefinite_length
Size(h, n) == [header |-> h, size |-> n]
SizeofTests ==
  { Size(Numbered(0), 2), Size(Numbered(30), 2), Size(Numbered(31), 3),
    Size(Numbered(NumberMax), NumberOctets + 2),
    Size(Long(127), 2), Size(Long(128), 3), Size(Long(SizeMax), LengthOctets + 2),
    Size(Indefinitely(SizeMax), 2) }

\* An encoding test has the header, the position reached, and the octets that it
\* looks at, by their index in the array.
Encodes(h, n, os) == [header |-> h, getpos |-> n, arr |-> os]

\* test_encode_class_universal to test_encode_class_private
EncodeClassTests == {Encodes([Zero EXCEPT !.tclass = c], 2, 0 :> c * 64) : c \in TagClass}

\* test_encode_primitive to test_encode_constructed_indefinite
EncodeShapeTests ==
  { Encodes(Zero, 2, 0 :> 0),
    Encodes(Shaped("constructed_definite"), 2, 0 :> 32 @@ 1 :> 0),
    Encodes(Indefinitely(0), 2, 0 :> 32 @@ 1 :> 128) }

\* test_encode_min_low_number to test_encode_max_high_number
EncodeNumberTests ==
  { Encodes(Numbered(0), 2, 0 :> 0), Encodes(Numbered(30), 2, 0 :> 30),
    Encodes(Numbered(31), 3, 0 :> 31 @@ 1 :> 31),
    Encodes(Numbered(NumberMax), NumberOctets + 2,
            0 :> 31 @@ 1 :> 127 + 2^(Digits(NumberMax) % 7)
              @@ NumberOctets :> 127 @@ NumberOctets + 1 :> 0
              @@ [i \in 2..NumberOctets - 1 |-> 255]) }

\* test_encode_min_short_length to test_encode_max_long_length
EncodeLengthTests ==
  { Encodes(Long(0), 2, 1 :> 0), Encodes(Long(127), 2, 1 :> 127),
    Encodes(Long(128), 3, 1 :> 129 @@ 2 :> 128),
    Encodes(Long(SizeMax), LengthOctets + 2,
            1 :> 128 + LengthOctets @@ [i \in 2..LengthOctets + 1 |-> 255]) }

\* test_encode_break_min_low_number to test_encode_break_max_long_length: the
\* array is too small for the header.
Breaks(h, n) == [header |-> h, room |-> n]
BreakTests ==
  { Breaks(Zero, 0), Breaks(Numbered(NumberMax), NumberOctets), Breaks(Indefinitely(0), 1),
    Breaks(Zero, 1), Breaks(Long(128), 1), Breaks(Long(SizeMax), LengthOctets + 1) }

EncodeTests == EncodeClassTests \cup EncodeShapeTests \cup EncodeNumberTests \cup EncodeLengthTests
TestHeaders == {t.header : t \in SizeofTests \cup EncodeTests}

-----------------------------------------------------------------------------
(* Every header of the tests has the size and the octets they look at once *)
(* tag_encode returned true, and it does not return true over an array as  *)
(* small as the one of a break test (test-tag.cxx:514-1078).               *)
EncodeTestsPass ==
  started = 1 =>
    /\ call = "true" =>
         /\ \A t \in SizeofTests : header = t.header => Enc!Sizeof(header) = t.size
         /\ \A t \in EncodeTests :
              header = t.header =>
                Len(out) = t.getpos /\ \A i \in DOMAIN t.arr : out[i + 1] = t.arr[i]
    /\ \A t \in BreakTests : header = t.header /\ Len(out) <= t.room => call # "true"
=============================================================================
