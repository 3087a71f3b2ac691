--------------------------- MODULE TagDecodeTests ---------------------------
(***************************************************************************)
(* What the unit tests of tag_decode expect                                *)
(* (testsuite/lib/unit/test-tag.cxx:14-512).  Their octets depend on the   *)
(* widths of tag_number and size_t, whose maxima fill all the bits (:12).  *)
(***************************************************************************)
EXTENDS TagDecode

NumberRest == Digits(NumberMax) % 7
LengthRest == Digits(SizeMax) % 8
Times(n, o) == [i \in 1..n |-> o]

\* A test has the octets of a stream, whether the call is strict, the result, and
\* the fields of the header that it looks at.
Test(os, s, r, fields) == [octets |-> os, strict |-> s, result |-> r, fields |-> fields]
Decodes(os, fields) == Test(os, TRUE, "complete", fields)
Fails(os, r) == Test(os, TRUE, r, << >>)
NoStrict(os) == Test(os, FALSE, "complete", << >>)

\* test_decode_class_universal to test_decode_class_private
ClassTests == {Decodes(<<c * 64, 0>>, [tclass |-> c]) : c \in TagClass}

\* test_decode_primitive to test_decode_constructed_indefinite
ShapeTests ==
  { Decodes(<<0, 0>>, [shape |-> "primitive"]),
    Decodes(<<32, 0>>, [shape |-> "constructed_definite"]),
    Decodes(<<32, 128>>, [shape |-> "constructed_indefinite"]) }

\* test_decode_min_low_number to test_decode_max_high_number
GreatestNumber ==
  <<128 + 2^NumberRest - 1>> \o Times(Digits(NumberMax) \div 7 - 1, 255) \o <<127>>
NumberTests ==
  { Decodes(<<0, 0>>, [number |-> 0]), Decodes(<<30, 0>>, [number |-> 30]),
    Decodes(<<HighForm, 31, 0>>, [number |-> 31]),
    Decodes(<<HighForm>> \o GreatestNumber \o <<0>>, [number |-> NumberMax]) }

\* test_decode_min_short_length to test_decode_max_long_length
LengthOctets == Digits(SizeMax) \div 8
LengthTests ==
  { Decodes(<<0, 0>>, [length |-> 0]), Decodes(<<0, 127>>, [length |-> 127]),
    Decodes(<<0, 129, 128>>, [length |-> 128]),
    Decodes(<<0, 128 + LengthOctets>> \o Times(LengthOctets, 255), [length |-> SizeMax]) }

\* test_decode_empty to test_decode_number_unneeded_high_no_strict
NumberPastGreatest ==
  <<128 + 2^NumberRest>> \o Times(Digits(NumberMax) \div 7 - 1, 128) \o <<0>>
NumberFailureTests ==
  { Fails(<< >>, "empty"),
    Fails(<<HighForm>>, "number_incomplete"), Fails(<<HighForm, 129>>, "number_incomplete"),
    Fails(<<HighForm, 0>>, "number_zero_leading"), NoStrict(<<HighForm, 0, 0>>),
    Fails(<<HighForm>> \o NumberPastGreatest \o <<0>>, "number_overflow"),
    Fails(<<HighForm, 30, 0>>, "number_unneeded_high"), NoStrict(<<HighForm, 30, 0>>) }

\* test_decode_length_undefined to test_decode_length_unneeded_long_no_strict
LengthPastGreatest == <<128 + LengthOctets + 1, 2^LengthRest>> \o Times(LengthOctets, 0)
LengthFailureTests ==
  { Fails(<<0>>, "length_undefined"), Fails(<<0, Reserved>>, "length_unsupported"),
    Fails(<<0, Indefinite>>, "indefinite_primitive"), Fails(<<0, 129>>, "length_incomplete"),
    Fails(<<0>> \o LengthPastGreatest, "length_overflow"),
    Fails(<<0, 129, 127>>, "length_unneeded_long"), NoStrict(<<0, 129, 127>>) }

DecodeTests ==
  ClassTests \cup ShapeTests \cup NumberTests \cup LengthTests
    \cup NumberFailureTests \cup LengthFailureTests

\* array_octet_input: the next octet of its array.
NextOfArray(os) == os[Len(read) + 1]
EndOfArray(os) == Len(read) = Len(os)

\* The call over the octets of a test goes on.
TestNext ==
  \E t \in DecodeTests :
    /\ strict = t.strict /\ IsPrefix(read, t.octets)
    /\ ~EndOfArray(t.octets) /\ Get(NextOfArray(t.octets))

-----------------------------------------------------------------------------
(* A call returns over the octets of each test what the test expects, with *)
(* the fields of the header that it looks at, unless the stream ended      *)
(* before those octets (test-tag.cxx:14-512).                              *)
StreamEnded == result \in {"empty", "number_incomplete", "length_undefined", "length_incomplete"}
DecodeTestsPass ==
  pc = "done" =>
    \A t \in DecodeTests :
      /\ strict = t.strict /\ IsPrefix(read, t.octets)
      /\ StreamEnded => EndOfArray(t.octets)
      => result = t.result /\ \A f \in DOMAIN t.fields : th[f] = t.fields[f]
=============================================================================
