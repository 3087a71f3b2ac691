----------------------------- MODULE TagDecode -----------------------------
(***************************************************************************)
(* ber::tag_decode (src/tagdecode.cxx): the header of a tag is decoded     *)
(* from an input stream, one octet_input::get at a time.  Each step is the *)
(* code from one successful get to the next one or to the return; pc names *)
(* the get the call is waiting in.                                         *)
(***************************************************************************)
EXTENDS TagHeader, SequencesExt

CONSTANTS Octets,    \* bound: the octets the stream may hold
          MaxOctets  \* bound: how many of them one call reads

\* tag_number and size_t are unsigned integers of at least 7 and 8 bits.
ASSUME TagDecodeAssumption ==
  /\ NumberMax \in Nat /\ NumberMax % 128 = 127
  /\ SizeMax \in Nat /\ SizeMax % 256 = 255
  /\ Octets \subseteq Octet
  /\ MaxOctets \in Nat

VARIABLES
  pc,      \* the get that the call waits in, or "done"
  strict,  \* the parameter strict
  ident,   \* the identifier octet: tc and constr
  tn,      \* tn
  len,     \* len
  left,    \* length octets still to get: count - i
  th,      \* the output parameter th, or NoHeader when nothing was ever stored
  result,  \* the returned tag_decode_result
  read     \* history: the octets this call has got

vars == <<pc, strict, ident, tn, len, left, th, result, read>>

NoHeader == [tclass |-> 0, number |-> 0, shape |-> "none", length |-> 0]

Results == {"complete", "empty", "indefinite_primitive", "number_incomplete",
            "number_overflow", "number_zero_leading", "number_unneeded_high",
            "length_undefined", "length_unsupported", "length_incomplete",
            "length_overflow", "length_unneeded_long"}

TypeOK ==
  /\ pc \in {"identifier", "number", "following", "length", "octets", "done"}
  /\ strict \in BOOLEAN
  /\ ident \in Octet
  /\ tn \in 0..NumberMax
  /\ len \in 0..SizeMax
  /\ left \in 0..127
  /\ th \in Header \cup {NoHeader}
  /\ result \in Results \cup {"none"}
  /\ read \in Seq(Octet)

-----------------------------------------------------------------------------
\* tn = (tn << 7) bitor (o bitand 0x7f) and len = (len << 8) bitor o
NumberShiftedUnmasked(o) == Truncated(NumberMax, tn * 128 + o)
NumberShifted(o) == Truncated(NumberMax, tn * 128 + Low7(o))
LengthShifted(o) == Truncated(SizeMax, len * 256 + o)

\* The shift would lose bits: tag_number_limit, size_t_limit.
NumberFullEarly(n) == n >= NumberMax \div 128
NumberFullLate(n) == n > NumberMax \div 64
NumberFull(n) == n > NumberMax \div 128
LengthFullEarly == len >= SizeMax \div 256
LengthFull == len > SizeMax \div 256

Shape == IF Constructed(ident) THEN "constructed_definite" ELSE "primitive"

\* The header stored by th = { tc, tn, ts, len }.
Decoded(shape, n, l) ==
  [tclass |-> Class(ident), number |-> n, shape |-> shape, length |-> l]

\* The call returns r: th keeps its value.
Returns(r) ==
  /\ pc' = "done"
  /\ result' = r
  /\ UNCHANGED th

Completes(shape, l) ==
  /\ pc' = "done"
  /\ result' = "complete"
  /\ th' = Decoded(shape, tn, l)

Awaits(p) ==
  /\ pc' = p
  /\ UNCHANGED <<th, result>>

-----------------------------------------------------------------------------
Init ==
  /\ pc = "identifier" /\ strict \in BOOLEAN
  /\ ident = 0 /\ tn = 0 /\ len = 0 /\ left = 0
  /\ th = NoHeader /\ result = "none"
  /\ read = << >>

\* A new call with the same header variable.
Call(s) ==
  /\ pc = "done"
  /\ pc' = "identifier" /\ strict' = s
  /\ ident' = 0 /\ tn' = 0 /\ len' = 0 /\ left' = 0
  /\ result' = "none"
  /\ read' = << >>
  /\ UNCHANGED th

GotIdentifier(o) ==
  /\ pc = "identifier"
  /\ ident' = o
  /\ \/ LowNumber(o) # HighForm /\ tn' = LowNumber(o) /\ Awaits("length")
     \/ LowNumber(o) = HighForm /\ tn' = tn /\ Awaits("number")
  /\ UNCHANGED <<len, left>>

\* The loop head, the overflow test before the next get, and the test after
\* the loop.
NumberSoFar(o, n) ==
  /\ tn' = n
  /\ \/ More(o) /\ NumberFull(n) /\ Returns("number_overflow")
     \/ More(o) /\ ~NumberFull(n) /\ Awaits("following")
     \/ ~More(o) /\ n <= 30 /\ strict /\ Returns("number_unneeded_high")
     \/ ~More(o) /\ ~(n <= 30 /\ strict) /\ Awaits("length")
  /\ UNCHANGED <<ident, len, left>>

GotNumberFirst(o) ==
  /\ pc = "number"
  /\ \/ /\ o = 0 /\ strict
        /\ Returns("number_zero_leading")
        /\ UNCHANGED <<ident, tn, len, left>>
     \/ ~(o = 0 /\ strict) /\ NumberSoFar(o, Low7(o))

GotNumberFollowing(o) ==
  /\ pc = "following"
  /\ NumberSoFar(o, NumberShifted(o))

GotLength(o) ==
  /\ pc = "length"
  /\ \/ o = Reserved /\ Returns("length_unsupported") /\ UNCHANGED <<len, left>>
     \/ /\ o = Indefinite
        /\ IF Constructed(ident) THEN Completes("constructed_indefinite", 0)
                                 ELSE Returns("indefinite_primitive")
        /\ UNCHANGED <<len, left>>
     \/ o \notin {Reserved, Indefinite} /\ More(o) /\ left' = Low7(o) /\ len' = 0 /\ Awaits("octets")
     \/ ~More(o) /\ len' = o /\ Completes(Shape, o) /\ UNCHANGED left
  /\ UNCHANGED <<ident, tn>>

\* The overflow test comes after the get and before the shift.
GotLengthOctet(o) ==
  /\ pc = "octets"
  /\ \/ LengthFull /\ Returns("length_overflow") /\ UNCHANGED <<len, left>>
     \/ /\ ~LengthFull
        /\ len' = LengthShifted(o)
        /\ left' = left - 1
        /\ \/ left > 1 /\ Awaits("octets")
           \/ left = 1 /\ len' <= 127 /\ strict /\ Returns("length_unneeded_long")
           \/ left = 1 /\ ~(len' <= 127 /\ strict) /\ Completes(Shape, len')
  /\ UNCHANGED <<ident, tn>>

\* in.get(o) returned true.
Get(o) ==
  /\ \/ GotIdentifier(o)
     \/ GotNumberFirst(o)
     \/ GotNumberFollowing(o)
     \/ GotLength(o)
     \/ GotLengthOctet(o)
  /\ read' = Append(read, o)
  /\ UNCHANGED strict

\* in.get(o) returned false.
GetFails ==
  /\ \/ pc = "identifier" /\ Returns("empty")
     \/ pc \in {"number", "following"} /\ Returns("number_incomplete")
     \/ pc = "length" /\ Returns("length_undefined")
     \/ pc = "octets" /\ Returns("length_incomplete")
  /\ UNCHANGED <<strict, ident, tn, len, left, read>>

Next ==
  \/ Len(read) < MaxOctets /\ \E o \in Octets : Get(o)
  \/ GetFails

Spec == Init /\ [][Next]_vars

-----------------------------------------------------------------------------
(* A header is decoded only from octets that denote exactly that header:   *)
(* no bit of a number or a length is lost to the width of its type, and no *)
(* octet after the header is read (tag.h:163-168, 239-247).                *)
DecodesExactly == result = "complete" => Denotes(read, th)

(* Overflow is reported only when the number, however it goes on, or the   *)
(* length read so far has no representation in its type (tag.h:185-188,    *)
(* 225-228).                                                               *)
IdentifierSize ==
  IF LowNumber(read[1]) # HighForm THEN 1
  ELSE CHOOSE k \in 2..Len(read) : ~More(read[k]) /\ \A j \in 2..k - 1 : More(read[j])
LengthOctetsRead == SubSeq(read, IdentifierSize + 2, Len(read))
OverflowIsReal ==
  /\ result = "number_overflow" => Value(128, Groups(Tail(read))) * 128 > NumberMax
  /\ result = "length_overflow" => Value(256, LengthOctetsRead) > SizeMax

(* The accumulators shift without losing a bit: what the checks before the *)
(* shifts are for (tagdecode.cxx:32, 65).                                  *)
NoBitLost ==
  [][/\ pc = "following" /\ read' # read => tn' = tn * 128 + Low7(Last(read'))
     /\ pc = "octets" /\ left' < left => len' = len * 256 + Last(read')]_vars

(* A strict call accepts a number only in its shortest form: "the first    *)
(* octet of the number is a zero, but it is not the last one" is           *)
(* tdr_number_zero_leading (tag.h:191; X.690 8.1.2.4.2 c).                 *)
StrictNumberHasNoLeadingZero ==
  strict /\ result = "complete" /\ LowNumber(read[1]) = HighForm => Low7(read[2]) # 0
=============================================================================
