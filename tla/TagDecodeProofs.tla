-------------------------- MODULE TagDecodeProofs --------------------------
(***************************************************************************)
(* For every width of tag_number and size_t and every stream: the type     *)
(* invariant of TagDecode, that the checks before the shifts keep the      *)
(* shifts exact, that a header is decoded exactly from the octets that     *)
(* denote it, and that an overflow is returned for nothing else.           *)
(***************************************************************************)
EXTENDS TagDecode, ProofFacts

(* What holds while a call waits in a get: more octets of the number were  *)
(* announced only when there is room to shift it, and length octets are    *)
(* still to come.                                                          *)
Waiting ==
  /\ pc = "following" => ~NumberFull(tn)
  /\ pc = "octets" => left >= 1

IInv == TypeOK /\ Waiting

-----------------------------------------------------------------------------
LEMMA Octets7 ==
  ASSUME NEW o \in Octet
  PROVE  /\ Low7(o) \in 0..127 /\ LowNumber(o) \in 0..31 /\ Class(o) \in TagClass
         /\ ~More(o) => o <= 127
  BY DEF Octet, Low7, LowNumber, Class, TagClass, More

LEMMA Widths == NumberMax \in Nat /\ NumberMax >= 127 /\ SizeMax \in Nat /\ SizeMax >= 255
  BY TagDecodeAssumption

(* A number that is not full has room for seven more bits.                 *)
LEMMA RoomInNumber ==
  ASSUME NEW n \in 0..NumberMax, ~NumberFull(n), NEW d \in 0..127
  PROVE  n * 128 + d <= NumberMax /\ Truncated(NumberMax, n * 128 + d) = n * 128 + d
<1>1. n <= NumberMax \div 128
  BY TagDecodeAssumption DEF NumberFull
<1>2. NumberMax = (NumberMax \div 128) * 128 + 127
  BY TagDecodeAssumption
<1>3. n * 128 + d <= NumberMax
  BY <1>1, <1>2, TagDecodeAssumption
<1>4. QED BY <1>3 DEF Truncated

(* A length that is not full has room for one more octet.                  *)
LEMMA RoomInLength ==
  ASSUME len \in 0..SizeMax, ~LengthFull, NEW o \in Octet
  PROVE  len * 256 + o <= SizeMax /\ LengthShifted(o) = len * 256 + o
<1>1. len <= SizeMax \div 256
  BY TagDecodeAssumption DEF LengthFull
<1>2. SizeMax = (SizeMax \div 256) * 256 + 255
  BY TagDecodeAssumption
<1>3. len * 256 + o <= SizeMax
  BY <1>1, <1>2, TagDecodeAssumption DEF Octet
<1>4. QED BY <1>3 DEF LengthShifted, Truncated

-----------------------------------------------------------------------------
(* The header a call stores has the types of tag_header's fields.          *)
LEMMA StoredHeader ==
  ASSUME TypeOK, NEW shape \in TagShape, NEW l \in 0..SizeMax
  PROVE  Decoded(shape, tn, l) \in Header
  BY Octets7 DEF TypeOK, Decoded, Header

LEMMA Ends ==
  ASSUME IInv, NEW r \in Results, Returns(r)
  PROVE  /\ pc' = "done" /\ result' \in Results \cup {"none"}
         /\ th' \in Header \cup {NoHeader}
  BY DEF IInv, TypeOK, Returns

LEMMA Stores ==
  ASSUME IInv, NEW shape \in TagShape, NEW l \in 0..SizeMax, Completes(shape, l)
  PROVE  /\ pc' = "done" /\ result' \in Results \cup {"none"}
         /\ th' \in Header \cup {NoHeader}
  BY StoredHeader DEF IInv, Completes, Results

LEMMA Waits ==
  ASSUME IInv, NEW p, Awaits(p)
  PROVE  /\ pc' = p /\ result' \in Results \cup {"none"}
         /\ th' \in Header \cup {NoHeader}
  BY DEF IInv, TypeOK, Awaits

LEMMA ShapeType == Shape \in TagShape
  BY DEF Shape, TagShape

(* What every step of Get owes to the invariant besides strict and read.   *)
Kept ==
  /\ pc' \in {"identifier", "number", "following", "length", "octets", "done"}
  /\ ident' \in Octet /\ tn' \in 0..NumberMax
  /\ len' \in 0..SizeMax /\ left' \in 0..127
  /\ th' \in Header \cup {NoHeader}
  /\ result' \in Results \cup {"none"}
  /\ pc' = "following" => ~NumberFull(tn')
  /\ pc' = "octets" => left' >= 1

LEMMA IdentifierStep ==
  ASSUME IInv, NEW o \in Octet, GotIdentifier(o) PROVE Kept
<1>1. ident' = o /\ len' = len /\ left' = left /\ tn' \in 0..NumberMax
  <2>1. ident' = o /\ len' = len /\ left' = left /\ (tn' = LowNumber(o) \/ tn' = tn)
    BY DEF GotIdentifier
  <2>2. LowNumber(o) \in 0..NumberMax /\ tn \in 0..NumberMax
    <3>1. LowNumber(o) \in 0..31
      BY Octets7
    <3>2. tn \in 0..NumberMax
      BY DEF IInv, TypeOK
    <3>3. QED BY <3>1, <3>2, Widths
  <2>3. QED BY <2>1, <2>2
<1>2. Awaits("length") \/ Awaits("number")
  BY DEF GotIdentifier
<1>3. /\ pc' \in {"length", "number"} /\ result' \in Results \cup {"none"}
      /\ th' \in Header \cup {NoHeader}
  BY <1>2, Waits
<1>4. QED BY <1>1, <1>3 DEF Kept, IInv, TypeOK

LEMMA NumberStep ==
  ASSUME IInv, NEW o \in Octet, NEW n \in 0..NumberMax, NumberSoFar(o, n) PROVE Kept
<1>1. tn' = n /\ ident' = ident /\ len' = len /\ left' = left
  BY DEF NumberSoFar
<1>2. /\ result' \in Results \cup {"none"} /\ th' \in Header \cup {NoHeader}
      /\ pc' \in {"done", "length"} \/ (pc' = "following" /\ ~NumberFull(n))
  <2>1. CASE Returns("number_overflow") \/ Returns("number_unneeded_high")
    BY <2>1, Ends DEF Results
  <2>2. CASE ~NumberFull(n) /\ Awaits("following")
    BY <2>2, Waits
  <2>3. CASE Awaits("length")
    BY <2>3, Waits
  <2>4. QED BY <2>1, <2>2, <2>3 DEF NumberSoFar
<1>3. QED BY <1>1, <1>2 DEF Kept, IInv, TypeOK

LEMMA LengthStep ==
  ASSUME IInv, NEW o \in Octet, GotLength(o) PROVE Kept
<1>1. ident' = ident /\ tn' = tn
  BY DEF GotLength
<1>2. CASE /\ Returns("length_unsupported") \/ Returns("indefinite_primitive")
           /\ UNCHANGED <<len, left>>
  BY <1>1, <1>2, Ends DEF Kept, IInv, TypeOK, Results
<1>3. CASE Completes("constructed_indefinite", 0) /\ UNCHANGED <<len, left>>
  <2>1. "constructed_indefinite" \in TagShape /\ 0 \in 0..SizeMax
    BY Widths DEF TagShape
  <2>2. QED BY <1>1, <1>3, <2>1, Stores DEF Kept, IInv, TypeOK
<1>4. CASE o \notin {Reserved, Indefinite} /\ More(o) /\ left' = Low7(o) /\ len' = 0 /\ Awaits("octets")
  <2>1. left' \in 1..127 /\ len' \in 0..SizeMax
    <3>1. o \in 129..255 /\ left' = o % 128 /\ len' = 0
      BY <1>4 DEF Octet, More, Low7, Indefinite
    <3>2. o % 128 = o - 128
      BY <3>1
    <3>3. QED BY <3>1, <3>2, Widths
  <2>2. /\ pc' = "octets" /\ result' \in Results \cup {"none"}
        /\ th' \in Header \cup {NoHeader}
    BY <1>4, Waits
  <2>3. QED BY <1>1, <2>1, <2>2 DEF Kept, IInv, TypeOK
<1>5. CASE ~More(o) /\ len' = o /\ Completes(Shape, o) /\ UNCHANGED left
  <2>1. o \in 0..SizeMax
    <3>1. o \in Nat /\ o <= 255
      BY DEF Octet
    <3>2. QED BY <3>1, Widths
  <2>2. QED BY <1>1, <1>5, <2>1, ShapeType, Stores DEF Kept, IInv, TypeOK
<1>6. QED BY <1>2, <1>3, <1>4, <1>5 DEF GotLength

LEMMA LengthOctetStep ==
  ASSUME IInv, NEW o \in Octet, GotLengthOctet(o) PROVE Kept
<1>1. ident' = ident /\ tn' = tn
  BY DEF GotLengthOctet
<1>2. CASE LengthFull /\ Returns("length_overflow") /\ UNCHANGED <<len, left>>
  BY <1>1, <1>2, Ends DEF Kept, IInv, TypeOK, Results
<1>3. CASE ~LengthFull
  <2>1. len' \in 0..SizeMax /\ left' \in 0..127 /\ left' = left - 1
    <3>1. len' = LengthShifted(o) /\ left' = left - 1 /\ left >= 1
      BY <1>3 DEF GotLengthOctet, IInv, Waiting
    <3>2. len \in 0..SizeMax /\ left \in 0..127 /\ o \in 0..255
      BY DEF IInv, TypeOK, Octet
    <3>3. len' = len * 256 + o /\ len * 256 + o <= SizeMax
      BY <1>3, <3>1, <3>2, RoomInLength
    <3>4. QED BY <3>1, <3>2, <3>3, Widths
  <2>2. CASE left > 1 /\ Awaits("octets")
    BY <1>1, <2>1, <2>2, Waits DEF Kept, IInv, TypeOK
  <2>3. CASE Returns("length_unneeded_long")
    BY <1>1, <2>1, <2>3, Ends DEF Kept, IInv, TypeOK, Results
  <2>4. CASE Completes(Shape, len')
    BY <1>1, <2>1, <2>4, ShapeType, Stores DEF Kept, IInv, TypeOK
  <2>5. QED BY <1>3, <2>2, <2>3, <2>4 DEF GotLengthOctet
<1>4. QED BY <1>2, <1>3 DEF GotLengthOctet

LEMMA GetStep ==
  ASSUME IInv, NEW o \in Octet, Get(o) PROVE IInv'
<1>1. strict' = strict /\ read' \in Seq(Octet)
  BY DEF Get, IInv, TypeOK
<1>2. Kept
  <2>1. CASE GotIdentifier(o)
    BY <2>1, IdentifierStep
  <2>2. CASE GotNumberFirst(o)
    <3>1. CASE NumberSoFar(o, Low7(o))
      <4>1. Low7(o) \in 0..NumberMax
        BY Octets7, Widths
      <4>2. QED BY <3>1, <4>1, NumberStep
    <3>2. CASE Returns("number_zero_leading") /\ UNCHANGED <<ident, tn, len, left>>
      BY <3>2, Ends DEF Kept, IInv, TypeOK, Results
    <3>3. QED BY <2>2, <3>1, <3>2 DEF GotNumberFirst
  <2>3. CASE GotNumberFollowing(o)
    <3>1. NumberShifted(o) \in 0..NumberMax
      <4>1. tn \in 0..NumberMax /\ ~NumberFull(tn) /\ Low7(o) \in 0..127
        BY <2>3, Octets7 DEF GotNumberFollowing, IInv, TypeOK, Waiting
      <4>2. NumberShifted(o) = tn * 128 + Low7(o) /\ tn * 128 + Low7(o) <= NumberMax
        BY <4>1, RoomInNumber DEF NumberShifted
      <4>3. QED BY <4>1, <4>2, Widths
    <3>2. QED BY <2>3, <3>1, NumberStep DEF GotNumberFollowing
  <2>4. CASE GotLength(o)
    BY <2>4, LengthStep
  <2>5. CASE GotLengthOctet(o)
    BY <2>5, LengthOctetStep
  <2>6. QED BY <2>1, <2>2, <2>3, <2>4, <2>5 DEF Get
<1>3. QED BY <1>1, <1>2 DEF Kept, IInv, TypeOK, Waiting, NumberFull

LEMMA GetFailsStep ==
  ASSUME IInv, GetFails PROVE IInv'
<1>1. PICK r \in Results : Returns(r)
  BY DEF GetFails, Results
<1>2. /\ pc' = "done" /\ result' \in Results \cup {"none"} /\ th' \in Header \cup {NoHeader}
      /\ UNCHANGED <<strict, ident, tn, len, left, read>>
  BY <1>1, Ends DEF GetFails
<1>3. QED BY <1>2 DEF IInv, TypeOK, Waiting

LEMMA Initially == Init => IInv
  BY Widths DEF Init, IInv, TypeOK, Waiting, Octet

LEMMA NextStep == IInv /\ [Next]_vars => IInv'
<1> SUFFICES ASSUME IInv, [Next]_vars PROVE IInv'
  OBVIOUS
<1>1. CASE \E o \in Octets : Get(o)
  BY <1>1, GetStep, TagDecodeAssumption
<1>2. CASE GetFails
  BY <1>2, GetFailsStep
<1>3. CASE UNCHANGED vars
  BY <1>3 DEF vars, IInv, TypeOK, Waiting, NumberFull
<1>4. QED BY <1>1, <1>2, <1>3 DEF Next

THEOREM Invariance == Spec => []IInv
  BY Initially, NextStep, PTL DEF Spec

(* Between gets there is room for what was announced: seven more bits of   *)
(* the number when another octet of it is to come, and of the length at    *)
(* least one octet and at most the 127 that its first octet can announce.  *)
RoomForNext ==
  /\ pc = "following" => tn * 128 + 127 <= NumberMax
  /\ pc = "octets" => left \in 1..127

(* The decoder asks for another octet of a number only when the number,    *)
(* shifted, has room for its seven bits (tagdecode.cxx:32), so not only is *)
(* every value one of its type, but the shift that follows is exact.       *)
THEOREM TypeCorrect == Spec => [](TypeOK /\ RoomForNext)
<1>1. IInv => TypeOK /\ RoomForNext
  <2>1. SUFFICES ASSUME IInv PROVE TypeOK /\ RoomForNext
    OBVIOUS
  <2>2. ASSUME pc = "following" PROVE tn * 128 + 127 <= NumberMax
    BY <2>1, <2>2, RoomInNumber DEF IInv, TypeOK, Waiting
  <2>3. ASSUME pc = "octets" PROVE left \in 1..127
    BY <2>1, <2>3 DEF IInv, TypeOK, Waiting
  <2>4. QED BY <2>1, <2>2, <2>3 DEF IInv, RoomForNext
<1>2. QED BY <1>1, Invariance, PTL

(* Neither accumulator ever loses a bit in a shift, however long the octets*)
(* of the number or of the length go on.                                   *)
THEOREM AlwaysExact == Spec => NoBitLost
<1> DEFINE Exact ==
      /\ pc = "following" /\ read' # read => tn' = tn * 128 + Low7(Last(read'))
      /\ pc = "octets" /\ left' < left => len' = len * 256 + Last(read')
<1>1. IInv /\ [Next]_vars => [Exact]_vars
  <2>1. SUFFICES ASSUME IInv, Next PROVE Exact
    OBVIOUS
  <2>2. CASE GetFails
    <3>1. read' = read /\ left' = left /\ left \in Int
      BY <2>1, <2>2 DEF GetFails, IInv, TypeOK
    <3>2. QED BY <3>1
  <2>3. CASE \E o \in Octets : Get(o)
    <3>1. PICK o \in Octet : Get(o)
      BY <2>3, TagDecodeAssumption
    <3>2. Last(read') = o
      BY <2>1, <3>1, AppendProperties DEF Get, IInv, TypeOK, Last
    <3>3. ASSUME pc = "following" PROVE tn' = tn * 128 + Low7(o)
      <4>1. GotNumberFollowing(o)
        BY <3>1, <3>3 DEF Get, GotIdentifier, GotNumberFirst, GotLength, GotLengthOctet
      <4>2. tn \in 0..NumberMax /\ ~NumberFull(tn) /\ Low7(o) \in 0..127
        BY <2>1, <3>3, Octets7 DEF IInv, TypeOK, Waiting
      <4>3. NumberShifted(o) = tn * 128 + Low7(o)
        BY <4>2, RoomInNumber DEF NumberShifted
      <4>4. QED BY <4>1, <4>3 DEF GotNumberFollowing, NumberSoFar
    <3>4. ASSUME pc = "octets", left' < left PROVE len' = len * 256 + o
      <4>1. GotLengthOctet(o)
        BY <3>1, <3>4 DEF Get, GotIdentifier, GotNumberFirst, GotNumberFollowing, GotLength
      <4>2. len \in 0..SizeMax /\ left \in 0..127
        BY <2>1 DEF IInv, TypeOK
      <4>3. ~LengthFull
        BY <3>4, <4>1, <4>2 DEF GotLengthOctet
      <4>4. QED BY <4>1, <4>2, <4>3, RoomInLength DEF GotLengthOctet
    <3>5. QED BY <3>2, <3>3, <3>4
  <2>4. QED BY <2>1, <2>2, <2>3 DEF Next
<1>2. QED BY <1>1, Invariance, PTL DEF Spec, NoBitLost

-----------------------------------------------------------------------------
(* The decoder and the reference.  DecodesExactly speaks of the moment a   *)
(* call completes; what the code relies on before that is that its         *)
(* accumulators stand for the octets read so far.                          *)

(* The octets os are a whole identifier: that of ident with the number tn. *)
IdentifierRead(os) ==
  /\ os[1] = ident
  /\ \/ /\ Len(os) = 1 /\ LowNumber(ident) = tn /\ tn < HighForm
     \/ /\ Len(os) > 1 /\ LowNumber(ident) = HighForm
        /\ \A i \in 2..Len(os) : More(os[i]) <=> i < Len(os)
        /\ Value(128, Groups(Tail(os))) = tn

(* After the k octets of the identifier, the length octets read so far     *)
(* stand for len and left more of them are announced.                      *)
LengthRead(k) ==
  /\ IdentifierRead(SubSeq(read, 1, k))
  /\ read[k + 1] \in 129..254
  /\ left = read[k + 1] - 128 - (Len(read) - (k + 1))
  /\ Value(256, SubSeq(read, k + 2, Len(read))) = len

Shown ==
  /\ result = "none" <=> pc # "done"
  /\ pc = "identifier" => read = << >>
  /\ pc = "number" => Len(read) = 1 /\ read[1] = ident /\ LowNumber(ident) = HighForm
  /\ pc = "following" =>
       /\ Len(read) > 1 /\ read[1] = ident /\ LowNumber(ident) = HighForm
       /\ \A i \in 2..Len(read) : More(read[i])
       /\ Value(128, Groups(Tail(read))) = tn
  /\ pc = "length" => read # << >> /\ IdentifierRead(read)
  /\ pc = "octets" => \E k \in 1..Len(read) - 1 : LengthRead(k)

Decoding == IInv /\ Shown /\ DecodesExactly /\ OverflowIsReal

(* The octets read, after one more get.                                    *)
LEMMA ReadGrows ==
  ASSUME IInv, NEW o \in Octet, read' = Append(read, o)
  PROVE  /\ Len(read) \in Nat /\ read' \in Seq(Octet)
         /\ Len(read') = Len(read) + 1 /\ read'[Len(read) + 1] = o
         /\ \A i \in 1..Len(read) : read'[i] = read[i] /\ read[i] \in Octet
  BY AppendProperties, LenProperties, ElementOfSeq DEF IInv, TypeOK

(* Seven bits fit in a tag number, and a low number is not the high form.  *)
LEMMA OctetInNumber ==
  ASSUME NEW o \in Octet
  PROVE  /\ Low7(o) \in 0..NumberMax
         /\ LowNumber(o) # HighForm => LowNumber(o) < HighForm
<1>1. Low7(o) \in 0..127 /\ LowNumber(o) \in 0..31
  BY Octets7
<1>2. QED BY <1>1, Widths DEF HighForm

(* A number with room takes seven more bits exactly.                       *)
LEMMA ShiftInNumber ==
  ASSUME tn \in 0..NumberMax, ~NumberFull(tn), NEW o \in Octet
  PROVE  NumberShifted(o) = tn * 128 + Low7(o) /\ NumberShifted(o) \in 0..NumberMax
<1>1. Low7(o) \in 0..127
  BY Octets7
<1>2. tn * 128 + Low7(o) <= NumberMax /\ NumberShifted(o) = tn * 128 + Low7(o)
  BY <1>1, RoomInNumber DEF NumberShifted
<1>3. QED BY <1>1, <1>2, Widths

(* What the octets of a number stand for, with one more of them.           *)
LEMMA NumberGrows ==
  ASSUME IInv, NEW o \in Octet, read' = Append(read, o), read # << >>
  PROVE  /\ Value(128, Groups(Tail(read'))) = Value(128, Groups(Tail(read))) * 128 + Low7(o)
         /\ Len(read) = 1 => Value(128, Groups(Tail(read'))) = Low7(o)
<1>1. /\ Tail(read) \in Seq(Octet) /\ Tail(read') = Append(Tail(read), o)
      /\ Len(Tail(read)) = Len(read) - 1
  BY HeadTailProperties, HeadTailAppend DEF IInv, TypeOK
<1>2. /\ Value(128, Groups(Tail(read'))) = Value(128, Groups(Tail(read))) * 128 + Low7(o)
      /\ Groups(Tail(read)) \in Seq(Nat) /\ Len(Groups(Tail(read))) = Len(Tail(read))
      /\ Low7(o) \in Nat
  <2> DEFINE s == Groups(Tail(read))
             t == Groups(Tail(read'))
  <2>1. /\ s \in Seq(Nat) /\ Len(s) = Len(Tail(read))
        /\ Low7(o) \in Nat /\ t = Append(s, Low7(o))
    BY <1>1, GroupsAppend
  <2> HIDE DEF s, t
  <2>2. Value(128, t) = Value(128, s) * 128 + Low7(o)
    BY <2>1, ValueStep
  <2>3. QED BY <2>1, <2>2 DEF s, t
<1>3. ASSUME Len(read) = 1 PROVE Value(128, Groups(Tail(read))) = 0
  <2>1. Groups(Tail(read)) = << >>
    BY <1>1, <1>2, <1>3, EmptySeq
  <2>2. QED BY <2>1, ValueEmpty
<1>4. QED BY <1>2, <1>3

(* What the length octets stand for, with one more of them; the identifier *)
(* before them stays as it is.                                             *)
LEMMA LengthGrows ==
  ASSUME IInv, NEW o \in Octet, read' = Append(read, o), NEW k \in 1..Len(read)
  PROVE  /\ SubSeq(read', 1, k) = SubSeq(read, 1, k)
         /\ SubSeq(read, 1, Len(read)) = read
         /\ Value(256, SubSeq(read', Len(read) + 2, Len(read) + 1)) = 0
         /\ k < Len(read) => Value(256, SubSeq(read', k + 2, Len(read) + 1))
                               = Value(256, SubSeq(read, k + 2, Len(read))) * 256 + o
<1>1. read \in Seq(Octet) /\ Len(read) \in Nat /\ k \in Nat
  BY LenProperties DEF IInv, TypeOK
<1>2. SubSeq(read', 1, k) = SubSeq(read, 1, k)
  <2>1. k \in 0..Len(read) /\ 1 \in 1..k + 1
    BY <1>1
  <2>2. QED BY <1>1, <2>1, SubSeqOfAppend
<1>3. SubSeq(read, 1, Len(read)) = read
  BY <1>1, SubSeqFull
<1>4. Value(256, SubSeq(read', Len(read) + 2, Len(read) + 1)) = 0
  <2>1. Len(read) + 2 \in Int /\ Len(read) + 1 \in Int /\ Len(read) + 1 < Len(read) + 2
    BY <1>1
  <2>2. SubSeq(read', Len(read) + 2, Len(read) + 1) = << >>
    BY <2>1, SubSeqEmpty
  <2>3. Value(256, << >>) = 0
    BY ValueEmpty
  <2>4. QED BY <2>2, <2>3, Zenon
<1>5. ASSUME k < Len(read)
      PROVE  Value(256, SubSeq(read', k + 2, Len(read) + 1))
               = Value(256, SubSeq(read, k + 2, Len(read))) * 256 + o
  <2>1. k + 2 \in 1..Len(read) + 1
    BY <1>1, <1>5
  <2>2. /\ SubSeq(read, k + 2, Len(read)) \in Seq(Octet)
        /\ SubSeq(read', k + 2, Len(read) + 1) = Append(SubSeq(read, k + 2, Len(read)), o)
    BY <1>1, <2>1, SubSeqAppend, ZenonT(40)
  <2> DEFINE s == SubSeq(read, k + 2, Len(read))
             t == SubSeq(read', k + 2, Len(read) + 1)
  <2>3. s \in Seq(Octet) /\ t = Append(s, o)
    BY <2>2
  <2> HIDE DEF s, t
  <2>4. s \in Seq(Nat) /\ o \in Nat
    BY <2>3, OctetsAreNumbers DEF Octet
  <2>5. Value(256, t) = Value(256, s) * 256 + o
    BY <2>3, <2>4, ValueStep
  <2>6. QED BY <2>5 DEF s, t
<1>6. QED BY <1>2, <1>3, <1>4, <1>5

(* What every step of Get owes to the invariant besides IInv.              *)
Progress == Shown' /\ DecodesExactly' /\ OverflowIsReal'

(* A call that fails, other than by an overflow, owes nothing.             *)
LEMMA Fails ==
  ASSUME NEW r \in Results \ {"complete", "number_overflow", "length_overflow"}, Returns(r)
  PROVE  Progress
  BY DEF Returns, Results, Progress, Shown, DecodesExactly, OverflowIsReal

(* Nor does one that goes on, but for what it has read so far.             *)
LEMMA StillUnknown ==
  ASSUME Decoding, pc # "done", NEW p \in {"number", "following", "length", "octets"}, Awaits(p)
  PROVE  pc' = p /\ result' = "none" /\ DecodesExactly' /\ OverflowIsReal'
  BY DEF Decoding, Shown, Awaits, DecodesExactly, OverflowIsReal

(* One lemma for each place where a call waits.                            *)
LEMMA IdentifierShown ==
  ASSUME Decoding, NEW o \in Octet, GotIdentifier(o), read' = Append(read, o)
  PROVE  Progress
<1>1. read = << >> /\ Len(read) = 0 /\ ident' = o /\ pc # "done"
  BY EmptySeq DEF Decoding, Shown, GotIdentifier
<1>2. Len(read') = 1 /\ read'[1] = o /\ read' # << >>
  BY <1>1, ReadGrows, EmptySeq DEF Decoding
<1>3. CASE LowNumber(o) # HighForm /\ tn' = LowNumber(o) /\ Awaits("length")
  <2>1. LowNumber(o) < HighForm
    BY <1>3, OctetInNumber
  <2>2. IdentifierRead(read)'
    BY <1>1, <1>2, <1>3, <2>1 DEF IdentifierRead
  <2>3. QED BY <1>1, <1>2, <1>3, <2>2, StillUnknown DEF Progress, Shown
<1>4. CASE LowNumber(o) = HighForm /\ tn' = tn /\ Awaits("number")
  BY <1>1, <1>2, <1>4, StillUnknown DEF Progress, Shown
<1>5. QED BY <1>3, <1>4 DEF GotIdentifier

(* The steps of a number in the high form: n is what its octets stand for. *)
LEMMA NumberShown ==
  ASSUME Decoding, NEW o \in Octet, NEW n \in 0..NumberMax, pc # "done",
         NumberSoFar(o, n), read' = Append(read, o),
         read # << >>, read[1] = ident, LowNumber(ident) = HighForm,
         \A i \in 2..Len(read) : More(read[i]),
         Value(128, Groups(Tail(read'))) = n
  PROVE  Progress
<1> DEFINE k == Len(read)
<1>1. /\ k \in Nat \ {0} /\ Len(read') = k + 1 /\ read'[k + 1] = o
      /\ \A i \in 1..k : read'[i] = read[i]
      /\ tn' = n /\ ident' = ident
  BY ReadGrows, EmptySeq DEF Decoding, IInv, TypeOK, NumberSoFar
<1> HIDE DEF k
<1>2. Len(read') > 1 /\ read'[1] = ident' /\ LowNumber(ident') = HighForm
      /\ \A i \in 2..k : More(read'[i])
  <2>1. 1 \in 1..k /\ \A i \in 2..k : i \in 1..k
    BY <1>1
  <2>2. \A i \in 2..k : More(read'[i])
    BY <1>1, <2>1 DEF k
  <2>3. QED BY <1>1, <2>1, <2>2
<1>3. CASE More(o) /\ NumberFull(n) /\ Returns("number_overflow")
  <2>1. n * 128 > NumberMax
    BY <1>3, TagDecodeAssumption DEF NumberFull
  <2>2. QED BY <1>3, <2>1 DEF Returns, Progress, Shown, DecodesExactly, OverflowIsReal
<1>4. CASE More(o) /\ ~NumberFull(n) /\ Awaits("following")
  <2>1. \A i \in 2..k + 1 : i \in 2..k \/ i = k + 1
    BY <1>1
  <2>2. \A i \in 2..Len(read') : More(read'[i])
    BY <1>1, <1>2, <1>4, <2>1
  <2>3. QED BY <1>1, <1>2, <1>4, <2>2, StillUnknown DEF Progress, Shown
<1>5. CASE Returns("number_unneeded_high")
  BY <1>5, Fails DEF Results
<1>6. CASE ~More(o) /\ Awaits("length")
  <2>1. \A i \in 2..Len(read') : More(read'[i]) <=> i < Len(read')
    <3>1. \A i \in 2..k + 1 : (i \in 2..k /\ i < k + 1) \/ (i = k + 1 /\ ~(i < k + 1))
      BY <1>1
    <3>2. QED BY <1>1, <1>2, <1>6, <3>1
  <2>2. IdentifierRead(read)' /\ read' # << >>
    BY <1>1, <1>2, <2>1, EmptySeq DEF IdentifierRead
  <2>3. QED BY <1>6, <2>2, StillUnknown DEF Progress, Shown
<1>7. QED BY <1>3, <1>4, <1>5, <1>6 DEF NumberSoFar

LEMMA NumberFirstShown ==
  ASSUME Decoding, NEW o \in Octet, GotNumberFirst(o), read' = Append(read, o)
  PROVE  Progress
<1>1. Len(read) = 1 /\ read[1] = ident /\ LowNumber(ident) = HighForm /\ pc # "done"
  BY DEF Decoding, Shown, GotNumberFirst
<1>2. read # << >> /\ \A i \in 2..Len(read) : More(read[i])
  BY <1>1, EmptySeq
<1>3. Value(128, Groups(Tail(read'))) = Low7(o) /\ Low7(o) \in 0..NumberMax
  BY <1>1, <1>2, OctetInNumber, NumberGrows DEF Decoding
<1>4. CASE Returns("number_zero_leading")
  BY <1>4, Fails DEF Results
<1>5. CASE NumberSoFar(o, Low7(o))
  BY <1>1, <1>2, <1>3, <1>5, NumberShown
<1>6. QED BY <1>4, <1>5 DEF GotNumberFirst

LEMMA NumberFollowingShown ==
  ASSUME Decoding, NEW o \in Octet, GotNumberFollowing(o), read' = Append(read, o)
  PROVE  Progress
<1>1. /\ Len(read) > 1 /\ read[1] = ident /\ LowNumber(ident) = HighForm /\ pc # "done"
      /\ \A i \in 2..Len(read) : More(read[i])
      /\ Value(128, Groups(Tail(read))) = tn
  BY DEF Decoding, Shown, GotNumberFollowing
<1>2. read # << >>
  BY <1>1, EmptySeq
<1>3. Value(128, Groups(Tail(read'))) = tn * 128 + Low7(o)
  BY <1>1, <1>2, NumberGrows DEF Decoding
<1>4. tn \in 0..NumberMax /\ ~NumberFull(tn)
  BY DEF GotNumberFollowing, Decoding, IInv, TypeOK, Waiting
<1>5. NumberShifted(o) = tn * 128 + Low7(o) /\ NumberShifted(o) \in 0..NumberMax
  BY <1>4, ShiftInNumber
<1>6. QED BY <1>1, <1>2, <1>3, <1>5, NumberShown DEF GotNumberFollowing

(* The identifier read is the one that X.690 asks for.                     *)
LEMMA IdentifierDenoted ==
  ASSUME NEW os, IdentifierRead(os), NEW shape, NEW l, Constructed(ident) <=> shape # "primitive"
  PROVE  IdentifierDenotes(os, Decoded(shape, tn, l))
  BY DEF IdentifierRead, IdentifierDenotes, Decoded

(* The header stored is what the octets read denote, split after the k     *)
(* octets of the identifier.                                               *)
LEMMA Denoted ==
  ASSUME IInv, NEW shape, NEW l, Completes(shape, l), NEW k \in 1..Len(read') - 1,
         IdentifierRead(SubSeq(read', 1, k)), Constructed(ident) <=> shape # "primitive",
         LengthDenotes(SubSeq(read', k + 1, Len(read')), Decoded(shape, tn, l))
  PROVE  Progress
<1>1. Denotes(read', th')
  BY IdentifierDenoted DEF Denotes, Completes
<1>2. QED BY <1>1 DEF Progress, Shown, DecodesExactly, OverflowIsReal, Completes

LEMMA ShapeIsConstructed ==
  /\ Constructed(ident) <=> Shape # "primitive"
  /\ Shape # "constructed_indefinite"
  BY DEF Shape

LEMMA LengthShown ==
  ASSUME Decoding, NEW o \in Octet, GotLength(o), read' = Append(read, o)
  PROVE  Progress
<1>1. read # << >> /\ IdentifierRead(read) /\ pc # "done"
  BY DEF Decoding, Shown, GotLength
<1>2. PICK n \in Nat \ {0} : n = Len(read)
  BY <1>1, EmptySeq DEF Decoding, IInv, TypeOK
<1>3. /\ read' \in Seq(Octet) /\ Len(read') = n + 1 /\ read'[n + 1] = o
      /\ SubSeq(read', 1, n) = read
  BY <1>2, ReadGrows, LengthGrows DEF Decoding
<1>4. SubSeq(read', n + 1, Len(read')) = <<o>>
  <2>1. /\ SubSeq(read, n + 1, n) = << >>
        /\ SubSeq(read', n + 1, n + 1) = Append(SubSeq(read, n + 1, n), o)
    BY <1>2, SubSeqAppend, SubSeqEmpty DEF Decoding, IInv, TypeOK
  <2>2. Append(<< >>, o) = <<o>>
    OBVIOUS
  <2>3. QED BY <1>3, <2>1, <2>2, Zenon
<1>5. n \in 1..Len(read') - 1 /\ IdentifierRead(SubSeq(read', 1, n))
  <2>1. n \in 1..Len(read') - 1
    BY <1>2, <1>3
  <2>2. QED BY <1>1, <1>3, <2>1, Zenon
<1>6. CASE Returns("length_unsupported") \/ Returns("indefinite_primitive")
  BY <1>6, Fails DEF Results
<1>7. CASE o = Indefinite /\ Constructed(ident) /\ Completes("constructed_indefinite", 0)
  <2>1. LengthDenotes(<<o>>, Decoded("constructed_indefinite", tn, 0))
    BY <1>7 DEF LengthDenotes, Decoded
  <2>2. LengthDenotes(SubSeq(read', n + 1, Len(read')), Decoded("constructed_indefinite", tn, 0))
    BY <1>4, <2>1, Zenon
  <2>3. Constructed(ident) <=> "constructed_indefinite" # "primitive"
    BY <1>7
  <2>4. QED BY <1>5, <1>7, <2>2, <2>3, Denoted DEF Decoding
<1>8. CASE o \notin {Reserved, Indefinite} /\ More(o) /\ left' = Low7(o) /\ len' = 0 /\ Awaits("octets")
  <2>1. o \in 129..254 /\ left' = o - 128
    <3>1. o \in 129..254 /\ left' = o % 128
      BY <1>8 DEF Octet, More, Low7, Indefinite, Reserved
    <3>2. o % 128 = o - 128
      BY <3>1
    <3>3. QED BY <3>1, <3>2
  <2>2. Value(256, SubSeq(read', n + 2, n + 1)) = 0
    BY <1>2, LengthGrows DEF Decoding
  <2>3. UNCHANGED <<ident, tn>>
    BY DEF GotLength
  <2>4. IdentifierRead(SubSeq(read, 1, n))'
    BY <1>5, <2>3 DEF IdentifierRead
  <2>5. Len(read') - (n + 1) = 0 /\ o - 128 = o - 128 - 0
    BY <1>3, <2>1
  <2>6. LengthRead(n)'
    BY <1>3, <1>8, <2>1, <2>2, <2>4, <2>5 DEF LengthRead
  <2>7. (\E k \in 1..Len(read) - 1 : LengthRead(k))'
    BY <1>5, <2>6 DEF LengthRead
  <2>8. QED BY <1>1, <1>8, <2>7, StillUnknown DEF Progress, Shown
<1>9. CASE ~More(o) /\ len' = o /\ Completes(Shape, o)
  <2>1. LengthDenotes(<<o>>, Decoded(Shape, tn, o))
    <3>1. o < 128
      BY <1>9 DEF More, Octet
    <3>2. QED BY <3>1, ShapeIsConstructed DEF LengthDenotes, Decoded
  <2>2. LengthDenotes(SubSeq(read', n + 1, Len(read')), Decoded(Shape, tn, o))
    BY <1>4, <2>1, Zenon
  <2>3. QED BY <1>5, <1>9, <2>2, ShapeIsConstructed, Denoted DEF Decoding
<1>10. QED BY <1>6, <1>7, <1>8, <1>9 DEF GotLength

(* The octets of an identifier end at the first of its number that is not  *)
(* followed by another.                                                    *)
LEMMA IdentifierEnds ==
  ASSUME tn \in Nat,
         NEW os \in Seq(Octet), NEW k \in 1..Len(os) - 1, IdentifierRead(SubSeq(os, 1, k))
  PROVE  k = IF LowNumber(os[1]) # HighForm THEN 1
             ELSE CHOOSE i \in 2..Len(os) : ~More(os[i]) /\ \A j \in 2..i - 1 : More(os[j])
<1> DEFINE s == SubSeq(os, 1, k)
<1>1. /\ Len(os) \in Nat /\ k \in Nat \ {0} /\ Len(s) = k
      /\ \A i \in 1..k : s[i] = os[i]
  <2>1. Len(os) \in Nat /\ \A i \in 1..Len(os) : os[i] \in Octet
    BY LenProperties, ElementOfSeq
  <2>2. k \in Nat \ {0} /\ \A i \in 1..k : os[i] \in Octet
    BY <2>1
  <2>3. /\ Len(s) = IF 1 <= k THEN k - 1 + 1 ELSE 0
        /\ \A i \in 1..k - 1 + 1 : s[i] = os[1 + i - 1]
    BY <2>2, SubSeqProperties
  <2>4. 1 <= k /\ k - 1 + 1 = k /\ \A i \in 1..k : 1 + i - 1 = i
    BY <2>2
  <2> HIDE DEF s
  <2>5. QED BY <2>1, <2>2, <2>3, <2>4
<1> HIDE DEF s
<1>2. os[1] = ident
  BY <1>1 DEF IdentifierRead, s
<1>3. CASE Len(s) = 1 /\ LowNumber(ident) = tn /\ tn < HighForm
  <2>1. tn # HighForm
    BY <1>3 DEF HighForm
  <2>2. QED BY <1>1, <1>2, <1>3, <2>1
<1>4. CASE /\ Len(s) > 1 /\ LowNumber(ident) = HighForm
           /\ \A i \in 2..Len(s) : More(s[i]) <=> i < Len(s)
  <2> DEFINE Ended(i) == ~More(os[i]) /\ \A j \in 2..i - 1 : More(os[j])
  <2>1. \A i \in 2..k : More(os[i]) <=> i < k
    BY <1>1, <1>4
  <2>2. k \in 2..Len(os) /\ Ended(k)
    BY <1>1, <1>4, <2>1
  <2>3. ASSUME NEW i \in 2..Len(os), Ended(i) PROVE i = k
    <3>1. CASE i < k
      BY <1>1, <2>1, <2>3, <3>1
    <3>2. CASE i > k
      <4>1. k \in 2..i - 1
        BY <1>1, <2>2, <3>2
      <4>2. QED BY <2>2, <2>3, <4>1
    <3>3. QED BY <1>1, <3>1, <3>2
  <2> HIDE DEF Ended
  <2>4. (CHOOSE i \in 2..Len(os) : Ended(i)) = k
    BY <2>2, <2>3
  <2>5. QED BY <1>2, <1>4, <2>4 DEF Ended
<1>5. QED BY <1>3, <1>4 DEF IdentifierRead, s

LEMMA LengthOctetShown ==
  ASSUME Decoding, NEW o \in Octet, GotLengthOctet(o), read' = Append(read, o)
  PROVE  Progress
<1>1. pc = "octets" /\ pc # "done" /\ ident' = ident /\ tn' = tn
  BY DEF GotLengthOctet
<1>2. PICK k \in 1..Len(read) - 1 : LengthRead(k)
  BY <1>1 DEF Decoding, Shown
<1>3. PICK n \in Nat : n = Len(read)
  BY ReadGrows DEF Decoding
<1>4. /\ read' \in Seq(Octet) /\ Len(read') = n + 1 /\ read'[n + 1] = o
      /\ k \in 1..n - 1 /\ k \in 1..Len(read') - 1 /\ k \in 1..Len(read) /\ k < n
      /\ read'[k + 1] = read[k + 1]
  <2>1. k \in 1..n - 1 /\ k + 1 \in 1..n
    BY <1>3
  <2>2. QED BY <1>3, <2>1, ReadGrows DEF Decoding
<1>5. /\ IdentifierRead(SubSeq(read, 1, k))
      /\ read[k + 1] \in 129..254 /\ left = read[k + 1] - 128 - (n - (k + 1))
      /\ Value(256, SubSeq(read, k + 2, n)) = len
  BY <1>2, <1>3 DEF LengthRead
<1>6. /\ IdentifierRead(SubSeq(read', 1, k))
      /\ Value(256, SubSeq(read', k + 2, n + 1)) = len * 256 + o
  <2>1. /\ SubSeq(read', 1, k) = SubSeq(read, 1, k)
        /\ Value(256, SubSeq(read', k + 2, n + 1)) = Value(256, SubSeq(read, k + 2, n)) * 256 + o
    BY <1>3, <1>4, LengthGrows DEF Decoding
  <2>2. QED BY <1>5, <2>1, Zenon
<1>7. IdentifierRead(SubSeq(read, 1, k))'
  BY <1>1, <1>6 DEF IdentifierRead
<1>8. len \in 0..SizeMax /\ left \in 0..127 /\ tn \in Nat
  BY Widths DEF Decoding, IInv, TypeOK
<1>9. CASE LengthFull /\ Returns("length_overflow")
  <2>1. IdentifierSize' = k
    BY <1>4, <1>6, <1>8, IdentifierEnds DEF IdentifierSize
  <2>2. LengthOctetsRead' = SubSeq(read', k + 2, n + 1)
    BY <1>4, <2>1 DEF LengthOctetsRead
  <2>3. len * 256 + o > SizeMax
    <3>1. len > SizeMax \div 256 /\ SizeMax = (SizeMax \div 256) * 256 + 255
      BY <1>9, TagDecodeAssumption DEF LengthFull
    <3>2. QED BY <1>8, <3>1, Widths DEF Octet
  <2>4. Value(256, LengthOctetsRead)' > SizeMax
    BY <1>6, <2>2, <2>3
  <2>5. QED BY <1>9, <2>4 DEF Returns, Progress, Shown, DecodesExactly, OverflowIsReal
<1>10. CASE ~LengthFull
  <2>1. len' = len * 256 + o /\ left' = left - 1
    BY <1>8, <1>10, RoomInLength DEF GotLengthOctet
  <2>2. CASE left > 1 /\ Awaits("octets")
    <3>1. left' = read'[k + 1] - 128 - (Len(read') - (k + 1))
      <4>1. PICK c \in 129..254 : c = read[k + 1]
        BY <1>5
      <4>2. n \in Int /\ k \in Int
        OBVIOUS
      <4>3. c - 128 - (n - (k + 1)) - 1 = c - 128 - (n + 1 - (k + 1))
        BY <4>2
      <4>4. left' = c - 128 - (n - (k + 1)) - 1
        BY <1>5, <2>1, <4>1, Zenon
      <4>5. read'[k + 1] = c /\ Len(read') = n + 1
        BY <1>4, <4>1, Zenon
      <4>6. left' = c - 128 - (Len(read') - (k + 1))
        BY <4>3, <4>4, <4>5
      <4>7. QED BY <4>5, <4>6, Zenon
    <3>2. LengthRead(k)'
      BY <1>4, <1>5, <1>6, <1>7, <2>1, <3>1 DEF LengthRead
    <3>3. (\E i \in 1..Len(read) - 1 : LengthRead(i))'
      BY <1>4, <3>2 DEF LengthRead
    <3>4. QED BY <1>1, <2>2, <3>3, StillUnknown DEF Progress, Shown
  <2>3. CASE Returns("length_unneeded_long")
    BY <2>3, Fails DEF Results
  <2>4. CASE left = 1 /\ Completes(Shape, len')
    <3> DEFINE s == SubSeq(read', k + 1, n + 1)
    <3>1. Len(s) = n + 1 - k /\ s[1] = read[k + 1] /\ Tail(s) = SubSeq(read', k + 2, n + 1)
      <4>1. k + 1 \in 1..Len(read')
        BY <1>4
      <4>2. /\ Len(s) = n + 1 + 1 - (k + 1) /\ s[1] = read'[k + 1]
            /\ Tail(s) = SubSeq(read', k + 1 + 1, n + 1)
        BY <1>4, <4>1, SubSeqToEnd
      <4>3. n + 1 + 1 - (k + 1) = n + 1 - k /\ k + 1 + 1 = k + 2
        BY <1>4
      <4>4. QED BY <1>4, <4>2, <4>3, Zenon
    <3>2. Len(s) > 1 /\ s[1] = 128 + Len(s) - 1 /\ s[1] # Reserved
      <4> HIDE DEF s
      <4>1. PICK c \in 129..254 : c = read[k + 1]
        BY <1>5
      <4>2. 1 = c - 128 - (n - (k + 1))
        BY <1>5, <2>4, <4>1
      <4>3. n \in Nat /\ k \in Int /\ k < n
        BY <1>4
      <4>4. c = 128 + (n + 1 - k) - 1 /\ n + 1 - k > 1
        BY <4>2, <4>3
      <4>5. QED BY <3>1, <4>1, <4>4 DEF Reserved
    <3>3. LengthDenotes(s, Decoded(Shape, tn, len'))
      <4>1. Value(256, Tail(s)) = len'
        BY <1>6, <2>1, <3>1
      <4> HIDE DEF s
      <4>2. QED BY <3>2, <4>1, ShapeIsConstructed DEF LengthDenotes, Decoded
    <3>4. QED BY <1>4, <1>6, <2>4, <3>3, ShapeIsConstructed, Denoted DEF Decoding
  <2>5. QED BY <1>10, <2>2, <2>3, <2>4 DEF GotLengthOctet
<1>11. QED BY <1>9, <1>10 DEF GotLengthOctet

(* Every step keeps it, whatever is got and whenever.                      *)
LEMMA GetDecodes ==
  ASSUME Decoding, NEW o \in Octet, Get(o) PROVE Decoding'
<1>1. IInv'
  BY GetStep DEF Decoding
<1>2. Progress
  BY IdentifierShown, NumberFirstShown, NumberFollowingShown, LengthShown,
     LengthOctetShown DEF Get
<1>3. QED BY <1>1, <1>2 DEF Decoding, Progress

LEMMA GetFailsDecodes ==
  ASSUME Decoding, GetFails PROVE Decoding'
<1>1. IInv'
  BY GetFailsStep DEF Decoding
<1>2. PICK r \in Results \ {"complete", "number_overflow", "length_overflow"} : Returns(r)
  BY DEF GetFails, Results
<1>3. QED BY <1>1, <1>2, Fails DEF Decoding, Progress

LEMMA UnchangedDecodes ==
  ASSUME Decoding, UNCHANGED vars PROVE Decoding'
<1>1. IInv'
  BY NextStep DEF Decoding
<1>2. UNCHANGED <<pc, strict, ident, tn, len, left, th, result, read>>
  BY DEF vars
<1>3. Shown'
  <2>1. IdentifierRead(read)' <=> IdentifierRead(read)
    BY <1>2 DEF IdentifierRead
  <2>2. \A k : LengthRead(k)' <=> LengthRead(k)
    BY <1>2 DEF LengthRead, IdentifierRead
  <2>3. pc = "length" => read # << >> /\ IdentifierRead(read)'
    <3>1. pc = "length" => read # << >> /\ IdentifierRead(read)
      BY Zenon DEF Decoding, Shown
    <3>2. QED BY <2>1, <3>1, Zenon
  <2>4. pc = "octets" => \E k \in 1..Len(read) - 1 : LengthRead(k)'
    <3>1. pc = "octets" => \E k \in 1..Len(read) - 1 : LengthRead(k)
      BY Zenon DEF Decoding, Shown
    <3>2. QED BY <2>2, <3>1, Zenon
  <2>5. pc = "following" =>
          /\ Len(read) > 1 /\ read[1] = ident /\ LowNumber(ident) = HighForm
          /\ \A i \in 2..Len(read) : More(read[i])
          /\ Value(128, Groups(Tail(read))) = tn
    BY Zenon DEF Decoding, Shown
  <2>6. /\ result = "none" <=> pc # "done"
        /\ pc = "identifier" => read = << >>
        /\ pc = "number" => Len(read) = 1 /\ read[1] = ident /\ LowNumber(ident) = HighForm
    BY Zenon DEF Decoding, Shown
  <2>7. QED BY <1>2, <2>3, <2>4, <2>5, <2>6 DEF Shown
<1>4. DecodesExactly'
  BY <1>2 DEF Decoding, DecodesExactly
<1>5. IdentifierSize' = IdentifierSize
  BY <1>2 DEF IdentifierSize
<1>6. LengthOctetsRead' = LengthOctetsRead
  BY <1>2, <1>5 DEF LengthOctetsRead
<1>7. OverflowIsReal'
  BY <1>2, <1>6 DEF Decoding, OverflowIsReal
<1>8. QED BY <1>1, <1>3, <1>4, <1>7 DEF Decoding

LEMMA DecodingStep == Decoding /\ [Next]_vars => Decoding'
<1> SUFFICES ASSUME Decoding, [Next]_vars PROVE Decoding'
  OBVIOUS
<1>1. CASE \E o \in Octets : Get(o)
  BY <1>1, GetDecodes, TagDecodeAssumption
<1>2. CASE GetFails
  BY <1>2, GetFailsDecodes
<1>3. CASE UNCHANGED vars
  BY <1>3, UnchangedDecodes
<1>4. QED BY <1>1, <1>2, <1>3 DEF Next

(* A call begins anew.                                                     *)
LEMMA CallDecodes ==
  ASSUME Decoding, NEW s \in BOOLEAN, Call(s) PROVE Decoding' /\ read' = << >> /\ pc' = "identifier"
<1>1. IInv'
  <2>1. /\ pc' = "identifier" /\ strict' \in BOOLEAN /\ ident' = 0 /\ tn' = 0 /\ len' = 0
        /\ left' = 0 /\ th' = th /\ result' = "none" /\ read' = << >>
    BY DEF Call
  <2>2. 0 \in Octet /\ 0 \in 0..NumberMax /\ 0 \in 0..SizeMax /\ << >> \in Seq(Octet)
    BY Widths, EmptySeq DEF Octet
  <2>3. QED BY <2>1, <2>2 DEF Decoding, IInv, TypeOK, Waiting
<1>2. Shown' /\ DecodesExactly' /\ OverflowIsReal'
  BY DEF Call, Shown, DecodesExactly, OverflowIsReal
<1>3. QED BY <1>1, <1>2 DEF Decoding, Call

LEMMA InitDecodes == Init => Decoding
  BY Initially DEF Init, Decoding, Shown, DecodesExactly, OverflowIsReal

(* So it holds in every state of a call.                                   *)
LEMMA AlwaysDecoding == Spec => []Decoding
  BY InitDecodes, DecodingStep, PTL DEF Spec

(* Whatever the octets of the stream and the widths of the types, a call   *)
(* completes only with the header that the octets it has read denote by    *)
(* X.690 8.1, and has read no other octet.                                 *)
THEOREM AlwaysDecodesExactly == Spec => []DecodesExactly
<1>1. Decoding => DecodesExactly
  BY DEF Decoding
<1>2. QED BY <1>1, AlwaysDecoding, PTL

(* An overflow is returned only for a number that cannot be in tag_number, *)
(* however it goes on, or a length that is not in size_t.                  *)
THEOREM OverflowAlwaysReal == Spec => []OverflowIsReal
<1>1. Decoding => OverflowIsReal
  BY DEF Decoding
<1>2. QED BY <1>1, AlwaysDecoding, PTL

-----------------------------------------------------------------------------
(* The other direction: a call that gets the octets of a header, in their  *)
(* shortest form, goes on up to the last of them and completes with the    *)
(* header, however strict it is.                                           *)

Denoting(is, ls, h) ==
  /\ is \in Seq(Octet) /\ ls \in Seq(Octet) /\ h \in Header
  /\ IdentifierDenotes(is, h) /\ LengthDenotes(ls, h)
  /\ Len(is) > 1 => h.number > 30 /\ is[2] # 0
  /\ Len(ls) > 1 => h.length > 127

\* The i-th octet of the header.
OctetAt(is, ls, i) == IF i <= Len(is) THEN is[i] ELSE ls[i - Len(is)]

\* The call has got some of the octets, and not all of them.
Amid(is, ls) ==
  /\ Len(read) < Len(is) + Len(ls)
  /\ \A i \in 1..Len(read) : read[i] = OctetAt(is, ls, i)

\* What the call stores: an indefinite tag has no length.
AsRead(h) == IF h.shape = "constructed_indefinite" THEN [h EXCEPT !.length = 0] ELSE h

\* The octet o is the next one.
Follows(is, ls, o) == o = OctetAt(is, ls, Len(read) + 1)

Advances(is, ls, h) ==
  IF Len(read') < Len(is) + Len(ls) THEN result' = "none"
  ELSE result' = "complete" /\ th' = AsRead(h)

LEMMA HeaderOctets ==
  ASSUME NEW is, NEW ls, NEW h, Denoting(is, ls, h)
  PROVE  /\ Len(is) \in Nat \ {0} /\ Len(ls) \in Nat \ {0}
         /\ \A i \in 1..Len(is) : is[i] \in Octet
         /\ \A i \in 1..Len(ls) : ls[i] \in Octet
         /\ h.number \in 0..NumberMax /\ h.length \in 0..SizeMax /\ h.shape \in TagShape
<1>1. /\ is \in Seq(Octet) /\ ls \in Seq(Octet) /\ h \in Header
      /\ IdentifierDenotes(is, h) /\ LengthDenotes(ls, h)
  BY DEF Denoting
<1>2. /\ Len(is) \in Nat /\ Len(ls) \in Nat
      /\ \A i \in 1..Len(is) : is[i] \in Octet
      /\ \A i \in 1..Len(ls) : ls[i] \in Octet
  BY <1>1, LenProperties, ElementOfSeq
<1>3. Len(is) # 0
  BY <1>1 DEF IdentifierDenotes
<1>4. Len(ls) # 0
  <2>1. CASE ls = <<Indefinite>>
    BY <2>1
  <2>2. CASE ls = <<h.length>>
    BY <2>2
  <2>3. CASE Len(ls) > 1
    BY <1>2, <2>3
  <2>4. QED BY <1>1, <2>1, <2>2, <2>3 DEF LengthDenotes
<1>5. QED BY <1>1, <1>2, <1>3, <1>4 DEF Header

(* Where an identifier ends, and what its number is, is decided by its     *)
(* octets.                                                                 *)
LEMMA IdentifierAgrees ==
  ASSUME NEW is, NEW ls, NEW h, Denoting(is, ls, h),
         NEW s \in Seq(Octet), IdentifierRead(s),
         \A i \in 1..Len(s) : i <= Len(is) => s[i] = is[i]
  PROVE  Len(s) = Len(is) /\ tn = h.number /\ ident = is[1]
<1>1. /\ Len(s) \in Nat \ {0} /\ s[1] = ident /\ s[1] = is[1]
      /\ Len(is) \in Nat \ {0} /\ is \in Seq(Octet)
  <2>1. Len(s) \in Nat /\ Len(s) # 0
    BY LenProperties DEF IdentifierRead
  <2>2. QED BY <2>1, HeaderOctets DEF IdentifierRead, Denoting
<1>2. IdentifierDenotes(is, h)
  BY DEF Denoting
<1>3. CASE Len(s) = 1 /\ LowNumber(ident) = tn /\ tn < HighForm
  <2>1. LowNumber(is[1]) # HighForm
    BY <1>1, <1>3 DEF HighForm
  <2>2. QED BY <1>1, <1>2, <1>3, <2>1 DEF IdentifierDenotes
<1>4. CASE /\ Len(s) > 1 /\ LowNumber(ident) = HighForm
           /\ \A i \in 2..Len(s) : More(s[i]) <=> i < Len(s)
           /\ Value(128, Groups(Tail(s))) = tn
  <2>1. /\ Len(is) > 1 /\ \A i \in 2..Len(is) : More(is[i]) <=> i < Len(is)
        /\ Value(128, Groups(Tail(is))) = h.number
    BY <1>1, <1>2, <1>4 DEF IdentifierDenotes, HighForm
  <2>2. ~(Len(s) < Len(is))
    <3>1. Len(s) < Len(is) => Len(s) \in 2..Len(s) /\ Len(s) \in 2..Len(is) /\ Len(s) \in 1..Len(s)
      BY <1>1, <1>4
    <3>2. QED BY <1>1, <1>4, <2>1, <3>1
  <2>3. ~(Len(is) < Len(s))
    <3>1. Len(is) < Len(s) => Len(is) \in 2..Len(s) /\ Len(is) \in 2..Len(is) /\ Len(is) \in 1..Len(s)
      BY <1>1, <2>1
    <3>2. QED BY <1>1, <1>4, <2>1, <3>1
  <2>4. Len(s) = Len(is)
    BY <1>1, <2>2, <2>3
  <2>5. s = is
    BY <1>1, <2>4, SeqEqual
  <2>6. QED BY <1>1, <1>4, <2>1, <2>4, <2>5
<1>5. QED BY <1>3, <1>4 DEF IdentifierRead

(* Where the call waits says how far it has come.                          *)
LEMMA Phases ==
  ASSUME NEW is, NEW ls, NEW h, Decoding, pc # "done", Denoting(is, ls, h), Amid(is, ls)
  PROVE  /\ pc = "identifier" => read = << >>
         /\ pc = "number" => Len(read) = 1 /\ 1 < Len(is)
         /\ pc = "following" => 1 < Len(read) /\ Len(read) < Len(is)
         /\ pc = "length" => Len(read) = Len(is) /\ tn = h.number /\ ident = is[1]
         /\ pc = "octets" => /\ Len(is) < Len(read) /\ LengthRead(Len(is))
                             /\ tn = h.number /\ ident = is[1]
<1> DEFINE n == Len(is)
           r == Len(read)
<1>1. /\ n \in Nat \ {0} /\ r \in Nat /\ read \in Seq(Octet)
      /\ \A i \in 1..r : i <= n => read[i] = is[i]
  BY HeaderOctets, LenProperties DEF Decoding, IInv, TypeOK, Amid, OctetAt
<1>2. IdentifierDenotes(is, h)
  BY DEF Denoting
<1>3. pc = "identifier" => read = << >>
  BY DEF Decoding, Shown
<1>4. ASSUME r >= 1, read[1] = ident, LowNumber(ident) = HighForm
      PROVE  n > 1 /\ \A i \in 2..n : More(is[i]) <=> i < n
  <2>1. is[1] = ident
    BY <1>1, <1>4
  <2>2. QED BY <1>2, <1>4, <2>1 DEF IdentifierDenotes, HighForm
<1>5. pc = "number" => r = 1 /\ 1 < n
  BY <1>1, <1>4 DEF Decoding, Shown
<1>6. pc = "following" => 1 < r /\ r < n
  <2>1. HAVE pc = "following"
  <2>2. r > 1 /\ read[1] = ident /\ LowNumber(ident) = HighForm /\ \A i \in 2..r : More(read[i])
    BY <2>1 DEF Decoding, Shown
  <2>3. n > 1 /\ \A i \in 2..n : More(is[i]) <=> i < n
    BY <1>1, <1>4, <2>2
  <2>4. ~(n <= r)
    <3>1. n <= r => n \in 2..r /\ n \in 2..n /\ n \in 1..r
      BY <1>1, <2>3
    <3>2. QED BY <1>1, <2>2, <2>3, <3>1
  <2>5. QED BY <1>1, <2>2, <2>4
<1>7. pc = "length" => r = n /\ tn = h.number /\ ident = is[1]
  BY <1>1, IdentifierAgrees DEF Decoding, Shown
<1>8. pc = "octets" => /\ n < r /\ LengthRead(n)
                       /\ tn = h.number /\ ident = is[1]
  <2>1. HAVE pc = "octets"
  <2>2. PICK k \in 1..r - 1 : LengthRead(k)
    BY <2>1 DEF Decoding, Shown
  <2> DEFINE s == SubSeq(read, 1, k)
  <2>3. s \in Seq(Octet) /\ Len(s) = k /\ \A i \in 1..k : s[i] = read[i]
    <3>1. k \in 0..r /\ 1 \in 1..k + 1 /\ k + 1 - 1 = k /\ \A i \in 1..k : 1 + i - 1 = i
      BY <1>1
    <3>2. QED BY <1>1, <3>1, SubSeqFacts
  <2>4. IdentifierRead(s)
    BY <2>2 DEF LengthRead
  <2> HIDE DEF s
  <2>5. \A i \in 1..Len(s) : i <= n => s[i] = is[i]
    BY <1>1, <2>3
  <2>6. k = n /\ tn = h.number /\ ident = is[1]
    BY <2>3, <2>4, <2>5, IdentifierAgrees
  <2>7. QED BY <1>1, <2>2, <2>6
<1>9. QED BY <1>3, <1>5, <1>6, <1>7, <1>8

(* No octet of the number is refused.                                      *)
LEMMA NumberAgrees ==
  ASSUME NEW is, NEW ls, NEW h, Decoding, pc # "done", Denoting(is, ls, h), Amid(is, ls),
         NEW o \in Octet, NEW n \in 0..NumberMax, NumberSoFar(o, n), read' = Append(read, o),
         Len(read) \in 1..Len(is) - 1, o = is[Len(read) + 1],
         Value(128, Groups(Tail(read'))) = n
  PROVE  result' = "none"
<1> DEFINE r == Len(read)
           k == Len(is)
           s == Tail(read')
           t == Tail(is)
<1>1. /\ r \in Nat \ {0} /\ k \in Nat /\ r < k /\ is \in Seq(Octet) /\ read' \in Seq(Octet)
      /\ Len(read') = r + 1 /\ \A i \in 1..r + 1 : read'[i] = is[i]
  <2>1. r \in 1..k - 1 /\ k \in Nat /\ is \in Seq(Octet)
    BY HeaderOctets DEF Denoting
  <2>2. /\ read' \in Seq(Octet) /\ Len(read') = r + 1 /\ read'[r + 1] = o
        /\ \A i \in 1..r : read'[i] = read[i] /\ read[i] = is[i]
    BY <2>1, ReadGrows DEF Decoding, Amid, OctetAt
  <2>3. \A i \in 1..r + 1 : i \in 1..r \/ i = r + 1
    BY <2>1
  <2>4. QED BY <2>1, <2>2, <2>3
<1>2. /\ s \in Seq(Octet) /\ Len(s) = r /\ \A i \in 1..r : s[i] = is[i + 1]
      /\ t \in Seq(Octet) /\ Len(t) = k - 1 /\ \A i \in 1..k - 1 : t[i] = is[i + 1]
  <2>1. read' # << >> /\ is # << >>
    BY <1>1, EmptySeq
  <2>2. /\ s \in Seq(Octet) /\ Len(s) = r + 1 - 1 /\ \A i \in 1..Len(s) : s[i] = read'[i + 1]
        /\ t \in Seq(Octet) /\ Len(t) = k - 1 /\ \A i \in 1..Len(t) : t[i] = is[i + 1]
    BY <1>1, <2>1, HeadTailProperties
  <2> HIDE DEF s, t
  <2>3. r + 1 - 1 = r /\ \A i \in 1..r : i + 1 \in 1..r + 1
    BY <1>1
  <2>4. QED BY <1>1, <2>2, <2>3
<1> DEFINE gs == Groups(s)
           gt == Groups(t)
<1>3. gs \in Seq(Nat) /\ gt \in Seq(Nat) /\ Len(gt) = k - 1 /\ gs = SubSeq(gt, 1, r)
  <2>1. \A x \in Octet : Low7(x) \in Nat
    BY DEF Octet, Low7
  <2>2. ASSUME NEW u \in Seq(Octet)
        PROVE  /\ Groups(u) \in Seq(Nat) /\ Len(Groups(u)) = Len(u)
               /\ \A i \in 1..Len(u) : Groups(u)[i] = Low7(u[i])
    BY <2>1, SMTT(30) DEF Groups
  <2>3. /\ gs \in Seq(Nat) /\ Len(gs) = r /\ \A i \in 1..r : gs[i] = Low7(s[i])
        /\ gt \in Seq(Nat) /\ Len(gt) = k - 1 /\ \A i \in 1..k - 1 : gt[i] = Low7(t[i])
    BY <1>2, <2>2
  <2> HIDE DEF gs, gt, s, t
  <2> DEFINE u == SubSeq(gt, 1, r)
  <2>4. u \in Seq(Nat) /\ Len(u) = r /\ \A i \in 1..r : u[i] = gt[i]
    <3>1. r \in 0..Len(gt) /\ 1 \in 1..r + 1 /\ r + 1 - 1 = r /\ \A i \in 1..r : 1 + i - 1 = i
      BY <1>1, <2>3
    <3>2. QED BY <2>3, <3>1, SubSeqFacts
  <2> HIDE DEF u
  <2>5. ASSUME NEW i \in 1..r PROVE gs[i] = u[i]
    <3>1. i \in 1..k - 1
      BY <1>1
    <3>2. s[i] = t[i]
      BY <1>2, <3>1
    <3>3. QED BY <2>3, <2>4, <3>1, <3>2
  <2>6. gs = u
    BY <2>3, <2>4, <2>5, SeqEqual
  <2>7. QED BY <2>3, <2>6 DEF u
<1>4. /\ k > 1 /\ h.number \in 0..NumberMax /\ Value(128, gt) = h.number /\ h.number > 30
      /\ \A i \in 2..k : More(is[i]) <=> i < k
  <2>1. k > 1
    BY <1>1
  <2>2. QED BY <2>1, HeaderOctets DEF Denoting, IdentifierDenotes
<1>5. n <= h.number /\ (r < k - 1 => n * 128 <= h.number) /\ (r = k - 1 => n = h.number)
  <2>1. PICK b \in Nat \ {0} : b = 128
    OBVIOUS
  <2>2. r \in 0..Len(gt)
    BY <1>1, <1>3
  <2>3. Value(b, gs) = n /\ Value(b, gt) = h.number
    BY <1>4, <2>1
  <2> HIDE DEF gs, gt
  <2>4. Value(b, gs) <= Value(b, gt) /\ (r < Len(gt) => Value(b, gs) * b <= Value(b, gt))
    BY <1>3, <2>2, ValueOfPrefix
  <2>5. r = k - 1 => gs = gt
    BY <1>3, SubSeqFull
  <2>6. QED BY <1>3, <2>1, <2>3, <2>4, <2>5, ZenonT(40)
<1>6. r + 1 \in 2..k /\ (More(o) <=> r + 1 < k)
  <2>1. r + 1 \in 2..k
    BY <1>1
  <2>2. QED BY <1>4, <2>1
<1>7. ~(More(o) /\ NumberFull(n))
  <2>1. SUFFICES ASSUME More(o), NumberFull(n) PROVE FALSE
    OBVIOUS
  <2>2. n * 128 <= h.number
    BY <1>1, <1>5, <1>6, <2>1
  <2>3. n > NumberMax \div 128 /\ NumberMax = (NumberMax \div 128) * 128 + 127
    BY <2>1, TagDecodeAssumption DEF NumberFull
  <2>4. QED BY <1>4, <2>2, <2>3, Widths
<1>8. ~(~More(o) /\ n <= 30)
  <2>1. ~More(o) => n = h.number
    BY <1>1, <1>5, <1>6
  <2>2. QED BY <1>4, <2>1
<1>9. result = "none"
  BY DEF Decoding, Shown
<1>10. QED BY <1>7, <1>8, <1>9 DEF NumberSoFar, Awaits

(* One lemma for each place where the call gets an octet of the header.    *)
LEMMA IdentifierAdvances ==
  ASSUME NEW is, NEW ls, NEW h, Decoding, pc # "done", Denoting(is, ls, h), Amid(is, ls),
         NEW o \in Octet, GotIdentifier(o)
  PROVE  result' = "none"
  BY DEF GotIdentifier, Awaits, Decoding, Shown

LEMMA NumberFirstAdvances ==
  ASSUME NEW is, NEW ls, NEW h, Decoding, pc # "done", Denoting(is, ls, h), Amid(is, ls),
         NEW o \in Octet, Follows(is, ls, o), GotNumberFirst(o),
         read' = Append(read, o)
  PROVE  result' = "none" /\ Len(read) < Len(is)
<1>1. Len(read) = 1 /\ 1 < Len(is)
  BY Phases DEF GotNumberFirst
<1>2. Len(is) \in Nat /\ 2 <= Len(is)
  BY <1>1, HeaderOctets
<1>3. o = is[2] /\ o # 0
  BY <1>1, <1>2 DEF Follows, OctetAt, Denoting
<1>4. NumberSoFar(o, Low7(o))
  BY <1>3 DEF GotNumberFirst
<1>5. Value(128, Groups(Tail(read'))) = Low7(o) /\ Low7(o) \in 0..NumberMax
  <2>1. read # << >>
    BY <1>1
  <2>2. QED BY <1>1, <2>1, OctetInNumber, NumberGrows DEF Decoding
<1>6. Len(read) \in 1..Len(is) - 1 /\ Len(read) + 1 = 2
  BY <1>1, <1>2
<1>7. QED BY <1>1, <1>3, <1>4, <1>5, <1>6, NumberAgrees

LEMMA NumberFollowingAdvances ==
  ASSUME NEW is, NEW ls, NEW h, Decoding, pc # "done", Denoting(is, ls, h), Amid(is, ls),
         NEW o \in Octet, Follows(is, ls, o), GotNumberFollowing(o),
         read' = Append(read, o)
  PROVE  result' = "none" /\ Len(read) < Len(is)
<1>1. 1 < Len(read) /\ Len(read) < Len(is)
  BY Phases DEF GotNumberFollowing
<1>2. Len(is) \in Nat /\ Len(read) \in Nat /\ Len(read) \in 1..Len(is) - 1 /\ Len(read) + 1 <= Len(is)
  BY <1>1, HeaderOctets, LenProperties DEF Decoding, IInv, TypeOK
<1>3. o = is[Len(read) + 1]
  BY <1>2 DEF Follows, OctetAt
<1>4. tn \in 0..NumberMax /\ ~NumberFull(tn) /\ Value(128, Groups(Tail(read))) = tn
  BY DEF GotNumberFollowing, Decoding, Shown, IInv, TypeOK, Waiting
<1>5. NumberShifted(o) = tn * 128 + Low7(o) /\ NumberShifted(o) \in 0..NumberMax
  BY <1>4, ShiftInNumber
<1>6. Value(128, Groups(Tail(read'))) = NumberShifted(o)
  <2>1. read # << >>
    BY <1>1
  <2>2. Value(128, Groups(Tail(read'))) = Value(128, Groups(Tail(read))) * 128 + Low7(o)
    BY <2>1, NumberGrows DEF Decoding
  <2>3. QED BY <1>4, <1>5, <2>2, Zenon
<1>7. NumberSoFar(o, NumberShifted(o))
  BY DEF GotNumberFollowing
<1>8. QED BY <1>1, <1>2, <1>3, <1>5, <1>6, <1>7, NumberAgrees

(* The header that is stored, when the identifier is that of h.            *)
LEMMA StoresHeader ==
  ASSUME NEW is, NEW ls, NEW h, Denoting(is, ls, h), tn = h.number, ident = is[1]
  PROVE  /\ h.shape = "constructed_indefinite" =>
              Constructed(ident) /\ Decoded("constructed_indefinite", tn, 0) = AsRead(h)
         /\ h.shape # "constructed_indefinite" => Decoded(Shape, tn, h.length) = AsRead(h)
<1>1. /\ Class(ident) = h.tclass /\ (Constructed(ident) <=> h.shape # "primitive")
      /\ h \in Header
  BY DEF Denoting, IdentifierDenotes
<1>2. h.shape \in TagShape
  BY <1>1 DEF Header
<1>3. CASE h.shape = "constructed_indefinite"
  BY <1>1, <1>3 DEF Decoded, AsRead, Header
<1>4. CASE h.shape # "constructed_indefinite"
  <2>1. Shape = h.shape
    BY <1>1, <1>2, <1>4 DEF Shape, TagShape
  <2>2. QED BY <1>1, <1>4, <2>1 DEF Decoded, AsRead, Header
<1>5. QED BY <1>3, <1>4

LEMMA LengthAdvances ==
  ASSUME NEW is, NEW ls, NEW h, Decoding, pc # "done", Denoting(is, ls, h), Amid(is, ls),
         NEW o \in Octet, Follows(is, ls, o), GotLength(o),
         read' = Append(read, o)
  PROVE  Advances(is, ls, h)
<1> DEFINE n == Len(is)
           l == Len(ls)
<1>1. /\ Len(read) = n /\ tn = h.number /\ ident = is[1]
      /\ n \in Nat \ {0} /\ l \in Nat \ {0} /\ Len(read') = n + 1
  BY Phases, HeaderOctets, ReadGrows DEF GotLength, Decoding
<1>2. o = ls[1] /\ result = "none"
  <2>1. ~(n + 1 <= n) /\ n + 1 - n = 1
    BY <1>1
  <2>2. QED BY <1>1, <2>1 DEF Follows, OctetAt, Decoding, Shown
<1> HIDE DEF n, l
<1>3. CASE ls = <<Indefinite>> /\ h.shape = "constructed_indefinite"
  <2>1. o = Indefinite /\ l = 1
    BY <1>2, <1>3 DEF l
  <2>2. Constructed(ident) /\ Decoded("constructed_indefinite", tn, 0) = AsRead(h)
    BY <1>1, <1>3, StoresHeader
  <2>3. Completes("constructed_indefinite", 0)
    BY <2>1, <2>2 DEF GotLength, Indefinite, Reserved, More
  <2>4. ~(Len(read') < n + l)
    BY <1>1, <2>1
  <2>5. QED BY <2>2, <2>3, <2>4 DEF Completes, Advances, n, l
<1>4. CASE h.shape # "constructed_indefinite" /\ ls = <<h.length>> /\ h.length < 128
  <2>1. o = h.length /\ l = 1
    BY <1>2, <1>4 DEF l
  <2>2. ~More(o) /\ o \notin {Indefinite, Reserved}
    BY <1>4, <2>1 DEF More, Indefinite, Reserved, Octet
  <2>3. Completes(Shape, o)
    BY <2>2 DEF GotLength
  <2>4. Decoded(Shape, tn, h.length) = AsRead(h)
    BY <1>1, <1>4, StoresHeader
  <2>5. ~(Len(read') < n + l)
    BY <1>1, <2>1
  <2>6. QED BY <2>1, <2>3, <2>4, <2>5 DEF Completes, Advances, n, l
<1>5. CASE Len(ls) > 1 /\ ls[1] = 128 + Len(ls) - 1 /\ ls[1] # Reserved
  <2>1. l > 1 /\ o = 128 + l - 1 /\ o # Reserved
    BY <1>2, <1>5 DEF l
  <2>2. o > 128 /\ More(o) /\ o # Indefinite
    BY <1>1, <2>1 DEF More, Indefinite
  <2>3. Awaits("octets")
    BY <2>1, <2>2 DEF GotLength
  <2>4. Len(read') < n + l
    BY <1>1, <2>1
  <2>5. QED BY <1>2, <2>3, <2>4 DEF Awaits, Advances, n, l
<1>6. QED BY <1>3, <1>4, <1>5 DEF Denoting, LengthDenotes

LEMMA LengthOctetAdvances ==
  ASSUME NEW is, NEW ls, NEW h, Decoding, pc # "done", Denoting(is, ls, h), Amid(is, ls),
         NEW o \in Octet, Follows(is, ls, o), GotLengthOctet(o),
         read' = Append(read, o)
  PROVE  Advances(is, ls, h)
<1> DEFINE n == Len(is)
           l == Len(ls)
           r == Len(read)
<1>1. /\ n < r /\ LengthRead(n) /\ tn = h.number /\ ident = is[1]
      /\ n \in Nat \ {0} /\ l \in Nat \ {0} /\ r \in Nat /\ r < n + l
      /\ read' \in Seq(Octet) /\ Len(read') = r + 1 /\ read'[r + 1] = o
      /\ \A i \in 1..r : read'[i] = read[i] /\ read[i] = OctetAt(is, ls, i)
      /\ ls \in Seq(Octet) /\ h.length \in 0..SizeMax
  BY Phases, HeaderOctets, ReadGrows DEF GotLengthOctet, Decoding, Amid, Denoting
<1>2. /\ read[n + 1] \in 129..254 /\ left = read[n + 1] - 128 - (r - (n + 1))
      /\ Value(256, SubSeq(read, n + 2, r)) = len
  BY <1>1 DEF LengthRead
<1>3. /\ o = ls[r + 1 - n]
      /\ \A i \in 1..r - n : read[n + i] = ls[i]
  <2>1. ~(r + 1 <= n) /\ \A i \in 1..r - n : n + i \in 1..r /\ ~(n + i <= n) /\ n + i - n = i
    BY <1>1
  <2>2. o = ls[r + 1 - n]
    BY <2>1 DEF Follows, OctetAt
  <2>3. \A i \in 1..r - n : read[n + i] = ls[i]
    BY <1>1, <2>1 DEF OctetAt
  <2>4. QED BY <2>2, <2>3
<1> HIDE DEF n, l, r
<1>4. read' \in Seq(Octet) /\ ls \in Seq(Octet)
  BY <1>1
<1>5. 1 \in 1..r - n
  BY <1>1
<1>6. \A i \in 1..r + 1 - n : read'[n + i] = ls[i]
  <2>1. TAKE i \in 1..r + 1 - n
  <2>2. CASE i = r + 1 - n
    <3>1. n + i = r + 1
      BY <1>1, <2>2
    <3>2. QED BY <1>1, <1>3, <2>2, <3>1
  <2>3. CASE i # r + 1 - n
    <3>1. i \in 1..r - n /\ n + i \in 1..r
      BY <1>1, <2>3
    <3>2. QED BY <1>1, <1>3, <3>1
  <2>4. QED BY <2>2, <2>3
<1>7. read[n + 1] = ls[1] /\ ls[1] \in 129..254
  <2>1. read[n + 1] \in 129..254
    BY <1>2
  <2>2. read[n + 1] = ls[1]
    BY <1>3, <1>5
  <2>3. QED BY <2>1, <2>2
<1>8. /\ h.shape # "constructed_indefinite" /\ l > 1 /\ ls[1] = 128 + l - 1
      /\ Value(256, Tail(ls)) = h.length /\ h.length > 127
  <2>1. PICK c \in 129..254 : c = ls[1]
    BY <1>7
  <2>2. ls # <<Indefinite>>
    <3>1. ls = <<Indefinite>> => c = 128
      BY <2>1 DEF Indefinite
    <3>2. QED BY <3>1
  <2>3. ~(ls = <<h.length>> /\ h.length < 128)
    <3>1. ls = <<h.length>> => c = h.length
      BY <2>1
    <3>2. QED BY <3>1
  <2>4. QED BY <2>2, <2>3 DEF Denoting, LengthDenotes, l
<1>9. left = l + n - r
  <2>1. left = read[n + 1] - 128 - (r - (n + 1))
    BY <1>2
  <2>2. PICK c \in Int : c = read[n + 1] /\ c = 128 + l - 1
    BY <1>1, <1>7, <1>8
  <2>3. c - 128 - (r - (n + 1)) = l + n - r
    BY <1>1, <2>2
  <2>4. QED BY <2>1, <2>2, <2>3
<1>10. /\ Value(256, SubSeq(read', n + 2, r + 1)) = len * 256 + o
      /\ len \in 0..SizeMax
  <2>1. Value(256, SubSeq(read, n + 2, r)) = len
    BY <1>2
  <2>2. n \in 1..r /\ n < r
    BY <1>1
  <2>3. Value(256, SubSeq(read', n + 2, r + 1)) = Value(256, SubSeq(read, n + 2, r)) * 256 + o
    BY <2>2, LengthGrows DEF Decoding, r
  <2>4. len \in 0..SizeMax
    BY DEF Decoding, IInv, TypeOK
  <2>5. QED BY <2>1, <2>3, <2>4, Zenon
<1> DEFINE s == SubSeq(read', n + 2, r + 1)
           t == Tail(ls)
<1>11. /\ s \in Seq(Octet) /\ t \in Seq(Octet) /\ Len(t) = l - 1
      /\ r - n \in 0..Len(t) /\ s = SubSeq(t, 1, r - n)
  <2>1. ls # << >>
    BY <1>8, EmptySeq DEF l
  <2>2. t \in Seq(Octet) /\ Len(t) = l - 1 /\ \A i \in 1..l - 1 : t[i] = ls[i + 1]
    BY <1>1, <2>1, HeadTailProperties DEF l
  <2>3. /\ s \in Seq(Octet) /\ Len(s) = r + 1 + 1 - (n + 2)
        /\ \A i \in 1..r + 1 + 1 - (n + 2) : s[i] = read'[n + 2 + i - 1]
    <3>1. PICK b \in 0..Len(read') : b = r + 1
      BY <1>1
    <3>2. PICK a \in 1..b + 1 : a = n + 2
      BY <1>1, <3>1
    <3>3. /\ SubSeq(read', a, b) \in Seq(Octet) /\ Len(SubSeq(read', a, b)) = b + 1 - a
          /\ \A i \in 1..b + 1 - a : SubSeq(read', a, b)[i] = read'[a + i - 1]
      BY <1>4, SubSeqFacts
    <3>4. QED BY <3>1, <3>2, <3>3, Zenon
  <2> HIDE DEF s
  <2>4. Len(s) = r - n /\ \A i \in 1..r - n : s[i] = ls[i + 1]
    <3>1. r + 1 + 1 - (n + 2) = r - n
      BY <1>1
    <3>2. ASSUME NEW i \in 1..r - n PROVE s[i] = ls[i + 1]
      <4>1. i + 1 \in 1..r + 1 - n /\ n + 2 + i - 1 = n + (i + 1)
        BY <1>1
      <4>2. s[i] = read'[n + 2 + i - 1]
        BY <2>3, <3>1
      <4>3. read'[n + (i + 1)] = ls[i + 1]
        BY <1>6, <4>1
      <4>4. QED BY <4>1, <4>2, <4>3, Zenon
    <3>3. QED BY <2>3, <3>1, <3>2
  <2>5. r - n \in 0..Len(t) /\ r - n \in 0..l - 1
    BY <1>1, <2>2
  <2> HIDE DEF s, t
  <2> DEFINE u == SubSeq(t, 1, r - n)
  <2>6. u \in Seq(Octet) /\ Len(u) = r - n /\ \A i \in 1..r - n : u[i] = t[i]
    <3>1. 1 \in 1..(r - n) + 1 /\ (r - n) + 1 - 1 = r - n /\ \A i \in 1..r - n : 1 + i - 1 = i
      BY <1>1
    <3>2. QED BY <2>2, <2>5, <3>1, SubSeqFacts
  <2> HIDE DEF u
  <2>7. ASSUME NEW i \in 1..r - n PROVE s[i] = u[i]
    <3>1. i \in 1..l - 1
      BY <1>1, <2>5
    <3>2. QED BY <2>2, <2>4, <2>6, <3>1
  <2>8. s = u
    BY <2>3, <2>4, <2>6, <2>7, SeqEqual
  <2>9. QED BY <2>2, <2>3, <2>5, <2>8 DEF u
<1>12. len * 256 + o <= h.length /\ (r + 1 = n + l => len * 256 + o = h.length)
  <2>1. PICK b \in Nat \ {0} : b = 256
    OBVIOUS
  <2>2. Value(b, s) = len * 256 + o /\ Value(b, t) = h.length
    BY <1>8, <1>10, <2>1
  <2> HIDE DEF s, t
  <2>3. t \in Seq(Nat)
    BY <1>11, OctetsAreNumbers
  <2>4. Value(b, s) <= Value(b, t)
    BY <1>11, <2>3, ValueOfPrefix
  <2>5. r + 1 = n + l => s = t
    <3>1. r + 1 = n + l => r - n = Len(t)
      BY <1>1, <1>11
    <3>2. QED BY <1>11, <3>1, SubSeqFull
  <2>6. QED BY <2>2, <2>4, <2>5
<1>13. ~LengthFull
  <2>1. SUFFICES ASSUME LengthFull PROVE FALSE
    OBVIOUS
  <2>2. len > SizeMax \div 256 /\ SizeMax = (SizeMax \div 256) * 256 + 255
    BY <2>1, TagDecodeAssumption DEF LengthFull
  <2>3. o \in Nat /\ len \in Nat
    <3>1. o \in Nat
      BY DEF Octet
    <3>2. len \in 0..SizeMax
      BY DEF Decoding, IInv, TypeOK
    <3>3. QED BY <3>1, <3>2, Widths
  <2>4. len * 256 + o <= SizeMax
    <3>1. h.length \in 0..SizeMax
      BY <1>1
    <3>2. QED BY <1>12, <2>3, <3>1, Widths
  <2>5. QED BY <2>2, <2>3, <2>4, Widths
<1>14. len' = len * 256 + o
  BY <1>10, <1>13, RoomInLength DEF GotLengthOctet
<1>15. CASE left > 1 /\ Awaits("octets")
  <2>1. r + 1 < n + l
    BY <1>1, <1>9, <1>15
  <2>2. QED BY <1>1, <1>15, <2>1 DEF Awaits, Advances, Decoding, Shown, n, l, r
<1>16. CASE left = 1
  <2>1. r + 1 = n + l
    BY <1>1, <1>9, <1>16
  <2>2. len' = h.length /\ ~(len' <= 127)
    BY <1>1, <1>8, <1>12, <1>14, <2>1
  <2>3. Completes(Shape, len')
    BY <1>13, <1>16, <2>2 DEF GotLengthOctet
  <2>4. Decoded(Shape, tn, h.length) = AsRead(h)
    BY <1>1, <1>8, StoresHeader
  <2>5. ~(Len(read') < n + l)
    BY <1>1, <2>1
  <2>6. QED BY <2>2, <2>3, <2>4, <2>5 DEF Completes, Advances, n, l
<1>17. QED BY <1>13, <1>15, <1>16 DEF GotLengthOctet

(* Every octet of the header is taken: after the last one the call has     *)
(* completed with the header, and after any other it waits for the next.   *)
LEMMA HeaderAdvances ==
  ASSUME NEW is, NEW ls, NEW h, Decoding, pc # "done", Denoting(is, ls, h), Amid(is, ls),
         NEW o \in Octet, Follows(is, ls, o), Get(o)
  PROVE  /\ Decoding' /\ Advances(is, ls, h)
         /\ Len(read') = Len(read) + 1
         /\ \A i \in 1..Len(read') : read'[i] = OctetAt(is, ls, i)
<1>1. read' = Append(read, o)
  BY DEF Get
<1>2. /\ Len(read) \in Nat /\ Len(read') = Len(read) + 1
      /\ \A i \in 1..Len(read') : read'[i] = OctetAt(is, ls, i)
  <2>1. /\ Len(read) \in Nat /\ Len(read') = Len(read) + 1 /\ read'[Len(read) + 1] = o
        /\ \A i \in 1..Len(read) : read'[i] = read[i]
    BY <1>1, ReadGrows DEF Decoding
  <2>2. \A i \in 1..Len(read) : read'[i] = OctetAt(is, ls, i)
    BY <2>1 DEF Amid
  <2>3. read'[Len(read) + 1] = OctetAt(is, ls, Len(read) + 1)
    BY <2>1 DEF Follows
  <2>4. \A i \in 1..Len(read') : i \in 1..Len(read) \/ i = Len(read) + 1
    BY <2>1
  <2>5. QED BY <2>1, <2>2, <2>3, <2>4
<1>3. ASSUME result' = "none", Len(read) < Len(is) PROVE Advances(is, ls, h)
  <2>1. Len(is) \in Nat /\ Len(ls) \in Nat \ {0}
    BY HeaderOctets
  <2>2. Len(read') < Len(is) + Len(ls)
    BY <1>2, <1>3, <2>1
  <2>3. QED BY <1>3, <2>2 DEF Advances
<1>4. Advances(is, ls, h)
  <2>1. CASE GotIdentifier(o)
    <3>1. read = << >>
      BY <2>1, Phases DEF GotIdentifier
    <3>2. Len(read) < Len(is)
      BY <3>1, HeaderOctets
    <3>3. QED BY <1>3, <2>1, <3>2, IdentifierAdvances
  <2>2. CASE GotNumberFirst(o)
    BY <1>1, <1>3, <2>2, NumberFirstAdvances
  <2>3. CASE GotNumberFollowing(o)
    BY <1>1, <1>3, <2>3, NumberFollowingAdvances
  <2>4. CASE GotLength(o)
    BY <1>1, <2>4, LengthAdvances
  <2>5. CASE GotLengthOctet(o)
    BY <1>1, <2>5, LengthOctetAdvances
  <2>6. QED BY <2>1, <2>2, <2>3, <2>4, <2>5 DEF Get
<1>5. QED BY <1>2, <1>4, GetDecodes
=============================================================================
