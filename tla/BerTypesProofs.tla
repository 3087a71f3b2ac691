--------------------------- MODULE BerTypesProofs ---------------------------
(***************************************************************************)
(* For every width of the integers and of the components and every         *)
(* content: the type invariant of BerTypes, and what the decoders of       *)
(* integers and object identifiers hold of the content.                    *)
(***************************************************************************)
EXTENDS BerTypes, ProofFacts, FiniteSetTheorems

LEMMA Widths ==
  /\ IntMax \in Nat /\ CompMax \in Nat
  /\ IntSize \in Nat \ {0} /\ CompSize \in Nat \ {0}
  /\ CompBsize \in Nat /\ CompBsize >= 8
<1>1. IntSize \in Nat \ {0} /\ CompSize \in Nat \ {0}
  BY BerTypesAssumption
<1>2. IntSize * 8 \in Nat /\ CompSize * 8 \in Nat /\ CompSize * 8 >= 8
  BY <1>1
<1>3. QED BY <1>1, <1>2, AllOnesStep DEF IntMax, CompMax, CompBsize

-----------------------------------------------------------------------------
(* Type correctness.                                                       *)

LEMMA BitsType ==
  ASSUME NEW o \in Octet
  PROVE  Bits(o) \in Seq({0, 1})
  BY DEF Bits

(* What is pushed for a component are numbers.                             *)
LEMMA PushesType ==
  ASSUME NEW c \in Nat
  PROVE  Pushes(c) \in Seq(Nat)
<1>1. TwoFirst(c) \in Seq(Nat)
  <2>1. CASE c < 40
    BY <2>1 DEF TwoFirst
  <2>2. CASE c \in 40..79
    BY <2>2 DEF TwoFirst
  <2>3. CASE c >= 80
    BY <2>3 DEF TwoFirst
  <2>4. QED BY <2>1, <2>2, <2>3
<1>2. QED BY <1>1 DEF Pushes

(* An integer past its limit ends the call; a component past its limit     *)
(* takes no more octets.                                                   *)
Bounded ==
  /\ waits # "done" => size <= IntSize
  /\ waits # "done" => bsize <= CompBsize + 7

IInv == TypeOK /\ Bounded

LEMMA BooleanStep ==
  ASSUME IInv, NEW o \in Octet, Get(o), GotBoolean(o) PROVE IInv'
<1>1. /\ UNCHANGED <<kind, size, pushed, comp, bsize>>
      /\ waits' = "done" /\ outcome' = "complete" /\ value' \in {0, 1}
      /\ content' \in Seq(Octet)
  BY AppendProperties DEF Get, GotBoolean, Returns, IInv, TypeOK
<1>2. IntMax >= 1
  <2>1. 1 \in Nat /\ IntSize * 8 \in Nat /\ 1 <= IntSize * 8
    BY Widths
  <2>2. AllOnes(0 + 1) = 2 * AllOnes(0) + 1 /\ AllOnes(0) \in Nat
    BY AllOnesStep
  <2>3. AllOnes(1) >= 1
    BY <2>2
  <2>4. AllOnes(1) <= IntMax /\ AllOnes(1) \in Nat
    BY <2>1, AllOnesGrow, AllOnesStep DEF IntMax
  <2>5. QED BY <2>3, <2>4, Widths
<1>3. QED BY <1>1, <1>2, Widths DEF IInv, TypeOK, Bounded

LEMMA IntegerStep ==
  ASSUME IInv, NEW o \in Octet, Get(o), GotInteger(o) PROVE IInv'
<1>1. UNCHANGED <<kind, pushed, comp, bsize>> /\ waits # "done" /\ content' \in Seq(Octet)
  BY AppendProperties DEF Get, GotInteger, IInv, TypeOK
<1>2. /\ waits' \in {"more", "done"} /\ outcome' \in {outcome, "overflow"}
      /\ value' \in 0..IntMax /\ size' \in 0..IntSize + 1
      /\ waits' # "done" => size' <= IntSize
  <2>1. CASE waits = "first" /\ value' = o /\ Awaits("more") /\ UNCHANGED size
    <3>1. o \in 0..IntMax
      <4>1. 8 \in Nat /\ IntSize * 8 \in Nat /\ 8 <= IntSize * 8
        BY Widths
      <4>2. AllOnes(7 + 1) = 2 * AllOnes(7) + 1 /\ AllOnes(0 + 7) = 128 * AllOnes(0) + 127
            /\ AllOnes(0) \in Nat
        BY AllOnesStep, AllOnesSeven
      <4>3. AllOnes(8) >= 255
        BY <4>2
      <4>4. AllOnes(8) <= IntMax /\ AllOnes(8) \in Nat
        BY <4>1, AllOnesGrow, AllOnesStep DEF IntMax
      <4>5. QED BY <4>3, <4>4, Widths DEF Octet
    <3>2. QED BY <2>1, <3>1 DEF IInv, TypeOK, Bounded, Awaits
  <2>2. CASE waits = "more" /\ size' = size + 1
    <3>1. size' \in 0..IntSize + 1
      BY <2>2, Widths DEF IInv, TypeOK, Bounded
    <3>2. CASE TooLong /\ Returns("overflow") /\ UNCHANGED value
      BY <2>2, <3>1, <3>2 DEF IInv, TypeOK, Returns
    <3>3. CASE ~TooLong /\ value' = Truncated(IntMax, value * 256 + o) /\ Awaits("more")
      <4>1. value * 256 + o \in Nat
        BY Widths DEF IInv, TypeOK, Octet
      <4>2. value' \in 0..IntMax
        BY <3>3, <4>1, Widths, TruncatedIsModulo
      <4>3. size' <= IntSize
        BY <3>1, <3>3, Widths DEF TooLong
      <4>4. QED BY <3>1, <3>3, <4>2, <4>3 DEF Awaits
    <3>4. QED BY <2>2, <3>2, <3>3 DEF GotInteger
  <2>3. QED BY <2>1, <2>2 DEF GotInteger
<1>3. QED BY <1>1, <1>2 DEF IInv, TypeOK, Bounded

LEMMA StringStep ==
  ASSUME IInv, NEW o \in Octet, Get(o), GotString(o) PROVE IInv'
<1>1. /\ UNCHANGED <<kind, value, size, comp, bsize, outcome>>
      /\ waits' = "more" /\ waits # "done" /\ content' \in Seq(Octet)
  BY AppendProperties DEF Get, GotString, Awaits, IInv, TypeOK
<1>2. pushed' \in Seq(Nat) /\ (kind = "bit_string" => pushed' \in Seq({0, 1}))
  <2>1. CASE kind = "bit_string"
    <3>1. pushed \in Seq({0, 1}) /\ Bits(o) \in Seq({0, 1}) /\ pushed' = pushed \o Bits(o)
      BY <2>1, BitsType DEF IInv, TypeOK, GotString
    <3>2. pushed' \in Seq({0, 1})
      BY <3>1, ConcatProperties
    <3>3. QED BY <3>2, SeqMonotonic
  <2>2. CASE kind # "bit_string"
    <3>1. pushed \in Seq(Nat) /\ <<o>> \in Seq(Nat) /\ pushed' = pushed \o <<o>>
      BY <2>2 DEF IInv, TypeOK, GotString, Octet
    <3>2. QED BY <2>2, <3>1, ConcatProperties
  <2>3. QED BY <2>1, <2>2
<1>3. QED BY <1>1, <1>2 DEF IInv, TypeOK, Bounded

(* A component takes seven more bits.                                      *)
LEMMA ShiftedType ==
  ASSUME IInv, NEW o \in Octet
  PROVE  Shifted(o) \in 0..CompMax /\ Shifted(o) \in Nat
<1>1. Low7(o) \in Nat
  BY DEF Low7, Octet
<1>2. comp * 128 + Low7(o) \in Nat
  BY <1>1, Widths DEF IInv, TypeOK
<1>3. Shifted(o) \in 0..CompMax
  BY <1>2, Widths, TruncatedIsModulo DEF Shifted
<1>4. QED BY <1>3, Widths

LEMMA OidStep ==
  ASSUME IInv, NEW o \in Octet, Get(o), GotOid(o) PROVE IInv'
<1>1. /\ UNCHANGED <<kind, value, size>> /\ kind = "oid" /\ waits # "done"
      /\ content' \in Seq(Octet)
  BY AppendProperties DEF Get, GotOid, IInv, TypeOK
<1>2. CASE Returns("overflow") /\ UNCHANGED <<pushed, comp, bsize>>
  BY <1>1, <1>2 DEF IInv, TypeOK, Bounded, Returns
<1>3. CASE ~ComponentFull /\ comp' = Shifted(o) /\ bsize' = bsize + 7 /\ Awaits("component")
           /\ UNCHANGED pushed
  <2>1. comp' \in 0..CompMax
    BY <1>3, ShiftedType
  <2>2. bsize' \in 14..CompBsize + 14 /\ bsize' <= CompBsize + 7
    BY <1>3, Widths DEF IInv, TypeOK, ComponentFull
  <2>3. QED BY <1>1, <1>3, <2>1, <2>2 DEF IInv, TypeOK, Bounded, Awaits
<1>4. CASE pushed' = pushed \o Pushes(Shifted(o)) /\ comp' = 0 /\ bsize' = 14 /\ Awaits("more")
  <2>1. pushed' \in Seq(Nat)
    <3>1. pushed \in Seq(Nat) /\ Pushes(Shifted(o)) \in Seq(Nat)
      BY ShiftedType, PushesType DEF IInv, TypeOK
    <3>2. QED BY <1>4, <3>1, ConcatProperties
  <2>2. comp' \in 0..CompMax /\ bsize' \in 14..CompBsize + 14 /\ bsize' <= CompBsize + 7
    BY <1>4, Widths
  <2>3. QED BY <1>1, <1>4, <2>1, <2>2 DEF IInv, TypeOK, Bounded, Awaits
<1>5. QED BY <1>2, <1>3, <1>4 DEF GotOid

LEMMA EndStep ==
  ASSUME IInv, GetFails \/ Unimplemented PROVE IInv'
<1>1. /\ UNCHANGED <<kind, value, size, pushed, comp, bsize, content>>
      /\ waits' = "done"
      /\ outcome' \in {"empty", "incomplete", "complete", "unimplemented"}
  BY DEF GetFails, Unimplemented, Returns
<1>2. QED BY <1>1 DEF IInv, TypeOK, Bounded

LEMMA Initially == Init => IInv
<1> SUFFICES ASSUME NEW k \in Kinds, Start(k) PROVE IInv
  BY DEF Init
<1>1. << >> \in Seq(Nat) /\ << >> \in Seq({0, 1}) /\ << >> \in Seq(Octet)
  OBVIOUS
<1>2. QED BY <1>1, Widths DEF Start, IInv, TypeOK, Bounded

LEMMA NextStep == IInv /\ [Next]_vars => IInv'
<1> SUFFICES ASSUME IInv, [Next]_vars PROVE IInv'
  OBVIOUS
<1>1. CASE \E o \in Octets : Get(o)
  <2>1. PICK o \in Octet : Get(o)
    BY <1>1, BerTypesAssumption
  <2>2. QED BY <2>1, BooleanStep, IntegerStep, StringStep, OidStep DEF Get
<1>2. CASE GetFails \/ Unimplemented
  BY <1>2, EndStep
<1>3. CASE UNCHANGED vars
  BY <1>3 DEF vars, IInv, TypeOK, Bounded
<1>4. QED BY <1>1, <1>2, <1>3 DEF Next

THEOREM Invariance == Spec => []IInv
  BY Initially, NextStep, PTL DEF Spec

(* Every value the decoders hold is one of its type, and a size that       *)
(* counts octets or bits never passes its limit by more than the last one. *)
THEOREM TypeCorrect == Spec => []TypeOK
<1>1. IInv => TypeOK
  BY DEF IInv
<1>2. QED BY <1>1, Invariance, PTL

-----------------------------------------------------------------------------
(* Integers.  Until the call ends, the value is that of the content with   *)
(* the high octets lost, and the size is one less than the content's.      *)
IntegerShown ==
  kind = "integer" =>
    /\ waits \in {"first", "more", "done"}
    /\ waits = "first" => content = << >> /\ size = 0
    /\ waits = "more" => /\ Len(content) = size + 1
                         /\ value = Value(256, content) % (IntMax + 1)
    /\ waits # "done" => outcome = "none"

IntegerInv == IInv /\ IntegerShown /\ IntegerIsContentModulo

LEMMA IntegerShownStep ==
  ASSUME IntegerInv, NEW o \in Octet, Get(o), GotInteger(o)
  PROVE  IntegerShown' /\ IntegerIsContentModulo'
<1>1. /\ kind = "integer" /\ kind' = "integer" /\ content' = Append(content, o)
      /\ content \in Seq(Octet) /\ waits # "done" /\ outcome = "none"
  BY DEF Get, GotInteger, IntegerInv, IntegerShown, IInv, TypeOK
<1>2. /\ Len(content') = Len(content) + 1 /\ Len(content) \in Nat
      /\ Value(256, content') = Value(256, content) * 256 + o /\ Value(256, content) \in Nat
  BY <1>1, OctetsAppend
<1>3. CASE waits = "first" /\ value' = o /\ Awaits("more") /\ UNCHANGED size
  <2>1. content = << >> /\ size = 0
    BY <1>1, <1>3 DEF IntegerInv, IntegerShown
  <2>2. Value(256, << >>) = 0 /\ Len(<< >>) = 0
    BY ValueEmpty, EmptySeq
  <2>3. Len(content') = size' + 1 /\ Value(256, content') = o
    <3>1. Value(256, content) = 0 /\ Len(content) = 0
      BY <2>1, <2>2, Zenon
    <3>2. QED BY <1>2, <1>3, <2>1, <3>1 DEF Octet
  <2>4. o % (IntMax + 1) = o
    <3>1. o \in 0..IntMax
      <4>1. value' \in 0..IntMax
        BY <1>1, IntegerStep DEF IntegerInv, IInv, TypeOK
      <4>2. QED BY <1>3, <4>1
    <3>2. QED BY <3>1, Widths
  <2>5. QED BY <1>1, <1>3, <2>3, <2>4 DEF Awaits, IntegerShown, IntegerIsContentModulo
<1>4. CASE waits = "more" /\ size' = size + 1 /\ TooLong /\ Returns("overflow")
  <2>1. Len(content) = size + 1 /\ size \in 0..IntSize /\ size + 1 > IntSize
    BY <1>1, <1>4 DEF IntegerInv, IntegerShown, IInv, TypeOK, Bounded, TooLong
  <2>2. Len(content') = IntSize + 2
    BY <1>2, <2>1, Widths
  <2>3. QED BY <1>1, <1>4, <2>2 DEF Returns, IntegerShown, IntegerIsContentModulo
<1>5. CASE waits = "more" /\ size' = size + 1 /\ ~TooLong /\ Awaits("more")
           /\ value' = Truncated(IntMax, value * 256 + o)
  <2>1. Len(content') = size' + 1
    BY <1>1, <1>2, <1>5 DEF IntegerInv, IntegerShown
  <2>2. value = Value(256, content) % (IntMax + 1) /\ value \in Nat
    BY <1>1, <1>5, Widths DEF IntegerInv, IntegerShown, IInv, TypeOK
  <2>3. value' = (value * 256 + o) % (IntMax + 1)
    <3>1. value * 256 + o \in Nat
      BY <2>2 DEF Octet
    <3>2. QED BY <1>5, <3>1, TruncatedIsModulo, Widths
  <2>4. IntMax + 1 \in Nat \ {0} /\ o \in Nat
    BY Widths DEF Octet
  <2>5. ((Value(256, content) % (IntMax + 1)) * 256 + o) % (IntMax + 1)
          = (Value(256, content) * 256 + o) % (IntMax + 1)
    <3>1. PICK b \in Nat : b = 256
      OBVIOUS
    <3>2. PICK v \in Nat : v = Value(256, content)
      BY <1>2
    <3>3. PICK m \in Nat \ {0} : m = IntMax + 1
      BY <2>4
    <3>4. PICK d \in Nat : d = o
      BY <2>4
    <3>5. ((v % m) * b + d) % m = (v * b + d) % m
      BY ModuloStep, ZenonT(40)
    <3>6. QED BY <3>1, <3>2, <3>3, <3>4, <3>5, Zenon
  <2>6. value' = Value(256, content') % (IntMax + 1)
    BY <1>2, <2>2, <2>3, <2>5, Zenon
  <2>7. QED BY <1>1, <1>5, <2>1, <2>6 DEF Awaits, IntegerShown, IntegerIsContentModulo
<1>6. QED BY <1>3, <1>4, <1>5 DEF GotInteger

LEMMA IntegerNextStep == IntegerInv /\ [Next]_vars => IntegerInv'
<1> SUFFICES ASSUME IntegerInv, [Next]_vars PROVE IntegerInv'
  OBVIOUS
<1>1. IInv'
  BY NextStep DEF IntegerInv
<1>2. CASE kind # "integer"
  <2>1. kind' = kind
    BY DEF Next, Get, GetFails, Unimplemented, vars
  <2>2. QED BY <1>1, <1>2, <2>1 DEF IntegerInv, IntegerShown, IntegerIsContentModulo
<1>3. CASE kind = "integer" /\ \E o \in Octets : Get(o)
  <2>1. PICK o \in Octet : Get(o)
    BY <1>3, BerTypesAssumption
  <2>2. GotInteger(o)
    BY <1>3, <2>1 DEF Get, GotBoolean, GotString, GotOid
  <2>3. QED BY <1>1, <2>1, <2>2, IntegerShownStep DEF IntegerInv
<1>4. CASE kind = "integer" /\ (GetFails \/ Unimplemented)
  <2>1. /\ UNCHANGED <<kind, value, size, content>> /\ waits' = "done" /\ outcome' # "overflow"
        /\ waits = "more" \/ outcome' # "complete"
    BY <1>4 DEF GetFails, Unimplemented, Returns
  <2>2. ASSUME waits = "more" PROVE Len(content) <= IntSize + 1
    BY <1>4, <2>2, Widths DEF IntegerInv, IntegerShown, IInv, TypeOK, Bounded
  <2>3. QED BY <1>1, <1>4, <2>1, <2>2 DEF IntegerInv, IntegerShown, IntegerIsContentModulo
<1>5. CASE UNCHANGED vars
  BY <1>1, <1>5 DEF vars, IntegerInv, IntegerShown, IntegerIsContentModulo
<1>6. QED BY <1>2, <1>3, <1>4, <1>5 DEF Next

(* An integer completes with the low octets of its content, which is at    *)
(* most one octet longer than the type, and an overflow is returned at the *)
(* second octet too many: whatever the content and the width of the type.  *)
THEOREM AlwaysContentModulo == Spec => []IntegerIsContentModulo
<1>1. Init => IntegerInv
  BY Initially DEF Init, Start, IntegerInv, IntegerShown, IntegerIsContentModulo
<1>2. IntegerInv => IntegerIsContentModulo
  BY DEF IntegerInv
<1>3. QED BY <1>1, <1>2, IntegerNextStep, PTL DEF Spec

-----------------------------------------------------------------------------
(* The last octets of the components.                                      *)

LEMMA EndsAppend ==
  ASSUME NEW os \in Seq(Octet), NEW o \in Octet
  PROVE  /\ Len(os) \in Nat /\ Len(Append(os, o)) = Len(os) + 1
         /\ Append(os, o) \in Seq(Octet)
         /\ Ends(os) \subseteq 1..Len(os)
         /\ Ends(Append(os, o)) = IF More(o) THEN Ends(os) ELSE Ends(os) \cup {Len(os) + 1}
<1> DEFINE n == Len(os)
           es == Append(os, o)
<1>1. /\ n \in Nat /\ Len(es) = n + 1 /\ es \in Seq(Octet)
      /\ es[n + 1] = o /\ \A i \in 1..n : es[i] = os[i]
  BY AppendProperties, LenProperties
<1>2. DOMAIN os = 1..n /\ DOMAIN es = 1..n + 1
  BY <1>1, LenProperties
<1> HIDE DEF n, es
<1>3. Ends(os) \subseteq 1..n
  BY <1>2 DEF Ends
<1>4. Ends(es) = IF More(o) THEN Ends(os) ELSE Ends(os) \cup {n + 1}
  <2>1. ASSUME NEW i \in 1..n PROVE i \in Ends(es) <=> i \in Ends(os)
    BY <1>1, <1>2 DEF Ends
  <2>2. n + 1 \in Ends(es) <=> ~More(o)
    BY <1>1, <1>2 DEF Ends
  <2>3. Ends(es) \subseteq 1..n + 1
    BY <1>2 DEF Ends
  <2>4. 1..n + 1 = 1..n \cup {n + 1}
    BY <1>1
  <2> DEFINE E == Ends(os)
             F == Ends(es)
  <2> HIDE DEF E, F
  <2>5. /\ \A i \in 1..n : i \in F <=> i \in E
        /\ n + 1 \in F <=> ~More(o)
        /\ F \subseteq 1..n \cup {n + 1} /\ E \subseteq 1..n /\ n + 1 \notin E
    <3>1. n + 1 \notin 1..n
      BY <1>1
    <3>2. QED BY <1>3, <2>1, <2>2, <2>3, <2>4, <3>1 DEF E, F
  <2>6. F = IF More(o) THEN E ELSE E \cup {n + 1}
    <3>1. CASE More(o)
      <4>1. \A i : i \in F <=> i \in E
        BY <2>5, <3>1
      <4>2. QED BY <3>1, <4>1
    <3>2. CASE ~More(o)
      <4>1. \A i : i \in F <=> i \in E \cup {n + 1}
        BY <2>5, <3>2
      <4>2. QED BY <3>2, <4>1
    <3>3. QED BY <3>1, <3>2
  <2>7. QED BY <2>6 DEF E, F
<1>5. QED BY <1>1, <1>3, <1>4 DEF n, es

(* Before a number e there is a place from which on there is no element    *)
(* of a set, and which the element before it, if any, begins.              *)
LEMMA BeginExists ==
  ASSUME NEW E, NEW e \in Nat \ {0}
  PROVE  \E b \in 1..e : (b = 1 \/ b - 1 \in E) /\ \A j \in b..e - 1 : j \notin E
<1> DEFINE T == {b \in 1..e : \A j \in b..e - 1 : j \notin E}
<1>1. e \in T /\ T \subseteq Nat
  OBVIOUS
<1>2. PICK b \in T : \A k \in T : b <= k
  <2> HIDE DEF T
  <2>1. QED BY <1>1, LeastNatural
<1>3. b = 1 \/ b - 1 \in E
  <2>1. SUFFICES ASSUME b # 1, b - 1 \notin E PROVE FALSE
    OBVIOUS
  <2>2. b - 1 \in 1..e /\ ~(b <= b - 1)
    BY <2>1
  <2>3. \A j \in b - 1..e - 1 : j = b - 1 \/ j \in b..e - 1
    OBVIOUS
  <2>4. b - 1 \in T
    BY <2>1, <2>2, <2>3
  <2>5. QED BY <1>2, <2>2, <2>4
<1>4. QED BY <1>2, <1>3

(* There is only one such place.                                           *)
LEMMA BeginUnique ==
  ASSUME NEW E, NEW e \in Nat, NEW b \in 1..e, NEW c \in 1..e,
         b = 1 \/ b - 1 \in E, \A j \in b..e - 1 : j \notin E,
         c = 1 \/ c - 1 \in E, \A j \in c..e - 1 : j \notin E
  PROVE  b = c
<1>1. CASE b < c
  <2>1. c - 1 \in b..e - 1 /\ c # 1
    BY <1>1
  <2>2. QED BY <2>1
<1>2. CASE c < b
  <2>1. b - 1 \in c..e - 1 /\ b # 1
    BY <1>2
  <2>2. QED BY <2>1
<1>3. QED BY <1>1, <1>2

LEMMA BeginOfType ==
  ASSUME NEW os, NEW e \in Nat \ {0}
  PROVE  /\ BeginOf(os, e) \in 1..e
         /\ BeginOf(os, e) = 1 \/ BeginOf(os, e) - 1 \in Ends(os)
         /\ \A j \in BeginOf(os, e)..e - 1 : j \notin Ends(os)
<1>1. \E b \in 1..e : (b = 1 \/ b - 1 \in Ends(os)) /\ \A j \in b..e - 1 : j \notin Ends(os)
  BY BeginExists
<1>2. QED BY <1>1, Zenon DEF BeginOf

(* The component that ends at an octet is not touched by a later one.      *)
LEMMA OldComponent ==
  ASSUME NEW os \in Seq(Octet), NEW o \in Octet, NEW e \in Ends(os)
  PROVE  ComponentTo(Append(os, o), e) = ComponentTo(os, e)
<1> DEFINE n == Len(os)
           es == Append(os, o)
           b == BeginOf(os, e)
           c == BeginOf(es, e)
<1>1. /\ n \in Nat /\ e \in 1..n /\ e \in Nat \ {0}
      /\ \A j \in 1..n : j \in Ends(es) <=> j \in Ends(os)
  <2>1. n \in Nat /\ Ends(os) \subseteq 1..n
        /\ (Ends(es) = IF More(o) THEN Ends(os) ELSE Ends(os) \cup {n + 1})
    BY EndsAppend
  <2> HIDE DEF n, es
  <2>2. \A j \in 1..n : j # n + 1
    BY <2>1
  <2>3. QED BY <2>1, <2>2
<1>2. b \in 1..e /\ (b = 1 \/ b - 1 \in Ends(os)) /\ \A j \in b..e - 1 : j \notin Ends(os)
  BY <1>1, BeginOfType
<1>3. c \in 1..e /\ (c = 1 \/ c - 1 \in Ends(es)) /\ \A j \in c..e - 1 : j \notin Ends(es)
  BY <1>1, BeginOfType
<1> HIDE DEF b, c, n, es
<1>4. c = 1 \/ c - 1 \in Ends(os)
  <2>1. c = 1 \/ c - 1 \in 1..n
    BY <1>1, <1>3
  <2>2. QED BY <1>1, <1>3, <2>1
<1>5. \A j \in c..e - 1 : j \notin Ends(os)
  <2>1. \A j \in c..e - 1 : j \in 1..n
    BY <1>1, <1>3
  <2>2. QED BY <1>1, <1>3, <2>1
<1>6. b = c
  BY <1>1, <1>2, <1>3, <1>4, <1>5, BeginUnique
<1>7. SubSeq(es, b, e) = SubSeq(os, b, e)
  <2>1. e \in 0..Len(os) /\ b \in 1..e + 1
    BY <1>1, <1>2 DEF n
  <2>2. QED BY <2>1, SubSeqOfAppend DEF es
<1>8. QED BY <1>6, <1>7, Zenon DEF ComponentTo, b, c, es

-----------------------------------------------------------------------------
(* The last one of them.                                                   *)

LEMMA LastEndIs ==
  ASSUME NEW os \in Seq(Octet)
  PROVE  /\ LastEnd(os) \in 0..Len(os)
         /\ LastEnd(os) = 0 \/ LastEnd(os) \in Ends(os)
         /\ \A j \in LastEnd(os) + 1..Len(os) : j \notin Ends(os)
<1>1. Len(os) \in Nat /\ Ends(os) \subseteq 1..Len(os)
  BY EndsAppend, LenProperties DEF Ends
<1> DEFINE n == Len(os)
<1>2. CASE Ends(os) = {}
  BY <1>1, <1>2 DEF LastEnd
<1>3. CASE Ends(os) # {}
  <2>1. PICK b \in 1..n + 1 : (b = 1 \/ b - 1 \in Ends(os)) /\ \A j \in b..n : j \notin Ends(os)
    <3>1. n + 1 \in Nat \ {0} /\ (n + 1) - 1 = n
      BY <1>1
    <3>2. \E b \in 1..n + 1 : (b = 1 \/ b - 1 \in Ends(os))
                              /\ \A j \in b..(n + 1) - 1 : j \notin Ends(os)
      BY <3>1, BeginExists
    <3>3. QED BY <3>1, <3>2
  <2>2. b - 1 \in Ends(os) /\ \A f \in Ends(os) : f <= b - 1
    BY <1>1, <1>3, <2>1
  <2>3. LastEnd(os) \in Ends(os) /\ \A f \in Ends(os) : f <= LastEnd(os)
    <3>1. \E e \in Ends(os) : \A f \in Ends(os) : f <= e
      BY <2>2
    <3>2. QED BY <1>3, <3>1, Zenon DEF LastEnd
  <2>4. QED BY <1>1, <2>3
<1>4. QED BY <1>2, <1>3

LEMMA LastEndAppend ==
  ASSUME NEW os \in Seq(Octet), NEW o \in Octet
  PROVE  LastEnd(Append(os, o)) = IF More(o) THEN LastEnd(os) ELSE Len(os) + 1
<1> DEFINE es == Append(os, o)
           l == LastEnd(es)
           k == LastEnd(os)
           n == Len(os)
<1>1. /\ n \in Nat /\ es \in Seq(Octet) /\ Len(es) = n + 1 /\ Ends(os) \subseteq 1..n
      /\ Ends(es) = IF More(o) THEN Ends(os) ELSE Ends(os) \cup {n + 1}
  BY EndsAppend
<1>2. l \in 0..n + 1 /\ (l = 0 \/ l \in Ends(es)) /\ \A j \in l + 1..n + 1 : j \notin Ends(es)
  BY <1>1, LastEndIs
<1>3. k \in 0..n /\ (k = 0 \/ k \in Ends(os)) /\ \A j \in k + 1..n : j \notin Ends(os)
  BY LastEndIs
<1> HIDE DEF l, k, n, es
<1>4. CASE More(o)
  <2>1. Ends(es) = Ends(os)
    BY <1>1, <1>4
  <2>2. l \in 0..n /\ (l = 0 \/ l \in Ends(os)) /\ \A j \in l + 1..n : j \notin Ends(os)
    <3>1. l = 0 \/ l \in Ends(os)
      BY <1>2, <2>1
    <3>2. l \in 0..n
      BY <1>1, <1>2, <3>1
    <3>3. \A j \in l + 1..n : j \in l + 1..n + 1
      BY <1>1, <1>2
    <3>4. QED BY <1>2, <2>1, <3>1, <3>2, <3>3, Zenon
  <2>3. l = k
    BY <1>1, <1>3, <2>2
  <2>4. QED BY <1>4, <2>3 DEF l, k, es
<1>5. CASE ~More(o)
  <2>1. n + 1 \in Ends(es)
    BY <1>1, <1>5
  <2>2. l = n + 1
    BY <1>1, <1>2, <2>1
  <2>3. QED BY <1>5, <2>2 DEF l, n, es
<1>6. QED BY <1>4, <1>5

(* The groups after the last end, with one more.                           *)
LEMMA GroupsSince ==
  ASSUME NEW os \in Seq(Octet), NEW o \in Octet, NEW l \in 0..Len(os)
  PROVE  /\ Low7(o) \in Nat
         /\ Value(128, Groups(SubSeq(os, l + 1, Len(os)))) \in Nat
         /\ Value(128, Groups(SubSeq(Append(os, o), l + 1, Len(os) + 1)))
              = Value(128, Groups(SubSeq(os, l + 1, Len(os)))) * 128 + Low7(o)
<1> DEFINE s == SubSeq(os, l + 1, Len(os))
           t == SubSeq(Append(os, o), l + 1, Len(os) + 1)
<1>1. s \in Seq(Octet) /\ t = Append(s, o)
  <2>1. l + 1 \in 1..Len(os) + 1
    BY LenProperties
  <2>2. QED BY <2>1, SubSeqAppend, ZenonT(40)
<1> HIDE DEF s, t
<1>2. Groups(s) \in Seq(Nat) /\ Low7(o) \in Nat /\ Groups(t) = Append(Groups(s), Low7(o))
  BY <1>1, GroupsAppend
<1> DEFINE g == Groups(s)
           d == Low7(o)
<1> HIDE DEF g, d
<1>3. PICK b \in Nat : b = 128
  OBVIOUS
<1>4. g \in Seq(Nat) /\ d \in Nat
  BY <1>2 DEF g, d
<1>5. Value(b, g) \in Nat /\ Value(b, Append(g, d)) = Value(b, g) * b + d
  BY <1>4, ValueStep
<1>6. Value(128, Groups(s)) \in Nat /\ Value(128, Groups(t)) = Value(128, Groups(s)) * 128 + Low7(o)
  BY <1>2, <1>3, <1>5, Zenon DEF g, d
<1>7. QED BY <1>2, <1>6 DEF s, t

(* The component that a last octet ends.                                   *)
LEMMA NewComponent ==
  ASSUME NEW os \in Seq(Octet), NEW o \in Octet, ~More(o)
  PROVE  ComponentTo(Append(os, o), Len(os) + 1)
           = Value(128, Groups(SubSeq(os, LastEnd(os) + 1, Len(os)))) * 128 + Low7(o)
<1> DEFINE n == Len(os)
           es == Append(os, o)
           l == LastEnd(os)
           b == BeginOf(es, n + 1)
<1>1. /\ n \in Nat /\ n + 1 \in Nat \ {0} /\ Ends(es) = Ends(os) \cup {n + 1}
      /\ Ends(os) \subseteq 1..n /\ (n + 1) - 1 = n
  BY EndsAppend
<1>2. l \in 0..n /\ (l = 0 \/ l \in Ends(os)) /\ \A j \in l + 1..n : j \notin Ends(os)
  BY LastEndIs
<1>3. /\ b \in 1..n + 1 /\ (b = 1 \/ b - 1 \in Ends(es))
      /\ \A j \in b..(n + 1) - 1 : j \notin Ends(es)
  BY <1>1, BeginOfType
<1> HIDE DEF n, es, l, b
<1>4. b = l + 1
  <2>1. \A j \in b..n : j \notin Ends(os)
    BY <1>1, <1>3
  <2>2. b = 1 \/ b - 1 \in Ends(os)
    <3>1. b - 1 # n + 1
      BY <1>1, <1>3
    <3>2. QED BY <1>1, <1>3, <3>1
  <2>3. l + 1 \in 1..n + 1 /\ (l + 1 = 1 \/ (l + 1) - 1 \in Ends(os))
        /\ \A j \in l + 1..(n + 1) - 1 : j \notin Ends(os)
    BY <1>1, <1>2
  <2>4. n + 1 \in Nat /\ \A j \in b..(n + 1) - 1 : j \notin Ends(os)
    BY <1>1, <2>1
  <2>5. QED BY <1>3, <2>2, <2>3, <2>4, BeginUnique
<1>5. ComponentTo(es, n + 1) = Value(128, Groups(SubSeq(es, l + 1, n + 1)))
  BY <1>4, Zenon DEF ComponentTo, b
<1>6. QED BY <1>2, <1>5, GroupsSince DEF n, es, l

-----------------------------------------------------------------------------
(* The places of the components in the identifier.                         *)

LEMMA PlaceIs ==
  ASSUME NEW os \in Seq(Octet)
  PROVE  /\ Cardinality(Ends(os)) \in Nat
         /\ Cardinality(Ends(os)) = 0 <=> Ends(os) = {}
         /\ \A e \in Ends(os) : Place(os, e) \in 1..Cardinality(Ends(os))
<1>1. Len(os) \in Nat /\ Ends(os) \subseteq 1..Len(os)
  BY LenProperties DEF Ends
<1>2. IsFiniteSet(Ends(os))
  <2>1. IsFiniteSet(1..Len(os))
    BY <1>1, FS_Interval
  <2>2. QED BY <1>1, <2>1, FS_Subset
<1>3. Cardinality(Ends(os)) \in Nat
  BY <1>2, FS_CardinalityType
<1>4. Cardinality(Ends(os)) = 0 <=> Ends(os) = {}
  BY <1>2, FS_EmptySet
<1>5. ASSUME NEW e \in Ends(os) PROVE Place(os, e) \in 1..Cardinality(Ends(os))
  <2> DEFINE P == {f \in Ends(os) : f <= e}
  <2>1. P \subseteq Ends(os) /\ e \in P
    BY <1>1
  <2> HIDE DEF P
  <2>2. IsFiniteSet(P) /\ Cardinality(P) <= Cardinality(Ends(os))
    BY <1>2, <2>1, FS_Subset
  <2>3. Cardinality(P) \in Nat /\ Cardinality(P) # 0
    BY <2>1, <2>2, FS_CardinalityType, FS_EmptySet
  <2>4. Place(os, e) = Cardinality(P)
    BY DEF Place, P
  <2>5. QED BY <1>3, <2>2, <2>3, <2>4
<1>6. QED BY <1>3, <1>4, <1>5

LEMMA PlaceAppend ==
  ASSUME NEW os \in Seq(Octet), NEW o \in Octet, ~More(o)
  PROVE  /\ Cardinality(Ends(Append(os, o))) = Cardinality(Ends(os)) + 1
         /\ Place(Append(os, o), Len(os) + 1) = Cardinality(Ends(os)) + 1
         /\ \A e \in Ends(os) : Place(Append(os, o), e) = Place(os, e)
<1> DEFINE n == Len(os)
           es == Append(os, o)
           E == Ends(os)
           F == Ends(es)
<1>1. n \in Nat /\ E \subseteq 1..n /\ F = E \cup {n + 1}
  BY EndsAppend
<1> HIDE DEF n, es, E, F
<1>2. n + 1 \notin E /\ IsFiniteSet(E)
  <2>1. n + 1 \notin 1..n /\ IsFiniteSet(1..n)
    BY <1>1, FS_Interval
  <2>2. QED BY <1>1, <2>1, FS_Subset
<1>3. Cardinality(F) = Cardinality(E) + 1
  BY <1>1, <1>2, FS_AddElement
<1>4. {f \in F : f <= n + 1} = F
  <2>1. \A f \in F : f <= n + 1
    BY <1>1
  <2>2. QED BY <2>1
<1>5. ASSUME NEW e \in E PROVE {f \in F : f <= e} = {f \in E : f <= e}
  BY <1>1
<1>6. Place(es, n + 1) = Cardinality(F) /\ \A e \in E : Place(es, e) = Place(os, e)
  BY <1>4, <1>5, Zenon DEF Place, E, F
<1>7. QED BY <1>3, <1>6 DEF n, es, E, F

-----------------------------------------------------------------------------
(* What is pushed for the first component stands for it.                   *)
LEMMA TwoFirstStand ==
  ASSUME NEW c \in Nat
  PROVE  /\ TwoFirst(c) \in Seq(Nat) /\ Len(TwoFirst(c)) = 2
         /\ TwoFirst(c)[1] \in 0..2 /\ (TwoFirst(c)[1] < 2 => TwoFirst(c)[2] < 40)
         /\ 40 * TwoFirst(c)[1] + TwoFirst(c)[2] = c
<1>1. CASE c < 40
  BY <1>1 DEF TwoFirst
<1>2. CASE c \in 40..79
  BY <1>2 DEF TwoFirst
<1>3. CASE c >= 80
  BY <1>3 DEF TwoFirst
<1>4. QED BY <1>1, <1>2, <1>3

(* An octet that is not the last one of a component changes nothing.       *)
LEMMA OidGoesOn ==
  ASSUME NEW os \in Seq(Octet), NEW o \in Octet, More(o), NEW cs, IsOid(os, cs)
  PROVE  IsOid(Append(os, o), cs)
<1> DEFINE es == Append(os, o)
<1>1. Ends(es) = Ends(os)
  BY EndsAppend
<1>2. \A e \in Ends(os) : ComponentTo(es, e) = ComponentTo(os, e)
  BY OldComponent
<1>3. \A e : Place(es, e) = Place(os, e)
  BY <1>1, Zenon DEF Place
<1> HIDE DEF es
<1>4. QED BY <1>1, <1>2, <1>3, Zenon DEF IsOid, es

(* An octet that is adds the component to the identifier.                  *)
LEMMA OidGrows ==
  ASSUME NEW os \in Seq(Octet), NEW o \in Octet, ~More(o),
         NEW cs \in Seq(Nat), IsOid(os, cs),
         NEW c \in Nat, ComponentTo(Append(os, o), Len(os) + 1) = c
  PROVE  IsOid(Append(os, o), cs \o (IF cs = << >> THEN TwoFirst(c) ELSE <<c>>))
<1> DEFINE es == Append(os, o)
           n == Len(os)
           new == IF cs = << >> THEN TwoFirst(c) ELSE <<c>>
           ds == cs \o new
           k == Cardinality(Ends(os))
<1>1. /\ n \in Nat /\ Ends(es) = Ends(os) \cup {n + 1} /\ Ends(os) \subseteq 1..n
  BY EndsAppend
<1>2. /\ k \in Nat /\ (k = 0 <=> Ends(os) = {})
      /\ \A e \in Ends(os) : Place(os, e) \in 1..k
  BY PlaceIs
<1>3. /\ Cardinality(Ends(es)) = k + 1 /\ Place(es, n + 1) = k + 1
      /\ \A e \in Ends(os) : Place(es, e) = Place(os, e)
  BY PlaceAppend
<1>4. \A e \in Ends(os) : ComponentTo(es, e) = ComponentTo(os, e)
  BY OldComponent
<1>5. /\ Len(cs) \in Nat /\ Len(cs) = (IF k = 0 THEN 0 ELSE k + 1) /\ (cs = << >> <=> k = 0)
  <2>1. Len(cs) \in Nat /\ (cs = << >> <=> Len(cs) = 0)
    BY LenProperties, EmptySeq
  <2>2. Len(cs) = IF k = 0 THEN 0 ELSE k + 1
    BY <1>2 DEF IsOid
  <2>3. QED BY <1>2, <2>1, <2>2
<1>6. new \in Seq(Nat)
  BY TwoFirstStand
<1>7. /\ ds \in Seq(Nat) /\ Len(ds) = Len(cs) + Len(new)
      /\ \A i \in 1..Len(cs) + Len(new) : ds[i] = IF i <= Len(cs) THEN cs[i] ELSE new[i - Len(cs)]
  BY <1>6, ConcatProperties
<1>8. ComponentTo(es, n + 1) = c
  OBVIOUS
<1>9. new = IF k = 0 THEN TwoFirst(c) ELSE <<c>>
  BY <1>5
<1> HIDE DEF es, n, ds, k, new
<1>10. Len(ds) = k + 2
  <2>1. CASE k = 0
    <3>1. Len(cs) = 0 /\ Len(new) = 2
      BY <1>5, <1>9, <2>1, TwoFirstStand
    <3>2. QED BY <1>7, <2>1, <3>1
  <2>2. CASE k # 0
    <3>1. Len(cs) = k + 1 /\ Len(new) = 1
      BY <1>5, <1>9, <2>2
    <3>2. QED BY <1>2, <1>7, <3>1
  <2>3. QED BY <2>1, <2>2
<1>11. ASSUME NEW e \in Ends(os)
       PROVE  \/ /\ Place(es, e) = 1
                 /\ ds[1] \in 0..2 /\ (ds[1] < 2 => ds[2] < 40)
                 /\ 40 * ds[1] + ds[2] = ComponentTo(es, e)
              \/ Place(es, e) > 1 /\ ds[Place(es, e) + 1] = ComponentTo(es, e)
  <2>1. k # 0 /\ Len(cs) = k + 1
    BY <1>2, <1>5
  <2>2. \A i \in 1..k + 1 : ds[i] = cs[i]
    BY <1>2, <1>7, <1>10, <2>1
  <2>3. ds[1] = cs[1] /\ ds[2] = cs[2]
    BY <1>2, <2>1, <2>2
  <2>4. PICK p \in 1..k : p = Place(os, e)
    BY <1>2
  <2>5. ds[p + 1] = cs[p + 1]
    BY <1>2, <2>2
  <2>6. \/ p = 1 /\ cs[1] \in 0..2 /\ (cs[1] < 2 => cs[2] < 40)
           /\ 40 * cs[1] + cs[2] = ComponentTo(os, e)
        \/ p > 1 /\ cs[p + 1] = ComponentTo(os, e)
    BY <2>4, Zenon DEF IsOid
  <2>7. Place(es, e) = p /\ ComponentTo(es, e) = ComponentTo(os, e)
    BY <1>3, <1>4, <2>4
  <2>8. QED BY <2>3, <2>5, <2>6, <2>7, Zenon
<1>12. \/ /\ Place(es, n + 1) = 1
          /\ ds[1] \in 0..2 /\ (ds[1] < 2 => ds[2] < 40)
          /\ 40 * ds[1] + ds[2] = ComponentTo(es, n + 1)
       \/ Place(es, n + 1) > 1 /\ ds[Place(es, n + 1) + 1] = ComponentTo(es, n + 1)
  <2>1. CASE k = 0
    <3>1. new = TwoFirst(c) /\ Len(cs) = 0 /\ Place(es, n + 1) = 1 /\ Len(new) = 2
      BY <1>3, <1>5, <1>9, <2>1, TwoFirstStand
    <3>2. \A i \in 1..2 : ds[i] = new[i]
      BY <1>7, <3>1
    <3>3. ds[1] = new[1] /\ ds[2] = new[2]
      BY <3>2
    <3>4. QED BY <1>8, <3>1, <3>3, TwoFirstStand
  <2>2. CASE k # 0
    <3>1. new = <<c>> /\ Len(new) = 1 /\ Len(cs) = k + 1
      BY <1>5, <1>9, <2>2
    <3>2. k + 2 \in 1..Len(cs) + Len(new) /\ ~(k + 2 <= Len(cs)) /\ k + 2 - Len(cs) = 1
      BY <1>2, <3>1
    <3>3. ds[k + 2] = c
      BY <1>7, <3>1, <3>2, SMTT(30)
    <3>4. Place(es, n + 1) = k + 1 /\ k + 1 > 1 /\ (k + 1) + 1 = k + 2
      BY <1>2, <1>3, <2>2
    <3>5. QED BY <1>8, <3>3, <3>4
  <2>3. QED BY <2>1, <2>2
<1>13. Ends(es) # {} /\ Len(ds) = Cardinality(Ends(es)) + 1
  BY <1>1, <1>2, <1>3, <1>10
<1>14. IsOid(es, ds)
  <2>1. ASSUME NEW e \in Ends(es)
        PROVE  \/ /\ Place(es, e) = 1
                  /\ ds[1] \in 0..2 /\ (ds[1] < 2 => ds[2] < 40)
                  /\ 40 * ds[1] + ds[2] = ComponentTo(es, e)
               \/ Place(es, e) > 1 /\ ds[Place(es, e) + 1] = ComponentTo(es, e)
    <3>1. e \in Ends(os) \/ e = n + 1
      BY <1>1
    <3>2. QED BY <1>11, <1>12, <3>1, Zenon
  <2>2. QED BY <1>13, <2>1, Zenon DEF IsOid
<1>15. QED BY <1>14 DEF es, ds, new

-----------------------------------------------------------------------------
(* While the call gets octets, comp is the number of the groups since the  *)
(* last component ended, none of it lost, and bsize counts their bits,     *)
(* seven ahead of them and seven more.                                     *)
Since(os) == Len(os) - LastEnd(os)
Pending(os) == Value(128, Groups(SubSeq(os, LastEnd(os) + 1, Len(os))))

OidShown ==
  kind = "oid" /\ waits # "done" =>
    /\ comp = Pending(content) /\ comp <= AllOnes(7 * Since(content))
    /\ bsize = 14 + 7 * Since(content)
    /\ outcome = "none"

OidInv == IInv /\ OidShown /\ OidIsContent /\ OidOverflowIsReal

(* The component takes its next group whole, when its type has the bits.   *)
LEMMA ShiftedExactly ==
  ASSUME OidInv, kind = "oid", waits # "done", NEW o \in Octet, bsize <= CompBsize + 7
  PROVE  /\ Since(content) \in Nat
         /\ Shifted(o) = Pending(content) * 128 + Low7(o)
         /\ Shifted(o) <= AllOnes(7 * (Since(content) + 1))
<1> DEFINE g == Since(content)
<1>1. content \in Seq(Octet) /\ comp \in Nat /\ bsize = 14 + 7 * g
      /\ comp = Pending(content) /\ comp <= AllOnes(7 * g)
  BY Widths DEF OidInv, OidShown, IInv, TypeOK
<1>2. g \in Nat
  BY <1>1, LastEndIs, LenProperties DEF Since
<1>3. Low7(o) \in 0..127
  BY DEF Low7, Octet
<1> HIDE DEF g
<1>4. 7 * g \in Nat /\ 7 * g + 7 = 7 * (g + 1) /\ 7 * g + 7 <= CompBsize
  BY <1>1, <1>2, Widths
<1>5. AllOnes(7 * g + 7) = 128 * AllOnes(7 * g) + 127 /\ AllOnes(7 * g) \in Nat
  <2>1. PICK w \in Nat : w = 7 * g
    BY <1>4
  <2>2. AllOnes(w + 7) = 128 * AllOnes(w) + 127 /\ AllOnes(w) \in Nat
    BY AllOnesStep, AllOnesSeven
  <2>3. QED BY <2>1, <2>2
<1>6. comp * 128 + Low7(o) <= AllOnes(7 * g + 7) /\ comp * 128 + Low7(o) \in Nat
  <2>1. PICK a \in Nat : a = AllOnes(7 * g) /\ AllOnes(7 * g + 7) = 128 * a + 127
    BY <1>5
  <2>2. PICK d \in 0..127 : d = Low7(o)
    BY <1>3
  <2>3. comp \in Nat /\ comp <= a
    BY <1>1, <2>1
  <2>4. comp * 128 + d <= 128 * a + 127 /\ comp * 128 + d \in Nat
    BY <2>3
  <2>5. QED BY <2>1, <2>2, <2>4
<1>7. AllOnes(7 * g + 7) <= CompMax
  <2>1. 7 * g + 7 \in Nat
    BY <1>4
  <2>2. QED BY <1>4, <2>1, AllOnesGrow, Widths DEF CompMax
<1>8. Shifted(o) = comp * 128 + Low7(o)
  <2>1. comp * 128 + Low7(o) <= CompMax
    BY <1>5, <1>6, <1>7, Widths
  <2>2. QED BY <2>1 DEF Shifted, Truncated
<1>9. QED BY <1>1, <1>2, <1>4, <1>6, <1>8 DEF g

LEMMA SinceAppend ==
  ASSUME NEW os \in Seq(Octet), NEW o \in Octet
  PROVE  /\ Since(os) \in Nat
         /\ Since(Append(os, o)) = IF More(o) THEN Since(os) + 1 ELSE 0
         /\ More(o) => Pending(Append(os, o)) = Pending(os) * 128 + Low7(o)
         /\ ~More(o) => Pending(Append(os, o)) = 0
<1> DEFINE es == Append(os, o)
           n == Len(os)
           l == LastEnd(os)
<1>1. /\ n \in Nat /\ Len(es) = n + 1 /\ l \in 0..n /\ es \in Seq(Octet)
      /\ LastEnd(es) = IF More(o) THEN l ELSE n + 1
  BY EndsAppend, LastEndIs, LastEndAppend
<1>2. Since(os) \in Nat /\ Since(es) = IF More(o) THEN Since(os) + 1 ELSE 0
  <2>1. Since(os) = n - l /\ Since(es) = Len(es) - LastEnd(es)
    BY DEF Since
  <2> HIDE DEF es, n, l
  <2>2. QED BY <1>1, <2>1
<1>3. ASSUME More(o) PROVE Pending(es) = Pending(os) * 128 + Low7(o)
  <2>1. Value(128, Groups(SubSeq(es, l + 1, n + 1)))
          = Value(128, Groups(SubSeq(os, l + 1, n))) * 128 + Low7(o)
    BY <1>1, GroupsSince
  <2>2. LastEnd(es) = l /\ Len(es) = n + 1
    BY <1>1, <1>3
  <2> HIDE DEF es, n, l
  <2>3. Pending(es) = Value(128, Groups(SubSeq(es, l + 1, n + 1)))
    BY <2>2, Zenon DEF Pending
  <2>4. Pending(os) = Value(128, Groups(SubSeq(os, l + 1, n)))
    BY Zenon DEF Pending, n, l
  <2>5. QED BY <2>1, <2>3, <2>4, Zenon
<1>4. ASSUME ~More(o) PROVE Pending(es) = 0
  <2>1. SubSeq(es, LastEnd(es) + 1, Len(es)) = << >>
    <3>1. LastEnd(es) + 1 > Len(es)
      BY <1>1, <1>4
    <3>2. LastEnd(es) + 1 \in Int /\ Len(es) \in Int
      BY <1>1, <1>4
    <3> HIDE DEF es
    <3>3. QED BY <3>1, <3>2, SubSeqEmpty
  <2>2. Groups(<< >>) = << >>
    BY DEF Groups
  <2>3. Value(128, << >>) = 0
    <3>1. PICK b \in Nat : b = 128
      OBVIOUS
    <3>2. Value(b, << >>) = 0
      BY ValueEmpty
    <3>3. QED BY <3>1, <3>2
  <2> HIDE DEF es
  <2>4. QED BY <2>1, <2>2, <2>3, Zenon DEF Pending
<1>5. QED BY <1>2, <1>3, <1>4

LEMMA OidShownStep ==
  ASSUME OidInv, NEW o \in Octet, Get(o), GotOid(o)
  PROVE  OidShown' /\ OidIsContent' /\ OidOverflowIsReal'
<1>1. /\ kind = "oid" /\ kind' = "oid" /\ waits # "done" /\ outcome = "none"
      /\ content \in Seq(Octet) /\ pushed \in Seq(Nat) /\ IsOid(content, pushed)
      /\ content' = Append(content, o)
      /\ bsize <= CompBsize + 7 /\ bsize = 14 + 7 * Since(content)
  BY DEF Get, GotOid, OidInv, OidShown, OidIsContent, IInv, TypeOK, Bounded
<1>2. /\ Since(content) \in Nat
      /\ Since(content') = IF More(o) THEN Since(content) + 1 ELSE 0
      /\ More(o) => Pending(content') = Pending(content) * 128 + Low7(o)
      /\ ~More(o) => Pending(content') = 0
  BY <1>1, SinceAppend, Zenon
<1>3. /\ Shifted(o) = Pending(content) * 128 + Low7(o)
      /\ Shifted(o) <= AllOnes(7 * (Since(content) + 1))
      /\ Shifted(o) \in Nat
  BY <1>1, ShiftedExactly, ShiftedType DEF OidInv
<1>4. CASE More(o) /\ ComponentFull /\ Returns("overflow") /\ UNCHANGED <<pushed, comp, bsize>>
  <2>1. IsOid(content', pushed')
    BY <1>1, <1>4, OidGoesOn
  <2>2. 7 * (Since(content') + 1) > CompBsize
    BY <1>1, <1>2, <1>4, Widths DEF ComponentFull
  <2>3. Since(content') + 1 = Len(content') - LastEnd(content') + 1
    BY DEF Since
  <2>4. 7 * (Len(content') - LastEnd(content') + 1) > CompBsize
    BY <2>2, <2>3
  <2>5. QED BY <1>1, <1>4, <2>1, <2>4 DEF Returns, OidShown, OidIsContent, OidOverflowIsReal
<1>5. CASE /\ More(o) /\ ~ComponentFull /\ comp' = Shifted(o) /\ bsize' = bsize + 7
           /\ Awaits("component") /\ UNCHANGED pushed
  <2>1. IsOid(content', pushed')
    BY <1>1, <1>5, OidGoesOn
  <2>2. comp' = Pending(content') /\ bsize' = 14 + 7 * Since(content')
    BY <1>1, <1>2, <1>3, <1>5
  <2>3. comp' <= AllOnes(7 * Since(content'))
    BY <1>2, <1>3, <1>5
  <2>4. outcome' = "none"
    BY <1>1, <1>5 DEF Awaits
  <2>5. QED BY <1>1, <2>1, <2>2, <2>3, <2>4 DEF OidShown, OidIsContent, OidOverflowIsReal
<1>6. CASE /\ ~More(o) /\ pushed' = pushed \o Pushes(Shifted(o)) /\ comp' = 0 /\ bsize' = 14
           /\ Awaits("more")
  <2>1. ComponentTo(content', Len(content) + 1) = Shifted(o)
    BY <1>1, <1>3, <1>6, NewComponent DEF Pending
  <2>2. IsOid(content', pushed')
    <3>1. PICK c \in Nat : c = Shifted(o)
      BY <1>3
    <3>2. IsOid(Append(content, o), pushed \o (IF pushed = << >> THEN TwoFirst(c) ELSE <<c>>))
      BY <1>1, <1>6, <2>1, <3>1, OidGrows
    <3>3. pushed' = pushed \o (IF pushed = << >> THEN TwoFirst(c) ELSE <<c>>)
      BY <1>6, <3>1 DEF Pushes
    <3>4. QED BY <1>1, <3>2, <3>3
  <2>3. comp' = Pending(content') /\ bsize' = 14 + 7 * Since(content')
    BY <1>2, <1>6
  <2>4. comp' <= AllOnes(7 * Since(content'))
    <3>1. 7 * Since(content') = 0
      BY <1>2, <1>6
    <3>2. AllOnes(0) \in Nat
      BY AllOnesStep
    <3>3. QED BY <1>6, <3>1, <3>2
  <2>5. outcome' = "none"
    BY <1>1, <1>6 DEF Awaits
  <2>6. QED BY <1>1, <2>2, <2>3, <2>4, <2>5 DEF OidShown, OidIsContent, OidOverflowIsReal
<1>7. QED BY <1>4, <1>5, <1>6 DEF GotOid

LEMMA OidInitially == Init => OidInv
<1> SUFFICES ASSUME NEW k \in Kinds, Start(k) PROVE OidInv
  BY DEF Init
<1>1. IInv
  BY Initially DEF Init
<1>2. content = << >> /\ << >> \in Seq(Octet) /\ Ends(content) = {} /\ Len(content) = 0
      /\ pushed = << >> /\ comp = 0 /\ bsize = 14 /\ outcome = "none"
  BY DEF Start, Ends
<1>3. LastEnd(content) = 0 /\ Since(content) = 0
  BY <1>2 DEF LastEnd, Since
<1>4. Pending(content) = 0
  <2>1. SubSeq(content, LastEnd(content) + 1, Len(content)) = << >>
    BY <1>2, <1>3
  <2>2. Groups(<< >>) = << >>
    BY DEF Groups
  <2>3. Value(128, << >>) = 0
    <3>1. PICK b \in Nat : b = 128
      OBVIOUS
    <3>2. Value(b, << >>) = 0
      BY ValueEmpty
    <3>3. QED BY <3>1, <3>2
  <2>4. QED BY <2>1, <2>2, <2>3, Zenon DEF Pending
<1>5. comp <= AllOnes(7 * Since(content))
  <2>1. AllOnes(0) \in Nat
    BY AllOnesStep
  <2>2. QED BY <1>2, <1>3, <2>1
<1>6. IsOid(content, pushed)
  BY <1>2 DEF IsOid
<1>7. QED BY <1>1, <1>2, <1>3, <1>4, <1>5, <1>6 DEF OidInv, OidShown, OidIsContent, OidOverflowIsReal

LEMMA OidNextStep == OidInv /\ [Next]_vars => OidInv'
<1> SUFFICES ASSUME OidInv, [Next]_vars PROVE OidInv'
  OBVIOUS
<1>1. IInv'
  BY NextStep DEF OidInv
<1>2. CASE kind # "oid"
  <2>1. kind' = kind
    BY DEF Next, Get, GetFails, Unimplemented, vars
  <2>2. QED BY <1>1, <1>2, <2>1 DEF OidInv, OidShown, OidIsContent, OidOverflowIsReal
<1>3. CASE kind = "oid" /\ \E o \in Octets : Get(o)
  <2>1. PICK o \in Octet : Get(o)
    BY <1>3, BerTypesAssumption
  <2>2. GotOid(o)
    BY <1>3, <2>1 DEF Get, GotBoolean, GotString, GotInteger
  <2>3. QED BY <1>1, <2>1, <2>2, OidShownStep DEF OidInv
<1>4. CASE kind = "oid" /\ (GetFails \/ Unimplemented)
  <2>1. UNCHANGED <<kind, pushed, content>> /\ waits' = "done" /\ outcome' # "overflow"
    BY <1>4 DEF GetFails, Unimplemented, Returns
  <2>2. IsOid(content, pushed)
    BY <1>4 DEF OidInv, OidIsContent
  <2>3. QED BY <1>1, <2>1, <2>2 DEF OidInv, OidShown, OidIsContent, OidOverflowIsReal
<1>5. CASE UNCHANGED vars
  BY <1>1, <1>5 DEF vars, OidInv, OidShown, OidIsContent, OidOverflowIsReal
<1>6. QED BY <1>2, <1>3, <1>4, <1>5 DEF Next

THEOREM OidInvariance == Spec => []OidInv
  BY OidInitially, OidNextStep, PTL DEF Spec

(* At every moment of tag_decode_oid what was pushed is the components     *)
(* whose last octet was got, in their order and with all of their bits,    *)
(* the first one as two: for every content and every width of the          *)
(* component type, whatever the call returns.                              *)
THEOREM AlwaysOidOfContent == Spec => []OidIsContent
<1>1. OidInv => OidIsContent
  BY DEF OidInv
<1>2. QED BY <1>1, OidInvariance, PTL

(* tag_decode_oid reports an overflow only when the groups of a component, *)
(* with the one that must follow, are more bits than its type has; the     *)
(* component that those bits stand for may fit all the same.               *)
THEOREM OidOverflowAlwaysReal == Spec => []OidOverflowIsReal
<1>1. OidInv => OidOverflowIsReal
  BY DEF OidInv
<1>2. QED BY <1>1, OidInvariance, PTL
=============================================================================
