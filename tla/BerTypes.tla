------------------------------ MODULE BerTypes ------------------------------
(***************************************************************************)
(* The content decoders of include/berio/types.h: tag_decode_boolean,      *)
(* _integer, _bit_string, _octet_string, _utf8_string, _print_string and   *)
(* _oid.  Content is read one octet_input::get at a time, up to the end of *)
(* the stream for all but booleans; as in TagDecode, a step is the code    *)
(* from one get to the next and pc names the get the call waits in.        *)
(***************************************************************************)
EXTENDS OctetGroups, SequencesExt

CONSTANTS IntSize,   \* Traits::integer_size, octets of the integer type
          CompSize,  \* Traits::comp_size, octets of the type of a component
          Octets,    \* bound: the octets the stream may hold
          MaxOctets  \* bound: how many of them one call reads

ASSUME BerTypesAssumption ==
  /\ IntSize \in Nat \ {0} /\ CompSize \in Nat \ {0}
  /\ Octets \subseteq Octet
  /\ MaxOctets \in Nat

VARIABLES
  kind,     \* which decoder is called
  waits,    \* the get it waits in: "first", "more", "component", or "done"
  value,    \* the boolean (0 or 1) or the bits of the integer i
  size,     \* size
  pushed,   \* what push_back was given: bits, octets, characters, components
  comp,     \* comp
  bsize,    \* bsize
  outcome,  \* the returned result
  content   \* history: the octets this call has got

vars == <<kind, waits, value, size, pushed, comp, bsize, outcome, content>>

Kinds == {"boolean", "integer", "bit_string", "octet_string", "utf8_string",
          "print_string", "oid"}
CompBsize == CompSize * 8
IntMax == AllOnes(IntSize * 8)
CompMax == AllOnes(CompBsize)

TypeOK ==
  /\ kind \in Kinds
  /\ waits \in {"first", "more", "component", "done"}
  /\ value \in 0..IntMax
  /\ size \in 0..IntSize + 1
  /\ pushed \in Seq(Nat)
  /\ kind = "bit_string" => pushed \in Seq({0, 1})
  /\ comp \in 0..CompMax
  /\ bsize \in 14..CompBsize + 14
  /\ outcome \in {"none", "complete", "empty", "incomplete", "overflow", "unimplemented"}
  /\ content \in Seq(Octet)

-----------------------------------------------------------------------------
Start(k) ==
  /\ kind = k /\ waits = "first"
  /\ value = 0 /\ size = 0 /\ pushed = << >>
  /\ comp = 0 /\ bsize = 14
  /\ outcome = "none" /\ content = << >>

Init == \E k \in Kinds : Start(k)

Called(k) ==
  /\ kind' = k /\ waits' = "first"
  /\ value' = 0 /\ size' = 0 /\ pushed' = << >>
  /\ comp' = 0 /\ bsize' = 14
  /\ outcome' = "none" /\ content' = << >>

Returns(r) == waits' = "done" /\ outcome' = r
Awaits(w) == waits' = w /\ UNCHANGED outcome

GotBoolean(o) ==
  /\ kind = "boolean"
  /\ value' = IF o = 0 THEN 0 ELSE 1
  /\ Returns("complete")
  /\ UNCHANGED <<size, pushed, comp, bsize>>

\* The size counts the octets after the first one.
TooLongLate == size' > IntSize + 1
TooLong == size' > IntSize
GotInteger(o) ==
  /\ kind = "integer"
  /\ \/ /\ waits = "first"
        /\ value' = o
        /\ Awaits("more")
        /\ UNCHANGED size
     \/ /\ waits = "more"
        /\ size' = size + 1
        /\ \/ TooLong /\ Returns("overflow") /\ UNCHANGED value
           \/ ~TooLong /\ value' = Truncated(IntMax, value * 256 + o) /\ Awaits("more")
  /\ UNCHANGED <<pushed, comp, bsize>>

\* push_back((b & 0x80) >> 7) eight times: the statement b << 1; changes nothing.
BitsWhole(o) == [i \in 1..8 |-> o]
Bits(o) == [i \in 1..8 |-> IF o < 128 THEN 0 ELSE 1]
GotString(o) ==
  /\ kind \in {"bit_string", "octet_string", "print_string"}
  /\ pushed' = pushed \o (IF kind = "bit_string" THEN Bits(o) ELSE <<o>>)
  /\ Awaits("more")
  /\ UNCHANGED <<value, size, comp, bsize>>

\* The component so far; the first one stands for two.
ShiftedUnmasked(o) == Truncated(CompMax, comp * 128 + o)
Shifted(o) == Truncated(CompMax, comp * 128 + Low7(o))
TwoFirst(c) == CASE c < 40 -> <<0, c>> [] c \in 40..79 -> <<1, c - 40>> [] OTHER -> <<2, c - 80>>
Pushes(c) == IF pushed = << >> THEN TwoFirst(c) ELSE <<c>>

ComponentFullEarly == bsize + 7 > CompBsize
ComponentFull == bsize > CompBsize
GotOid(o) ==
  /\ kind = "oid"
  /\ \/ More(o) /\ ComponentFull /\ Returns("overflow") /\ UNCHANGED <<pushed, comp, bsize>>
     \/ /\ More(o) /\ ~ComponentFull
        /\ comp' = Shifted(o) /\ bsize' = bsize + 7
        /\ Awaits("component")
        /\ UNCHANGED pushed
     \/ /\ ~More(o)
        /\ pushed' = pushed \o Pushes(Shifted(o))
        /\ comp' = 0 /\ bsize' = 14
        /\ Awaits("more")
  /\ UNCHANGED <<value, size>>

\* in.get(o) returned true.
Get(o) ==
  /\ waits # "done" /\ kind # "utf8_string"
  /\ GotBoolean(o) \/ GotInteger(o) \/ GotString(o) \/ GotOid(o)
  /\ content' = Append(content, o)
  /\ UNCHANGED kind

\* in.get(o) returned false.
GetFails ==
  /\ kind # "utf8_string"
  /\ \/ waits = "first" /\ Returns("empty")
     \/ waits = "component" /\ Returns("incomplete")
     \/ waits = "more" /\ Returns("complete")
  /\ UNCHANGED <<kind, value, size, pushed, comp, bsize, content>>

\* tag_decode_utf8_string gets nothing.
Unimplemented ==
  /\ kind = "utf8_string" /\ waits = "first"
  /\ Returns("unimplemented")
  /\ UNCHANGED <<kind, value, size, pushed, comp, bsize, content>>

Next ==
  \/ Len(content) < MaxOctets /\ \E o \in Octets : Get(o)
  \/ GetFails
  \/ Unimplemented

Spec == Init /\ [][Next]_vars

-----------------------------------------------------------------------------
(* An integer is complete with the low octets of its content, as many as   *)
(* the type has: an overflow is reported from the second octet too many    *)
(* on, and the first one too many is lost (types.h:95-98).                 *)
IntegerIsContentModulo ==
  kind = "integer" =>
    /\ outcome = "complete" => Len(content) <= IntSize + 1
                               /\ value = Value(256, content) % (IntMax + 1)
    /\ outcome = "overflow" => Len(content) = IntSize + 2

(* At every moment, so also when the decoder fails, the object identifier  *)
(* holds the components whose last octet was got, each one exactly, and    *)
(* the first one as two (types.h:321-361).                                 *)
Ends(os) == {i \in DOMAIN os : ~More(os[i])}
BeginOf(os, e) ==
  CHOOSE b \in 1..e : (b = 1 \/ b - 1 \in Ends(os)) /\ \A j \in b..e - 1 : j \notin Ends(os)
ComponentTo(os, e) == Value(128, Groups(SubSeq(os, BeginOf(os, e), e)))
Place(os, e) == Cardinality({f \in Ends(os) : f <= e})
IsOid(os, cs) ==
  /\ Len(cs) = IF Ends(os) = {} THEN 0 ELSE Cardinality(Ends(os)) + 1
  /\ \A e \in Ends(os) :
       \/ /\ Place(os, e) = 1
          /\ cs[1] \in 0..2 /\ (cs[1] < 2 => cs[2] < 40)
          /\ 40 * cs[1] + cs[2] = ComponentTo(os, e)
       \/ Place(os, e) > 1 /\ cs[Place(os, e) + 1] = ComponentTo(os, e)
OidIsContent == kind = "oid" => IsOid(content, pushed)

(* An overflow of a component is reported only when its groups of seven    *)
(* bits, with the one that must follow, are more bits than the type has:   *)
(* it is those bits that the code counts, so a value that would fit with   *)
(* bits to spare in its first group is refused, too.                       *)
LastEnd(os) ==
  IF Ends(os) = {} THEN 0 ELSE CHOOSE e \in Ends(os) : \A f \in Ends(os) : f <= e
OidOverflowIsReal ==
  kind = "oid" /\ outcome = "overflow" => 7 * (Len(content) - LastEnd(content) + 1) > CompBsize
=============================================================================
