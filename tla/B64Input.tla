------------------------------ MODULE B64Input ------------------------------
(***************************************************************************)
(* ber::b64_input (include/berio/b64.h:93-250): octets decoded from a      *)
(* source of Base-64 characters.  The conversion is a state machine whose  *)
(* state is the function that gets the next octet, __get_fn.  getn and     *)
(* skip call it until they have what they were asked for or it fails; one  *)
(* step here is one such call.                                             *)
(***************************************************************************)
EXTENDS Base64

CONSTANTS Texts,   \* bound: the texts the source may hold
          MaxAsk,  \* bound: octets asked for in one call
          MaxGot   \* bound: octets got before the last call

VARIABLES
  src,     \* the characters left in the source
  get_fn,  \* __get_fn
  last_s,  \* __last_s
  want,    \* octets the call under way has still to get; 0 when there is none
  got,     \* history: the octets got, by getn or by skip
  ended,   \* history: octets got when a call first came back short, or -1
  text     \* history: what the source held at first

vars == <<src, get_fn, last_s, want, got, ended, text>>

TypeOK ==
  /\ src \in Seq(Int)
  /\ get_fn \in {"first", "second", "third"}
  /\ last_s \in Sextet
  /\ want \in 0..MaxAsk
  /\ got \in Seq(Octet)
  /\ ended \in -1..Len(got)

-----------------------------------------------------------------------------
Init ==
  /\ text \in Texts /\ src = text
  /\ get_fn = "first" /\ last_s = 0
  /\ want = 0 /\ got = << >> /\ ended = -1

\* getn(optr, len) or skip(len), up to the first call of __get_fn.
Ask(len) ==
  /\ want = 0 /\ Len(got) < MaxGot
  /\ want' = len
  /\ UNCHANGED <<src, get_fn, last_s, got, ended, text>>

\* __get_fn returned true; the octet is truncated to unsigned char.
GetsUntruncated(o) ==
  /\ got' = Append(got, o)
  /\ want' = want - 1
  /\ UNCHANGED <<ended, text>>
Gets(o) ==
  /\ got' = Append(got, o % 256)
  /\ want' = want - 1
  /\ UNCHANGED <<ended, text>>

\* __get_fn returned false: the call comes back short, in the same state.
FailsKeepsAsking ==
  UNCHANGED <<want, ended, get_fn, last_s, got, text>>
Fails ==
  /\ want' = 0
  /\ ended' = IF ended = -1 THEN Len(got) ELSE ended
  /\ UNCHANGED <<get_fn, last_s, got, text>>

To(fn, s) == get_fn' = fn /\ last_s' = s

\* __source_peek: the place in the source of the character it shows, after the
\* spaces it ignores, from place i on.
PeekedUnskipped(i) == i
Peeked(i) ==
  LET seen == {j \in i..Len(src) : ~IsSpace(src[j])}
  IN  IF seen = {} THEN Len(src) + 1 ELSE Min(seen)
First == Peeked(1)
Second == Peeked(First + 1)

IsSextet(i) == i <= Len(src) /\ InAlphabet(src[i])
LeavesFrom(i) == src' = SubSeq(src, i, Len(src))

\* The bits of two sextets that make an octet.
FirstOctet == SextetOf(src[First]) * 4 + SextetOf(src[Second]) \div 16
SecondOctet == last_s * 16 + SextetOf(src[First]) \div 4
ThirdOctetUnshifted == last_s + SextetOf(src[First])
ThirdOctet == last_s * 64 + SextetOf(src[First])

\* __get_first: the first character is consumed even if the second one fails.
GetFirst ==
  /\ want > 0 /\ get_fn = "first"
  /\ \/ ~IsSextet(First) /\ LeavesFrom(First) /\ Fails
     \/ IsSextet(First) /\ ~IsSextet(Second) /\ LeavesFrom(Second) /\ Fails
     \/ /\ IsSextet(First) /\ IsSextet(Second)
        /\ LeavesFrom(Second + 1)
        /\ Gets(FirstOctet)
        /\ To("second", SextetOf(src[Second]))

\* __get_second and __get_third: padding is ignored, and the octet fails with
\* the state as it is.
Padded == First <= Len(src) /\ src[First] = Pad

GetNext(fn, padding, octet, next) ==
  /\ want > 0 /\ get_fn = fn
  /\ \/ Padded /\ LeavesFrom(First + padding) /\ Fails
     \/ ~Padded /\ ~IsSextet(First) /\ LeavesFrom(First) /\ Fails
     \/ /\ IsSextet(First)
        /\ LeavesFrom(First + 1)
        /\ Gets(octet)
        /\ To(next, IF next = "first" THEN 0 ELSE SextetOf(src[First]))

GetSecond == GetNext("second", 2, SecondOctet, "third")
GetThird == GetNext("third", 1, ThirdOctet, "first")

Get == GetFirst \/ GetSecond \/ GetThird
Next == (\E len \in 1..MaxAsk : Ask(len)) \/ Get

Spec == Init /\ [][Next]_vars

-----------------------------------------------------------------------------
(* The octets of a text, as Base-64 has them: eight bits at a time of the  *)
(* sextets before the first character that is neither one nor a space.     *)
(* They are among the twelve bits of two sextets, with none, two or four   *)
(* bits before them.                                                       *)
SextetPlaces(cs) ==
  {i \in DOMAIN cs : InAlphabet(cs[i]) /\ \A j \in 1..i : InAlphabet(cs[j]) \/ IsSpace(cs[j])}
SextetsOf(cs) ==
  LET places == SextetPlaces(cs)
      Nth(k) == CHOOSE i \in places : Cardinality({j \in places : j <= i}) = k
  IN  [k \in 1..Cardinality(places) |-> SextetOf(cs[Nth(k)])]
OctetsOf(ss) ==
  LET Twelve(bit) == ss[bit \div 6 + 1] * 64 + ss[bit \div 6 + 2]
      Behind(before) == CASE before = 0 -> 16 [] before = 2 -> 4 [] before = 4 -> 1
  IN  [k \in 1..(Len(ss) * 6) \div 8 |->
        (Twelve(8 * (k - 1)) \div Behind((8 * (k - 1)) % 6)) % 256]

(* Until a call comes back short, the octets got are those of the text, in *)
(* order; and it comes back short only when the text has no more of them:  *)
(* no octet is lost, made up or taken from the padding (b64.h:81-90).      *)
DecodesText ==
  LET octets == OctetsOf(SextetsOf(text))
      n == IF ended = -1 THEN Len(got) ELSE ended
  IN  /\ IsPrefix(SubSeq(got, 1, n), octets)
      /\ ended # -1 => n = Len(octets)

(* A call that came back short has left no octet to read: "in that case,   *)
(* it is guaranteed that no more octets can be read from the stream"       *)
(* (io.h:57-59, deliminput.h:169-171).                                     *)
NoneAfterShort == ended # -1 => Len(got) = ended
=============================================================================
