---------------------------- MODULE OctetGroups ----------------------------
(***************************************************************************)
(* Octets and the integers that sequences of them stand for, as the tag    *)
(* and content decoders have them.  An octet is a number in 0..255; the    *)
(* shifts and masks of the code are quotients and remainders.              *)
(***************************************************************************)
EXTENDS Integers, Sequences

Octet == 0..255

\* A subsequent octet: seven bits of a number and whether more octets follow.
Low7Unmasked(o) == o
Low7(o) == o % 128
More(o) == o >= 128
Groups(os) == [i \in DOMAIN os |-> Low7(os[i])]

\* What is left of an integer in an unsigned type whose largest value is max.
Truncated(max, v) == IF v <= max THEN v ELSE v % (max + 1)

\* The number whose digits in the base are ds, most significant first.
Value(base, ds) ==
  LET v[i \in 0..Len(ds)] == IF i = 0 THEN 0 ELSE v[i - 1] * base + ds[i]
  IN  v[Len(ds)]

\* v >> bits: each shift by one bit halves the number.
ShiftedRight(v, bits) ==
  LET r[i \in 0..bits] == IF i = 0 THEN v ELSE r[i - 1] \div 2
  IN  r[bits]

\* The greatest number of so many bits: every one of them is one.
AllOnes(bits) == Value(2, [i \in 1..bits |-> 1])
=============================================================================
