----------------------------- MODULE TagEncode -----------------------------
(***************************************************************************)
(* ber::tag_encode and ber::tag_sizeof (src/tagencode.cxx): the octets of  *)
(* a header are put into an output stream, most significant first, until   *)
(* octet_output::put refuses one.  What was put stays put (tag.h:314-317). *)
(***************************************************************************)
EXTENDS TagHeader

CONSTANT Headers  \* the headers that may be encoded

VARIABLES
  call,     \* "idle", "putting", or what the last call returned: "true", "false"
  header,   \* the parameter th
  pending,  \* the octets the call has still to put
  out       \* the octets put into the output stream so far

vars == <<call, header, pending, out>>

-----------------------------------------------------------------------------
\* tag_sizeof_ext: the octets of v after the first, of which the first counts.
SizeofExtShort(v, base) ==
  LET s[x \in Nat] == IF x \div base = 0 THEN 0 ELSE s[x \div base] + 1
  IN  s[v]
SizeofExt(v, base) ==
  LET s[x \in Nat] == IF x \div base = 0 THEN 1 ELSE s[x \div base] + 1
  IN  s[v]

Sizeof(h) ==
  2 + (IF h.number <= 30 THEN 0 ELSE SizeofExt(h.number, 128))
    + (IF h.shape = "constructed_indefinite" \/ h.length <= 127 THEN 0
       ELSE SizeofExt(h.length, 256))

\* tag_encode_ltn, tag_encode_ltn_last: the higher groups of seven bits are put
\* before the lower ones, all but the last marked.
EncodedNumberUnmarked(n) ==
  LET ltn[x \in Nat] == IF x = 0 THEN << >> ELSE Append(ltn[x \div 128], Low7(x))
  IN  Append(ltn[n \div 128], Low7(n))
EncodedNumber(n) ==
  LET ltn[x \in Nat] == IF x = 0 THEN << >> ELSE Append(ltn[x \div 128], 128 + Low7(x))
  IN  Append(ltn[n \div 128], Low7(n))

EncodedIdentifier(h) ==
  LET o == h.tclass * 64 + IF h.shape = "primitive" THEN 0 ELSE 32
  IN  IF h.number <= 30 THEN <<o + h.number>>
      ELSE <<o + HighForm>> \o EncodedNumber(h.number)

\* (length >> (i - 1)) bitand 0xff for i = size, ..., 1: a shift by octets
\* would be by 8 * (i - 1).
EncodedLength(h) ==
  CASE h.shape = "constructed_indefinite" -> <<Indefinite>>
    [] h.shape # "constructed_indefinite" /\ h.length <= 127 -> <<h.length>>
    [] OTHER ->
         LET size == SizeofExt(h.length, 256)
         IN  <<128 + size>> \o [k \in 1..size |-> ShiftedRight(h.length, size - k) % 256]

EncodedHeader(h) == EncodedIdentifier(h) \o EncodedLength(h)

-----------------------------------------------------------------------------
Init ==
  /\ call = "idle" /\ header \in Headers
  /\ pending = << >> /\ out = << >>

Encode(h) ==
  /\ call \in {"idle", "true"}
  /\ call' = "putting"
  /\ header' = h
  /\ pending' = EncodedHeader(h)
  /\ UNCHANGED out

\* out.put(o) returned true; after the last one the call returns true.
Put ==
  /\ call = "putting"
  /\ out' = Append(out, Head(pending))
  /\ pending' = Tail(pending)
  /\ call' = IF pending' = << >> THEN "true" ELSE "putting"
  /\ UNCHANGED header

\* out.put(o) returned false: no more octets can be written to the stream.
PutRefused ==
  /\ call = "putting"
  /\ call' = "false"
  /\ UNCHANGED <<header, pending, out>>

Next == (\E h \in Headers : Encode(h)) \/ Put \/ PutRefused
=============================================================================
