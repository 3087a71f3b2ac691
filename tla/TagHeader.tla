----------------------------- MODULE TagHeader -----------------------------
(***************************************************************************)
(* The header of a BER tag (include/berio/tag.h) and the parts of its      *)
(* octets.  Class values are those of the encoding (tag.h:21).             *)
(***************************************************************************)
EXTENDS OctetGroups

CONSTANTS NumberMax,  \* numeric_limits<tag_number>::max()
          SizeMax     \* numeric_limits<size_t>::max()

\* numeric_limits<T>::digits of an unsigned type with that maximum.
Digits(max) == CHOOSE d \in 1..30 : 2^d = max + 1

TagClass == 0..3
TagShape == {"primitive", "constructed_definite", "constructed_indefinite"}
Header == [tclass : TagClass, number : 0..NumberMax, shape : TagShape, length : 0..SizeMax]

\* The identifier octet: class, constructed bit, low tag number.
Class(o) == o \div 64
Constructed(o) == (o \div 32) % 2 = 1
LowNumber(o) == o % 32
HighForm == 31

\* The first length octet, when it is not a length: the low seven bits of a long
\* form are the count of the octets that follow.
Indefinite == 128
Reserved == 255

-----------------------------------------------------------------------------
(* Which octets denote which header, as X.690 8.1 has it and without any   *)
(* loop of the code: the reference that decoder and encoder are held to.   *)

IdentifierDenotes(os, h) ==
  /\ Class(os[1]) = h.tclass
  /\ Constructed(os[1]) <=> h.shape # "primitive"
  /\ \/ /\ Len(os) = 1
        /\ LowNumber(os[1]) = h.number
        /\ h.number < HighForm
     \/ /\ Len(os) > 1
        /\ LowNumber(os[1]) = HighForm
        /\ \A i \in 2..Len(os) : More(os[i]) <=> i < Len(os)
        /\ Value(128, Groups(Tail(os))) = h.number

LengthDenotes(os, h) ==
  \/ os = <<Indefinite>> /\ h.shape = "constructed_indefinite"
  \/ /\ h.shape # "constructed_indefinite"
     /\ \/ os = <<h.length>> /\ h.length < 128
        \/ /\ Len(os) > 1
           /\ os[1] = 128 + Len(os) - 1 /\ os[1] # Reserved
           /\ Value(256, Tail(os)) = h.length

Denotes(os, h) ==
  \E k \in 1..Len(os) - 1 :
    /\ IdentifierDenotes(SubSeq(os, 1, k), h)
    /\ LengthDenotes(SubSeq(os, k + 1, Len(os)), h)
=============================================================================
