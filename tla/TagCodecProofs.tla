--------------------------- MODULE TagCodecProofs ---------------------------
(***************************************************************************)
(* For every width of tag_number and size_t, every set of headers and any  *)
(* number of them: that tag_encode puts as many octets as tag_sizeof says, *)
(* that what tag_decode reads from them are the headers that were encoded, *)
(* and that it fails only where the encoding was interrupted.  The last    *)
(* two need lengths that tag_encode puts right: those of one octet are.    *)
(***************************************************************************)
EXTENDS TagCodec, ProofFacts

DecP == INSTANCE TagDecodeProofs WITH Octets <- Octet, MaxOctets <- 0

LEMMA Widths ==
  /\ NumberMax \in Nat /\ NumberMax >= 127 /\ NumberMax % 128 = 127
  /\ SizeMax \in Nat /\ SizeMax >= 255 /\ SizeMax % 256 = 255
  /\ Octet \subseteq DecP!Octet /\ 0 \in Nat
<1>1. NumberMax >= 127 /\ SizeMax >= 255
  BY TagCodecAssumption
<1>2. QED BY <1>1, TagCodecAssumption DEF Octet, DecP!Octet

-----------------------------------------------------------------------------
(* The octets of a header, as ProofFacts has them.                         *)

LEMMA SameEncoder ==
  /\ \A v, base : Encoder!SizeofExt(v, base) = Enc!SizeofExt(v, base)
  /\ \A h : /\ Encoder!EncodedIdentifier(h) = Enc!EncodedIdentifier(h)
           /\ Encoder!EncodedLength(h) = Enc!EncodedLength(h)
  /\ \A h : /\ Encoder!EncodedHeader(h) = Enc!EncodedHeader(h)
           /\ Encoder!Sizeof(h) = Enc!Sizeof(h)
<1>1. ASSUME NEW v, NEW base PROVE Encoder!SizeofExt(v, base) = Enc!SizeofExt(v, base)
  BY DEF Encoder!SizeofExt, Enc!SizeofExt
<1>2. ASSUME NEW h PROVE Encoder!EncodedIdentifier(h) = Enc!EncodedIdentifier(h)
  BY DEF Encoder!EncodedIdentifier, Enc!EncodedIdentifier, Encoder!EncodedNumber, Enc!EncodedNumber,
         Encoder!Low7, Enc!Low7, Encoder!HighForm, Enc!HighForm
<1>3. ASSUME NEW h PROVE Encoder!EncodedLength(h) = Enc!EncodedLength(h)
  BY Zenon DEF Encoder!EncodedLength, Enc!EncodedLength, Encoder!SizeofExt, Enc!SizeofExt,
         Encoder!ShiftedRight, Enc!ShiftedRight, Encoder!Indefinite, Enc!Indefinite
<1>4. ASSUME NEW h PROVE Encoder!EncodedHeader(h) = Enc!EncodedHeader(h)
  BY <1>2, <1>3 DEF Encoder!EncodedHeader, Enc!EncodedHeader
<1>5. ASSUME NEW h PROVE Encoder!Sizeof(h) = Enc!Sizeof(h)
  BY <1>1 DEF Encoder!Sizeof, Enc!Sizeof
<1>6. QED BY <1>1, <1>2, <1>3, <1>4, <1>5

LEMMA HeadersEncodable ==
  ASSUME NEW h \in Header
  PROVE  Encodable(h)
<1>1. /\ h.tclass \in Encoder!TagClass /\ h.number \in Nat
      /\ h.shape \in Encoder!TagShape /\ h.length \in 0..SizeMax
  BY Widths DEF Header, TagClass, Encoder!TagClass, TagShape, Encoder!TagShape
<1>2. SizeMax \in Nat /\ Encoder!SizeofExt(SizeMax, 256) < 127
  <2>1. Encoder!SizeofExt(SizeMax, 256) = Enc!SizeofExt(SizeMax, 256)
    BY SameEncoder, Zenon
  <2>2. QED BY <2>1, TagCodecAssumption
<1>3. QED BY <1>1, <1>2, EncodableUpTo

LEMMA OneLengthOctet ==
  \A v \in Nat : v \div 256 = 0 => Enc!SizeofExt(v, 256) = 1
<1>1. ASSUME NEW v \in Nat, v \div 256 = 0 PROVE Encoder!SizeofExt(v, 256) = 1
  BY <1>1, SizeofExtDefined
<1>2. QED BY <1>1, SameEncoder, Zenon

LEMMA IdentifierEncoded ==
  ASSUME NEW h \in Header, NEW is, is = Enc!EncodedIdentifier(h)
  PROVE  /\ is \in Seq(Octet) /\ IdentifierDenotes(is, h)
         /\ Len(is) > 1 => h.number > 30 /\ is[2] # 0
<1>1. IdentifierPut(is, h)
  BY HeadersEncodable, SameEncoder, IdentifierOfHeader, Zenon
<1>2. IdentifierDenotes(is, h)
  BY <1>1, Zenon DEF IdentifierPut,
     IdentifierDenotes, Encoder!IdentifierDenotes, Class, Encoder!Class, Constructed,
     Encoder!Constructed, LowNumber, Encoder!LowNumber, HighForm, Encoder!HighForm, More,
     Encoder!More, Groups, Encoder!Groups, Low7, Encoder!Low7, Value, Encoder!Value
<1>3. QED BY <1>1, <1>2, Zenon DEF IdentifierPut

LEMMA LengthEncoded ==
  ASSUME NEW h \in Header
  PROVE  LengthPut(Enc!EncodedLength(h), h)
  BY HeadersEncodable, SameEncoder, LengthOfHeader, Zenon

(* A header has as many octets as tag_sizeof says: "this operation is      *)
(* consistent with tag_sizeof".                                            *)
Octets(h) == Enc!EncodedHeader(h)

LEMMA HeaderEncoded ==
  ASSUME NEW h \in Header
  PROVE  /\ Octets(h) \in Seq(Octet) /\ Len(Octets(h)) \in Nat \ {0}
         /\ Len(Octets(h)) = Enc!Sizeof(h)
         /\ Len(Octets(h)) = Len(Enc!EncodedIdentifier(h)) + Len(Enc!EncodedLength(h))
         /\ \A i \in 1..Len(Octets(h)) :
              Octets(h)[i] = DecP!OctetAt(Enc!EncodedIdentifier(h), Enc!EncodedLength(h), i)
<1>1. Encodable(h) /\ Octets(h) = Encoder!EncodedHeader(h)
  BY HeadersEncodable, SameEncoder, Zenon DEF Octets
<1>2. PICK is, ls, os :
        is = Encoder!EncodedIdentifier(h) /\ ls = Encoder!EncodedLength(h) /\ os = Octets(h)
  BY Zenon
<1>3. /\ os \in Seq(Octet) /\ Len(os) \in Nat \ {0}
      /\ Len(os) = Encoder!Sizeof(h) /\ Len(os) = Len(is) + Len(ls)
      /\ \A i \in 1..Len(os) : os[i] = IF i <= Len(is) THEN is[i] ELSE ls[i - Len(is)]
  BY <1>1, <1>2, OctetsOfHeader, Zenon
<1>4. \A i \in 1..Len(os) : os[i] = DecP!OctetAt(is, ls, i)
  BY <1>3, Zenon DEF DecP!OctetAt
<1>5. /\ is = Enc!EncodedIdentifier(h) /\ ls = Enc!EncodedLength(h)
      /\ Encoder!Sizeof(h) = Enc!Sizeof(h)
  BY <1>2, SameEncoder, Zenon
<1>6. QED BY <1>2, <1>3, <1>4, <1>5, Zenon

-----------------------------------------------------------------------------
(* The writer.  The stream holds the octets of every header sent, one      *)
(* after the other, and those the call in progress has put: the headers    *)
(* begin at the places bs.                                                 *)

PutAt(os, b, h, n) ==
  /\ b + n <= Len(os)
  /\ \A j \in 1..n : os[b + j] = Octets(h)[j]

InProgress(b) ==
  \E n \in 0..Len(Octets(header)) - 1 :
    /\ Len(out) = b + n /\ PutAt(out, b, header, n)
    /\ pending = SubSeq(Octets(header), n + 1, Len(Octets(header)))

Written(bs) ==
  /\ sent \in Seq(Headers) /\ out \in Seq(Octet) /\ header \in Headers
  /\ call \in {"idle", "putting", "true", "false"}
  /\ closed => call # "putting"
  /\ bs \in Seq(Nat) /\ Len(bs) = Len(sent) + 1 /\ bs[1] = 0
  /\ \A i \in 1..Len(sent) :
       /\ bs[i + 1] = bs[i] + Len(Octets(sent[i]))
       /\ PutAt(out, bs[i], sent[i], Len(Octets(sent[i])))
  /\ call \in {"idle", "true"} => Len(out) = bs[Len(sent) + 1]
  /\ call \in {"putting", "false"} => InProgress(bs[Len(sent) + 1])

LEMMA InitWritten == Init => Written(<<0>>)
<1>1. <<0>> \in Seq(Nat) /\ Len(<<0>>) = 1 /\ <<0>>[1] = 0
  OBVIOUS
<1>2. << >> \in Seq(Headers) /\ << >> \in Seq(Octet) /\ Len(<< >>) = 0
  BY EmptySeq
<1>3. SUFFICES ASSUME Init PROVE Written(<<0>>)
  OBVIOUS
<1>4. sent = << >> /\ out = << >> /\ header \in Headers /\ call = "idle" /\ closed = FALSE
  BY <1>3 DEF Init, Enc!Init
<1>5. QED BY <1>1, <1>2, <1>4 DEF Written

\* What was put and sent stays, and so do the places.
Kept(bs, cs) ==
  /\ Len(out) <= Len(out')
  /\ Len(sent) <= Len(sent') /\ \A i \in 1..Len(sent) : sent'[i] = sent[i]
  /\ \A i \in 1..Len(sent) + 1 : cs[i] = bs[i]

LEMMA WrittenUnchanged ==
  ASSUME NEW bs, Written(bs), closed' => closed \/ call' # "putting", call' = call, header' = header,
         pending' = pending, out' = out, sent' = sent
  PROVE  Written(bs)' /\ Kept(bs, bs)
<1>1. Written(bs)'
  BY DEF Written, InProgress, PutAt
<1>2. Len(out) \in Nat /\ Len(sent) \in Nat
  BY LenProperties DEF Written
<1>3. QED BY <1>1, <1>2 DEF Kept

(* Another octet does not disturb those that are there.                    *)
LEMMA StaysPut ==
  ASSUME NEW o \in Octet, out \in Seq(Octet), out' = Append(out, o),
         NEW b \in Nat, NEW h, NEW n \in Nat, PutAt(out, b, h, n)
  PROVE  PutAt(out', b, h, n)
<1>1. /\ Len(out) \in Nat /\ Len(out') = Len(out) + 1
      /\ \A j \in 1..Len(out) : out'[j] = out[j]
  BY AppendFacts
<1>2. b + n <= Len(out) /\ \A j \in 1..n : out[b + j] = Octets(h)[j]
  BY DEF PutAt
<1>3. ASSUME NEW j \in 1..n PROVE out'[b + j] = Octets(h)[j]
  <2>1. b + j \in 1..Len(out)
    BY <1>1, <1>2
  <2>2. QED BY <1>1, <1>2, <2>1
<1>4. b + n <= Len(out')
  BY <1>1, <1>2
<1>5. QED BY <1>3, <1>4 DEF PutAt

LEMMA EncodeWritten ==
  ASSUME NEW bs, Written(bs), NEW h \in Headers, StartEncode(h)
  PROVE  Written(bs)' /\ Kept(bs, bs)
<1>1. /\ ~closed /\ closed' = closed /\ call \in {"idle", "true"} /\ call' = "putting"
      /\ header' = h /\ pending' = Octets(h) /\ out' = out /\ sent' = sent
  BY DEF StartEncode, Enc!Encode, Octets
<1>2. PICK b : b = bs[Len(sent) + 1]
  OBVIOUS
<1>3. Len(out) = b /\ Len(out) \in Nat
  BY <1>1, <1>2, LenProperties DEF Written
<1>4. Octets(h) \in Seq(Octet) /\ Len(Octets(h)) \in Nat \ {0}
  BY HeaderEncoded, TagCodecAssumption
<1>5. pending' = SubSeq(Octets(h), 1, Len(Octets(h)))
  BY <1>1, <1>4, SubSeqFull
<1>6. InProgress(b)'
  <2>1. PICK l \in Nat \ {0} : l = Len(Octets(h))
    BY <1>4
  <2>2. 0 \in 0..l - 1 /\ 0 + 1 = 1
    BY <2>1
  <2>3. PutAt(out', b, h, 0)
    BY <1>1, <1>3 DEF PutAt
  <2>4. Len(out') = b + 0
    BY <1>1, <1>3
  <2>5. QED BY <1>1, <1>5, <2>1, <2>2, <2>3, <2>4 DEF InProgress
<1>7. \A i \in 1..Len(sent) : PutAt(out', bs[i], sent[i], Len(Octets(sent[i])))
  BY <1>1 DEF Written, PutAt
<1>8. Written(bs)'
  BY <1>1, <1>2, <1>6, <1>7 DEF Written
<1>9. Len(sent) \in Nat
  BY LenProperties DEF Written
<1>10. QED BY <1>1, <1>3, <1>8, <1>9 DEF Kept

\* The octet that a call puts.
LEMMA PutsNext ==
  ASSUME NEW h \in Header, NEW n \in 0..Len(Octets(h)) - 1,
         NEW ps, ps = SubSeq(Octets(h), n + 1, Len(Octets(h)))
  PROVE  /\ Head(ps) = Octets(h)[n + 1] /\ Octets(h)[n + 1] \in Octet
         /\ Tail(ps) = SubSeq(Octets(h), n + 2, Len(Octets(h)))
         /\ Tail(ps) = << >> <=> n + 1 = Len(Octets(h))
<1>1. PICK e : e = Octets(h)
  OBVIOUS
<1>2. e \in Seq(Octet) /\ Len(e) \in Nat \ {0}
  BY <1>1, HeaderEncoded
<1>3. PICK l \in Nat \ {0} : l = Len(e)
  BY <1>2
<1>4. n + 1 \in 1..l /\ (n + 1) + 1 = n + 2
  BY <1>1, <1>3
<1>5. /\ Len(SubSeq(e, n + 1, l)) = l + 1 - (n + 1)
      /\ SubSeq(e, n + 1, l)[1] = e[n + 1]
      /\ Tail(SubSeq(e, n + 1, l)) = SubSeq(e, n + 2, l)
  BY <1>2, <1>3, <1>4, SubSeqToEnd
<1>6. e[n + 1] \in Octet
  BY <1>2, <1>3, <1>4, ElementOfSeq
<1>7. Head(ps) = ps[1]
  OBVIOUS
<1>8. Tail(ps) = << >> <=> n + 1 = l
  <2>1. l \in 0..Len(e) /\ n + 2 \in 1..l + 1
    BY <1>2, <1>3, <1>4
  <2>2. /\ SubSeq(e, n + 2, l) \in Seq(Octet)
        /\ Len(SubSeq(e, n + 2, l)) = l + 1 - (n + 2)
    BY <1>2, <2>1, SubSeqFacts
  <2>3. ps = SubSeq(e, n + 1, l)
    BY <1>1, <1>3
  <2>4. PICK t \in Seq(Octet) : t = Tail(ps)
    BY <1>5, <2>2, <2>3
  <2>5. Len(t) = l + 1 - (n + 2)
    BY <1>5, <2>2, <2>3, <2>4
  <2>6. t = << >> <=> Len(t) = 0
    BY <2>4, EmptySeq
  <2>7. Len(t) = 0 <=> n + 1 = l
    BY <1>3, <1>4, <2>5
  <2>8. QED BY <2>4, <2>6, <2>7
<1>9. QED BY <1>1, <1>3, <1>5, <1>6, <1>7, <1>8

LEMMA PutWritten ==
  ASSUME NEW bs, Written(bs), PutOctet
  PROVE  \E cs : Written(cs)' /\ Kept(bs, cs)
<1> DEFINE e == Octets(header)
<1>0. PICK b : b = bs[Len(sent) + 1]
  OBVIOUS
<1>1. /\ call = "putting" /\ closed' = closed /\ header' = header
      /\ out' = Append(out, Head(pending)) /\ pending' = Tail(pending)
      /\ call' = IF pending' = << >> THEN "true" ELSE "putting"
      /\ sent' = IF call' = "true" THEN Append(sent, header) ELSE sent
  BY DEF PutOctet, Enc!Put
<1>2. /\ sent \in Seq(Headers) /\ out \in Seq(Octet) /\ header \in Headers /\ header \in Header
      /\ bs \in Seq(Nat) /\ Len(bs) = Len(sent) + 1 /\ bs[1] = 0 /\ ~closed
  BY <1>1, TagCodecAssumption DEF Written
<1>3. PICK n \in 0..Len(e) - 1 :
        /\ Len(out) = b + n /\ PutAt(out, b, header, n)
        /\ pending = SubSeq(e, n + 1, Len(e))
  BY <1>1, <1>0 DEF Written, InProgress
<1>4. PICK l \in Nat \ {0}, k \in Nat : l = Len(e) /\ k = Len(sent)
  BY <1>2, HeaderEncoded, LenProperties
<1>5. PICK o \in Octet : /\ o = e[n + 1] /\ out' = Append(out, o)
                         /\ pending' = SubSeq(e, n + 2, l) /\ (pending' = << >> <=> n + 1 = l)
  <2>1. /\ Head(pending) = e[n + 1] /\ e[n + 1] \in Octet
        /\ Tail(pending) = SubSeq(e, n + 2, Len(e))
        /\ Tail(pending) = << >> <=> n + 1 = Len(e)
    BY <1>2, <1>3, PutsNext
  <2> HIDE DEF e
  <2>2. QED BY <1>1, <1>4, <2>1
<1>6. b \in Nat /\ \A i \in 1..k : bs[i] \in Nat
  <2>1. \A i \in 1..k + 1 : bs[i] \in Nat
    BY <1>2, <1>4, ElementOfSeq
  <2>2. QED BY <1>4, <1>0, <2>1
<1> HIDE DEF e
<1>7. /\ out' \in Seq(Octet) /\ Len(out) \in Nat /\ Len(out') = Len(out) + 1
      /\ out'[Len(out) + 1] = o
  BY <1>2, <1>5, AppendFacts
<1>8. PutAt(out', b, header, n + 1)
  <2>1. PutAt(out', b, header, n)
    BY <1>2, <1>3, <1>5, <1>6, StaysPut
  <2>2. \A j \in 1..n : out'[b + j] = e[j]
    BY <1>1, <2>1 DEF PutAt, e
  <2>3. out'[b + (n + 1)] = e[n + 1]
    BY <1>3, <1>5, <1>6, <1>7
  <2>4. \A j \in 1..n + 1 : out'[b + j] = e[j]
    BY <2>2, <2>3
  <2>5. b + (n + 1) <= Len(out')
    BY <1>3, <1>6, <1>7
  <2>6. QED BY <1>1, <2>4, <2>5 DEF PutAt, e
<1>9. ASSUME NEW i \in 1..k PROVE PutAt(out', bs[i], sent[i], Len(Octets(sent[i])))
  <2>1. PutAt(out, bs[i], sent[i], Len(Octets(sent[i])))
    BY <1>4 DEF Written
  <2>2. sent[i] \in Header
    BY <1>2, <1>4, ElementOfSeq, TagCodecAssumption
  <2>3. Len(Octets(sent[i])) \in Nat /\ bs[i] \in Nat
    BY <1>6, <2>2, HeaderEncoded
  <2>4. ASSUME NEW h, NEW m \in Nat, PutAt(out, bs[i], h, m) PROVE PutAt(out', bs[i], h, m)
    BY <1>2, <1>5, <2>3, <2>4, StaysPut
  <2>5. QED BY <2>1, <2>3, <2>4
<1>10. CASE n + 1 # l
  <2>1. call' = "putting" /\ sent' = sent
    BY <1>1, <1>5, <1>10
  <2>2. \E m \in 0..Len(Octets(header')) - 1 :
          /\ Len(out') = b + m /\ PutAt(out', b, header', m)
          /\ pending' = SubSeq(Octets(header'), m + 1, Len(Octets(header')))
    <3>1. n + 1 \in 0..l - 1 /\ (n + 1) + 1 = n + 2 /\ Len(out') = b + (n + 1)
      BY <1>3, <1>4, <1>6, <1>7, <1>10
    <3>2. \E m \in 0..l - 1 : /\ Len(out') = b + m /\ PutAt(out', b, header, m)
                              /\ pending' = SubSeq(e, m + 1, l)
      BY <1>5, <1>8, <3>1
    <3>3. Octets(header') = e /\ l = Len(e) /\ header' = header
      BY <1>1, <1>4 DEF e
    <3>4. QED BY <3>2, <3>3, Zenon
  <2>3. b = bs[Len(sent') + 1]
    BY <1>0, <2>1
  <2>4. \A i \in 1..Len(sent) : PutAt(out', bs[i], sent[i], Len(Octets(sent[i])))
    BY <1>4, <1>9
  <2>5. Written(bs)'
    <3>1. /\ sent' \in Seq(Headers) /\ header' \in Headers /\ Len(bs) = Len(sent') + 1
          /\ call' \in {"idle", "putting", "true", "false"}
          /\ closed' => call' # "putting"
          /\ ~(call' \in {"idle", "true"})
      BY <1>1, <1>2, <2>1
    <3>2. InProgress(bs[Len(sent) + 1])'
      BY <2>2, <2>3, Zenon DEF InProgress
    <3>3. \A i \in 1..Len(sent') :
            /\ bs[i + 1] = bs[i] + Len(Octets(sent'[i]))
            /\ PutAt(out', bs[i], sent'[i], Len(Octets(sent'[i])))
      BY <2>1, <2>4, Zenon DEF Written
    <3>4. QED BY <1>2, <1>7, <3>1, <3>2, <3>3, Zenon DEF Written
  <2>6. Kept(bs, bs)
    BY <1>4, <1>7, <2>1 DEF Kept
  <2>7. QED BY <2>5, <2>6
<1>11. CASE n + 1 = l
  <2>1. call' = "true" /\ sent' = Append(sent, header)
    BY <1>1, <1>5, <1>11
  <2> DEFINE cs == Append(bs, b + l)
  <2>2. /\ cs \in Seq(Nat) /\ Len(cs) = k + 2 /\ cs[k + 2] = b + l
        /\ \A i \in 1..k + 1 : cs[i] = bs[i]
    <3>1. b + l \in Nat /\ Len(bs) = k + 1 /\ (k + 1) + 1 = k + 2
      BY <1>2, <1>4, <1>6
    <3>2. QED BY <1>2, <3>1, AppendFacts
  <2>3. /\ sent' \in Seq(Headers) /\ Len(sent') = k + 1 /\ sent'[k + 1] = header
        /\ \A i \in 1..k : sent'[i] = sent[i]
    BY <1>2, <1>4, <2>1, AppendFacts
  <2> HIDE DEF cs
  <2>4. bs[k + 1] = b /\ Len(out') = b + l
    <3>1. bs[k + 1] = b
      BY <1>0, <1>4
    <3>2. Len(out') = b + l
      BY <1>3, <1>4, <1>6, <1>7, <1>11, SMTT(30)
    <3>3. QED BY <3>1, <3>2
  <2>5. ASSUME NEW i \in 1..k + 1
        PROVE  /\ cs[i + 1] = cs[i] + Len(Octets(sent'[i]))
               /\ PutAt(out', cs[i], sent'[i], Len(Octets(sent'[i])))
    <3>1. CASE i \in 1..k
      <4>1. cs[i + 1] = bs[i + 1] /\ cs[i] = bs[i] /\ sent'[i] = sent[i]
        <5>1. i \in 1..k + 1 /\ i + 1 \in 1..k + 1
          BY <1>4, <3>1
        <5>2. QED BY <2>2, <2>3, <3>1, <5>1
      <4>2. bs[i + 1] = bs[i] + Len(Octets(sent[i]))
        BY <1>4, <3>1 DEF Written
      <4>3. PutAt(out', bs[i], sent[i], Len(Octets(sent[i])))
        BY <1>9, <3>1
      <4>4. QED BY <4>1, <4>2, <4>3, Zenon
    <3>2. CASE i = k + 1
      <4>1. /\ i + 1 = k + 2 /\ cs[k + 2] = b + l /\ cs[i] = b /\ sent'[i] = header
            /\ Len(Octets(header)) = l
        BY <1>4, <2>2, <2>3, <2>4, <3>2 DEF e
      <4>2. PutAt(out', b, header, l)
        BY <1>8, <1>11
      <4>3. QED BY <4>1, <4>2, Zenon
    <3>3. QED BY <1>4, <3>1, <3>2
  <2>6. /\ cs[1] = 0 /\ Len(cs) = Len(sent') + 1 /\ cs[Len(sent') + 1] = b + l
    <3>1. 1 \in 1..k + 1
      BY <1>4
    <3>2. QED BY <1>2, <1>4, <2>2, <2>3, <3>1
  <2>7. \A i \in 1..Len(sent') :
          /\ cs[i + 1] = cs[i] + Len(Octets(sent'[i]))
          /\ PutAt(out', cs[i], sent'[i], Len(Octets(sent'[i])))
    BY <2>3, <2>5
  <2>8. Written(cs)'
    <3>1. /\ header' \in Headers /\ Len(out') = cs[Len(sent') + 1]
          /\ call' \in {"idle", "putting", "true", "false"}
          /\ closed' => call' # "putting"
          /\ ~(call' \in {"putting", "false"})
      BY <1>1, <1>2, <2>1, <2>4, <2>6
    <3>2. QED BY <1>7, <2>2, <2>3, <2>6, <2>7, <3>1, Zenon DEF Written
  <2>9. Kept(bs, cs)
    BY <1>4, <1>7, <2>2, <2>3 DEF Kept
  <2>10. QED BY <2>8, <2>9, Zenon
<1>12. QED BY <1>10, <1>11

LEMMA RefuseWritten ==
  ASSUME NEW bs, Written(bs), Refuse
  PROVE  Written(bs)' /\ Kept(bs, bs)
<1>1. /\ call = "putting" /\ call' = "false" /\ header' = header /\ pending' = pending
      /\ out' = out /\ sent' = sent /\ closed' = TRUE
  BY DEF Refuse, Enc!PutRefused
<1>2. InProgress(bs[Len(sent) + 1])
  BY <1>1 DEF Written
<1>3. InProgress(bs[Len(sent) + 1])'
  BY <1>1, <1>2 DEF InProgress
<1>4. Written(bs)'
  BY <1>1, <1>3 DEF Written
<1>5. Len(out) \in Nat /\ Len(sent) \in Nat
  BY LenProperties DEF Written
<1>6. QED BY <1>1, <1>4, <1>5 DEF Kept

(* Every step keeps what was written where it is.                          *)
LEMMA WrittenStep ==
  ASSUME NEW bs, Written(bs), [Next]_vars
  PROVE  \E cs : Written(cs)' /\ Kept(bs, cs)
<1>1. ASSUME NEW h \in Headers, StartEncode(h) PROVE Written(bs)' /\ Kept(bs, bs)
  BY <1>1, EncodeWritten
<1>2. CASE Refuse
  BY <1>2, RefuseWritten, Zenon
<1>3. CASE PutOctet
  BY <1>3, PutWritten
<1>4. ASSUME Close \/ Reader \/ UNCHANGED vars PROVE Written(bs)' /\ Kept(bs, bs)
  <2>1. /\ call' = call /\ header' = header /\ pending' = pending /\ out' = out /\ sent' = sent
        /\ (closed' => closed \/ call' # "putting")
    BY <1>4 DEF Close, Reader, GetOctet, GetEnds, NextTag, vars, encoder
  <2>2. QED BY <2>1, WrittenUnchanged
<1>5. QED BY <1>1, <1>2, <1>3, <1>4, Zenon DEF Next

LEMMA AlwaysWritten == Spec => [](\E bs : Written(bs))
<1>1. Init => \E bs : Written(bs)
  BY InitWritten
<1>2. (\E bs : Written(bs)) /\ [Next]_vars => (\E bs : Written(bs))'
  <2>1. SUFFICES ASSUME NEW bs, Written(bs), [Next]_vars PROVE \E cs : Written(cs)'
    OBVIOUS
  <2>2. QED BY <2>1, WrittenStep, Zenon
<1>3. QED BY <1>1, <1>2, PTL DEF Spec

(* Whatever the headers and wherever the output refuses an octet: between  *)
(* calls that returned true the stream has as many octets as tag_sizeof    *)
(* says of the headers sent (tag.h:289, 319).                              *)
THEOREM AlwaysSizesAddUp == Spec => []SizesAddUp
<1>1. ASSUME NEW bs, Written(bs) PROVE SizesAddUp
  <2> DEFINE Solves(f) == f = [i \in 0..Len(sent) |->
                                 IF i = 0 THEN 0 ELSE f[i - 1] + Enc!Sizeof(sent[i])]
             size == CHOOSE f : Solves(f)
             g == [i \in 0..Len(sent) |-> bs[i + 1]]
  <2>1. PICK k \in Nat : k = Len(sent)
    BY <1>1, LenProperties DEF Written
  <2>2. \A i \in 1..k : bs[i + 1] = bs[i] + Enc!Sizeof(sent[i])
    <3>1. TAKE i \in 1..k
    <3>2. sent[i] \in Header
      BY <1>1, <2>1, ElementOfSeq, TagCodecAssumption DEF Written
    <3>3. Len(Octets(sent[i])) = Enc!Sizeof(sent[i])
      BY <3>2, HeaderEncoded
    <3>4. QED BY <1>1, <2>1, <3>3 DEF Written
  <2>3. bs[1] = 0
    BY <1>1 DEF Written
  <2>4. Solves(g)
    <3>1. ASSUME NEW i \in 0..k
          PROVE  bs[i + 1] = IF i = 0 THEN 0 ELSE g[i - 1] + Enc!Sizeof(sent[i])
      <4>1. CASE i = 0
        BY <2>3, <4>1
      <4>2. CASE i # 0
        <5>1. i \in 1..k /\ i - 1 \in 0..Len(sent) /\ (i - 1) + 1 = i
          BY <2>1, <4>2
        <5>2. g[i - 1] = bs[i]
          BY <5>1
        <5> HIDE DEF g
        <5>3. QED BY <2>2, <4>2, <5>1, <5>2
      <4>3. QED BY <4>1, <4>2
    <3>2. QED BY <2>1, <3>1
  <2>5. Solves(size)
    <3> HIDE DEF Solves, g
    <3>1. QED BY <2>4
  <2> HIDE DEF size, g
  <2>6. \A i \in 0..k : size[i] = bs[i + 1]
    <3> DEFINE T == {i \in 0..k : size[i] # bs[i + 1]}
    <3>1. SUFFICES ASSUME T # {} PROVE FALSE
      OBVIOUS
    <3>2. PICK m \in T : \A i \in T : m <= i
      <4>1. T \subseteq Nat
        OBVIOUS
      <4> HIDE DEF T
      <4>2. QED BY <3>1, <4>1, LeastNatural
    <3>3. CASE m = 0
      BY <2>1, <2>3, <2>5, <3>3
    <3>4. CASE m # 0
      <4>1. m \in 1..k /\ m - 1 \in 0..k /\ ~(m <= m - 1) /\ (m - 1) + 1 = m
        BY <3>4
      <4>2. m - 1 \notin T
        <5> HIDE DEF T
        <5>1. QED BY <3>2, <4>1
      <4>3. size[m - 1] = bs[m]
        BY <4>1, <4>2
      <4>4. size[m] = size[m - 1] + Enc!Sizeof(sent[m])
        BY <2>1, <2>5, <3>4, <4>1
      <4>5. size[m] = bs[m + 1]
        BY <2>2, <4>1, <4>3, <4>4
      <4>6. QED BY <4>5
    <3>5. QED BY <3>3, <3>4
  <2>7. SizesAddUp = (call # "putting" /\ call # "false" => Len(out) = size[Len(sent)])
    BY DEF SizesAddUp, size
  <2>8. call # "putting" /\ call # "false" => Len(out) = size[Len(sent)]
    <3>1. call # "putting" /\ call # "false" => Len(out) = bs[k + 1]
      BY <1>1, <2>1 DEF Written
    <3>2. size[k] = bs[k + 1]
      BY <2>1, <2>6
    <3>3. QED BY <2>1, <3>1, <3>2
  <2>9. QED BY <2>7, <2>8
<1>2. (\E bs : Written(bs)) => SizesAddUp
  BY <1>1
<1>3. QED BY <1>2, AlwaysWritten, PTL

-----------------------------------------------------------------------------
(* The reader.  Lengths that take more than one octet are not always put   *)
(* right (RoundTrip of MCTagCodecLong fails): for the others the octets of *)
(* a header denote it.                                                     *)
LengthsDenoted == \A h \in Headers : LengthDenotes(Enc!EncodedLength(h), h)

(* Those of at most one octet are put right.                               *)
THEOREM ShortLengthsDenoted ==
  ASSUME NEW h \in Header, h.shape = "constructed_indefinite" \/ h.length <= 255
  PROVE  LengthDenotes(Enc!EncodedLength(h), h)
<1> DEFINE l == h.length
           ls == Enc!EncodedLength(h)
<1>1. l \in Nat
  BY Widths DEF Header
<1>2. CASE h.shape = "constructed_indefinite"
  BY <1>2 DEF Enc!EncodedLength, Enc!Indefinite, LengthDenotes, Indefinite
<1>3. CASE h.shape # "constructed_indefinite" /\ l <= 127
  <2>1. ls = <<l>> /\ l < 128
    BY <1>1, <1>3 DEF Enc!EncodedLength
  <2>2. QED BY <1>3, <2>1 DEF LengthDenotes
<1>4. CASE h.shape # "constructed_indefinite" /\ ~(l <= 127)
  <2>1. Enc!SizeofExt(l, 256) = 1
    <3>1. l <= 255 /\ l \div 256 = 0
      BY <1>1, <1>4
    <3>2. QED BY <1>1, <3>1, OneLengthOctet
  <2>2. ls = <<128 + 1>> \o [k \in 1..1 |-> Enc!ShiftedRight(l, 1 - k) % 256]
    BY <1>4, <2>1 DEF Enc!EncodedLength
  <2>3. [k \in 1..1 |-> Enc!ShiftedRight(l, 1 - k) % 256] = <<l>>
    <3>1. Enc!ShiftedRight(l, 0) = l
      <4>1. Enc!ShiftedRight(l, 0) = ShiftedRight(l, 0)
        BY DEF Enc!ShiftedRight, ShiftedRight
      <4>2. ShiftedRight(l, 0) = l
        BY <1>1, ShiftedRightFacts
      <4>3. QED BY <4>1, <4>2
    <3>2. l % 256 = l
      BY <1>1, <1>4
    <3>3. \A k \in 1..1 : Enc!ShiftedRight(l, 1 - k) % 256 = l
      <4>1. \A k \in 1..1 : 1 - k = 0
        OBVIOUS
      <4>2. QED BY <3>1, <3>2, <4>1
    <3>4. [k \in 1..1 |-> Enc!ShiftedRight(l, 1 - k) % 256] = [k \in 1..1 |-> l]
      BY <3>3, Zenon
    <3>5. QED BY <3>4
  <2> HIDE DEF ls
  <2>4. ASSUME NEW o \in Nat, NEW ds \in Seq(Nat) PROVE Tail(<<o>> \o ds) = ds
    OBVIOUS
  <2>5. Len(ls) = 2 /\ ls[1] = 129 /\ Tail(ls) = <<l>>
    <3>1. PICK o \in Nat : o = 128 + 1
      OBVIOUS
    <3>2. PICK ds \in Seq(Nat) : ds = <<l>> /\ Len(ds) = 1
      <4>1. ASSUME NEW x \in Nat PROVE <<x>> \in Seq(Nat) /\ Len(<<x>>) = 1
        OBVIOUS
      <4>2. QED BY <1>1, <4>1, Zenon
    <3>3. ls = <<o>> \o ds
      BY <2>2, <2>3, <3>1, <3>2, Zenon
    <3>4. <<o>> \in Seq(Nat) /\ Len(<<o>>) = 1 /\ <<o>>[1] = o
      OBVIOUS
    <3>5. Len(ls) = 2 /\ ls[1] = 129
      BY <3>1, <3>2, <3>3, <3>4, ConcatProperties
    <3>6. QED BY <2>4, <3>2, <3>3, <3>5, Zenon
  <2>6. Value(256, <<l>>) = l
    BY <1>1, ValueSingle
  <2>7. Value(256, Tail(ls)) = l
    BY <2>5, <2>6
  <2>8. Len(ls) > 1 /\ ls[1] = 128 + Len(ls) - 1 /\ ls[1] # Reserved
    BY <2>5 DEF Reserved
  <2>9. LengthDenotes(ls, h)
    BY <1>4, <2>7, <2>8 DEF LengthDenotes
  <2>10. QED BY <2>9 DEF ls
<1>5. QED BY <1>2, <1>3, <1>4

LEMMA HeaderDenoted ==
  ASSUME LengthsDenoted, NEW h \in Headers
  PROVE  DecP!Denoting(Enc!EncodedIdentifier(h), Enc!EncodedLength(h), h)
<1>1. PICK is, ls : is = Enc!EncodedIdentifier(h) /\ ls = Enc!EncodedLength(h)
  OBVIOUS
<1>2. h \in Header
  BY TagCodecAssumption
<1>3. /\ is \in Seq(Octet) /\ IdentifierDenotes(is, h)
      /\ Len(is) > 1 => h.number > 30 /\ is[2] # 0
  BY <1>1, <1>2, IdentifierEncoded
<1>4. /\ ls \in Seq(Octet) /\ LengthDenotes(ls, h)
      /\ Len(ls) > 1 => h.length > 127
  BY <1>1, <1>2, LengthEncoded DEF LengthPut, LengthsDenoted
<1>5. DecP!IdentifierDenotes(is, h)
  BY <1>3, Zenon DEF IdentifierDenotes, DecP!IdentifierDenotes, Class, DecP!Class, Constructed,
     DecP!Constructed, LowNumber, DecP!LowNumber, HighForm, DecP!HighForm, More, DecP!More,
     Groups, DecP!Groups, Low7, DecP!Low7, Value, DecP!Value
<1>6. DecP!LengthDenotes(ls, h)
  BY <1>4, Zenon DEF LengthDenotes, DecP!LengthDenotes, Indefinite, DecP!Indefinite, Reserved,
     DecP!Reserved, Value, DecP!Value
<1>7. DecP!Octet = Octet /\ h \in DecP!Header
  BY <1>2 DEF Octet, DecP!Octet, Header, DecP!Header, TagClass, DecP!TagClass, TagShape, DecP!TagShape
<1>8. DecP!Denoting(is, ls, h)
  BY <1>3, <1>4, <1>5, <1>6, <1>7, Zenon DEF DecP!Denoting
<1>9. QED BY <1>1, <1>8

\* The header that the reader comes to after d of them.
Coming(d) == IF d < Len(sent) THEN sent[d + 1] ELSE header

\* The reader is on that header, and has not all of it.
Amid(h) == DecP!Amid(Enc!EncodedIdentifier(h), Enc!EncodedLength(h))

Reading(bs) ==
  /\ DecP!Decoding
  /\ decoded \in Seq(Header) /\ Len(decoded) <= Len(sent)
  /\ \A i \in 1..Len(decoded) : decoded[i] = Read(sent[i])
  /\ got \in Nat /\ got <= Len(out)
  /\ result = "none" => got = bs[Len(decoded) + 1] + Len(read) /\ Amid(Coming(Len(decoded)))
  /\ result = "complete" => got = bs[Len(decoded) + 1]
  /\ result \notin {"none", "complete"} => closed
  /\ FailsOnlyWhereInterrupted

LEMMA ReadType ==
  ASSUME DecP!Decoding
  PROVE  /\ read \in Seq(Octet) /\ Len(read) \in Nat /\ strict \in BOOLEAN
         /\ result = "none" <=> pc # "done"
<1>1. read \in Seq(Octet) /\ strict \in BOOLEAN
  BY DEF DecP!Decoding, DecP!IInv, DecP!TypeOK, DecP!Octet, Octet
<1>2. result = "none" <=> pc # "done"
  BY DEF DecP!Decoding, DecP!Shown
<1>3. QED BY <1>1, <1>2, LenProperties

LEMMA ComingType ==
  ASSUME NEW bs, Written(bs), NEW d \in Nat
  PROVE  Coming(d) \in Headers /\ Coming(d) \in Header
<1>1. CASE d < Len(sent)
  <2>1. d + 1 \in 1..Len(sent)
    BY <1>1, LenProperties DEF Written
  <2>2. sent[d + 1] \in Headers
    BY <2>1, ElementOfSeq DEF Written
  <2>3. QED BY <1>1, <2>2, TagCodecAssumption DEF Coming
<1>2. CASE ~(d < Len(sent))
  BY <1>2, TagCodecAssumption DEF Coming, Written
<1>3. QED BY <1>1, <1>2

\* At its beginning the reader is on any header.
LEMMA AmidAtFirst ==
  ASSUME NEW h \in Header, Len(read) = 0 PROVE Amid(h)
<1>1. PICK l \in Nat \ {0} : l = Len(Octets(h))
  BY HeaderEncoded
<1>2. Len(read) < Len(Enc!EncodedIdentifier(h)) + Len(Enc!EncodedLength(h))
  BY <1>1, HeaderEncoded
<1>3. \A i \in 1..Len(read) : FALSE
  OBVIOUS
<1>4. QED BY <1>2, <1>3 DEF Amid, DecP!Amid

\* The next octet is in the stream: it is that of the header, and the last one
\* only of a header that was sent.
LEMMA NextOctet ==
  ASSUME NEW bs, Written(bs), NEW d \in Nat, d <= Len(sent),
         NEW r \in Nat, r < Len(Octets(Coming(d))), bs[d + 1] + r < Len(out)
  PROVE  /\ out[bs[d + 1] + r + 1] = Octets(Coming(d))[r + 1]
         /\ out[bs[d + 1] + r + 1] \in Octet
         /\ d = Len(sent) => r + 1 < Len(Octets(Coming(d)))
<1>1. /\ sent \in Seq(Headers) /\ out \in Seq(Octet) /\ bs \in Seq(Nat)
      /\ Len(bs) = Len(sent) + 1 /\ Len(sent) \in Nat /\ Len(out) \in Nat
  BY LenProperties DEF Written
<1>2. PICK b \in Nat : b = bs[d + 1]
  <2>1. d + 1 \in 1..Len(bs)
    BY <1>1
  <2>2. QED BY <1>1, <2>1, ElementOfSeq
<1>3. PICK h \in Header : h = Coming(d)
  BY ComingType
<1>4. PICK l \in Nat \ {0} : l = Len(Octets(h))
  BY HeaderEncoded
<1>5. out[b + r + 1] \in Octet
  <2>1. b + r + 1 \in 1..Len(out)
    BY <1>1, <1>2
  <2>2. QED BY <1>1, <2>1, ElementOfSeq
<1>6. r + 1 \in 1..l /\ b + (r + 1) = b + r + 1
  BY <1>2, <1>3, <1>4
<1>7. CASE d < Len(sent)
  <2>1. d + 1 \in 1..Len(sent) /\ h = sent[d + 1]
    BY <1>1, <1>3, <1>7 DEF Coming
  <2>2. PutAt(out, b, h, l)
    BY <1>2, <1>4, <2>1 DEF Written
  <2>3. out[b + (r + 1)] = Octets(h)[r + 1]
    BY <1>6, <2>2 DEF PutAt
  <2>4. QED BY <1>1, <1>2, <1>3, <1>5, <1>6, <1>7, <2>3
<1>8. CASE d = Len(sent)
  <2>1. h = header
    BY <1>1, <1>3, <1>8 DEF Coming
  <2>2. call \in {"putting", "false"}
    <3>1. call \in {"idle", "true"} => Len(out) = b
      BY <1>2, <1>8 DEF Written
    <3>2. Len(out) # b
      BY <1>1, <1>2
    <3>3. QED BY <3>1, <3>2 DEF Written
  <2>3. PICK n \in 0..l - 1 : Len(out) = b + n /\ PutAt(out, b, h, n)
    BY <1>2, <1>4, <1>8, <2>1, <2>2 DEF Written, InProgress
  <2>4. r + 1 \in 1..n /\ r + 1 < l
    BY <1>2, <1>4, <2>3
  <2>5. out[b + (r + 1)] = Octets(h)[r + 1]
    BY <2>3, <2>4 DEF PutAt
  <2>6. QED BY <1>2, <1>3, <1>4, <1>5, <1>6, <2>4, <2>5
<1>9. QED BY <1>1, <1>7, <1>8

\* There is no other octet in the stream: every header sent was decoded, and
\* what was got of another one is what its call has put.
LEMMA NothingMore ==
  ASSUME NEW bs, Written(bs), NEW d \in Nat, d <= Len(sent),
         NEW r \in Nat, r < Len(Octets(Coming(d))), Len(out) <= bs[d + 1] + r
  PROVE  d = Len(sent) /\ (r > 0 /\ bs[d + 1] + r = Len(out) => call \in {"putting", "false"})
<1>1. /\ bs \in Seq(Nat) /\ Len(bs) = Len(sent) + 1 /\ Len(sent) \in Nat /\ Len(out) \in Nat
  BY LenProperties DEF Written
<1>2. PICK b \in Nat : b = bs[d + 1]
  <2>1. d + 1 \in 1..Len(bs)
    BY <1>1
  <2>2. QED BY <1>1, <2>1, ElementOfSeq
<1>3. PICK l \in Nat \ {0} : l = Len(Octets(Coming(d)))
  BY ComingType, HeaderEncoded
<1>4. ~(d < Len(sent))
  <2>1. SUFFICES ASSUME d < Len(sent) PROVE FALSE
    OBVIOUS
  <2>2. d + 1 \in 1..Len(sent) /\ Coming(d) = sent[d + 1]
    BY <1>1, <2>1 DEF Coming
  <2>3. PutAt(out, b, sent[d + 1], l)
    BY <1>2, <1>3, <2>2 DEF Written
  <2>4. b + l <= Len(out)
    BY <2>3 DEF PutAt
  <2>5. QED BY <1>1, <1>2, <1>3, <2>4
<1>5. d = Len(sent)
  BY <1>1, <1>4
<1>6. ASSUME r > 0, b + r = Len(out) PROVE call \in {"putting", "false"}
  <2>1. call \in {"idle", "true"} => Len(out) = b
    BY <1>2, <1>5 DEF Written
  <2>2. Len(out) # b
    BY <1>1, <1>2, <1>6
  <2>3. QED BY <2>1, <2>2 DEF Written
<1>7. QED BY <1>2, <1>5, <1>6

(* What the writer does while the reader waits does not disturb it.        *)
LEMMA ReadingKept ==
  ASSUME NEW bs, Written(bs), Reading(bs), NEW cs, Written(cs)', Kept(bs, cs),
         UNCHANGED <<decoder, got, decoded>>,
         closed => closed' /\ call' = call /\ sent' = sent,
         \/ sent' = sent /\ header' = header
         \/ sent' = sent /\ Len(out) = bs[Len(sent) + 1]
         \/ Len(sent') > Len(sent) /\ sent'[Len(sent) + 1] = header
  PROVE  Reading(cs)'
<1>1. /\ decoded' = decoded /\ got' = got /\ read' = read /\ result' = result
      /\ UNCHANGED DecP!vars
  BY DEF decoder, DecP!vars
<1>2. PICK d \in Nat : d = Len(decoded)
  BY LenProperties DEF Reading
<1>3. /\ DecP!Decoding /\ d <= Len(sent) /\ got \in Nat /\ got <= Len(out)
      /\ decoded \in Seq(Header)
      /\ result = "none" => got = bs[d + 1] + Len(read) /\ Amid(Coming(d))
      /\ result = "complete" => got = bs[d + 1]
      /\ result \notin {"none", "complete"} => closed
      /\ FailsOnlyWhereInterrupted
  BY <1>2 DEF Reading
<1>4. DecP!Decoding'
  BY <1>1, <1>3, Widths, DecP!UnchangedDecodes
<1>5. /\ Len(sent) \in Nat /\ Len(sent') \in Nat /\ Len(sent) <= Len(sent')
      /\ Len(out) \in Nat /\ Len(out') \in Nat /\ Len(out) <= Len(out')
      /\ \A i \in 1..Len(sent) : sent'[i] = sent[i]
      /\ \A i \in 1..Len(sent) + 1 : cs[i] = bs[i]
  BY LenProperties DEF Written, Kept
<1>6. cs[d + 1] = bs[d + 1]
  BY <1>2, <1>3, <1>5
<1>7. \A i \in 1..d : decoded[i] = Read(sent'[i])
  <2>1. \A i \in 1..d : decoded[i] = Read(sent[i])
    BY <1>2 DEF Reading
  <2>2. \A i \in 1..d : sent'[i] = sent[i]
    BY <1>3, <1>5
  <2>3. QED BY <2>1, <2>2, Zenon
<1>8. PICK h, k : h = Coming(d) /\ k = Coming(d)'
  OBVIOUS
<1>9. ASSUME result = "none" PROVE Amid(k)
  <2>1. CASE k = h
    BY <1>3, <1>8, <1>9, <2>1
  <2>2. CASE k # h
    <3>1. d = Len(sent) /\ h = header
      <4>1. d < Len(sent) => d + 1 \in 1..Len(sent) /\ d < Len(sent')
        BY <1>5
      <4>2. ~(d < Len(sent))
        BY <1>5, <1>8, <2>2, <4>1 DEF Coming
      <4>3. QED BY <1>3, <1>5, <1>8, <4>2 DEF Coming
    <3>2. sent' = sent /\ Len(out) = bs[d + 1]
      <4>1. ASSUME Len(sent') > Len(sent), sent'[Len(sent) + 1] = header PROVE k = header
        <5>1. d < Len(sent')
          BY <1>5, <3>1, <4>1
        <5>2. QED BY <1>8, <3>1, <4>1, <5>1 DEF Coming
      <4>2. ASSUME sent' = sent, header' = header PROVE k = h
        BY <1>8, <4>2 DEF Coming
      <4>3. QED BY <2>2, <3>1, <4>1, <4>2
    <3>3. Len(read) = 0
      <4>1. got = bs[d + 1] + Len(read) /\ Len(read) \in Nat
        BY <1>3, <1>9, ReadType
      <4>2. QED BY <1>3, <1>5, <3>2, <4>1
    <3>4. k \in Header
      <4>1. header' \in Header
        BY TagCodecAssumption DEF Written
      <4>2. k = header'
        <5>1. ~(d < Len(sent'))
          BY <1>5, <3>1, <3>2
        <5>2. QED BY <1>8, <5>1 DEF Coming
      <4>3. QED BY <4>1, <4>2
    <3>5. QED BY <3>3, <3>4, AmidAtFirst
  <2>3. QED BY <2>1, <2>2
<1>10. result' = "none" => Amid(Coming(Len(decoded)))'
  <2>1. SUFFICES ASSUME result = "none" PROVE Amid(Coming(Len(decoded)))'
    BY <1>1
  <2>2. DecP!Amid(Enc!EncodedIdentifier(k), Enc!EncodedLength(k))'
    BY <1>1, <1>9, <2>1 DEF Amid, DecP!Amid
  <2>3. k = Coming(Len(decoded))'
    BY <1>1, <1>2, <1>8
  <2>4. QED BY <2>2, <2>3 DEF Amid
<1>11. FailsOnlyWhereInterrupted'
  BY <1>1, <1>3 DEF FailsOnlyWhereInterrupted
<1>12. QED BY <1>1, <1>2, <1>3, <1>4, <1>5, <1>6, <1>7, <1>10, <1>11 DEF Reading

\* The decoder of the model and the one of the proofs.
LEMMA SameGet ==
  ASSUME NEW o, Dec!Get(o) PROVE DecP!Get(o)
  BY DEF Dec!Get, DecP!Get, Dec!GotIdentifier, DecP!GotIdentifier,
         Dec!GotNumberFirst, DecP!GotNumberFirst, Dec!GotNumberFollowing, DecP!GotNumberFollowing,
         Dec!GotLength, DecP!GotLength, Dec!GotLengthOctet, DecP!GotLengthOctet,
         Dec!NumberSoFar, DecP!NumberSoFar, Dec!Returns, DecP!Returns, Dec!Awaits, DecP!Awaits,
         Dec!Completes, DecP!Completes, Dec!Decoded, DecP!Decoded, Dec!Shape, DecP!Shape,
         Dec!NumberFull, DecP!NumberFull, Dec!LengthFull, DecP!LengthFull,
         Dec!NumberShifted, DecP!NumberShifted, Dec!LengthShifted, DecP!LengthShifted,
         Dec!LowNumber, DecP!LowNumber, Dec!HighForm, DecP!HighForm, Dec!Low7, DecP!Low7,
         Dec!More, DecP!More, Dec!Reserved, DecP!Reserved, Dec!Indefinite, DecP!Indefinite,
         Dec!Constructed, DecP!Constructed, Dec!Class, DecP!Class,
         Dec!Truncated, DecP!Truncated

(* Each octet got is the next one of the header that the reader is on, and *)
(* the last one completes it.                                              *)
LEMMA GetReads ==
  ASSUME LengthsDenoted, NEW bs, Written(bs), Reading(bs), GetOctet
  PROVE  Reading(bs)'
<1>1. PICK o : o = out[got + 1]
  OBVIOUS
<1>2. /\ got < Len(out) /\ Dec!Get(o) /\ got' = got + 1
      /\ decoded' = IF result' = "complete" THEN Append(decoded, th') ELSE decoded
      /\ UNCHANGED <<encoder, sent, started, closed>>
  BY <1>1 DEF GetOctet
<1>3. /\ out' = out /\ sent' = sent /\ header' = header /\ call' = call /\ closed' = closed
  BY <1>2 DEF encoder
<1>4. DecP!Get(o)
  BY <1>2, SameGet
<1>5. PICK d \in Nat : d = Len(decoded)
  BY LenProperties DEF Reading
<1>6. PICK r \in Nat : r = Len(read)
  BY ReadType DEF Reading
<1>7. result = "none" /\ pc # "done"
  <2>1. pc # "done"
    BY <1>4 DEF DecP!Get, DecP!GotIdentifier, DecP!GotNumberFirst, DecP!GotNumberFollowing,
       DecP!GotLength, DecP!GotLengthOctet
  <2>2. QED BY <2>1, ReadType DEF Reading
<1>8. /\ DecP!Decoding /\ d <= Len(sent) /\ decoded \in Seq(Header)
      /\ \A i \in 1..d : decoded[i] = Read(sent[i])
      /\ got = bs[d + 1] + r /\ Amid(Coming(d)) /\ got \in Nat
  BY <1>5, <1>6, <1>7 DEF Reading
<1>9. PICK h \in Header : h = Coming(d) /\ h \in Headers
  BY ComingType
<1>10. PICK is, ls : is = Enc!EncodedIdentifier(h) /\ ls = Enc!EncodedLength(h)
  OBVIOUS
<1>11. PICK l \in Nat \ {0} :
         /\ l = Len(Octets(h)) /\ l = Len(is) + Len(ls)
         /\ \A i \in 1..l : Octets(h)[i] = DecP!OctetAt(is, ls, i)
  BY <1>10, HeaderEncoded
<1>12. DecP!Denoting(is, ls, h)
  BY <1>9, <1>10, HeaderDenoted
<1>13. DecP!Amid(is, ls) /\ r < l
  <2>1. DecP!Amid(is, ls)
    BY <1>8, <1>9, <1>10 DEF Amid
  <2>2. Len(read) < Len(is) + Len(ls)
    BY <2>1 DEF DecP!Amid
  <2>3. QED BY <1>6, <1>11, <2>1, <2>2
<1>14. o = Octets(h)[r + 1] /\ o \in Octet /\ (d = Len(sent) => r + 1 < l)
  <2>1. bs[d + 1] + r < Len(out)
    BY <1>2, <1>8
  <2>2. r < Len(Octets(Coming(d)))
    BY <1>9, <1>11, <1>13
  <2>3. /\ out[bs[d + 1] + r + 1] = Octets(h)[r + 1]
        /\ out[bs[d + 1] + r + 1] \in Octet
        /\ d = Len(sent) => r + 1 < l
    <3>1. d <= Len(sent)
      BY <1>8
    <3>2. /\ out[bs[d + 1] + r + 1] = Octets(Coming(d))[r + 1]
          /\ out[bs[d + 1] + r + 1] \in Octet
          /\ d = Len(sent) => r + 1 < Len(Octets(Coming(d)))
      BY <2>1, <2>2, <3>1, NextOctet
    <3>3. QED BY <1>9, <1>11, <3>2, Zenon
  <2>4. QED BY <1>1, <1>8, <2>3
<1>15. DecP!Follows(is, ls, o)
  <2>1. r + 1 \in 1..l
    BY <1>13
  <2>2. o = DecP!OctetAt(is, ls, r + 1)
    BY <1>11, <1>14, <2>1
  <2>3. QED BY <1>6, <2>2 DEF DecP!Follows
<1>16. /\ DecP!Decoding' /\ DecP!Advances(is, ls, h)
       /\ Len(read') = Len(read) + 1
       /\ \A i \in 1..Len(read') : read'[i] = DecP!OctetAt(is, ls, i)
  <2>1. o \in DecP!Octet
    BY <1>14 DEF Octet, DecP!Octet
  <2>2. QED BY <1>4, <1>7, <1>8, <1>12, <1>13, <1>15, <2>1, Widths, DecP!HeaderAdvances
<1>17. Len(read') = r + 1
  BY <1>6, <1>16
<1>18. Len(out) \in Nat /\ Len(out') = Len(out) /\ got' \in Nat /\ got' <= Len(out')
  <2>1. Len(out) \in Nat
    BY LenProperties DEF Written
  <2>2. QED BY <1>2, <1>3, <1>8, <2>1, SMTT(30)
<1>19. PICK b \in Nat : b = bs[d + 1]
  <2>1. d + 1 \in 1..Len(bs) /\ bs \in Seq(Nat)
    BY <1>8, LenProperties DEF Written
  <2>2. QED BY <2>1, ElementOfSeq
<1>20. got = b + r /\ got' = b + (r + 1)
  <2>1. got = b + r
    BY <1>8, <1>19, Zenon
  <2>2. got' = got + 1
    BY <1>2
  <2>3. QED BY <2>1, <2>2
<1>21. CASE r + 1 < l
  <2>1. result' = "none" /\ decoded' = decoded
    BY <1>2, <1>11, <1>17, <1>16, <1>21 DEF DecP!Advances
  <2>2. got' = b + (r + 1)
    BY <1>20
  <2>3. h = Coming(Len(decoded))'
    BY <1>3, <1>5, <1>9, <2>1 DEF Coming
  <2>4. DecP!Amid(is, ls)'
    BY <1>11, <1>16, <1>17, <1>21 DEF DecP!Amid
  <2>5. Amid(Coming(Len(decoded)))'
    BY <1>10, <2>3, <2>4 DEF Amid
  <2>6. FailsOnlyWhereInterrupted'
    BY <2>1 DEF FailsOnlyWhereInterrupted
  <2>7. QED BY <1>3, <1>5, <1>8, <1>16, <1>17, <1>18, <1>19, <2>1, <2>2, <2>5, <2>6 DEF Reading
<1>22. CASE r + 1 = l
  <2>1. result' = "complete" /\ th' = DecP!AsRead(h)
    BY <1>11, <1>17, <1>16, <1>22 DEF DecP!Advances
  <2>2. d < Len(sent) /\ d + 1 \in 1..Len(sent) /\ h = sent[d + 1]
    <3>1. Len(sent) \in Nat
      BY LenProperties DEF Written
    <3>2. d < Len(sent)
      BY <1>8, <1>14, <1>22, <3>1
    <3>3. QED BY <1>9, <3>1, <3>2 DEF Coming
  <2>3. th' = Read(h) /\ Read(h) \in Header
    <3>1. th' = Read(h)
      BY <2>1 DEF DecP!AsRead, Read
    <3>2. Read(h) \in Header
      BY Widths DEF Read, Header
    <3>3. QED BY <3>1, <3>2
  <2>4. /\ decoded' \in Seq(Header) /\ Len(decoded') = d + 1 /\ decoded'[d + 1] = Read(sent[d + 1])
        /\ \A i \in 1..d : decoded'[i] = decoded[i]
    <3>1. decoded' = Append(decoded, th') /\ th' \in Header
      BY <1>2, <2>1, <2>3
    <3>2. QED BY <1>5, <1>8, <2>2, <2>3, <3>1, AppendFacts
  <2>5. \A i \in 1..d + 1 : decoded'[i] = Read(sent'[i])
    <3>1. TAKE i \in 1..d + 1
    <3>2. CASE i \in 1..d
      BY <1>3, <1>8, <2>4, <3>2
    <3>3. CASE i = d + 1
      BY <1>3, <2>4, <3>3
    <3>4. QED BY <3>2, <3>3
  <2>6. got' = bs[(d + 1) + 1]
    <3>1. bs[(d + 1) + 1] = b + l
      BY <1>11, <1>19, <2>2 DEF Written
    <3>2. QED BY <1>20, <1>22, <3>1, Zenon
  <2>7. FailsOnlyWhereInterrupted'
    BY <2>1 DEF FailsOnlyWhereInterrupted
  <2>8. Len(decoded') <= Len(sent')
    BY <1>3, <2>2, <2>4
  <2>9. QED BY <1>3, <1>16, <1>18, <2>1, <2>4, <2>5, <2>6, <2>7, <2>8 DEF Reading
<1>23. QED BY <1>13, <1>21, <1>22

(* The stream ends only after the headers sent, or in the one whose octet  *)
(* was refused.                                                            *)
LEMMA GetEndsReads ==
  ASSUME NEW bs, Written(bs), Reading(bs), GetEnds
  PROVE  Reading(bs)'
<1>1. /\ got = Len(out) /\ closed /\ Dec!GetFails
      /\ out' = out /\ sent' = sent /\ header' = header /\ call' = call /\ closed' = closed
      /\ got' = got /\ decoded' = decoded
  BY DEF GetEnds, encoder
<1>2. DecP!GetFails
  BY <1>1 DEF Dec!GetFails, DecP!GetFails, Dec!Returns, DecP!Returns
<1>3. PICK d \in Nat : d = Len(decoded)
  BY LenProperties DEF Reading
<1>4. PICK r \in Nat : r = Len(read)
  BY ReadType DEF Reading
<1>5. result = "none"
  <2>1. pc # "done"
    BY <1>2 DEF DecP!GetFails
  <2>2. QED BY <2>1, ReadType DEF Reading
<1>6. /\ DecP!Decoding /\ d <= Len(sent) /\ decoded \in Seq(Header)
      /\ got = bs[d + 1] + r /\ Amid(Coming(d)) /\ got \in Nat
  BY <1>3, <1>4, <1>5 DEF Reading
<1>7. DecP!Decoding'
  BY <1>2, <1>6, Widths, DecP!GetFailsDecodes
<1>8. r < Len(Octets(Coming(d)))
  <2>1. PICK h \in Header : h = Coming(d)
    BY ComingType
  <2>2. Len(read) < Len(Enc!EncodedIdentifier(h)) + Len(Enc!EncodedLength(h))
    BY <1>6, <2>1 DEF Amid, DecP!Amid
  <2>3. QED BY <1>4, <2>1, <2>2, HeaderEncoded
<1>9. d = Len(sent) /\ (r > 0 => call = "false")
  <2>1. Len(out) <= bs[d + 1] + r /\ bs[d + 1] + r = Len(out)
    <3>1. Len(out) \in Nat /\ bs[d + 1] + r = Len(out)
      BY <1>1, <1>6
    <3>2. QED BY <3>1
  <2>2. d <= Len(sent)
    BY <1>6
  <2>3. d = Len(sent) /\ (r > 0 => call \in {"putting", "false"})
    BY <1>8, <2>1, <2>2, NothingMore
  <2>4. call # "putting"
    BY <1>1 DEF Written
  <2>5. QED BY <2>3, <2>4
<1>10. /\ result' \in {"empty", "number_incomplete", "length_undefined", "length_incomplete"}
       /\ result' # "empty" => pc \in {"number", "following", "length", "octets"}
  BY <1>2 DEF DecP!GetFails, DecP!Returns
<1>11. ASSUME pc \in {"number", "following", "length", "octets"} PROVE r > 0
  <2>1. DecP!Shown
    BY <1>6 DEF DecP!Decoding
  <2>2. CASE pc = "number"
    BY <1>4, <2>1, <2>2 DEF DecP!Shown
  <2>3. CASE pc = "following"
    BY <1>4, <2>1, <2>3 DEF DecP!Shown
  <2>4. CASE pc = "length"
    <3>1. read # << >> /\ read \in Seq(Octet)
      BY <1>6, <2>1, <2>4, ReadType DEF DecP!Shown
    <3>2. r # 0
      BY <1>4, <3>1, EmptySeq
    <3>3. QED BY <3>2
  <2>5. CASE pc = "octets"
    <3>1. PICK k \in 1..Len(read) - 1 : DecP!LengthRead(k)
      BY <2>1, <2>5 DEF DecP!Shown
    <3>2. k \in 1..r - 1
      BY <1>4, <3>1
    <3>3. QED BY <3>2
  <2>6. QED BY <1>11, <2>2, <2>3, <2>4, <2>5
<1>12. FailsOnlyWhereInterrupted'
  <2>1. result' # "empty" => call' = "false"
    BY <1>1, <1>9, <1>10, <1>11
  <2>2. QED BY <1>1, <1>3, <1>9, <1>10, <2>1 DEF FailsOnlyWhereInterrupted
<1>13. \A i \in 1..Len(decoded') : decoded'[i] = Read(sent'[i])
  BY <1>1 DEF Reading
<1>14. Len(decoded') <= Len(sent') /\ got' <= Len(out')
  BY <1>1 DEF Reading
<1>15. QED BY <1>1, <1>6, <1>7, <1>10, <1>12, <1>13, <1>14 DEF Reading

LEMMA NextTagReads ==
  ASSUME NEW bs, Written(bs), Reading(bs), NextTag
  PROVE  Reading(bs)'
<1>1. /\ result = "complete" /\ Dec!Call(strict)
      /\ out' = out /\ sent' = sent /\ header' = header /\ call' = call /\ closed' = closed
      /\ got' = got /\ decoded' = decoded
  BY DEF NextTag, encoder
<1>2. DecP!Decoding /\ strict \in BOOLEAN
  BY ReadType DEF Reading
<1>3. DecP!Call(strict)
  BY <1>1 DEF Dec!Call, DecP!Call
<1>4. PICK s \in BOOLEAN : s = strict
  BY <1>2
<1>5. DecP!Decoding' /\ read' = << >>
  BY <1>2, <1>3, <1>4, Widths, DecP!CallDecodes
<1>6. result' = "none"
  BY <1>1 DEF Dec!Call
<1>7. PICK d \in Nat : d = Len(decoded)
  BY LenProperties DEF Reading
<1>8. PICK h \in Header : h = Coming(d)
  BY ComingType
<1>9. h = Coming(Len(decoded))'
  BY <1>1, <1>7, <1>8 DEF Coming
<1>10. Amid(Coming(Len(decoded)))'
  <2>1. PICK l \in Nat \ {0} : l = Len(Enc!EncodedIdentifier(h)) + Len(Enc!EncodedLength(h))
    BY HeaderEncoded
  <2>2. Len(read') = 0
    BY <1>5
  <2>3. DecP!Amid(Enc!EncodedIdentifier(h), Enc!EncodedLength(h))'
    BY <2>1, <2>2 DEF DecP!Amid
  <2>4. QED BY <1>9, <2>3 DEF Amid
<1>11. got = bs[d + 1] /\ got \in Nat
  BY <1>1, <1>7 DEF Reading
<1>12. got' = bs[Len(decoded') + 1] + Len(read')
  <2>1. Len(read') = 0 /\ got + 0 = got
    BY <1>5, <1>11
  <2>2. QED BY <1>1, <1>7, <1>11, <2>1
<1>13. FailsOnlyWhereInterrupted'
  BY <1>6 DEF FailsOnlyWhereInterrupted
<1>14. /\ decoded' \in Seq(Header) /\ Len(decoded') <= Len(sent') /\ got' \in Nat /\ got' <= Len(out')
       /\ \A i \in 1..Len(decoded') : decoded'[i] = Read(sent'[i])
  BY <1>1 DEF Reading
<1>15. QED BY <1>5, <1>6, <1>10, <1>12, <1>13, <1>14 DEF Reading

(* Together: the invariant of the reader and the writer.                   *)
Codec == \E bs : Written(bs) /\ Reading(bs)

LEMMA InitCodec == Init => Codec
<1> SUFFICES ASSUME Init PROVE Codec
  OBVIOUS
<1>1. Written(<<0>>)
  BY InitWritten
<1>2. /\ sent = << >> /\ out = << >> /\ got = 0 /\ decoded = << >> /\ Dec!Init
  BY DEF Init, Enc!Init
<1>3. DecP!Init
  BY <1>2 DEF Dec!Init, DecP!Init, Dec!NoHeader, DecP!NoHeader
<1>4. DecP!Decoding
  BY <1>3, Widths, DecP!InitDecodes
<1>5. result = "none" /\ read = << >>
  BY <1>2 DEF Dec!Init
<1>6. /\ Len(decoded) = 0 /\ Len(sent) = 0 /\ Len(out) = 0 /\ Len(read) = 0 /\ <<0>>[1] = 0
      /\ decoded \in Seq(Header)
  BY <1>2, <1>5, EmptySeq
<1>7. Amid(Coming(0))
  BY <1>1, <1>6, AmidAtFirst, ComingType
<1>8. FailsOnlyWhereInterrupted
  BY <1>5 DEF FailsOnlyWhereInterrupted
<1>9. Reading(<<0>>)
  BY <1>2, <1>4, <1>5, <1>6, <1>7, <1>8 DEF Reading
<1>10. QED BY <1>1, <1>9 DEF Codec

LEMMA CodecStep ==
  ASSUME LengthsDenoted, Codec, [Next]_vars PROVE Codec'
<1>1. PICK bs : Written(bs) /\ Reading(bs)
  BY DEF Codec
<1>2. PICK cs : Written(cs)' /\ Kept(bs, cs)
  BY <1>1, WrittenStep
<1>3. Written(bs) /\ Reading(bs) /\ Written(cs)' /\ Kept(bs, cs)
  BY <1>1, <1>2
<1>4. CASE Reader
  <2>1. Reading(bs)'
    BY <1>3, <1>4, GetReads, GetEndsReads, NextTagReads DEF Reader
  <2>2. /\ call' = call /\ header' = header /\ pending' = pending /\ out' = out
        /\ sent' = sent /\ closed' = closed
    BY <1>4 DEF Reader, GetOctet, GetEnds, NextTag, encoder
  <2>3. Written(bs)'
    BY <1>3, <2>2, WrittenUnchanged
  <2>4. QED BY <2>1, <2>3, Zenon DEF Codec
<1>5. ASSUME Reading(cs)' PROVE Codec'
  BY <1>3, <1>5, Zenon DEF Codec
<1>6. ASSUME NEW h \in Headers, StartEncode(h) PROVE Codec'
  <2>1. /\ ~closed /\ call \in {"idle", "true"} /\ sent' = sent
        /\ UNCHANGED <<decoder, got, decoded>>
    BY <1>6 DEF StartEncode, Enc!Encode
  <2>2. Len(out) = bs[Len(sent) + 1]
    BY <1>3, <2>1 DEF Written
  <2>3. Reading(cs)'
    BY <1>3, <2>1, <2>2, ReadingKept
  <2>4. QED BY <1>5, <2>3
<1>7. CASE PutOctet
  <2>1. /\ call = "putting" /\ header' = header /\ UNCHANGED <<decoder, got, decoded>>
        /\ sent' = IF call' = "true" THEN Append(sent, header) ELSE sent
    BY <1>7 DEF PutOctet, Enc!Put
  <2>2. ~closed /\ sent \in Seq(Headers) /\ header \in Headers
    BY <1>3, <2>1 DEF Written
  <2>3. \/ sent' = sent /\ header' = header
        \/ Len(sent') > Len(sent) /\ sent'[Len(sent) + 1] = header
    <3>1. CASE call' = "true"
      <4>1. Len(sent) \in Nat /\ Len(sent') = Len(sent) + 1 /\ sent'[Len(sent) + 1] = header
        BY <2>1, <2>2, <3>1, AppendFacts
      <4>2. QED BY <4>1
    <3>2. CASE call' # "true"
      BY <2>1, <3>2
    <3>3. QED BY <3>1, <3>2
  <2>4. Reading(cs)'
    BY <1>3, <2>1, <2>2, <2>3, ReadingKept
  <2>5. QED BY <1>5, <2>4
<1>8. CASE Refuse \/ Close \/ UNCHANGED vars
  <2>1. /\ UNCHANGED <<decoder, got, decoded>> /\ sent' = sent /\ header' = header
        /\ closed => closed' /\ call' = call
    <3>1. call = "putting" => ~closed
      BY <1>3 DEF Written
    <3>2. QED BY <1>8, <3>1 DEF Refuse, Enc!PutRefused, Close, vars, encoder
  <2>2. Reading(cs)'
    BY <1>3, <2>1, ReadingKept
  <2>3. QED BY <1>5, <2>2
<1>9. QED BY <1>4, <1>6, <1>7, <1>8 DEF Next

LEMMA AlwaysCodec ==
  ASSUME LengthsDenoted PROVE Spec => []Codec
<1>1. Codec /\ [Next]_vars => Codec'
  BY CodecStep
<1>2. QED BY InitCodec, <1>1, PTL DEF Spec

(* Whatever the headers, as long as their lengths are put right, however   *)
(* writer and reader alternate and whatever the reader is strict about: it *)
(* decodes the headers that were sent, in order, and nothing else.         *)
THEOREM AlwaysDecodedIsPrefix ==
  ASSUME LengthsDenoted
  PROVE  Spec => []DecodedIsPrefix
<1>1. Codec => DecodedIsPrefix
  <2>1. SUFFICES ASSUME NEW bs, Written(bs), Reading(bs) PROVE DecodedIsPrefix
    BY DEF Codec
  <2>2. sent \in Seq(Headers) /\ decoded \in Seq(Header) /\ Len(decoded) <= Len(sent)
    BY <2>1 DEF Written, Reading
  <2>3. SentAsRead \in Seq(Header) /\ Len(SentAsRead) = Len(sent)
        /\ \A i \in 1..Len(sent) : SentAsRead[i] = Read(sent[i])
    <3>1. PICK k \in Nat : k = Len(sent) /\ DOMAIN sent = 1..k
      BY <2>2, LenProperties
    <3>2. \A i \in 1..k : Read(sent[i]) \in Header
      <4>1. TAKE i \in 1..k
      <4>2. sent[i] \in Header
        BY <2>2, <3>1, ElementOfSeq, TagCodecAssumption
      <4>3. QED BY <4>2, Widths DEF Read, Header
    <3>3. SentAsRead = [i \in 1..k |-> Read(sent[i])]
      BY <3>1 DEF SentAsRead
    <3>4. QED BY <3>1, <3>2, <3>3
  <2>4. \A i \in 1..Len(decoded) : decoded[i] = SentAsRead[i]
    <3>1. TAKE i \in 1..Len(decoded)
    <3>2. i \in 1..Len(sent)
      BY <2>2, LenProperties
    <3>3. decoded[i] = Read(sent[i])
      BY <2>1 DEF Reading
    <3>4. QED BY <2>3, <3>2, <3>3
  <2>5. Len(decoded) <= Len(SentAsRead)
    BY <2>2, <2>3
  <2>6. SubSeq(decoded, 1, Len(decoded)) = SubSeq(SentAsRead, 1, Len(decoded))
    BY <2>2, <2>3, <2>4, <2>5, PrefixByElements
  <2>7. QED BY <2>5, <2>6 DEF DecodedIsPrefix, IsPrefix
<1>2. QED BY <1>1, AlwaysCodec, PTL

(* A reader fails only where the writer was interrupted, and says whether  *)
(* that was between two headers or inside one.                             *)
THEOREM FailsAlwaysWhereInterrupted ==
  ASSUME LengthsDenoted
  PROVE  Spec => []FailsOnlyWhereInterrupted
<1>1. Codec => FailsOnlyWhereInterrupted
  BY DEF Codec, Reading
<1>2. QED BY <1>1, AlwaysCodec, PTL
=============================================================================
