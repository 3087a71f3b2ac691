--------------------------- MODULE B64PipeProofs ---------------------------
(***************************************************************************)
(* For all octets, line limits and texts: the type invariant of B64Pipe;   *)
(* that what b64_input reads from any text are the octets that Base-64 has *)
(* in it, and from the text that b64_output wrote what was put, without    *)
(* more than the last octet being lost, and that the text has whole        *)
(* quartets, as long as the line separators are made of spaces; and that   *)
(* its lines are full.                                                     *)
(***************************************************************************)
EXTENDS B64Pipe, ProofFacts, FiniteSetTheorems

-----------------------------------------------------------------------------
(* Characters and sextets.                                                 *)

(* The characters of sextets are no spaces and no padding.                 *)
LEMMA CharVisible ==
  ASSUME NEW x
  PROVE  CharOf(x) \in Char /\ ~IsSpace(CharOf(x)) /\ CharOf(x) # Pad
<1>1. CharOf(x) \in 43..122 \ {61}
  <2>1. CASE x \in 0..25
    BY <2>1 DEF CharOf
  <2>2. CASE x \in 26..51
    BY <2>2 DEF CharOf
  <2>3. CASE x \in 52..61
    BY <2>3 DEF CharOf
  <2>4. CASE x = 62
    BY <2>4 DEF CharOf
  <2>5. CASE x \notin 0..25 /\ x \notin 26..51 /\ x \notin 52..61 /\ x # 62
    BY <2>5 DEF CharOf
  <2>6. QED BY <2>1, <2>2, <2>3, <2>4, <2>5
<1>2. QED BY <1>1 DEF Char, IsSpace, Pad

LEMMA PadVisible == Pad \in Char /\ ~IsSpace(Pad) /\ SextetOf(Pad) = InvalidSextet
  BY DEF Pad, Char, IsSpace, SextetOf, InvalidSextet

(* The reader's table is the inverse of the writer's.                      *)
LEMMA SextetOfChar ==
  ASSUME NEW x \in Sextet
  PROVE  SextetOf(CharOf(x)) = x
<1>1. CASE x \in 0..25
  <2>1. CharOf(x) = x + 65
    BY <1>1 DEF CharOf
  <2>2. QED BY <1>1, <2>1 DEF SextetOf
<1>2. CASE x \in 26..51
  <2>1. CharOf(x) = x - 26 + 97
    BY <1>2 DEF CharOf
  <2>2. QED BY <1>2, <2>1 DEF SextetOf
<1>3. CASE x \in 52..61
  <2>1. CharOf(x) = x - 52 + 48
    BY <1>3 DEF CharOf
  <2>2. QED BY <1>3, <2>1 DEF SextetOf
<1>4. CASE x = 62
  <2>1. CharOf(x) = 43
    BY <1>4 DEF CharOf
  <2>2. QED BY <1>4, <2>1 DEF SextetOf
<1>5. CASE x = 63
  <2>1. CharOf(x) = 47
    BY <1>5 DEF CharOf
  <2>2. QED BY <1>5, <2>1 DEF SextetOf
<1>6. QED BY <1>1, <1>2, <1>3, <1>4, <1>5 DEF Sextet

(* A character has a sextet or is not in the alphabet.                     *)
LEMMA SextetType ==
  ASSUME NEW c \in Int, SextetOf(c) # InvalidSextet
  PROVE  SextetOf(c) \in Sextet
<1>1. CASE c \in 65..90
  BY <1>1 DEF SextetOf, Sextet
<1>2. CASE c \in 97..122
  BY <1>2 DEF SextetOf, Sextet
<1>3. CASE c \in 48..57
  BY <1>3 DEF SextetOf, Sextet
<1>4. CASE c = 43
  BY <1>4 DEF SextetOf, Sextet
<1>5. CASE c = 47
  BY <1>5 DEF SextetOf, Sextet
<1>6. CASE c \notin 65..90 /\ c \notin 97..122 /\ c \notin 48..57 /\ c # 43 /\ c # 47
  BY <1>6 DEF SextetOf
<1>7. QED BY <1>1, <1>2, <1>3, <1>4, <1>5, <1>6

LEMMA SpaceNoSextet ==
  ASSUME NEW c, IsSpace(c)
  PROVE  SextetOf(c) = InvalidSextet
<1>1. c \in 9..13 \cup {32}
  BY DEF IsSpace
<1>2. QED BY <1>1 DEF SextetOf

(* The reader is an instance with tables of its own, which are the same.   *)
LEMMA SameTables ==
  ASSUME NEW c
  PROVE  /\ In!SextetOf(c) = SextetOf(c) /\ In!IsSpace(c) = IsSpace(c)
         /\ In!InvalidSextet = InvalidSextet /\ In!Pad = Pad
         /\ In!InAlphabet(c) <=> SextetOf(c) # InvalidSextet
         /\ In!Octet = Octet /\ In!Sextet = Sextet
<1>1. In!SextetOf(c) = SextetOf(c) /\ In!InvalidSextet = InvalidSextet
  BY DEF In!SextetOf, SextetOf, In!InvalidSextet, InvalidSextet
<1>2. QED BY <1>1, Zenon
          DEF In!IsSpace, IsSpace, In!Pad, Pad, In!InAlphabet, In!Octet, Octet, In!Sextet, Sextet

(* Quotients and remainders of octets.                                     *)
LEMMA By4 ==
  ASSUME NEW o \in Octet
  PROVE  o = (o \div 4) * 4 + (o % 4) /\ o % 4 \in 0..3 /\ o \div 4 \in 0..63
BY DEF Octet

LEMMA By16 ==
  ASSUME NEW o \in Octet
  PROVE  o = (o \div 16) * 16 + (o % 16) /\ o % 16 \in 0..15 /\ o \div 16 \in 0..15
BY DEF Octet

LEMMA By64 ==
  ASSUME NEW o \in Octet
  PROVE  o = (o \div 64) * 64 + (o % 64) /\ o % 64 \in 0..63 /\ o \div 64 \in 0..3
BY DEF Octet

(* The octets that two sextets of a text make.                             *)
FirstOf(x, y) == x * 4 + y \div 16
SecondOf(x, y) == (x * 16 + y \div 4) % 256
ThirdOf(x, y) == (x * 64 + y) % 256

(* They are what the writer made the sextets of.                           *)
LEMMA FirstOfSextets ==
  ASSUME NEW a \in Octet, NEW b \in Octet
  PROVE  \E x \in Sextet : x = (a % 4) * 16 + b \div 16 /\ FirstOf(a \div 4, x) = a
<1>1. PICK q \in 0..63, r \in 0..3, h \in 0..15 : q = a \div 4 /\ r = a % 4 /\ h = b \div 16
  BY By4, By16
<1>2. a = q * 4 + r
  BY <1>1, By4
<1>3. (r * 16 + h) \div 16 = r /\ r * 16 + h \in Sextet
  BY DEF Sextet
<1>4. FirstOf(q, r * 16 + h) = a
  BY <1>2, <1>3 DEF FirstOf
<1>5. QED BY <1>1, <1>3, <1>4, Zenon

LEMMA SecondOfSextets ==
  ASSUME NEW a \in Octet, NEW b \in Octet, NEW c \in Octet
  PROVE  \E x \in Sextet : /\ x = (b % 16) * 4 + c \div 64
                           /\ SecondOf((a % 4) * 16 + b \div 16, x) = b
<1>1. PICK w \in 0..3, h \in 0..15, r \in 0..15, z \in 0..3 :
        w = a % 4 /\ h = b \div 16 /\ r = b % 16 /\ z = c \div 64
  BY By4, By16, By64
<1>2. b = h * 16 + r
  BY <1>1, By16
<1>3. (r * 4 + z) \div 4 = r /\ r * 4 + z \in Sextet
  BY DEF Sextet
<1>4. SecondOf(w * 16 + h, r * 4 + z) = b
  <2>1. (w * 16 + h) * 16 + r = w * 256 + b /\ b \in 0..255
    BY <1>2 DEF Octet
  <2>2. (w * 256 + b) % 256 = b
    BY <2>1
  <2>3. QED BY <1>3, <2>1, <2>2, Zenon DEF SecondOf
<1>5. QED BY <1>1, <1>3, <1>4, Zenon

LEMMA ThirdOfSextets ==
  ASSUME NEW b \in Octet, NEW c \in Octet
  PROVE  \E x \in Sextet : x = c % 64 /\ ThirdOf((b % 16) * 4 + c \div 64, x) = c
<1>1. PICK r \in 0..15, z \in 0..3, t \in 0..63 : r = b % 16 /\ z = c \div 64 /\ t = c % 64
  BY By16, By64
<1>2. c = z * 64 + t
  BY <1>1, By64
<1>3. ThirdOf(r * 4 + z, t) = c
  <2>1. (r * 4 + z) * 64 + t = r * 256 + c /\ c \in 0..255
    BY <1>2 DEF Octet
  <2>2. (r * 256 + c) % 256 = c
    BY <2>1
  <2>3. QED BY <2>1, <2>2, Zenon DEF ThirdOf
<1>4. t \in Sextet
  BY DEF Sextet
<1>5. QED BY <1>1, <1>3, <1>4, Zenon

-----------------------------------------------------------------------------
(* The type invariant.                                                     *)

LEMMA WriterStart ==
  ASSUME Ready, closed \in BOOLEAN
  PROVE  TypeOK
<1>1. line \in Formats /\ line.len \in Nat
  BY B64OutputAssumption DEF Ready
<1>2. index \in 0..line.len /\ last_o \in Octet /\ octet \in Octet
  BY <1>1 DEF Ready, Octet
<1>3. sink \in Seq(Char) /\ todo \in Seq(Char) /\ accepted \in Seq(Octet)
  BY DEF Ready
<1>4. /\ put_fn \in {"first", "second", "third"} /\ call \in {"none", "put", "conclude"}
      /\ broken \in BOOLEAN
  BY DEF Ready
<1>5. QED BY <1>1, <1>2, <1>3, <1>4, Zenon DEF TypeOK

(* The characters that a call puts.                                        *)
LEMMA CharsType ==
  ASSUME TypeOK, NEW o
  PROVE  Chars(o) \in Seq(Char) /\ Rest \in Seq(Char) /\ Chars(o) # << >>
<1>1. /\ CharOf(o \div 4) \in Char /\ CharOf(SecondSextet(o)) \in Char
      /\ CharOf(ThirdSextet(o)) \in Char /\ CharOf(o % 64) \in Char
      /\ CharOf(SecondSextet(0)) \in Char /\ CharOf(ThirdSextet(0)) \in Char /\ Pad \in Char
  BY CharVisible, PadVisible
<1>2. CASE put_fn = "first"
  BY <1>1, <1>2 DEF Chars, Rest
<1>3. CASE put_fn = "second"
  <2>1. Chars(o) = <<CharOf(SecondSextet(o))>> /\ Rest = <<CharOf(SecondSextet(0)), Pad, Pad>>
    BY <1>3 DEF Chars, Rest
  <2>2. QED BY <1>1, <2>1
<1>4. CASE put_fn = "third"
  <2>1. /\ Chars(o) = <<CharOf(ThirdSextet(o)), CharOf(o % 64)>>
        /\ Rest = <<CharOf(ThirdSextet(0)), Pad>>
    BY <1>4 DEF Chars, Rest
  <2>2. QED BY <1>1, <2>1
<1>5. QED BY <1>2, <1>3, <1>4 DEF TypeOK

(* The place in the line.                                                  *)
LEMMA IndexType ==
  ASSUME TypeOK
  PROVE  line.len \in Nat /\ line.sep \in Seq(Char) /\ Index \in 0..line.len
<1>1. line.len \in Nat /\ line.sep \in Seq(Char) /\ index \in 0..line.len
  BY B64OutputAssumption DEF TypeOK
<1>2. QED BY <1>1 DEF Index, NewLine

LEMMA WriterType ==
  ASSUME TypeOK, Next
  PROVE  TypeOK'
<1>1. ASSUME NEW o \in Octets \cup Range(Script), Put(o)
      PROVE  TypeOK'
  <2>1. o \in Octet
    <3>1. CASE o \in Range(Script)
      <4>1. PICK i \in DOMAIN Script : o = Script[i]
        BY <3>1 DEF Range
      <4>2. QED BY <4>1, B64OutputAssumption, ElementOfSeq
    <3>2. QED BY <1>1, <3>1, B64OutputAssumption
  <2>2. Chars(o) \in Seq(Char)
    BY CharsType
  <2>3. QED BY <1>1, <2>1, <2>2 DEF Put, TypeOK
<1>2. CASE Conclude
  BY <1>2, CharsType DEF Conclude, TypeOK
<1>3. CASE SinkPut
  <2>1. Head(todo) \in Char /\ Tail(todo) \in Seq(Char)
    BY <1>3 DEF SinkPut, TypeOK
  <2>2. (IF NewLine THEN line.sep ELSE << >>) \in Seq(Char)
    BY IndexType
  <2>3. sink' \in Seq(Char)
    <3>1. sink \o (IF NewLine THEN line.sep ELSE << >>) \in Seq(Char)
      BY <2>2, ConcatProperties DEF TypeOK
    <3>2. <<Head(todo)>> \in Seq(Char)
      BY <2>1
    <3>3. QED BY <1>3, <3>1, <3>2, ConcatProperties DEF SinkPut
  <2>4. /\ call' \in {"none", "put", "conclude"} /\ put_fn' \in {"first", "second", "third"}
        /\ last_o' \in Octet /\ accepted' \in Seq(Octet)
    <3>1. CASE todo' = << >>
      <4>1. Following[put_fn] \in {"first", "second", "third"}
        BY DEF Following, TypeOK
      <4>2. Append(accepted, octet) \in Seq(Octet)
        BY DEF TypeOK
      <4>3. Finished
        BY <1>3, <3>1 DEF SinkPut
      <4>4. CASE call = "put"
        BY <4>1, <4>2, <4>3, <4>4 DEF Finished, TypeOK
      <4>5. CASE call # "put"
        BY <4>3, <4>5 DEF Finished, TypeOK
      <4>6. QED BY <4>4, <4>5
    <3>2. CASE todo' # << >>
      BY <1>3, <3>2 DEF SinkPut, TypeOK
    <3>3. QED BY <3>1, <3>2
  <2>5. /\ line' = line /\ octet' = octet /\ broken' = broken /\ closed' = closed
        /\ index' = Index /\ todo' = Tail(todo)
    BY <1>3 DEF SinkPut
  <2>6. index' \in 0..line'.len
    BY <2>5, IndexType
  <2>7. QED BY <2>1, <2>3, <2>4, <2>5, <2>6 DEF TypeOK
<1>4. CASE SinkRefuses
  <2>1. PICK n \in 0..(IF NewLine /\ ~broken THEN Len(line.sep) ELSE 0) :
          sink' = sink \o SubSeq(line.sep, 1, n)
    BY <1>4 DEF SinkRefuses
  <2>2. SubSeq(line.sep, 1, n) \in Seq(Char)
    <3>1. line.sep \in Seq(Char) /\ Len(line.sep) \in Nat
      BY IndexType, LenProperties
    <3>2. n \in 0..Len(line.sep)
      BY <3>1
    <3>3. \A i \in 1..n : line.sep[i] \in Char
      BY <3>1, <3>2, ElementOfSeq
    <3>4. QED BY <3>1, <3>2, <3>3, SubSeqProperties
  <2>3. sink' \in Seq(Char)
    BY <2>1, <2>2, ConcatProperties DEF TypeOK
  <2>4. index' \in 0..line'.len /\ broken' \in BOOLEAN /\ todo' \in Seq(Char)
    BY <1>4, IndexType DEF SinkRefuses
  <2>5. QED BY <1>4, <2>3, <2>4 DEF SinkRefuses, TypeOK
<1>5. CASE Close
  BY <1>5 DEF Close, TypeOK
<1>6. QED BY <1>1, <1>2, <1>3, <1>4, <1>5 DEF Next

(* The place that __source_peek shows is one after place i, and of no      *)
(* space, or the end of the source.                                        *)
LEMMA PeekedType ==
  ASSUME In!TypeOK, NEW i \in Nat \ {0}
  PROVE  /\ In!Peeked(i) \in 1..Len(src) + 1
         /\ In!Peeked(i) <= Len(src) =>
              In!Peeked(i) >= i /\ src[In!Peeked(i)] \in Int
<1> DEFINE seen == {j \in i..Len(src) : ~In!IsSpace(src[j])}
<1>1. Len(src) \in Nat /\ \A j \in 1..Len(src) : src[j] \in Int
  BY ElementOfSeq DEF In!TypeOK
<1>2. In!Peeked(i) = IF seen = {} THEN Len(src) + 1 ELSE In!Min(seen)
  BY DEF In!Peeked
<1>3. ASSUME seen # {} PROVE In!Min(seen) \in seen
  <2>1. seen \subseteq Nat
    BY <1>1
  <2>2. \E x \in seen : \A y \in seen : x <= y
    <3> HIDE DEF seen
    <3>1. QED BY <1>3, <2>1, LeastNatural
  <2>3. QED
    <3> HIDE DEF seen
    <3>1. QED BY <2>2 DEF In!Min
<1>4. CASE seen = {}
  BY <1>1, <1>2, <1>4
<1>5. CASE seen # {}
  <2>1. In!Peeked(i) \in seen
    BY <1>2, <1>3, <1>5, Zenon
  <2>2. QED BY <1>1, <2>1
<1>6. QED BY <1>4, <1>5

(* A sequence from its mth element on is one of the same set.              *)
LEMMA LeavesType ==
  ASSUME In!TypeOK, NEW m \in Nat \ {0}
  PROVE  SubSeq(src, m, Len(src)) \in Seq(Int)
<1>1. src \in Seq(Int) /\ m \in Int /\ Len(src) \in Int
  BY DEF In!TypeOK
<1>2. \A i \in m..Len(src) : src[i] \in Int
  BY <1>1, ElementOfSeq
<1>3. QED BY <1>1, <1>2, SubSeqProperties

(* The characters that a step of the reader looks at.                      *)
LEMMA LooksAt ==
  ASSUME In!TypeOK
  PROVE  /\ In!First \in 1..Len(src) + 1 /\ In!Second \in 1..Len(src) + 1
         /\ In!IsSextet(In!First) => In!SextetOf(src[In!First]) \in Sextet
         /\ In!IsSextet(In!Second) => In!SextetOf(src[In!Second]) \in Sextet
<1>0. Len(src) \in Nat
  BY DEF In!TypeOK
<1> DEFINE f == In!First
           g == In!Second
<1>1. f \in 1..Len(src) + 1 /\ (f <= Len(src) => src[f] \in Int)
  BY PeekedType, 1 \in Nat \ {0} DEF In!First
<1>2. g \in 1..Len(src) + 1 /\ (g <= Len(src) => src[g] \in Int)
  <2>1. f + 1 \in Nat \ {0}
    BY <1>0, <1>1
  <2>2. g = In!Peeked(f + 1)
    BY DEF In!Second
  <2> HIDE DEF f, g
  <2>3. QED BY <2>1, <2>2, PeekedType
<1> HIDE DEF f, g
<1>3. ASSUME NEW i, i <= Len(src) => src[i] \in Int, In!IsSextet(i)
      PROVE  In!SextetOf(src[i]) \in Sextet
  <2>1. src[i] \in Int /\ In!InAlphabet(src[i])
    BY <1>3 DEF In!IsSextet
  <2>2. SextetOf(src[i]) # InvalidSextet
    BY <2>1, SameTables, Zenon
  <2>3. QED BY <2>1, <2>2, SextetType, SameTables
<1>4. In!IsSextet(f) => In!SextetOf(src[f]) \in Sextet
  BY <1>1, <1>3
<1>5. In!IsSextet(g) => In!SextetOf(src[g]) \in Sextet
  BY <1>2, <1>3
<1>6. QED BY <1>1, <1>2, <1>4, <1>5 DEF f, g

(* An octet that is got.                                                   *)
LEMMA GetsType ==
  ASSUME In!TypeOK, want > 0, NEW o \in Int, In!Gets(o)
  PROVE  want' \in 0..MaxAsk /\ got' \in Seq(Octet) /\ ended' \in -1..Len(got')
<1>1. o % 256 \in Octet
  BY DEF Octet
<1>2. got \in Seq(Octet) /\ want \in 0..MaxAsk /\ ended \in -1..Len(got) /\ MaxAsk \in Nat
  BY SameTables, B64PipeAssumption DEF In!TypeOK
<1>3. got' = Append(got, o % 256) /\ want' = want - 1 /\ ended' = ended
  BY DEF In!Gets
<1>4. Len(got') = Len(got) + 1 /\ got' \in Seq(Octet) /\ Len(got) \in Nat
  BY <1>1, <1>2, <1>3, AppendFacts
<1>5. QED BY <1>2, <1>3, <1>4

LEMMA FailsType ==
  ASSUME In!TypeOK, In!Fails, NEW m \in Nat \ {0}, In!LeavesFrom(m)
  PROVE  In!TypeOK'
<1>1. want' \in 0..MaxAsk /\ ended' \in -1..Len(got)
  BY B64PipeAssumption DEF In!Fails, In!TypeOK
<1>2. src' \in Seq(Int)
  BY LeavesType DEF In!LeavesFrom
<1>3. QED BY <1>1, <1>2 DEF In!Fails, In!TypeOK

LEMMA ReaderType ==
  ASSUME In!TypeOK, In!Get
  PROVE  In!TypeOK'
<1>1. /\ Len(src) \in Nat /\ In!First + 1 \in Nat \ {0} /\ In!First + 2 \in Nat \ {0}
      /\ In!Second + 1 \in Nat \ {0} /\ In!First \in Nat \ {0} /\ In!Second \in Nat \ {0}
  BY LooksAt DEF In!TypeOK
<1>2. last_s \in 0..63 /\ In!Sextet = 0..63 /\ In!Octet = Octet
  BY SameTables DEF In!TypeOK, In!Sextet
<1>3. CASE In!GetFirst
  <2>1. CASE ~In!IsSextet(In!First) /\ In!LeavesFrom(In!First) /\ In!Fails
    BY <1>1, <2>1, FailsType
  <2>2. CASE /\ In!IsSextet(In!First) /\ ~In!IsSextet(In!Second)
             /\ In!LeavesFrom(In!Second) /\ In!Fails
    BY <1>1, <2>2, FailsType
  <2>3. CASE /\ In!IsSextet(In!First) /\ In!IsSextet(In!Second)
             /\ In!LeavesFrom(In!Second + 1)
             /\ In!Gets(In!FirstOctet)
             /\ In!To("second", In!SextetOf(src[In!Second]))
    <3>1. /\ In!SextetOf(src[In!First]) \in 0..63 /\ In!SextetOf(src[In!Second]) \in 0..63
          /\ want > 0
      BY <1>3, <2>3, LooksAt, SameTables DEF Sextet, In!GetFirst
    <3>2. In!FirstOctet \in Int
      BY <3>1 DEF In!FirstOctet
    <3>3. want' \in 0..MaxAsk /\ got' \in Seq(Octet) /\ ended' \in -1..Len(got')
      BY <2>3, <3>1, <3>2, GetsType
    <3>4. src' \in Seq(Int)
      BY <1>1, <2>3, LeavesType DEF In!LeavesFrom
    <3>5. get_fn' = "second" /\ last_s' \in 0..63
      BY <2>3, <3>1 DEF In!To
    <3>6. QED BY <1>2, <3>3, <3>4, <3>5 DEF In!TypeOK
  <2>4. QED BY <1>3, <2>1, <2>2, <2>3 DEF In!GetFirst
<1>4. ASSUME NEW fn, NEW padding \in {1, 2}, NEW o, NEW next \in {"third", "first"},
             In!GetNext(fn, padding, o, next), In!IsSextet(In!First) => o \in Int
      PROVE  In!TypeOK'
  <2>1. CASE In!Padded /\ In!LeavesFrom(In!First + padding) /\ In!Fails
    <3>1. In!First + padding \in Nat \ {0}
      BY <1>1
    <3>2. QED BY <2>1, <3>1, FailsType
  <2>2. CASE ~In!Padded /\ ~In!IsSextet(In!First) /\ In!LeavesFrom(In!First) /\ In!Fails
    BY <1>1, <2>2, FailsType
  <2>3. CASE /\ In!IsSextet(In!First)
             /\ In!LeavesFrom(In!First + 1)
             /\ In!Gets(o)
             /\ In!To(next, IF next = "first" THEN 0 ELSE In!SextetOf(src[In!First]))
    <3>1. want' \in 0..MaxAsk /\ got' \in Seq(Octet) /\ ended' \in -1..Len(got')
      BY <1>4, <2>3, GetsType DEF In!GetNext
    <3>2. src' \in Seq(Int)
      BY <1>1, <2>3, LeavesType DEF In!LeavesFrom
    <3>3. get_fn' = next /\ last_s' \in 0..63
      BY <2>3, LooksAt, SameTables DEF Sextet, In!To
    <3>4. QED BY <1>2, <1>4, <3>1, <3>2, <3>3 DEF In!TypeOK
  <2>4. QED BY <1>4, <2>1, <2>2, <2>3 DEF In!GetNext
<1>5. In!IsSextet(In!First) => In!SecondOctet \in Int /\ In!ThirdOctet \in Int
  <2>1. HAVE In!IsSextet(In!First)
  <2>2. PICK x \in 0..63 : x = In!SextetOf(src[In!First])
    BY <2>1, LooksAt, SameTables DEF Sextet
  <2>3. x \div 4 \in Int /\ last_s * 16 + x \div 4 \in Int /\ last_s * 64 + x \in Int
    BY <1>2
  <2>4. QED BY <2>2, <2>3, Zenon DEF In!SecondOctet, In!ThirdOctet
<1>6. CASE In!GetSecond
  BY <1>4, <1>5, <1>6 DEF In!GetSecond
<1>7. CASE In!GetThird
  BY <1>4, <1>5, <1>7 DEF In!GetThird
<1>8. QED BY <1>3, <1>6, <1>7 DEF In!Get

(* A text is a sequence of numbers.                                        *)
LEMMA CharsAreInts ==
  ASSUME NEW s \in Seq(Char)
  PROVE  s \in Seq(Int)
<1>1. Len(s) \in Nat /\ s \in [1..Len(s) -> Char] /\ Char \subseteq Int
  <2>1. Len(s) \in Nat /\ s \in [1..Len(s) -> Char]
    BY LenProperties, Zenon
  <2>2. Char \subseteq Int
    BY DEF Char
  <2>3. QED BY <2>1, <2>2
<1>2. PICK n \in Nat : n = Len(s)
  BY <1>1
<1>3. s \in [1..n -> Int]
  BY <1>1, <1>2, Zenon
<1>4. QED BY <1>3

LEMMA PipeStart ==
  ASSUME PipeInit
  PROVE  PipeTypeOK
<1>1. TypeOK
  BY WriterStart DEF PipeInit
<1>2. src \in Seq(Int)
  <2>1. text \in Found \cup {<< >>} /\ src = text
    BY DEF PipeInit, In!Init
  <2>2. << >> \in Seq(Int)
    OBVIOUS
  <2>3. QED BY <2>1, <2>2, B64PipeAssumption, Zenon
<1>3. want \in 0..MaxAsk /\ last_s \in 0..63 /\ In!Sextet = 0..63
  BY B64PipeAssumption DEF PipeInit, In!Init, In!Sextet
<1>4. got \in Seq(In!Octet) /\ ended \in -1..Len(got)
  BY DEF PipeInit, In!Init
<1>5. QED BY <1>1, <1>2, <1>3, <1>4 DEF PipeInit, In!Init, PipeTypeOK, In!TypeOK

LEMMA PipeStep ==
  ASSUME PipeTypeOK, [PipeNext]_pipe
  PROVE  PipeTypeOK'
<1>1. TypeOK /\ In!TypeOK
  BY DEF PipeTypeOK
<1>2. CASE Write
  <2>1. TypeOK'
    BY <1>1, <1>2, WriterType DEF Write
  <2>2. src' \in Seq(Int)
    <3>1. sink \in Seq(Char) /\ src \in Seq(Int) /\ Char \subseteq Int
      BY <1>1 DEF TypeOK, In!TypeOK, Char
    <3>2. sink \in Seq(Int)
      BY <3>1, CharsAreInts
    <3>3. QED BY <1>2, <3>1, <3>2, Zenon DEF Write
  <2>3. QED BY <1>1, <1>2, <2>1, <2>2 DEF Write, PipeTypeOK, In!TypeOK
<1>3. ASSUME NEW len \in 1..MaxAsk, want' = len,
             UNCHANGED <<src, get_fn, last_s, got, ended, text>>, UNCHANGED vars
      PROVE  PipeTypeOK'
  <2>1. want' \in 0..MaxAsk
    BY <1>3, B64PipeAssumption
  <2>2. QED BY <1>1, <1>3, <2>1 DEF vars, TypeOK, In!TypeOK, PipeTypeOK
<1>4. CASE In!Get /\ UNCHANGED vars
  <2>1. TypeOK'
    BY <1>1, <1>4 DEF vars, TypeOK
  <2>2. QED BY <1>1, <1>4, <2>1, ReaderType DEF PipeTypeOK
<1>5. CASE UNCHANGED pipe
  BY <1>1, <1>5 DEF pipe, reader, vars, TypeOK, In!TypeOK, PipeTypeOK
<1>6. QED BY <1>2, <1>3, <1>4, <1>5 DEF PipeNext, Read

(* The type invariant of the writer and the reader.                        *)
THEOREM PipeTypeCorrect == PipeSpec => []PipeTypeOK
<1>1. PipeInit => PipeTypeOK
  BY PipeStart
<1>2. PipeTypeOK /\ [PipeNext]_pipe => PipeTypeOK'
  BY PipeStep
<1>3. QED BY <1>1, <1>2, PTL DEF PipeSpec

-----------------------------------------------------------------------------
(* What a text carries, whoever wrote it.  The places of its characters    *)
(* that are no spaces are ps, in order; the first of them hold the sextets *)
(* ss, and the one after these, if there is one, is padding; and the       *)
(* sextets are those of the octets os, as far as they go.                  *)

Shown(s, ps) ==
  /\ ps \in Seq(Nat)
  /\ \A i \in 1..Len(ps) : ps[i] \in 1..Len(s) /\ ~IsSpace(s[ps[i]])
  /\ \A i, j \in 1..Len(ps) : i < j => ps[i] < ps[j]
  /\ \A j \in 1..Len(s) : ~IsSpace(s[j]) => \E i \in 1..Len(ps) : ps[i] = j

Placed(s, ps) == s \in Seq(Char) /\ Shown(s, ps)

Carries(s, ps, ss) ==
  /\ ss \in Seq(Sextet) /\ Len(ss) <= Len(ps)
  /\ \A i \in 1..Len(ss) : SextetOf(s[ps[i]]) = ss[i]
  /\ Len(ss) < Len(ps) => s[ps[Len(ss) + 1]] = Pad

Encodes(ss, os) ==
  \A q \in Nat :
    /\ 4 * q + 2 <= Len(ss) =>
         3 * q + 1 <= Len(os) /\ FirstOf(ss[4 * q + 1], ss[4 * q + 2]) = os[3 * q + 1]
    /\ 4 * q + 3 <= Len(ss) =>
         3 * q + 2 <= Len(os) /\ SecondOf(ss[4 * q + 2], ss[4 * q + 3]) = os[3 * q + 2]
    /\ 4 * q + 4 <= Len(ss) =>
         3 * q + 3 <= Len(os) /\ ThirdOf(ss[4 * q + 3], ss[4 * q + 4]) = os[3 * q + 3]

Holds(s, ps, ss, os) == Placed(s, ps) /\ Carries(s, ps, ss) /\ Encodes(ss, os)

Spaces(s) == \A i \in 1..Len(s) : IsSpace(s[i])

(* Spaces change nothing.                                                  *)
LEMMA HoldsWithSpaces ==
  ASSUME NEW s, NEW ps, NEW ss, NEW os, Holds(s, ps, ss, os), NEW sp \in Seq(Char), Spaces(sp)
  PROVE  Holds(s \o sp, ps, ss, os) /\ Len(s \o sp) = Len(s) + Len(sp)
<1> DEFINE t == s \o sp
<1>1. s \in Seq(Char) /\ ps \in Seq(Nat) /\ ss \in Seq(Sextet)
  BY DEF Holds, Placed, Shown, Carries
<1>2. /\ t \in Seq(Char) /\ Len(t) = Len(s) + Len(sp)
      /\ \A i \in 1..Len(s) : t[i] = s[i]
      /\ \A i \in 1..Len(t) : i > Len(s) => t[i] = sp[i - Len(s)]
      /\ Len(s) \in Nat /\ Len(sp) \in Nat
  <2>1. /\ t \in Seq(Char) /\ Len(t) = Len(s) + Len(sp)
        /\ \A i \in 1..Len(s) + Len(sp) : t[i] = IF i <= Len(s) THEN s[i] ELSE sp[i - Len(s)]
    BY <1>1, ConcatProperties
  <2>2. Len(s) \in Nat /\ Len(sp) \in Nat
    BY <1>1, LenProperties
  <2>3. QED BY <2>1, <2>2
<1> HIDE DEF t
<1>3. Placed(t, ps)
  <2>1. \A i \in 1..Len(ps) : ps[i] \in 1..Len(s) /\ ps[i] \in 1..Len(t) /\ t[ps[i]] = s[ps[i]]
    BY <1>1, <1>2 DEF Holds, Placed, Shown
  <2>2. ASSUME NEW j \in 1..Len(t), ~IsSpace(t[j])
        PROVE  \E i \in 1..Len(ps) : ps[i] = j
    <3>1. j <= Len(s)
      <4>1. SUFFICES ASSUME j > Len(s) PROVE FALSE
        BY <1>2
      <4>2. j - Len(s) \in 1..Len(sp)
        BY <1>2, <4>1
      <4>3. QED BY <1>2, <2>2, <4>1, <4>2 DEF Spaces
    <3>2. j \in 1..Len(s) /\ ~IsSpace(s[j])
      BY <1>2, <2>2, <3>1
    <3>3. QED BY <3>2, Zenon DEF Holds, Placed, Shown
  <2>3. QED BY <1>1, <1>2, <2>1, <2>2 DEF Holds, Placed, Shown
<1>4. Carries(t, ps, ss)
  <2>1. \A i \in 1..Len(ps) : t[ps[i]] = s[ps[i]]
    BY <1>1, <1>2 DEF Holds, Placed, Shown
  <2>2. Len(ss) \in Nat /\ Len(ps) \in Nat
    BY <1>1, LenProperties
  <2>3. QED BY <2>1, <2>2 DEF Holds, Carries
<1>5. QED BY <1>2, <1>3, <1>4 DEF Holds, t

(* A character is one place more.                                          *)
LEMMA ShownAppend ==
  ASSUME NEW S, NEW s \in Seq(S), NEW ps, Shown(s, ps), NEW c \in S, ~IsSpace(c)
  PROVE  Shown(Append(s, c), Append(ps, Len(s) + 1))
<1> DEFINE t == Append(s, c)
           n == Len(s) + 1
           qs == Append(ps, n)
           m == Len(ps) + 1
<1>1. ps \in Seq(Nat) /\ Len(s) \in Nat /\ Len(ps) \in Nat
  BY LenProperties DEF Shown
<1>2. Len(t) = n /\ t[n] = c /\ \A i \in 1..Len(s) : t[i] = s[i]
  BY <1>1, AppendFacts
<1>3. qs \in Seq(Nat) /\ Len(qs) = m /\ qs[m] = n /\ \A i \in 1..Len(ps) : qs[i] = ps[i]
  <2>1. n \in Nat
    BY <1>1
  <2> HIDE DEF n
  <2>2. QED BY <1>1, <2>1, AppendFacts
<1>4. n = Len(s) + 1 /\ m = Len(ps) + 1
  OBVIOUS
<1> HIDE DEF t, n, qs, m
<1>5. \A i \in 1..Len(ps) : ps[i] \in 1..Len(s) /\ ~IsSpace(s[ps[i]])
  BY DEF Shown
<1>6. ASSUME NEW i \in 1..m PROVE qs[i] \in 1..n /\ ~IsSpace(t[qs[i]])
  <2>1. CASE i = m
    BY <1>1, <1>2, <1>3, <1>4, <2>1
  <2>2. CASE i # m
    <3>1. i \in 1..Len(ps)
      BY <1>1, <1>4, <2>2
    <3>2. qs[i] = ps[i] /\ t[ps[i]] = s[ps[i]] /\ ps[i] \in 1..n
      BY <1>1, <1>2, <1>3, <1>4, <1>5, <3>1, SMTT(30)
    <3>3. QED BY <1>5, <3>1, <3>2
  <2>3. QED BY <2>1, <2>2
<1>7. ASSUME NEW i \in 1..m, NEW j \in 1..m, i < j PROVE qs[i] < qs[j]
  <2>1. i \in 1..Len(ps) /\ qs[i] = ps[i] /\ ps[i] \in 1..Len(s)
    BY <1>1, <1>3, <1>4, <1>5, <1>7
  <2>2. CASE j = m
    BY <1>1, <1>3, <1>4, <2>1, <2>2
  <2>3. CASE j # m
    <3>1. j \in 1..Len(ps) /\ qs[j] = ps[j]
      BY <1>1, <1>3, <1>4, <2>3
    <3>2. ps[i] < ps[j]
      BY <1>7, <2>1, <3>1 DEF Shown
    <3>3. QED BY <2>1, <3>1, <3>2
  <2>4. QED BY <2>2, <2>3
<1>8. ASSUME NEW j \in 1..n, ~IsSpace(t[j]) PROVE \E i \in 1..m : qs[i] = j
  <2>1. CASE j = n
    <3>1. m \in 1..m
      BY <1>1, <1>4
    <3>2. QED BY <1>3, <2>1, <3>1
  <2>2. CASE j # n
    <3>1. j \in 1..Len(s) /\ ~IsSpace(s[j])
      BY <1>1, <1>2, <1>4, <1>8, <2>2
    <3>2. PICK i \in 1..Len(ps) : ps[i] = j
      BY <3>1 DEF Shown
    <3>3. i \in 1..m /\ qs[i] = j
      BY <1>1, <1>3, <1>4, <3>2
    <3>4. QED BY <3>3
  <2>3. QED BY <2>1, <2>2
<1>9. QED BY <1>2, <1>3, <1>6, <1>7, <1>8 DEF Shown, t, n, qs

LEMMA PlacedAppend ==
  ASSUME NEW s, NEW ps, Placed(s, ps), NEW c \in Char, ~IsSpace(c)
  PROVE  Placed(Append(s, c), Append(ps, Len(s) + 1))
<1>1. s \in Seq(Char) /\ Shown(s, ps)
  BY DEF Placed
<1>2. Append(s, c) \in Seq(Char)
  BY <1>1, AppendFacts
<1>3. QED BY <1>1, <1>2, ShownAppend DEF Placed

(* What follows the padding, or is the padding, carries no sextets.        *)
LEMMA HoldsWithMore ==
  ASSUME NEW s, NEW ps, NEW ss, NEW os, Holds(s, ps, ss, os),
         NEW c \in Char, ~IsSpace(c), Len(ss) < Len(ps) \/ c = Pad
  PROVE  \E qs : Holds(Append(s, c), qs, ss, os) /\ Len(ss) < Len(qs) /\ Len(qs) = Len(ps) + 1
<1> DEFINE t == Append(s, c)
           n == Len(s) + 1
           qs == Append(ps, n)
<1>1. /\ s \in Seq(Char) /\ ps \in Seq(Nat) /\ ss \in Seq(Sextet)
      /\ Len(s) \in Nat /\ Len(ps) \in Nat /\ Len(ss) \in Nat /\ Len(ss) <= Len(ps)
  BY LenProperties DEF Holds, Placed, Shown, Carries
<1>2. Placed(t, qs)
  BY PlacedAppend DEF Holds
<1>3. t[n] = c /\ n \in Nat /\ \A i \in 1..Len(s) : t[i] = s[i]
  BY <1>1, AppendFacts
<1>4. Len(qs) = Len(ps) + 1 /\ qs[Len(ps) + 1] = n /\ \A i \in 1..Len(ps) : qs[i] = ps[i]
  <2> HIDE DEF n
  <2>1. QED BY <1>1, <1>3, AppendFacts
<1> HIDE DEF t, n, qs
<1>5. \A i \in 1..Len(ps) : t[qs[i]] = s[ps[i]]
  <2>1. \A i \in 1..Len(ps) : ps[i] \in 1..Len(s)
    BY DEF Holds, Placed, Shown
  <2>2. QED BY <1>3, <1>4, <2>1
<1>6. \A i \in 1..Len(ss) : SextetOf(t[qs[i]]) = ss[i]
  <2>1. TAKE i \in 1..Len(ss)
  <2>2. i \in 1..Len(ps) /\ SextetOf(s[ps[i]]) = ss[i]
    BY <1>1 DEF Holds, Carries
  <2>3. QED BY <1>5, <2>2
<1>7. t[qs[Len(ss) + 1]] = Pad
  <2>1. CASE Len(ss) < Len(ps)
    <3>1. Len(ss) + 1 \in 1..Len(ps) /\ s[ps[Len(ss) + 1]] = Pad
      BY <1>1, <2>1 DEF Holds, Carries
    <3>2. QED BY <1>5, <3>1
  <2>2. CASE ~(Len(ss) < Len(ps))
    <3>1. Len(ss) = Len(ps) /\ c = Pad
      BY <1>1, <2>2
    <3>2. QED BY <1>3, <1>4, <3>1
  <2>3. QED BY <2>1, <2>2
<1>8. Len(ss) < Len(qs) /\ Len(ss) <= Len(qs)
  BY <1>1, <1>4
<1>9. Holds(t, qs, ss, os)
  BY <1>1, <1>2, <1>6, <1>7, <1>8 DEF Holds, Carries
<1>10. QED BY <1>4, <1>8, <1>9, Zenon DEF t

(* The character of a sextet carries it, when there is no padding yet.     *)
LEMMA HoldsWithSextet ==
  ASSUME NEW s, NEW ps, NEW ss, NEW os, Holds(s, ps, ss, os), Len(ss) = Len(ps),
         NEW x \in Sextet, NEW more, Encodes(Append(ss, x), more)
  PROVE  \E qs : /\ Holds(Append(s, CharOf(x)), qs, Append(ss, x), more)
                 /\ Len(Append(ss, x)) = Len(qs) /\ Len(qs) = Len(ps) + 1
<1> DEFINE c == CharOf(x)
           t == Append(s, c)
           n == Len(s) + 1
           qs == Append(ps, n)
           xs == Append(ss, x)
<1>1. /\ s \in Seq(Char) /\ ps \in Seq(Nat) /\ ss \in Seq(Sextet)
      /\ Len(s) \in Nat /\ Len(ps) \in Nat /\ Len(ss) \in Nat
  BY LenProperties DEF Holds, Placed, Shown, Carries
<1>2. c \in Char /\ ~IsSpace(c) /\ SextetOf(c) = x
  BY CharVisible, SextetOfChar
<1> HIDE DEF c
<1>3. Placed(t, qs)
  BY <1>2, PlacedAppend DEF Holds
<1>4. t[n] = c /\ n \in Nat /\ \A i \in 1..Len(s) : t[i] = s[i]
  BY <1>1, <1>2, AppendFacts
<1>5. Len(qs) = Len(ps) + 1 /\ qs[Len(ps) + 1] = n /\ \A i \in 1..Len(ps) : qs[i] = ps[i]
  <2> HIDE DEF n
  <2>1. QED BY <1>1, <1>4, AppendFacts
<1>6. /\ xs \in Seq(Sextet) /\ Len(xs) = Len(ss) + 1 /\ xs[Len(ss) + 1] = x
      /\ \A i \in 1..Len(ss) : xs[i] = ss[i]
  BY <1>1, AppendFacts
<1> HIDE DEF t, n, qs, xs
<1>7. \A i \in 1..Len(ps) : t[qs[i]] = s[ps[i]]
  <2>1. \A i \in 1..Len(ps) : ps[i] \in 1..Len(s)
    BY DEF Holds, Placed, Shown
  <2>2. QED BY <1>4, <1>5, <2>1
<1>8. \A i \in 1..Len(xs) : SextetOf(t[qs[i]]) = xs[i]
  <2>1. TAKE i \in 1..Len(xs)
  <2>2. CASE i = Len(ss) + 1
    BY <1>2, <1>4, <1>5, <1>6, <2>2
  <2>3. CASE i # Len(ss) + 1
    <3>1. i \in 1..Len(ss) /\ i \in 1..Len(ps)
      BY <1>1, <1>6, <2>3
    <3>2. SextetOf(s[ps[i]]) = ss[i]
      BY <3>1 DEF Holds, Carries
    <3>3. QED BY <1>6, <1>7, <3>1, <3>2
  <2>4. QED BY <2>2, <2>3
<1>9. Len(xs) = Len(qs) /\ Len(qs) \in Nat
  BY <1>1, <1>5, <1>6
<1>10. Carries(t, qs, xs)
  BY <1>6, <1>8, <1>9 DEF Carries
<1>11. Holds(t, qs, xs, more)
  BY <1>3, <1>10 DEF Holds, xs
<1>12. QED BY <1>5, <1>9, <1>11, Zenon DEF t, xs, c

(* The sextets that are there are those of the octets with one more.       *)
LEMMA EncodesMore ==
  ASSUME NEW ss, NEW os \in Seq(Octet), Encodes(ss, os), NEW o \in Octet
  PROVE  Encodes(ss, Append(os, o))
<1> DEFINE ps == Append(os, o)
<1>1. /\ Len(os) \in Nat /\ Len(ps) = Len(os) + 1
      /\ \A i \in 1..Len(os) : ps[i] = os[i]
  BY AppendFacts
<1> HIDE DEF ps
<1>2. \A k \in Nat \ {0} : k <= Len(os) => k <= Len(ps) /\ ps[k] = os[k]
  BY <1>1
<1>3. ASSUME NEW q \in Nat
      PROVE  /\ 3 * q + 1 \in Nat \ {0} /\ 3 * q + 2 \in Nat \ {0} /\ 3 * q + 3 \in Nat \ {0}
  OBVIOUS
<1>4. Encodes(ss, ps)
  BY <1>2, <1>3 DEF Encodes
<1>5. QED BY <1>4 DEF ps

LEMMA Fours ==
  ASSUME NEW q \in Nat, NEW d \in Nat, NEW k \in 1..4, NEW j \in 1..4, 4 * d + j = 4 * q + k
  PROVE  k = j /\ d = q
<1>1. ~(d < q) /\ ~(q < d)
  OBVIOUS
<1>2. QED BY <1>1

(* One more sextet makes at most one more octet.                           *)
LEMMA EncodesSextet ==
  ASSUME NEW ss \in Seq(Sextet), NEW os \in Seq(Octet), Encodes(ss, os), NEW x \in Sextet,
         NEW more \in Seq(Octet), more = os \/ \E o \in Octet : more = Append(os, o),
         NEW q \in Nat, NEW k \in 1..4, Len(ss) + 1 = 4 * q + k,
         k = 2 => 3 * q + 1 <= Len(more) /\ FirstOf(ss[4 * q + 1], x) = more[3 * q + 1],
         k = 3 => 3 * q + 2 <= Len(more) /\ SecondOf(ss[4 * q + 2], x) = more[3 * q + 2],
         k = 4 => 3 * q + 3 <= Len(more) /\ ThirdOf(ss[4 * q + 3], x) = more[3 * q + 3]
  PROVE  Encodes(Append(ss, x), more)
<1> DEFINE xs == Append(ss, x)
<1>1. Encodes(ss, more)
  BY EncodesMore
<1>2. /\ Len(ss) \in Nat /\ Len(xs) = Len(ss) + 1 /\ xs[Len(ss) + 1] = x
      /\ \A i \in 1..Len(ss) : xs[i] = ss[i]
  BY AppendFacts
<1> HIDE DEF xs
<1>3. ASSUME NEW d \in Nat
      PROVE  /\ 4 * d + 2 <= Len(xs) =>
                  3 * d + 1 <= Len(more) /\ FirstOf(xs[4 * d + 1], xs[4 * d + 2]) = more[3 * d + 1]
             /\ 4 * d + 3 <= Len(xs) =>
                  3 * d + 2 <= Len(more) /\ SecondOf(xs[4 * d + 2], xs[4 * d + 3]) = more[3 * d + 2]
             /\ 4 * d + 4 <= Len(xs) =>
                  3 * d + 3 <= Len(more) /\ ThirdOf(xs[4 * d + 3], xs[4 * d + 4]) = more[3 * d + 3]
  <2>1. ASSUME 4 * d + 2 <= Len(xs)
        PROVE  3 * d + 1 <= Len(more) /\ FirstOf(xs[4 * d + 1], xs[4 * d + 2]) = more[3 * d + 1]
    <3>1. CASE 4 * d + 2 <= Len(ss)
      <4>1. 4 * d + 1 \in 1..Len(ss) /\ 4 * d + 2 \in 1..Len(ss)
        BY <1>2, <3>1
      <4>2. xs[4 * d + 1] = ss[4 * d + 1] /\ xs[4 * d + 2] = ss[4 * d + 2]
        BY <1>2, <4>1, Zenon
      <4>3. QED BY <1>1, <3>1, <4>2 DEF Encodes
    <3>2. CASE ~(4 * d + 2 <= Len(ss))
      <4>1. k = 2 /\ d = q /\ 4 * d + 2 = Len(ss) + 1 /\ 4 * d + 1 \in 1..Len(ss)
        <5>1. 4 * d + 2 = Len(ss) + 1 /\ 4 * d + 1 \in 1..Len(ss)
          <6>1. PICK n \in Nat : n = Len(ss)
            BY <1>2
          <6>2. 4 * d + 2 <= n + 1 /\ ~(4 * d + 2 <= n)
            BY <1>2, <2>1, <3>2, <6>1
          <6>3. 4 * d + 2 = n + 1 /\ 4 * d + 1 \in 1..n
            BY <6>2
          <6>4. QED BY <6>1, <6>3
        <5>2. k = 2 /\ d = q
          BY <5>1, Fours
        <5>3. QED BY <5>1, <5>2
      <4>2. xs[4 * d + 1] = ss[4 * d + 1] /\ xs[4 * d + 2] = x
        <5>1. xs[4 * d + 1] = ss[4 * d + 1]
          BY <1>2, <4>1
        <5>2. xs[4 * d + 2] = x
          BY <1>2, <4>1, Zenon
        <5>3. QED BY <5>1, <5>2
      <4>3. QED BY <4>1, <4>2
    <3>3. QED BY <3>1, <3>2
  <2>2. ASSUME 4 * d + 3 <= Len(xs)
        PROVE  3 * d + 2 <= Len(more) /\ SecondOf(xs[4 * d + 2], xs[4 * d + 3]) = more[3 * d + 2]
    <3>1. CASE 4 * d + 3 <= Len(ss)
      <4>1. 4 * d + 2 \in 1..Len(ss) /\ 4 * d + 3 \in 1..Len(ss)
        BY <1>2, <3>1
      <4>2. xs[4 * d + 2] = ss[4 * d + 2] /\ xs[4 * d + 3] = ss[4 * d + 3]
        BY <1>2, <4>1, Zenon
      <4>3. QED BY <1>1, <3>1, <4>2 DEF Encodes
    <3>2. CASE ~(4 * d + 3 <= Len(ss))
      <4>1. k = 3 /\ d = q /\ 4 * d + 3 = Len(ss) + 1 /\ 4 * d + 2 \in 1..Len(ss)
        <5>1. 4 * d + 3 = Len(ss) + 1 /\ 4 * d + 2 \in 1..Len(ss)
          <6>1. PICK n \in Nat : n = Len(ss)
            BY <1>2
          <6>2. 4 * d + 3 <= n + 1 /\ ~(4 * d + 3 <= n)
            BY <1>2, <2>2, <3>2, <6>1
          <6>3. 4 * d + 3 = n + 1 /\ 4 * d + 2 \in 1..n
            BY <6>2
          <6>4. QED BY <6>1, <6>3
        <5>2. k = 3 /\ d = q
          BY <5>1, Fours
        <5>3. QED BY <5>1, <5>2
      <4>2. xs[4 * d + 2] = ss[4 * d + 2] /\ xs[4 * d + 3] = x
        <5>1. xs[4 * d + 2] = ss[4 * d + 2]
          BY <1>2, <4>1
        <5>2. xs[4 * d + 3] = x
          BY <1>2, <4>1, Zenon
        <5>3. QED BY <5>1, <5>2
      <4>3. QED BY <4>1, <4>2
    <3>3. QED BY <3>1, <3>2
  <2>3. ASSUME 4 * d + 4 <= Len(xs)
        PROVE  3 * d + 3 <= Len(more) /\ ThirdOf(xs[4 * d + 3], xs[4 * d + 4]) = more[3 * d + 3]
    <3>1. CASE 4 * d + 4 <= Len(ss)
      <4>1. 4 * d + 3 \in 1..Len(ss) /\ 4 * d + 4 \in 1..Len(ss)
        BY <1>2, <3>1
      <4>2. xs[4 * d + 3] = ss[4 * d + 3] /\ xs[4 * d + 4] = ss[4 * d + 4]
        BY <1>2, <4>1, Zenon
      <4>3. QED BY <1>1, <3>1, <4>2 DEF Encodes
    <3>2. CASE ~(4 * d + 4 <= Len(ss))
      <4>1. k = 4 /\ d = q /\ 4 * d + 4 = Len(ss) + 1 /\ 4 * d + 3 \in 1..Len(ss)
        <5>1. 4 * d + 4 = Len(ss) + 1 /\ 4 * d + 3 \in 1..Len(ss)
          <6>1. PICK n \in Nat : n = Len(ss)
            BY <1>2
          <6>2. 4 * d + 4 <= n + 1 /\ ~(4 * d + 4 <= n)
            BY <1>2, <2>3, <3>2, <6>1
          <6>3. 4 * d + 4 = n + 1 /\ 4 * d + 3 \in 1..n
            BY <6>2
          <6>4. QED BY <6>1, <6>3
        <5>2. k = 4 /\ d = q
          BY <5>1, Fours
        <5>3. QED BY <5>1, <5>2
      <4>2. xs[4 * d + 3] = ss[4 * d + 3] /\ xs[4 * d + 4] = x
        <5>1. xs[4 * d + 3] = ss[4 * d + 3]
          BY <1>2, <4>1
        <5>2. xs[4 * d + 4] = x
          BY <1>2, <4>1, Zenon
        <5>3. QED BY <5>1, <5>2
      <4>3. QED BY <4>1, <4>2
    <3>3. QED BY <3>1, <3>2
  <2>4. QED BY <2>1, <2>2, <2>3
<1>4. Encodes(xs, more)
  BY <1>3 DEF Encodes
<1>5. QED BY <1>4 DEF xs

LEMMA EncodesNext ==
  ASSUME NEW ss \in Seq(Sextet), NEW os \in Seq(Octet), Encodes(ss, os), NEW x \in Sextet,
         NEW o \in Octet, NEW q \in Nat, NEW k \in 1..4, Len(ss) + 1 = 4 * q + k,
         k = 2 => 3 * q + 1 <= Len(os) + 1 /\ FirstOf(ss[4 * q + 1], x) = Append(os, o)[3 * q + 1],
         k = 3 => 3 * q + 2 <= Len(os) + 1 /\ SecondOf(ss[4 * q + 2], x) = Append(os, o)[3 * q + 2],
         k = 4 => 3 * q + 3 <= Len(os) + 1 /\ ThirdOf(ss[4 * q + 3], x) = Append(os, o)[3 * q + 3]
  PROVE  Encodes(Append(ss, x), Append(os, o))
<1>1. PICK more \in Seq(Octet) : more = Append(os, o) /\ Len(more) = Len(os) + 1
  BY AppendFacts, ZenonT(40)
<1>2. more = os \/ \E e \in Octet : more = Append(os, e)
  BY <1>1
<1>3. /\ k = 2 => 3 * q + 1 <= Len(more) /\ FirstOf(ss[4 * q + 1], x) = more[3 * q + 1]
      /\ k = 3 => 3 * q + 2 <= Len(more) /\ SecondOf(ss[4 * q + 2], x) = more[3 * q + 2]
      /\ k = 4 => 3 * q + 3 <= Len(more) /\ ThirdOf(ss[4 * q + 3], x) = more[3 * q + 3]
  BY <1>1, Zenon
<1>4. Encodes(Append(ss, x), more)
  BY <1>2, <1>3, EncodesSextet
<1>5. QED BY <1>1, <1>4

-----------------------------------------------------------------------------
(* The writer.  Where a call is: between calls, before its first           *)
(* character, between the two characters of a third octet, or in the       *)
(* padding of conclude.                                                    *)

Idle == call = "none" /\ todo = << >>
Starting ==
  \/ call = "put" /\ todo = Chars(octet)
  \/ call = "conclude" /\ put_fn # "first" /\ todo = Rest
Halfway == call = "put" /\ put_fn = "third" /\ todo = <<CharOf(octet % 64)>>
Padding == call = "conclude" /\ put_fn # "first" /\ todo \in {<<Pad>>, <<Pad, Pad>>}

CallInv == Idle \/ Starting \/ Halfway \/ Padding

(* q quartets are whole; what has been put of the next one.                *)
Begun(q, ss) ==
  \/ put_fn = "first" /\ Len(accepted) = 3 * q /\ Len(ss) = 4 * q
  \/ /\ put_fn = "second" /\ Len(accepted) = 3 * q + 1 /\ Len(ss) = 4 * q + 1
     /\ ss[4 * q + 1] = last_o \div 4 /\ last_o = accepted[3 * q + 1]
  \/ /\ put_fn = "third" /\ Len(accepted) = 3 * q + 2 /\ Len(ss) = 4 * q + 2
     /\ ss[4 * q + 2] = (accepted[3 * q + 1] % 4) * 16 + last_o \div 16
     /\ last_o = accepted[3 * q + 2]

HalfDone(q, ss) ==
  /\ Len(accepted) = 3 * q + 2 /\ Len(ss) = 4 * q + 3
  /\ ss[4 * q + 3] = ThirdSextet(octet)

Linked(ss) ==
  \/ Padding
  \/ \E q \in Nat :
       \/ (Idle \/ Starting) /\ Begun(q, ss)
       \/ Halfway /\ HalfDone(q, ss)

(* What the text keeps of the octets that were put, when it has n sextets  *)
(* and m characters that are no spaces: all of them, but for the bits kept *)
(* for the next octet, and one octet less when the sink broke.  An octet   *)
(* put after a single padding character may be put in vain; after three    *)
(* characters that are no sextets nothing is promised.                     *)
Between(q, n, m) ==
  \/ /\ put_fn = "first"
     /\ \/ n = 4 * q /\ m = n /\ Len(accepted) = 3 * q
        \/ n = 4 * q + 2 /\ m = n + 2 /\ Len(accepted) = 3 * q + 1
        \/ n = 4 * q + 3 /\ m = n + 1 /\ Len(accepted) = 3 * q + 2
  \/ /\ put_fn = "second"
     /\ \/ n = 4 * q + 1 /\ m = n /\ Len(accepted) = 3 * q + 1
        \/ n = 4 * q + 3 /\ m = n + 2 /\ Len(accepted) = 3 * q + 3
  \/ put_fn = "third" /\ n = 4 * q + 2 /\ m = n /\ Len(accepted) = 3 * q + 2

Within(q, n, m) ==
  \/ Halfway /\ n = 4 * q + 3 /\ m = n /\ Len(accepted) = 3 * q + 2
  \/ /\ Padding /\ put_fn = "second" /\ n = 4 * q + 2 /\ Len(accepted) = 3 * q + 1
     /\ (todo = <<Pad, Pad>> /\ m = n) \/ (todo = <<Pad>> /\ m = n + 1)
  \/ /\ Padding /\ put_fn = "third" /\ n = 4 * q + 3 /\ Len(accepted) = 3 * q + 2
     /\ todo = <<Pad>> /\ m = n

Spared(q, n) ==
  \/ n \in {4 * q, 4 * q + 1} /\ Len(accepted) <= 3 * q + 1
  \/ n = 4 * q + 2 /\ Len(accepted) <= 3 * q + 2
  \/ n = 4 * q + 3 /\ Len(accepted) <= 3 * q + 3

Kept(n, m) ==
  \/ m >= n + 3
  \/ \E q \in Nat :
       \/ broken /\ Spared(q, n)
       \/ ~broken /\ (Idle \/ Starting) /\ Between(q, n, m)
       \/ ~broken /\ Within(q, n, m)

(* The sink carries the octets that were put.  Until it breaks, or has     *)
(* padding, that is all of them, but for the bits kept for the next octet. *)
Written(ps, ss) ==
  /\ Holds(sink, ps, ss, accepted)
  /\ broken \/ Len(ss) < Len(ps) \/ (Len(ss) = Len(ps) /\ Linked(ss))
  /\ Kept(Len(ss), Len(ps))

(* What one character of a call leaves to put.                             *)
LEMMA LastChar ==
  ASSUME SinkPut, NEW c, todo = <<c>>
  PROVE  Head(todo) = c /\ todo' = << >> /\ Finished
<1>1. Head(todo) = c /\ Tail(todo) = << >>
  OBVIOUS
<1>2. QED BY <1>1 DEF SinkPut

LEMMA CharOfTwo ==
  ASSUME SinkPut, NEW c, NEW d, todo = <<c, d>>
  PROVE  Head(todo) = c /\ todo' = <<d>> /\ UNCHANGED <<call, put_fn, last_o, accepted>>
<1>1. Head(todo) = c /\ Tail(todo) = <<d>> /\ <<d>> # << >>
  OBVIOUS
<1>2. QED BY <1>1 DEF SinkPut

LEMMA CharOfThree ==
  ASSUME SinkPut, NEW c, NEW d, NEW e, todo = <<c, d, e>>
  PROVE  Head(todo) = c /\ todo' = <<d, e>> /\ UNCHANGED <<call, put_fn, last_o, accepted>>
<1>1. Head(todo) = c /\ Tail(todo) = <<d, e>> /\ <<d, e>> # << >>
  OBVIOUS
<1>2. QED BY <1>1 DEF SinkPut

(* The call that a character is put for, and the one it leaves.            *)
LEMMA SinkPutCall ==
  ASSUME TypeOK, CallInv, SinkPut
  PROVE  /\ CallInv' /\ ~IsSpace(Head(todo)) /\ octet' = octet
         /\ accepted' = accepted \/ accepted' = Append(accepted, octet)
<1>1. octet' = octet /\ todo # << >>
  BY DEF SinkPut
<1>2. ASSUME NEW c, todo = <<c>>, ~IsSpace(c)
      PROVE  /\ Idle' /\ ~IsSpace(Head(todo))
             /\ accepted' = accepted \/ accepted' = Append(accepted, octet)
  BY <1>2, LastChar DEF Finished, Idle
<1>3. CASE Starting /\ call = "put"
  <2>1. CASE put_fn = "first"
    <3>1. todo = <<CharOf(octet \div 4)>>
      BY <1>3, <2>1 DEF Starting, Chars
    <3>2. QED BY <1>1, <1>2, <3>1, CharVisible DEF CallInv
  <2>2. CASE put_fn = "second"
    <3>1. todo = <<CharOf(SecondSextet(octet))>>
      BY <1>3, <2>2 DEF Starting, Chars
    <3>2. QED BY <1>1, <1>2, <3>1, CharVisible DEF CallInv
  <2>3. CASE put_fn = "third"
    <3>1. todo = <<CharOf(ThirdSextet(octet)), CharOf(octet % 64)>>
      BY <1>3, <2>3 DEF Starting, Chars
    <3>2. /\ Head(todo) = CharOf(ThirdSextet(octet)) /\ todo' = <<CharOf(octet % 64)>>
          /\ UNCHANGED <<call, put_fn, last_o, accepted>>
      BY <3>1, CharOfTwo
    <3>3. Halfway' /\ ~IsSpace(Head(todo))
      BY <1>1, <1>3, <2>3, <3>2, CharVisible DEF Halfway
    <3>4. QED BY <1>1, <3>2, <3>3 DEF CallInv
  <2>4. QED BY <2>1, <2>2, <2>3 DEF TypeOK
<1>4. CASE Starting /\ call # "put"
  <2>1. CASE put_fn = "second"
    <3>1. todo = <<CharOf(SecondSextet(0)), Pad, Pad>>
      BY <1>4, <2>1 DEF Starting, Rest
    <3>2. /\ Head(todo) = CharOf(SecondSextet(0)) /\ todo' = <<Pad, Pad>>
          /\ UNCHANGED <<call, put_fn, last_o, accepted>>
      BY <3>1, CharOfThree
    <3>3. Padding' /\ ~IsSpace(Head(todo))
      BY <1>1, <1>4, <2>1, <3>2, CharVisible DEF Padding, Starting
    <3>4. QED BY <1>1, <3>2, <3>3 DEF CallInv
  <2>2. CASE put_fn = "third"
    <3>1. todo = <<CharOf(ThirdSextet(0)), Pad>>
      BY <1>4, <2>2 DEF Starting, Rest
    <3>2. /\ Head(todo) = CharOf(ThirdSextet(0)) /\ todo' = <<Pad>>
          /\ UNCHANGED <<call, put_fn, last_o, accepted>>
      BY <3>1, CharOfTwo
    <3>3. Padding' /\ ~IsSpace(Head(todo))
      BY <1>1, <1>4, <2>2, <3>2, CharVisible DEF Padding, Starting
    <3>4. QED BY <1>1, <3>2, <3>3 DEF CallInv
  <2>3. QED BY <1>4, <2>1, <2>2 DEF Starting, TypeOK
<1>5. CASE Halfway
  BY <1>1, <1>2, <1>5, CharVisible DEF Halfway, CallInv
<1>6. CASE Padding
  <2>1. CASE todo = <<Pad>>
    BY <1>1, <1>2, <2>1, PadVisible DEF CallInv
  <2>2. CASE todo = <<Pad, Pad>>
    <3>1. /\ Head(todo) = Pad /\ todo' = <<Pad>>
          /\ UNCHANGED <<call, put_fn, last_o, accepted>>
      BY <2>2, CharOfTwo
    <3>2. Padding'
      BY <1>6, <3>1 DEF Padding
    <3>3. QED BY <1>1, <3>1, <3>2, PadVisible DEF CallInv
  <2>3. QED BY <1>6, <2>1, <2>2 DEF Padding
<1>7. QED BY <1>1, <1>3, <1>4, <1>5, <1>6 DEF CallInv, Idle

(* A character put, padding or not, keeps what the text has to keep.       *)
LEMMA LastCharKeeps ==
  ASSUME TypeOK, SinkPut, NEW c, todo = <<c>>
  PROVE  /\ Head(todo) = c /\ Idle'
         /\ call = "put" => put_fn' = Following[put_fn] /\ Len(accepted') = Len(accepted) + 1
         /\ call # "put" => put_fn' = "first" /\ Len(accepted') = Len(accepted)
<1>1. Head(todo) = c /\ todo' = << >> /\ Finished
  BY LastChar
<1>2. Len(Append(accepted, octet)) = Len(accepted) + 1
  BY AppendFacts DEF TypeOK
<1>3. QED BY <1>1, <1>2 DEF Finished, Idle

LEMMA SinkPutKept ==
  ASSUME TypeOK, SinkPut, NEW n \in Nat, NEW m \in Nat, n <= m, Kept(n, m),
         NEW x \in Nat, x = IF n < m \/ Head(todo) = Pad THEN n ELSE n + 1
  PROVE  Kept(x, m + 1)'
<1>1. ~broken /\ ~broken' /\ Len(accepted) \in Nat /\ octet' = octet /\ todo # << >>
  BY DEF SinkPut, TypeOK
<1>2. CASE m >= n + 3
  <2>1. x = n /\ m + 1 >= x + 3
    BY <1>2
  <2>2. QED BY <2>1 DEF Kept
<1>3. ASSUME NEW q \in Nat, Idle' /\ Between(q, x, m + 1)' PROVE Kept(x, m + 1)'
  BY <1>1, <1>3 DEF Kept
<1>4. ASSUME NEW q \in Nat, Within(q, x, m + 1)' PROVE Kept(x, m + 1)'
  BY <1>1, <1>4 DEF Kept
<1>5. ASSUME NEW q \in Nat, Starting, call = "put", Between(q, n, m) PROVE Kept(x, m + 1)'
  <2>1. CASE put_fn = "first"
    <3>1. todo = <<CharOf(octet \div 4)>>
      BY <1>5, <2>1 DEF Starting, Chars
    <3>2. /\ Idle' /\ put_fn' = "second" /\ Len(accepted') = Len(accepted) + 1
          /\ x = IF n < m THEN n ELSE n + 1
      BY <1>5, <2>1, <3>1, LastCharKeeps, CharVisible DEF Following
    <3>3. CASE n = 4 * q /\ m = n /\ Len(accepted) = 3 * q
      <4>1. x = 4 * q + 1 /\ m + 1 = x /\ Len(accepted') = 3 * q + 1
        BY <3>2, <3>3
      <4>2. QED BY <1>3, <3>2, <4>1 DEF Between
    <3>4. CASE n = 4 * q + 2 /\ m = n + 2
      <4>1. m + 1 >= x + 3
        BY <3>2, <3>4
      <4>2. QED BY <4>1 DEF Kept
    <3>5. CASE n = 4 * q + 3 /\ m = n + 1 /\ Len(accepted) = 3 * q + 2
      <4>1. x = 4 * q + 3 /\ m + 1 = x + 2 /\ Len(accepted') = 3 * q + 3
        BY <3>2, <3>5
      <4>2. QED BY <1>3, <3>2, <4>1 DEF Between
    <3>6. QED BY <1>5, <2>1, <3>3, <3>4, <3>5 DEF Between
  <2>2. CASE put_fn = "second"
    <3>1. todo = <<CharOf(SecondSextet(octet))>>
      BY <1>5, <2>2 DEF Starting, Chars
    <3>2. /\ Idle' /\ put_fn' = "third" /\ Len(accepted') = Len(accepted) + 1
          /\ x = IF n < m THEN n ELSE n + 1
      BY <1>5, <2>2, <3>1, LastCharKeeps, CharVisible DEF Following
    <3>3. CASE n = 4 * q + 1 /\ m = n /\ Len(accepted) = 3 * q + 1
      <4>1. x = 4 * q + 2 /\ m + 1 = x /\ Len(accepted') = 3 * q + 2
        BY <3>2, <3>3
      <4>2. QED BY <1>3, <3>2, <4>1 DEF Between
    <3>4. CASE n = 4 * q + 3 /\ m = n + 2
      <4>1. m + 1 >= x + 3
        BY <3>2, <3>4
      <4>2. QED BY <4>1 DEF Kept
    <3>5. QED BY <1>5, <2>2, <3>3, <3>4 DEF Between
  <2>3. CASE put_fn = "third"
    <3>1. todo = <<CharOf(ThirdSextet(octet)), CharOf(octet % 64)>>
      BY <1>5, <2>3 DEF Starting, Chars
    <3>2. /\ Head(todo) = CharOf(ThirdSextet(octet)) /\ todo' = <<CharOf(octet % 64)>>
          /\ UNCHANGED <<call, put_fn, last_o, accepted>>
      BY <3>1, CharOfTwo
    <3>3. Halfway' /\ x = IF n < m THEN n ELSE n + 1
      BY <1>1, <1>5, <2>3, <3>2, CharVisible DEF Halfway
    <3>4. n = 4 * q + 2 /\ m = n /\ Len(accepted) = 3 * q + 2
      BY <1>5, <2>3 DEF Between
    <3>5. x = 4 * q + 3 /\ m + 1 = x
      BY <3>3, <3>4
    <3>6. QED BY <1>4, <3>2, <3>3, <3>4, <3>5 DEF Within
  <2>4. QED BY <2>1, <2>2, <2>3 DEF TypeOK
<1>6. ASSUME NEW q \in Nat, Starting, call # "put", Between(q, n, m) PROVE Kept(x, m + 1)'
  <2>0. call = "conclude" /\ put_fn # "first" /\ todo = Rest
    BY <1>6 DEF Starting
  <2>1. CASE put_fn = "second"
    <3>1. todo = <<CharOf(SecondSextet(0)), Pad, Pad>>
      BY <2>0, <2>1 DEF Rest
    <3>2. /\ Head(todo) = CharOf(SecondSextet(0)) /\ todo' = <<Pad, Pad>>
          /\ UNCHANGED <<call, put_fn, last_o, accepted>>
      BY <3>1, CharOfThree
    <3>3. Padding' /\ put_fn' = "second" /\ x = IF n < m THEN n ELSE n + 1
      BY <2>0, <2>1, <3>2, CharVisible DEF Padding
    <3>4. CASE n = 4 * q + 1 /\ m = n /\ Len(accepted) = 3 * q + 1
      <4>1. x = 4 * q + 2 /\ m + 1 = x
        BY <3>3, <3>4
      <4>2. QED BY <1>4, <3>2, <3>3, <3>4, <4>1 DEF Within
    <3>5. CASE n = 4 * q + 3 /\ m = n + 2
      <4>1. m + 1 >= x + 3
        BY <3>3, <3>5
      <4>2. QED BY <4>1 DEF Kept
    <3>6. QED BY <1>6, <2>1, <3>4, <3>5 DEF Between
  <2>2. CASE put_fn = "third"
    <3>1. todo = <<CharOf(ThirdSextet(0)), Pad>>
      BY <2>0, <2>2 DEF Rest
    <3>2. /\ Head(todo) = CharOf(ThirdSextet(0)) /\ todo' = <<Pad>>
          /\ UNCHANGED <<call, put_fn, last_o, accepted>>
      BY <3>1, CharOfTwo
    <3>3. Padding' /\ put_fn' = "third" /\ x = IF n < m THEN n ELSE n + 1
      BY <2>0, <2>2, <3>2, CharVisible DEF Padding
    <3>4. n = 4 * q + 2 /\ m = n /\ Len(accepted) = 3 * q + 2
      BY <1>6, <2>2 DEF Between
    <3>5. x = 4 * q + 3 /\ m + 1 = x
      BY <3>3, <3>4
    <3>6. QED BY <1>4, <3>2, <3>3, <3>4, <3>5 DEF Within
  <2>3. QED BY <2>0, <2>1, <2>2 DEF TypeOK
<1>7. ASSUME NEW q \in Nat, Within(q, n, m) PROVE Kept(x, m + 1)'
  <2>1. CASE Halfway /\ n = 4 * q + 3 /\ m = n /\ Len(accepted) = 3 * q + 2
    <3>1. call = "put" /\ put_fn = "third" /\ todo = <<CharOf(octet % 64)>>
      BY <2>1 DEF Halfway
    <3>2. /\ Idle' /\ put_fn' = "first" /\ Len(accepted') = Len(accepted) + 1 /\ x = n + 1
      BY <2>1, <3>1, LastCharKeeps, CharVisible DEF Following
    <3>3. x = 4 * (q + 1) /\ m + 1 = x /\ Len(accepted') = 3 * (q + 1) /\ q + 1 \in Nat
      BY <2>1, <3>2
    <3>4. QED BY <1>3, <3>2, <3>3 DEF Between
  <2>2. CASE /\ Padding /\ put_fn = "second" /\ n = 4 * q + 2 /\ Len(accepted) = 3 * q + 1
             /\ todo = <<Pad, Pad>> /\ m = n
    <3>1. /\ Head(todo) = Pad /\ todo' = <<Pad>> /\ UNCHANGED <<call, put_fn, last_o, accepted>>
      BY <2>2, CharOfTwo
    <3>2. Padding' /\ x = n /\ m + 1 = x + 1
      BY <2>2, <3>1 DEF Padding
    <3>3. QED BY <1>4, <2>2, <3>1, <3>2 DEF Within
  <2>3. CASE /\ Padding /\ put_fn = "second" /\ n = 4 * q + 2 /\ Len(accepted) = 3 * q + 1
             /\ todo = <<Pad>> /\ m = n + 1
    <3>1. Idle' /\ put_fn' = "first" /\ Len(accepted') = Len(accepted) /\ x = n
      BY <2>3, LastCharKeeps DEF Padding
    <3>2. m + 1 = x + 2
      BY <2>3, <3>1
    <3>3. QED BY <1>3, <2>3, <3>1, <3>2 DEF Between
  <2>4. CASE /\ Padding /\ put_fn = "third" /\ n = 4 * q + 3 /\ Len(accepted) = 3 * q + 2
             /\ todo = <<Pad>> /\ m = n
    <3>1. Idle' /\ put_fn' = "first" /\ Len(accepted') = Len(accepted) /\ x = n
      BY <2>4, LastCharKeeps DEF Padding
    <3>2. QED BY <1>3, <2>4, <3>1 DEF Between
  <2>5. QED BY <1>7, <2>1, <2>2, <2>3, <2>4 DEF Within
<1>8. ~Idle
  BY <1>1 DEF Idle
<1>9. QED BY <1>1, <1>2, <1>5, <1>6, <1>7, <1>8 DEF Kept

(* A sink that breaks has kept all but one octet.                          *)
LEMMA KeptSpares ==
  ASSUME NEW n \in Nat, NEW m \in Nat, Kept(n, m), Len(accepted) \in Nat
  PROVE  m >= n + 3 \/ \E q \in Nat : Spared(q, n)
<1>1. ASSUME NEW q \in Nat, Between(q, n, m) PROVE Spared(q, n)
  BY <1>1, SMTT(30) DEF Between, Spared
<1>2. ASSUME NEW q \in Nat, Within(q, n, m) PROVE Spared(q, n)
  BY <1>2, SMTT(30) DEF Within, Spared
<1>3. QED BY <1>1, <1>2 DEF Kept

(* The character of a call is padding, or carries the next sextet of what  *)
(* has been put.                                                           *)
LEMMA SinkPutLinked ==
  ASSUME TypeOK, SinkPut, NEW ss \in Seq(Sextet), Encodes(ss, accepted), Linked(ss)
  PROVE  \/ Head(todo) = Pad
         \/ \E x \in Sextet : /\ Head(todo) = CharOf(x) /\ Encodes(Append(ss, x), accepted')
                              /\ Linked(Append(ss, x))'
<1>1. /\ octet \in Octet /\ last_o \in Octet /\ accepted \in Seq(Octet) /\ 0 \in Octet
      /\ Len(accepted) \in Nat /\ Len(ss) \in Nat /\ octet' = octet /\ todo # << >>
  BY DEF TypeOK, Octet, SinkPut
<1>2. CASE Padding
  BY <1>2 DEF Padding
<1>3. ASSUME NEW q \in Nat, ((Idle \/ Starting) /\ Begun(q, ss)) \/ (Halfway /\ HalfDone(q, ss))
      PROVE  \/ Head(todo) = Pad
             \/ \E x \in Sextet : /\ Head(todo) = CharOf(x) /\ Encodes(Append(ss, x), accepted')
                                  /\ Linked(Append(ss, x))'
  <2>1. ASSUME NEW x \in Sextet
        PROVE  /\ Len(Append(ss, x)) = Len(ss) + 1 /\ Append(ss, x)[Len(ss) + 1] = x
    BY AppendFacts
  <2>2. /\ Len(Append(accepted, octet)) = Len(accepted) + 1
        /\ Append(accepted, octet)[Len(accepted) + 1] = octet
        /\ \A i \in 1..Len(accepted) : Append(accepted, octet)[i] = accepted[i]
        /\ Append(accepted, octet) \in Seq(Octet)
    BY <1>1, AppendFacts
  <2>3. CASE Starting /\ call = "put" /\ put_fn = "first" /\ Begun(q, ss)
    <3>1. PICK x \in Sextet : x = octet \div 4
      BY <1>1, By4 DEF Sextet
    <3>2. todo = <<CharOf(x)>> /\ Len(accepted) = 3 * q /\ Len(ss) = 4 * q
      BY <2>3, <3>1 DEF Starting, Chars, Begun
    <3>3. Head(todo) = CharOf(x) /\ todo' = << >> /\ Finished
      BY <3>2, LastChar
    <3>4. /\ call' = "none" /\ put_fn' = "second" /\ last_o' = octet
          /\ accepted' = Append(accepted, octet)
      BY <2>3, <3>3 DEF Finished, Following
    <3>5. Encodes(Append(ss, x), accepted')
      <4>1. Len(ss) + 1 = 4 * q + 1 /\ 1 \in 1..4
        BY <3>2
      <4>2. Encodes(Append(ss, x), Append(accepted, octet))
        BY <1>1, <4>1, EncodesNext
      <4>3. QED BY <3>4, <4>2, Zenon
    <3>6. Begun(q, Append(ss, x))'
      <4>1. Len(Append(ss, x)) = 4 * q + 1 /\ Append(ss, x)[4 * q + 1] = x
        BY <2>1, <3>2
      <4>2. Len(accepted') = 3 * q + 1 /\ accepted'[3 * q + 1] = octet
        BY <2>2, <3>2, <3>4
      <4>3. x = last_o' \div 4
        BY <3>1, <3>4
      <4>4. QED BY <3>4, <4>1, <4>2, <4>3, Zenon DEF Begun
    <3>7. Linked(Append(ss, x))'
      BY <3>3, <3>4, <3>6 DEF Linked, Idle
    <3>8. QED BY <3>3, <3>5, <3>7, Zenon
  <2>4. CASE Starting /\ call = "put" /\ put_fn = "second" /\ Begun(q, ss)
    <3>1. PICK x \in Sextet :
            x = (last_o % 4) * 16 + octet \div 16 /\ FirstOf(last_o \div 4, x) = last_o
      BY <1>1, FirstOfSextets
    <3>2. /\ todo = <<CharOf(x)>> /\ Len(accepted) = 3 * q + 1 /\ Len(ss) = 4 * q + 1
          /\ ss[4 * q + 1] = last_o \div 4 /\ last_o = accepted[3 * q + 1]
      BY <2>4, <3>1 DEF Starting, Chars, SecondSextet, Begun
    <3>3. Head(todo) = CharOf(x) /\ todo' = << >> /\ Finished
      BY <3>2, LastChar
    <3>4. /\ call' = "none" /\ put_fn' = "third" /\ last_o' = octet
          /\ accepted' = Append(accepted, octet)
      BY <2>4, <3>3 DEF Finished, Following
    <3>5. /\ Len(accepted') = 3 * q + 2 /\ accepted'[3 * q + 2] = octet
          /\ accepted'[3 * q + 1] = last_o
      <4>1. 3 * q + 1 \in 1..Len(accepted) /\ Len(accepted) + 1 = 3 * q + 2
        BY <3>2
      <4>2. QED BY <2>2, <3>2, <3>4, <4>1
    <3>6. Encodes(Append(ss, x), accepted')
      <4>1. Len(ss) + 1 = 4 * q + 2 /\ 2 \in 1..4 /\ 3 * q + 1 <= Len(accepted) + 1
        BY <3>2
      <4>2. FirstOf(ss[4 * q + 1], x) = Append(accepted, octet)[3 * q + 1]
        BY <3>1, <3>2, <3>4, <3>5, Zenon
      <4>3. Encodes(Append(ss, x), Append(accepted, octet))
        BY <1>1, <4>1, <4>2, EncodesNext
      <4>4. QED BY <3>4, <4>3, Zenon
    <3>7. Begun(q, Append(ss, x))'
      <4>1. Len(Append(ss, x)) = 4 * q + 2 /\ Append(ss, x)[4 * q + 2] = x
        BY <2>1, <3>2
      <4>2. Append(ss, x)[4 * q + 2] = (accepted'[3 * q + 1] % 4) * 16 + last_o' \div 16
        BY <3>1, <3>4, <3>5, <4>1, Zenon
      <4>3. last_o' = accepted'[3 * q + 2]
        BY <3>4, <3>5
      <4>4. QED BY <3>4, <3>5, <4>1, <4>2, <4>3, Zenon DEF Begun
    <3>8. Linked(Append(ss, x))'
      BY <3>3, <3>4, <3>7 DEF Linked, Idle
    <3>9. QED BY <3>3, <3>6, <3>8, Zenon
  <2>5. CASE Starting /\ call = "conclude" /\ put_fn = "second" /\ Begun(q, ss)
    <3>1. PICK x \in Sextet :
            x = (last_o % 4) * 16 + 0 \div 16 /\ FirstOf(last_o \div 4, x) = last_o
      BY <1>1, FirstOfSextets
    <3>2. /\ todo = <<CharOf(x), Pad, Pad>> /\ Len(accepted) = 3 * q + 1 /\ Len(ss) = 4 * q + 1
          /\ ss[4 * q + 1] = last_o \div 4 /\ last_o = accepted[3 * q + 1]
      BY <2>5, <3>1 DEF Starting, Rest, SecondSextet, Begun
    <3>3. /\ Head(todo) = CharOf(x) /\ todo' = <<Pad, Pad>>
          /\ UNCHANGED <<call, put_fn, last_o, accepted>>
      BY <3>2, CharOfThree
    <3>4. Encodes(Append(ss, x), accepted')
      <4>1. Len(ss) + 1 = 4 * q + 2 /\ 2 \in 1..4 /\ 3 * q + 1 <= Len(accepted)
        BY <3>2
      <4>2. FirstOf(ss[4 * q + 1], x) = accepted[3 * q + 1] /\ accepted' = accepted
        BY <3>1, <3>2, <3>3, Zenon
      <4>3. QED BY <1>1, <4>1, <4>2, EncodesSextet
    <3>5. Linked(Append(ss, x))'
      BY <2>5, <3>3 DEF Padding, Linked
    <3>6. QED BY <3>3, <3>4, <3>5, Zenon
  <2>6. CASE Starting /\ call = "put" /\ put_fn = "third" /\ Begun(q, ss)
    <3>1. PICK a \in Octet : a = accepted[3 * q + 1]
      <4>1. 3 * q + 1 \in 1..Len(accepted)
        BY <1>1, <2>6 DEF Begun
      <4>2. QED BY <1>1, <4>1, ElementOfSeq
    <3>2. PICK x \in Sextet :
            /\ x = (last_o % 16) * 4 + octet \div 64
            /\ SecondOf((a % 4) * 16 + last_o \div 16, x) = last_o
      BY <1>1, <3>1, SecondOfSextets
    <3>3. /\ todo = <<CharOf(x), CharOf(octet % 64)>>
          /\ Len(accepted) = 3 * q + 2 /\ Len(ss) = 4 * q + 2
          /\ ss[4 * q + 2] = (a % 4) * 16 + last_o \div 16 /\ last_o = accepted[3 * q + 2]
      BY <2>6, <3>1, <3>2 DEF Starting, Chars, ThirdSextet, Begun
    <3>4. /\ Head(todo) = CharOf(x) /\ todo' = <<CharOf(octet % 64)>>
          /\ UNCHANGED <<call, put_fn, last_o, accepted>>
      BY <3>3, CharOfTwo, Zenon
    <3>5. Encodes(Append(ss, x), accepted')
      <4>1. Len(ss) + 1 = 4 * q + 3 /\ 3 \in 1..4 /\ 3 * q + 2 <= Len(accepted)
        BY <3>3
      <4>2. SecondOf(ss[4 * q + 2], x) = accepted[3 * q + 2] /\ accepted' = accepted
        BY <3>2, <3>3, <3>4, Zenon
      <4>3. QED BY <1>1, <4>1, <4>2, EncodesSextet
    <3>6. HalfDone(q, Append(ss, x))'
      <4>1. ThirdSextet(octet)' = x
        BY <1>1, <3>2, <3>4 DEF ThirdSextet
      <4>2. Len(Append(ss, x)) = 4 * q + 3 /\ Append(ss, x)[4 * q + 3] = x
        BY <2>1, <3>3
      <4>3. Len(accepted') = 3 * q + 2
        BY <3>3, <3>4
      <4>4. QED BY <4>1, <4>2, <4>3, Zenon DEF HalfDone
    <3>7. Halfway'
      BY <1>1, <2>6, <3>4 DEF Halfway
    <3>8. Linked(Append(ss, x))'
      BY <3>6, <3>7 DEF Linked
    <3>9. QED BY <3>4, <3>5, <3>8, Zenon
  <2>7. CASE Starting /\ call = "conclude" /\ put_fn = "third" /\ Begun(q, ss)
    <3>1. PICK a \in Octet : a = accepted[3 * q + 1]
      <4>1. 3 * q + 1 \in 1..Len(accepted)
        BY <1>1, <2>7 DEF Begun
      <4>2. QED BY <1>1, <4>1, ElementOfSeq
    <3>2. PICK x \in Sextet :
            /\ x = (last_o % 16) * 4 + 0 \div 64
            /\ SecondOf((a % 4) * 16 + last_o \div 16, x) = last_o
      BY <1>1, <3>1, SecondOfSextets
    <3>3. /\ todo = <<CharOf(x), Pad>> /\ Len(accepted) = 3 * q + 2 /\ Len(ss) = 4 * q + 2
          /\ ss[4 * q + 2] = (a % 4) * 16 + last_o \div 16 /\ last_o = accepted[3 * q + 2]
      BY <2>7, <3>1, <3>2 DEF Starting, Rest, ThirdSextet, Begun
    <3>4. /\ Head(todo) = CharOf(x) /\ todo' = <<Pad>>
          /\ UNCHANGED <<call, put_fn, last_o, accepted>>
      BY <3>3, CharOfTwo, Zenon
    <3>5. Encodes(Append(ss, x), accepted')
      <4>1. Len(ss) + 1 = 4 * q + 3 /\ 3 \in 1..4 /\ 3 * q + 2 <= Len(accepted)
        BY <3>3
      <4>2. SecondOf(ss[4 * q + 2], x) = accepted[3 * q + 2] /\ accepted' = accepted
        BY <3>2, <3>3, <3>4, Zenon
      <4>3. QED BY <1>1, <4>1, <4>2, EncodesSextet
    <3>6. Linked(Append(ss, x))'
      BY <2>7, <3>4 DEF Padding, Linked
    <3>7. QED BY <3>4, <3>5, <3>6, Zenon
  <2>8. CASE Halfway /\ HalfDone(q, ss)
    <3>1. PICK x \in Sextet :
            x = octet % 64 /\ ThirdOf((last_o % 16) * 4 + octet \div 64, x) = octet
      BY <1>1, ThirdOfSextets
    <3>2. /\ todo = <<CharOf(x)>> /\ Len(accepted) = 3 * q + 2 /\ Len(ss) = 4 * q + 3
          /\ ss[4 * q + 3] = (last_o % 16) * 4 + octet \div 64
      BY <2>8, <3>1 DEF Halfway, HalfDone, ThirdSextet
    <3>3. Head(todo) = CharOf(x) /\ todo' = << >> /\ Finished
      BY <3>2, LastChar
    <3>4. call' = "none" /\ put_fn' = "first" /\ accepted' = Append(accepted, octet)
      BY <2>8, <3>3 DEF Halfway, Finished, Following
    <3>5. Len(accepted') = 3 * q + 3 /\ accepted'[3 * q + 3] = octet
      <4>1. Len(accepted) + 1 = 3 * q + 3
        BY <3>2
      <4>2. QED BY <2>2, <3>4, <4>1
    <3>6. Encodes(Append(ss, x), accepted')
      <4>1. Len(ss) + 1 = 4 * q + 4 /\ 4 \in 1..4 /\ 3 * q + 3 <= Len(accepted) + 1
        BY <3>2
      <4>2. ThirdOf(ss[4 * q + 3], x) = Append(accepted, octet)[3 * q + 3]
        BY <3>1, <3>2, <3>4, <3>5, Zenon
      <4>3. Encodes(Append(ss, x), Append(accepted, octet))
        BY <1>1, <4>1, <4>2, EncodesNext
      <4>4. QED BY <3>4, <4>3, Zenon
    <3>7. q + 1 \in Nat /\ Begun(q + 1, Append(ss, x))'
      <4>1. Len(Append(ss, x)) = 4 * (q + 1) /\ Len(accepted') = 3 * (q + 1)
        BY <2>1, <3>2, <3>5
      <4>2. QED BY <3>4, <4>1 DEF Begun
    <3>8. Linked(Append(ss, x))'
      BY <3>3, <3>4, <3>7 DEF Linked, Idle
    <3>9. QED BY <3>3, <3>6, <3>8, Zenon
  <2>9. QED BY <1>1, <1>3, <2>3, <2>4, <2>5, <2>6, <2>7, <2>8 DEF Idle, Starting, TypeOK
<1>4. Padding \/ \E q \in Nat : ((Idle \/ Starting) /\ Begun(q, ss)) \/ (Halfway /\ HalfDone(q, ss))
  BY DEF Linked
<1>5. QED BY <1>2, <1>3, <1>4

LEMMA SinkPutWritten ==
  ASSUME TypeOK, CallInv, Spaces(line.sep), SinkPut, NEW ps, NEW ss, Written(ps, ss)
  PROVE  CallInv' /\ \E qs, xs : Written(qs, xs)'
<1> DEFINE sep == IF NewLine THEN line.sep ELSE << >>
<1>1. /\ CallInv' /\ ~IsSpace(Head(todo)) /\ octet \in Octet /\ accepted \in Seq(Octet)
      /\ accepted' = accepted \/ accepted' = Append(accepted, octet)
  BY SinkPutCall DEF TypeOK
<1>2. /\ ss \in Seq(Sextet) /\ Len(ss) \in Nat /\ Len(ps) \in Nat /\ Len(ss) <= Len(ps)
      /\ Encodes(ss, accepted) /\ Kept(Len(ss), Len(ps))
  BY LenProperties DEF Written, Holds, Placed, Shown, Carries
<1>3. PICK t \in Seq(Char) : t = sink \o sep /\ Holds(t, ps, ss, accepted)
  <2>1. sep \in Seq(Char) /\ Spaces(sep)
    <3>1. CASE NewLine
      BY <3>1, IndexType
    <3>2. CASE ~NewLine
      BY <3>2 DEF Spaces
    <3>3. QED BY <3>1, <3>2
  <2> HIDE DEF sep
  <2>2. Holds(sink \o sep, ps, ss, accepted)
    BY <2>1, HoldsWithSpaces DEF Written
  <2>3. QED BY <2>2 DEF Holds, Placed, Shown
<1>4. PICK h \in Char : h = Head(todo) /\ ~IsSpace(h)
  BY <1>1 DEF SinkPut, TypeOK
<1>5. sink' = Append(t, h) /\ ~broken /\ broken' = broken
  <2>1. sink' = t \o <<h>> /\ ~broken /\ broken' = broken
    BY <1>3, <1>4, Zenon DEF SinkPut
  <2>2. t \o <<h>> = Append(t, h)
    BY AppendIsConcat
  <2>3. QED BY <2>1, <2>2
<1> HIDE DEF sep
<1>6. CASE Len(ss) < Len(ps) \/ h = Pad
  <2>1. PICK qs : /\ Holds(Append(t, h), qs, ss, accepted) /\ Len(ss) < Len(qs)
                  /\ Len(qs) = Len(ps) + 1
    BY <1>3, <1>4, <1>6, HoldsWithMore
  <2>2. Encodes(ss, accepted')
    BY <1>1, <1>2, EncodesMore
  <2>3. Kept(Len(ss), Len(qs))'
    <3>1. Kept(Len(ss), Len(ps) + 1)'
      BY <1>2, <1>4, <1>6, SinkPutKept
    <3>2. QED BY <2>1, <3>1
  <2>4. Written(qs, ss)'
    BY <1>5, <2>1, <2>2, <2>3, Zenon DEF Written, Holds
  <2>5. QED BY <1>1, <2>4
<1>7. CASE ~(Len(ss) < Len(ps) \/ h = Pad)
  <2>1. Len(ss) = Len(ps) /\ Linked(ss)
    BY <1>2, <1>5, <1>7 DEF Written
  <2>2. PICK x \in Sextet : /\ h = CharOf(x) /\ Encodes(Append(ss, x), accepted')
                            /\ Linked(Append(ss, x))'
    BY <1>2, <1>4, <1>7, <2>1, SinkPutLinked
  <2>3. PICK more : more = accepted'
    OBVIOUS
  <2>4. PICK qs : /\ Holds(Append(t, h), qs, Append(ss, x), more)
                  /\ Len(Append(ss, x)) = Len(qs) /\ Len(qs) = Len(ps) + 1
    BY <1>3, <2>1, <2>2, <2>3, HoldsWithSextet
  <2>5. Kept(Len(Append(ss, x)), Len(qs))'
    <3>1. Len(ss) + 1 \in Nat
      BY <1>2
    <3>2. Len(ss) + 1 = IF Len(ss) < Len(ps) \/ Head(todo) = Pad THEN Len(ss) ELSE Len(ss) + 1
      BY <1>4, <1>7, Zenon
    <3>3. Kept(Len(ss) + 1, Len(ps) + 1)'
      BY <1>2, <3>1, <3>2, SinkPutKept
    <3>4. Len(Append(ss, x)) = Len(ss) + 1
      BY <2>1, <2>4
    <3>5. QED BY <2>4, <3>3, <3>4
  <2>6. Written(qs, Append(ss, x))'
    BY <1>5, <2>2, <2>3, <2>4, <2>5, Zenon DEF Written
  <2>7. QED BY <1>1, <2>6, Zenon
<1>8. QED BY <1>6, <1>7

(* Every step of the writer.                                               *)
LEMMA WriterKeeps ==
  ASSUME TypeOK, CallInv, Spaces(line.sep), Next, NEW ps, NEW ss, Written(ps, ss)
  PROVE  CallInv' /\ \E qs, xs : Written(qs, xs)'
<1>1. ASSUME call = "none"
      PROVE  /\ Idle /\ (broken \/ Len(ss) < Len(ps)
                         \/ (Len(ss) = Len(ps) /\ \E q \in Nat : Begun(q, ss)))
             /\ (Idle' \/ Starting') /\ UNCHANGED <<put_fn, accepted, broken>> =>
                  Kept(Len(ss), Len(ps))'
  <2>1. Idle /\ ~Starting /\ ~Halfway /\ ~Padding
    BY <1>1 DEF CallInv, Idle, Starting, Halfway, Padding
  <2>2. Linked(ss) => \E q \in Nat : Begun(q, ss)
    BY <2>1 DEF Linked
  <2>3. ASSUME Idle' \/ Starting', UNCHANGED <<put_fn, accepted, broken>>
        PROVE  Kept(Len(ss), Len(ps))'
    <3>1. Kept(Len(ss), Len(ps))
      BY DEF Written
    <3>2. \A q \in Nat : /\ ~Within(q, Len(ss), Len(ps))
                         /\ Spared(q, Len(ss)) => Spared(q, Len(ss))'
                         /\ Between(q, Len(ss), Len(ps)) => Between(q, Len(ss), Len(ps))'
      BY <2>1, <2>3 DEF Within, Spared, Between
    <3>3. QED BY <2>3, <3>1, <3>2 DEF Kept
  <2>4. QED BY <2>1, <2>2, <2>3 DEF Written
<1>2. ASSUME call = "none", Starting',
             UNCHANGED <<sink, put_fn, last_o, accepted, broken>>
      PROVE  CallInv' /\ \E qs, xs : Written(qs, xs)'
  <2>1. ASSUME NEW q \in Nat, Begun(q, ss) PROVE Linked(ss)'
    <3>1. Begun(q, ss)'
      BY <1>2, <2>1 DEF Begun
    <3>2. QED BY <1>2, <3>1 DEF Linked
  <2>2. Kept(Len(ss), Len(ps))'
    BY <1>1, <1>2
  <2>3. Written(ps, ss)'
    BY <1>1, <1>2, <2>1, <2>2, Zenon DEF Written
  <2>4. QED BY <1>2, <2>3 DEF CallInv
<1>3. ASSUME NEW o, Put(o) PROVE CallInv' /\ \E qs, xs : Written(qs, xs)'
  <2>1. Starting'
    BY <1>3 DEF Put, Starting, Chars, SecondSextet, ThirdSextet
  <2>2. QED BY <1>2, <1>3, <2>1 DEF Put
<1>4. CASE Conclude
  <2>1. put_fn # "first"
    BY <1>4 DEF Conclude, Rest
  <2>2. Starting'
    BY <1>4, <2>1 DEF Conclude, Starting, Rest, SecondSextet, ThirdSextet
  <2>3. QED BY <1>2, <1>4, <2>2 DEF Conclude
<1>5. CASE SinkPut
  BY <1>5, SinkPutWritten
<1>6. CASE SinkRefuses
  <2>1. PICK n \in 0..(IF NewLine /\ ~broken THEN Len(line.sep) ELSE 0) :
          sink' = sink \o SubSeq(line.sep, 1, n)
    BY <1>6 DEF SinkRefuses
  <2>2. SubSeq(line.sep, 1, n) \in Seq(Char) /\ Spaces(SubSeq(line.sep, 1, n))
    <3>1. line.sep \in Seq(Char) /\ Len(line.sep) \in Nat
      BY IndexType, LenProperties
    <3>2. n \in 0..Len(line.sep)
      BY <3>1
    <3>3. \A i \in 1..n : line.sep[i] \in Char
      BY <3>1, <3>2, ElementOfSeq
    <3>4. /\ SubSeq(line.sep, 1, n) \in Seq(Char)
          /\ Len(SubSeq(line.sep, 1, n)) = IF 1 <= n THEN n - 1 + 1 ELSE 0
          /\ \A i \in 1..n - 1 + 1 : SubSeq(line.sep, 1, n)[i] = line.sep[1 + i - 1]
      BY <3>1, <3>2, <3>3, SubSeqProperties
    <3>5. Len(SubSeq(line.sep, 1, n)) = n /\ n - 1 + 1 = n
      BY <3>2, <3>4
    <3>6. \A i \in 1..n : 1 + i - 1 = i /\ i \in 1..Len(line.sep)
      BY <3>2
    <3>7. \A i \in 1..n : IsSpace(SubSeq(line.sep, 1, n)[i])
      BY <3>4, <3>5, <3>6 DEF Spaces
    <3>8. QED BY <3>4, <3>5, <3>7 DEF Spaces
  <2>3. Holds(sink', ps, ss, accepted)
    BY <2>1, <2>2, HoldsWithSpaces DEF Written
  <2>4. broken' /\ accepted' = accepted /\ Idle'
    BY <1>6 DEF SinkRefuses, Idle
  <2>5. Kept(Len(ss), Len(ps))'
    <3>1. Kept(Len(ss), Len(ps)) /\ Len(ss) \in Nat /\ Len(ps) \in Nat /\ Len(accepted) \in Nat
      BY LenProperties DEF Written, Holds, Placed, Shown, Carries, TypeOK
    <3>2. Len(ps) >= Len(ss) + 3 \/ \E q \in Nat : Spared(q, Len(ss))
      BY <3>1, KeptSpares
    <3>3. \A q \in Nat : Spared(q, Len(ss)) => Spared(q, Len(ss))'
      BY <2>4 DEF Spared
    <3>4. QED BY <2>4, <3>2, <3>3 DEF Kept
  <2>6. Written(ps, ss)'
    BY <2>3, <2>4, <2>5 DEF Written
  <2>7. QED BY <2>4, <2>6 DEF CallInv
<1>7. CASE Close
  <2>1. Idle'
    BY <1>1, <1>7 DEF Close, Idle
  <2>2. ASSUME NEW q \in Nat, Begun(q, ss) PROVE Linked(ss)'
    <3>1. Begun(q, ss)'
      BY <1>7, <2>2 DEF Begun, Close
    <3>2. QED BY <2>1, <3>1 DEF Linked
  <2>3. call = "none" /\ UNCHANGED <<sink, put_fn, accepted, broken>>
    BY <1>7 DEF Close
  <2>4. Kept(Len(ss), Len(ps))'
    BY <1>1, <2>1, <2>3
  <2>5. Written(ps, ss)'
    BY <1>1, <2>2, <2>3, <2>4, Zenon DEF Written
  <2>6. QED BY <2>1, <2>5 DEF CallInv
<1>8. QED BY <1>3, <1>4, <1>5, <1>6, <1>7 DEF Next

(* It rests while the reader reads.                                        *)
LEMMA WriterRests ==
  ASSUME CallInv, UNCHANGED vars, NEW ps, NEW ss, Written(ps, ss)
  PROVE  CallInv' /\ Written(ps, ss)'
<1>1. /\ Idle' = Idle /\ Starting' = Starting /\ Halfway' = Halfway /\ Padding' = Padding
      /\ UNCHANGED <<sink, put_fn, last_o, octet, todo, broken, accepted>>
  BY DEF vars, Idle, Starting, Halfway, Padding, Chars, Rest, SecondSextet, ThirdSextet
<1>2. CallInv'
  BY <1>1 DEF CallInv
<1>3. Linked(ss) => Linked(ss)'
  BY <1>1 DEF Linked, Begun, HalfDone, ThirdSextet
<1>4. Kept(Len(ss), Len(ps)) => Kept(Len(ss), Len(ps))'
  <2>1. ASSUME NEW q \in Nat
        PROVE  /\ Spared(q, Len(ss)) => Spared(q, Len(ss))'
               /\ Between(q, Len(ss), Len(ps)) => Between(q, Len(ss), Len(ps))'
               /\ Within(q, Len(ss), Len(ps)) => Within(q, Len(ss), Len(ps))'
    BY <1>1 DEF Spared, Between, Within
  <2>2. QED BY <1>1, <2>1 DEF Kept
<1>5. Written(ps, ss)'
  BY <1>1, <1>3, <1>4, Zenon DEF Written
<1>6. QED BY <1>2, <1>5

-----------------------------------------------------------------------------
(* The reader.  In any text the characters that are no spaces begin with   *)
(* some that have sextets, ss; the one after these has none.               *)
Told(s, ps, ss) ==
  /\ s \in Seq(Int) /\ Shown(s, ps)
  /\ ss \in Seq(Sextet) /\ Len(ss) <= Len(ps)
  /\ \A i \in 1..Len(ss) : SextetOf(s[ps[i]]) = ss[i]
  /\ Len(ss) < Len(ps) => SextetOf(s[ps[Len(ss) + 1]]) = InvalidSextet

LEMMA HoldsTold ==
  ASSUME NEW s, NEW ps, NEW ss, NEW os, Holds(s, ps, ss, os)
  PROVE  Told(s, ps, ss) /\ Encodes(ss, os)
<1>1. s \in Seq(Int)
  BY CharsAreInts DEF Holds, Placed
<1>2. QED BY <1>1, PadVisible DEF Holds, Placed, Carries, Told

(* It is past place c of the text, and past the first r of the characters  *)
(* that are no spaces.                                                     *)

At(c, r, ps) ==
  /\ c \in 0..Len(text) /\ Len(src) = Len(text) - c
  /\ \A j \in 1..Len(src) : src[j] = text[c + j]
  /\ \A i \in 1..Len(ps) : ps[i] > c <=> i > r

(* What it got of q whole quartets and of the next one.                    *)
Met(q, r, ss) ==
  \/ get_fn = "first" /\ Len(got) = 3 * q /\ r = 4 * q
  \/ get_fn = "second" /\ Len(got) = 3 * q + 1 /\ r = 4 * q + 2 /\ last_s = ss[4 * q + 2]
  \/ get_fn = "third" /\ Len(got) = 3 * q + 2 /\ r = 4 * q + 3 /\ last_s = ss[4 * q + 3]

(* A place of the text from place c + i on is one of the unread part.       *)
LEMMA PlaceInRest ==
  ASSUME NEW l \in Nat, NEW p \in 1..l, NEW c \in Nat, NEW i \in Nat \ {0}, p >= c + i
  PROVE  p - c \in i..l - c /\ p - c \in 1..l - c /\ c + (p - c) = p
  OBVIOUS

(* The kth of these characters is the one that __source_peek shows next.   *)
LEMMA PeekedAt ==
  ASSUME In!TypeOK, text \in Seq(Int), NEW ps, Shown(text, ps), NEW c, NEW r, At(c, r, ps),
         NEW i \in Nat \ {0}, NEW k \in 1..Len(ps) + 1,
         \A m \in 1..Len(ps) : ps[m] >= c + i <=> m >= k
  PROVE  In!Peeked(i) = IF k <= Len(ps) THEN ps[k] - c ELSE Len(src) + 1
<1> DEFINE seen == {j \in i..Len(src) : ~In!IsSpace(src[j])}
<1>1. /\ Len(src) \in Nat /\ Len(ps) \in Nat /\ Len(text) \in Nat
      /\ c \in 0..Len(text) /\ Len(src) = Len(text) - c
      /\ \A m \in 1..Len(ps) : ps[m] \in 1..Len(text) /\ ~IsSpace(text[ps[m]])
      /\ \A m \in 1..Len(ps) : ps[m] \in Nat
  BY DEF In!TypeOK, Shown, At
<1>2. ASSUME NEW j \in 1..Len(src)
      PROVE  src[j] = text[c + j] /\ c + j \in 1..Len(text) /\ In!IsSpace(src[j]) = IsSpace(src[j])
  BY <1>1, SameTables DEF At
<1>3. In!Peeked(i) = IF seen = {} THEN Len(src) + 1 ELSE In!Min(seen)
  BY DEF In!Peeked
<1>4. ASSUME NEW j \in seen PROVE \E m \in 1..Len(ps) : ps[m] = c + j /\ m >= k
  <2>1. j \in 1..Len(src) /\ j >= i /\ ~IsSpace(src[j])
    <3>1. j \in i..Len(src) /\ ~In!IsSpace(src[j])
      OBVIOUS
    <3>2. j \in 1..Len(src) /\ j >= i
      BY <1>1, <3>1
    <3>3. QED BY <1>2, <3>1, <3>2
  <2>2. PICK m \in 1..Len(ps) : ps[m] = c + j
    BY <1>2, <2>1 DEF Shown
  <2>3. ps[m] >= c + i
    BY <1>1, <2>1, <2>2
  <2>4. QED BY <2>2, <2>3
<1>5. CASE k > Len(ps)
  <2>1. seen = {}
    <3>1. ASSUME NEW j \in seen PROVE FALSE
      <4>1. PICK m \in 1..Len(ps) : m >= k
        BY <1>4
      <4>2. QED BY <1>1, <1>5, <4>1
    <3>2. QED BY <3>1, Zenon
  <2>2. ~(k <= Len(ps))
    BY <1>1, <1>5
  <2>3. QED BY <1>3, <2>1, <2>2
<1>6. CASE k <= Len(ps)
  <2> DEFINE x == ps[k] - c
  <2>1. k \in 1..Len(ps) /\ ps[k] >= c + i
    BY <1>1, <1>6
  <2>2. x \in i..Len(src) /\ x \in 1..Len(src) /\ c + x = ps[k]
    <3>1. ps[k] \in 1..Len(text)
      BY <1>1, <2>1, Zenon
    <3>2. PICK p \in 1..Len(text) : p = ps[k]
      BY <3>1, Zenon
    <3>3. p >= c + i
      BY <2>1, <3>2, Zenon
    <3>4. Len(text) \in Nat /\ c \in Nat
      BY <1>1
    <3>5. p - c \in i..Len(text) - c /\ p - c \in 1..Len(text) - c /\ c + (p - c) = p
      BY <3>3, <3>4, PlaceInRest
    <3>6. Len(src) = Len(text) - c
      BY <1>1
    <3>7. QED BY <3>2, <3>5, <3>6, Zenon
  <2>3. x \in seen
    BY <1>1, <1>2, <2>1, <2>2
  <2>4. ASSUME NEW y \in seen PROVE x <= y
    <3>1. PICK m \in 1..Len(ps) : ps[m] = c + y /\ m >= k
      BY <1>4
    <3>2. ps[m] >= ps[k]
      <4>1. CASE m = k
        <5>1. ps[k] \in Nat
          BY <1>1, <2>1, Zenon
        <5>2. ps[k] >= ps[k]
          BY <5>1
        <5>3. QED BY <4>1, <5>2
      <4>2. CASE m # k
        <5>1. k < m
          BY <2>1, <3>1, <4>2
        <5>2. ps[k] < ps[m]
          BY <2>1, <5>1 DEF Shown
        <5>3. ps[k] \in Nat /\ ps[m] \in Nat
          BY <1>1, <2>1, Zenon
        <5>4. QED BY <5>2, <5>3
      <4>3. QED BY <4>1, <4>2
    <3>3. y \in Int
      BY <1>1
    <3>4. PICK a, b, d \in Nat : a = ps[k] /\ b = ps[m] /\ d = c
      <4>1. ps[k] \in Nat /\ ps[m] \in Nat
        BY <1>1, <2>1, Zenon
      <4>2. c \in Nat
        BY <1>1
      <4>3. QED BY <4>1, <4>2, Zenon
    <3>5. x = a - d /\ b = d + y /\ b >= a
      BY <3>1, <3>2, <3>4
    <3>6. QED BY <3>3, <3>4, <3>5
  <2>5. seen \subseteq Int
    BY <1>1
  <2> HIDE DEF seen, x
  <2>6. In!Min(seen) \in seen /\ \A y \in seen : In!Min(seen) <= y
    BY <2>3, <2>4 DEF In!Min
  <2>7. In!Min(seen) = x
    <3>1. PICK y \in seen : y = In!Min(seen) /\ y <= x
      BY <2>3, <2>6
    <3>2. x <= y /\ x \in Int /\ y \in Int
      BY <2>3, <2>4, <2>5
    <3>3. QED BY <3>1, <3>2
  <2>8. seen # {}
    BY <2>3
  <2>9. QED BY <1>3, <1>6, <2>7, <2>8 DEF x, seen
<1>7. QED BY <1>1, <1>5, <1>6

(* It is a sextet exactly when the text carries one there.                 *)
LEMMA ReadsSextet ==
  ASSUME In!TypeOK, NEW ps, NEW ss, Told(text, ps, ss),
         NEW c, NEW r, At(c, r, ps),
         NEW k \in 1..Len(ss) + 1, NEW f,
         f = IF k <= Len(ps) THEN ps[k] - c ELSE Len(src) + 1,
         k <= Len(ps) => ps[k] > c
  PROVE  /\ In!IsSextet(f) <=> k <= Len(ss)
         /\ k <= Len(ss) => k \in 1..Len(ps) /\ f = ps[k] - c /\ In!SextetOf(src[f]) = ss[k]
<1>1. /\ Len(src) \in Nat /\ Len(ps) \in Nat /\ Len(text) \in Nat /\ Len(ss) \in Nat
      /\ c \in 0..Len(text) /\ Len(src) = Len(text) - c /\ Len(ss) <= Len(ps)
      /\ \A m \in 1..Len(ps) : ps[m] \in 1..Len(text)
  BY LenProperties DEF In!TypeOK, Told, Shown, At
<1>2. ASSUME k <= Len(ps)
      PROVE  f = ps[k] - c /\ f \in 1..Len(src) /\ src[f] = text[ps[k]]
  <2>1. f = ps[k] - c /\ k \in 1..Len(ps) /\ ps[k] > c
    BY <1>1, <1>2
  <2>2. f \in 1..Len(src) /\ c + f = ps[k]
    BY <1>1, <2>1
  <2>3. QED BY <2>1, <2>2 DEF At
<1>3. CASE k <= Len(ss)
  <2>1. k \in 1..Len(ps) /\ k \in 1..Len(ss) /\ k <= Len(ps)
    BY <1>1, <1>3
  <2>2. SextetOf(src[f]) = ss[k] /\ ss[k] \in Sextet
    BY <1>2, <2>1, ElementOfSeq DEF Told
  <2>3. SextetOf(src[f]) # InvalidSextet
    <3>1. PICK x \in 0..63 : x = SextetOf(src[f])
      BY <2>2 DEF Sextet
    <3>2. x # InvalidSextet
      BY DEF InvalidSextet
    <3>3. QED BY <3>1, <3>2
  <2>4. In!IsSextet(f)
    BY <1>2, <2>1, <2>3, SameTables DEF In!IsSextet
  <2>5. QED BY <1>2, <1>3, <2>1, <2>2, <2>4, SameTables
<1>4. CASE ~(k <= Len(ss)) /\ k <= Len(ps)
  <2>1. k = Len(ss) + 1 /\ Len(ss) < Len(ps)
    BY <1>1, <1>4
  <2>2. SextetOf(src[f]) = InvalidSextet
    BY <1>2, <1>4, <2>1 DEF Told
  <2>3. ~In!IsSextet(f)
    BY <2>2, SameTables DEF In!IsSextet
  <2>4. QED BY <1>4, <2>3
<1>5. CASE ~(k <= Len(ss)) /\ ~(k <= Len(ps))
  <2>1. ~(f <= Len(src))
    BY <1>1, <1>5
  <2>2. QED BY <1>5, <2>1 DEF In!IsSextet
<1>6. QED BY <1>3, <1>4, <1>5

LEMMA FirstReads ==
  ASSUME In!TypeOK, NEW ps, NEW ss, Told(text, ps, ss),
         NEW c, NEW r \in 0..Len(ss), At(c, r, ps)
  PROVE  /\ In!IsSextet(In!First) <=> r + 1 <= Len(ss)
         /\ r + 1 <= Len(ss) =>
              /\ r + 1 \in 1..Len(ps) /\ In!First = ps[r + 1] - c
              /\ In!SextetOf(src[In!First]) = ss[r + 1]
<1>1. /\ Len(ps) \in Nat /\ Len(ss) \in Nat /\ Len(ss) <= Len(ps) /\ Shown(text, ps)
      /\ text \in Seq(Int)
      /\ c \in 0..Len(text) /\ Len(text) \in Nat
      /\ \A m \in 1..Len(ps) : ps[m] \in Nat
  BY LenProperties, ElementOfSeq DEF Told, Shown, At
<1>2. PICK k \in 1..Len(ss) + 1 : k = r + 1
  BY <1>1
<1>3. k \in 1..Len(ps) + 1 /\ r \in Nat
  BY <1>1
<1>4. \A m \in 1..Len(ps) : (ps[m] >= c + 1 <=> m >= k) /\ (ps[m] > c <=> m > r)
  <2>1. TAKE m \in 1..Len(ps)
  <2>2. ps[m] > c <=> m > r
    BY DEF At
  <2>3. QED BY <1>1, <1>2, <1>3, <2>2
<1>5. In!First = IF k <= Len(ps) THEN ps[k] - c ELSE Len(src) + 1
  <2>1. 1 \in Nat \ {0}
    OBVIOUS
  <2>2. In!Peeked(1) = IF k <= Len(ps) THEN ps[k] - c ELSE Len(src) + 1
    BY <1>1, <1>3, <1>4, <2>1, PeekedAt
  <2>3. QED BY <2>2 DEF In!First
<1>6. k <= Len(ps) => ps[k] > c
  BY <1>2, <1>3, <1>4
<1>7. QED BY <1>2, <1>5, <1>6, ReadsSextet

LEMMA SecondReads ==
  ASSUME In!TypeOK, NEW ps, NEW ss, Told(text, ps, ss),
         NEW c, NEW r \in 0..Len(ss), At(c, r, ps), r + 1 <= Len(ss)
  PROVE  /\ In!IsSextet(In!Second) <=> r + 2 <= Len(ss)
         /\ r + 2 <= Len(ss) =>
              /\ r + 2 \in 1..Len(ps) /\ In!Second = ps[r + 2] - c
              /\ In!SextetOf(src[In!Second]) = ss[r + 2]
<1>1. /\ Len(ps) \in Nat /\ Len(ss) \in Nat /\ Len(ss) <= Len(ps) /\ Shown(text, ps)
      /\ text \in Seq(Int)
      /\ c \in 0..Len(text) /\ Len(text) \in Nat
      /\ \A m \in 1..Len(ps) : ps[m] \in Nat
  BY LenProperties, ElementOfSeq DEF Told, Shown, At
<1>2. PICK k \in 1..Len(ss) + 1 : k = r + 2
  BY <1>1
<1>3. k \in 1..Len(ps) + 1 /\ r \in Nat /\ r + 1 \in 1..Len(ps)
  BY <1>1
<1>4. PICK b \in Nat : b = ps[r + 1] /\ b > c
  <2>1. ps[r + 1] > c <=> r + 1 > r
    BY <1>3, Zenon DEF At
  <2>2. r + 1 > r
    BY <1>3
  <2>3. ps[r + 1] > c
    BY <2>1, <2>2, Zenon
  <2>4. ps[r + 1] \in Nat
    BY <1>1, <1>3, Zenon
  <2>5. QED BY <2>3, <2>4
<1>5. PICK i \in Nat \ {0} : i = In!First + 1 /\ c + i = b + 1
  <2>1. In!First = b - c
    BY <1>4, FirstReads
  <2>2. c \in Nat /\ b \in Nat /\ b > c
    BY <1>1, <1>4
  <2>3. (b - c) + 1 \in Nat \ {0} /\ c + ((b - c) + 1) = b + 1
    BY <2>2
  <2>4. QED BY <2>1, <2>3, Zenon
<1>6. \A m \in 1..Len(ps) : ps[m] >= c + i <=> m >= k
  <2>1. TAKE m \in 1..Len(ps)
  <2>2. CASE m < r + 1
    <3>1. ps[m] < b
      BY <1>1, <1>3, <1>4, <2>2 DEF Shown
    <3>2. QED BY <1>1, <1>2, <1>3, <1>5, <2>2, <3>1, SMTT(30)
  <2>3. CASE m = r + 1
    BY <1>1, <1>2, <1>3, <1>4, <1>5, <2>3, SMTT(30)
  <2>4. CASE m > r + 1
    <3>1. b < ps[m]
      BY <1>1, <1>3, <1>4, <2>4 DEF Shown
    <3>2. QED BY <1>1, <1>2, <1>3, <1>5, <2>4, <3>1, SMTT(30)
  <2>5. QED BY <1>3, <2>2, <2>3, <2>4
<1>7. In!Second = IF k <= Len(ps) THEN ps[k] - c ELSE Len(src) + 1
  <2>1. In!Peeked(i) = IF k <= Len(ps) THEN ps[k] - c ELSE Len(src) + 1
    BY <1>1, <1>3, <1>6, PeekedAt
  <2>2. QED BY <1>5, <2>1 DEF In!Second
<1>8. k <= Len(ps) => ps[k] > c
  <2>1. k <= Len(ps) => k \in 1..Len(ps) /\ k > r
    BY <1>1, <1>2, <1>3
  <2>2. QED BY <2>1 DEF At
<1>9. QED BY <1>2, <1>7, <1>8, ReadsSextet

(* What follows place x of a sequence.                                     *)
LEMMA SubSeqPast ==
  ASSUME NEW S, NEW s \in Seq(S), NEW x \in 1..Len(s), NEW t, t = SubSeq(s, x + 1, Len(s))
  PROVE  Len(t) = Len(s) - x /\ \A j \in 1..Len(s) - x : t[j] = s[x + j]
<1>1. PICK n \in Nat : n = Len(s)
  BY LenProperties
<1>2. PICK m \in Int : m = x + 1
  BY <1>1
<1>3. \A j \in m..n : s[j] \in S
  <2>1. TAKE j \in m..n
  <2>2. j \in 1..Len(s)
    BY <1>1, <1>2
  <2>3. QED BY <2>2, ElementOfSeq
<1>4. t = SubSeq(s, m, n)
  BY <1>1, <1>2
<1>5. /\ Len(t) = IF m <= n THEN n - m + 1 ELSE 0
      /\ \A j \in 1..n - m + 1 : t[j] = s[m + j - 1]
  <2>1. s \in Seq(S) /\ m \in Int /\ n \in Int
    OBVIOUS
  <2>2. /\ Len(SubSeq(s, m, n)) = IF m <= n THEN n - m + 1 ELSE 0
        /\ \A j \in 1..n - m + 1 : SubSeq(s, m, n)[j] = s[m + j - 1]
    BY <1>3, <2>1, SubSeqProperties
  <2>3. QED BY <1>4, <2>2, Zenon
<1>6. n - m + 1 = n - x /\ (~(m <= n) => n - x = 0)
  BY <1>1, <1>2
<1>7. ASSUME NEW j \in 1..n - x PROVE t[j] = s[x + j]
  <2>1. m + j - 1 = x + j /\ j \in 1..n - m + 1
    BY <1>1, <1>2, <1>6
  <2>2. QED BY <1>5, <2>1
<1>8. QED BY <1>1, <1>5, <1>6, <1>7

(* Past the kth character.                                                 *)
LEMMA LeavesPast ==
  ASSUME In!TypeOK, text \in Seq(Int), NEW ps, Shown(text, ps), NEW c, NEW r, At(c, r, ps),
         NEW k \in 1..Len(ps), ps[k] > c, In!LeavesFrom((ps[k] - c) + 1), text' = text
  PROVE  At(ps[k], k, ps)'
<1>1. /\ src \in Seq(Int) /\ Len(src) \in Nat /\ Len(text) \in Nat /\ Len(ps) \in Nat
      /\ c \in 0..Len(text) /\ Len(src) = Len(text) - c
      /\ \A m \in 1..Len(ps) : ps[m] \in 1..Len(text)
  <2>1. /\ src \in Seq(Int) /\ text \in Seq(Int) /\ ps \in Seq(Nat)
        /\ \A m \in 1..Len(ps) : ps[m] \in 1..Len(text)
    BY Zenon DEF In!TypeOK, Shown
  <2>2. Len(src) \in Nat /\ Len(text) \in Nat /\ Len(ps) \in Nat
    BY <2>1, LenProperties
  <2>3. c \in 0..Len(text) /\ Len(src) = Len(text) - c
    BY Zenon DEF At
  <2>4. QED BY <2>1, <2>2, <2>3
<1>2. PICK x \in 1..Len(src) : x = ps[k] - c /\ ps[k] = c + x
  BY <1>1
<1>3. src' = SubSeq(src, x + 1, Len(src))
  BY <1>2 DEF In!LeavesFrom
<1>4. Len(src') = Len(src) - x /\ \A j \in 1..Len(src) - x : src'[j] = src[x + j]
  BY <1>1, <1>3, SubSeqPast, ZenonT(40)
<1>5. Len(src') = Len(text) - ps[k]
  BY <1>1, <1>2, <1>4, SMTT(30)
<1>6. \A j \in 1..Len(src') : src'[j] = text[ps[k] + j]
  <2>1. TAKE j \in 1..Len(src')
  <2>2. x + j \in 1..Len(src) /\ ps[k] + j = c + (x + j) /\ src'[j] = src[x + j]
    <3>1. PICK n \in Nat : n = Len(src)
      BY <1>1
    <3>2. j \in 1..n - x
      BY <1>4, <3>1
    <3>3. x + j \in 1..n
      BY <3>1, <3>2
    <3>4. (c + x) + j = c + (x + j)
      BY <1>1, <3>2
    <3>5. QED BY <1>2, <1>4, <3>1, <3>2, <3>3, <3>4
  <2>3. QED BY <2>2 DEF At
<1>7. \A m \in 1..Len(ps) : ps[m] > ps[k] <=> m > k
  <2>0. \A m \in 1..Len(ps) : ps[m] \in Nat
    BY ElementOfSeq DEF Shown
  <2>1. TAKE m \in 1..Len(ps)
  <2>2. CASE m < k
    <3>1. ps[m] < ps[k]
      BY <2>2, Zenon DEF Shown
    <3>2. QED BY <2>0, <2>2, <3>1
  <2>3. CASE m = k
    BY <2>0, <2>3
  <2>4. CASE m > k
    <3>1. ps[k] < ps[m]
      BY <2>4, Zenon DEF Shown
    <3>2. QED BY <2>0, <2>4, <3>1
  <2>5. QED BY <2>0, <2>2, <2>3, <2>4
<1>8. PICK b \in 0..Len(text) : b = ps[k]
  <2>1. ps[k] \in 1..Len(text)
    BY Zenon DEF Shown
  <2>2. QED BY <2>1
<1>9. QED BY <1>5, <1>6, <1>7, <1>8 DEF At

(* What was got is the beginning of the octets os.                         *)
Ahead(os) == Len(got) <= Len(os) /\ \A k \in 1..Len(got) : got[k] = os[k]

LEMMA GetsAhead ==
  ASSUME PipeTypeOK, NEW os \in Seq(Octet), Ahead(os), Len(got) < Len(os), NEW o, In!Gets(o),
         o % 256 = os[Len(got) + 1]
  PROVE  Ahead(os)' /\ Len(got') = Len(got) + 1
<1>1. PICK e \in Octet : e = o % 256
  <2>1. Len(got) + 1 \in 1..Len(os)
    BY LenProperties, SameTables DEF PipeTypeOK, In!TypeOK
  <2>2. QED BY <2>1, ElementOfSeq
<1>2. /\ got \in Seq(Octet) /\ got' = Append(got, e)
      /\ Len(got) \in Nat /\ Len(os) \in Nat
  <2>1. got \in Seq(Octet)
    BY SameTables DEF PipeTypeOK, In!TypeOK
  <2>2. got' = Append(got, e)
    BY <1>1, Zenon DEF In!Gets
  <2>3. QED BY <2>1, <2>2, LenProperties
<1>3. /\ Len(got') = Len(got) + 1 /\ got'[Len(got) + 1] = e
      /\ \A k \in 1..Len(got) : got'[k] = got[k]
  BY <1>2, AppendFacts
<1>4. \A k \in 1..Len(got') : got'[k] = os[k]
  <2>1. TAKE k \in 1..Len(got')
  <2>2. CASE k = Len(got) + 1
    BY <1>1, <1>3, <2>2
  <2>3. CASE k # Len(got) + 1
    <3>1. k \in 1..Len(got)
      BY <1>2, <1>3, <2>3
    <3>2. QED BY <1>3, <3>1 DEF Ahead
  <2>4. QED BY <2>2, <2>3
<1>5. Len(got') <= Len(os)
  BY <1>2, <1>3
<1>6. QED BY <1>2, <1>3, <1>4, <1>5 DEF Ahead

LEMMA FailsAhead ==
  ASSUME PipeTypeOK, NEW os, Ahead(os), ended = -1, In!Fails
  PROVE  Ahead(os)' /\ ended' # -1 /\ ended' = Len(got')
<1>1. ended' = Len(got) /\ Len(got) \in Nat
  BY SameTables DEF PipeTypeOK, In!TypeOK, In!Fails
<1>2. got' = got
  BY DEF In!Fails
<1>3. QED BY <1>1, <1>2 DEF Ahead

Reading(ps, ss) ==
  \E c, q \in Nat : \E r \in 0..Len(ss) : At(c, r, ps) /\ Met(q, r, ss)

(* What it got when it came to the end: every octet that the n sextets of  *)
(* the text have all the bits of.                                          *)
AllRead(n) ==
  \E q \in Nat :
    \/ n \in {4 * q, 4 * q + 1} /\ Len(got) = 3 * q
    \/ n = 4 * q + 2 /\ Len(got) = 3 * q + 1
    \/ n = 4 * q + 3 /\ Len(got) = 3 * q + 2

(* How far the reader has come.                                            *)
Follows(ps, ss, os) ==
  /\ Ahead(os)
  /\ ended = -1 => Reading(ps, ss)
  /\ ended # -1 => ended = Len(got) /\ AllRead(Len(ss))

LEMMA FailsRead ==
  ASSUME PipeTypeOK, ended = -1, In!Get, In!Fails,
         NEW ps, NEW ss, Told(text, ps, ss), Reading(ps, ss)
  PROVE  AllRead(Len(ss))'
<1>1. In!TypeOK /\ Len(ss) \in Nat /\ Len(got) \in Nat
  BY LenProperties, SameTables DEF PipeTypeOK, In!TypeOK, Told
<1>2. PICK c, q \in Nat : \E r \in 0..Len(ss) : At(c, r, ps) /\ Met(q, r, ss)
  BY DEF Reading
<1>3. PICK r \in 0..Len(ss) : At(c, r, ps) /\ Met(q, r, ss)
  BY <1>2
<1>4. got' = got /\ \A o : ~In!Gets(o)
  <2>1. ended' # ended
    BY <1>1 DEF In!Fails
  <2>2. QED BY <2>1 DEF In!Fails, In!Gets
<1>5. In!IsSextet(In!First) <=> r + 1 <= Len(ss)
  BY <1>1, <1>3, FirstReads
<1>6. CASE In!GetFirst
  <2>1. Len(got) = 3 * q /\ r = 4 * q
    BY <1>3, <1>6 DEF In!GetFirst, Met
  <2>2. CASE ~In!IsSextet(In!First)
    <3>1. Len(ss) = 4 * q
      BY <1>1, <1>5, <2>1, <2>2
    <3>2. QED BY <1>4, <2>1, <3>1 DEF AllRead
  <2>3. CASE In!IsSextet(In!First)
    <3>1. ~In!IsSextet(In!Second)
      BY <1>4, <1>6, <2>3 DEF In!GetFirst
    <3>2. r + 1 <= Len(ss) /\ ~(r + 2 <= Len(ss))
      BY <1>1, <1>3, <1>5, <2>3, <3>1, SecondReads
    <3>3. Len(ss) = 4 * q + 1
      BY <1>1, <2>1, <3>2
    <3>4. QED BY <1>4, <2>1, <3>3 DEF AllRead
  <2>4. QED BY <2>2, <2>3
<1>7. ASSUME In!GetSecond \/ In!GetThird PROVE ~In!IsSextet(In!First) /\ Len(ss) = r
  <2>1. In!Padded => ~In!IsSextet(In!First)
    BY SameTables, PadVisible DEF In!Padded, In!IsSextet
  <2>2. ~In!IsSextet(In!First)
    BY <1>4, <1>7, <2>1 DEF In!GetSecond, In!GetThird, In!GetNext
  <2>3. QED BY <1>1, <1>5, <2>2
<1>8. CASE In!GetSecond
  <2>1. Len(got) = 3 * q + 1 /\ r = 4 * q + 2
    BY <1>3, <1>8 DEF In!GetSecond, In!GetNext, Met
  <2>2. QED BY <1>4, <1>7, <1>8, <2>1 DEF AllRead
<1>9. CASE In!GetThird
  <2>1. Len(got) = 3 * q + 2 /\ r = 4 * q + 3
    BY <1>3, <1>9 DEF In!GetThird, In!GetNext, Met
  <2>2. QED BY <1>4, <1>7, <1>9, <2>1 DEF AllRead
<1>10. QED BY <1>6, <1>8, <1>9 DEF In!Get

LEMMA GetReading ==
  ASSUME PipeTypeOK, ended = -1, In!Get, NEW ps, NEW ss, Told(text, ps, ss), Reading(ps, ss),
         NEW os \in Seq(Octet), Encodes(ss, os), Ahead(os)
  PROVE  Follows(ps, ss, os)'
<1>1. /\ In!TypeOK /\ ss \in Seq(Sextet) /\ Len(ss) \in Nat /\ Shown(text, ps)
      /\ text \in Seq(Int) /\ text' = text /\ Len(got) \in Nat /\ Len(os) \in Nat
  BY LenProperties, SameTables DEF PipeTypeOK, In!TypeOK, Told, In!Get, In!GetFirst,
     In!GetSecond, In!GetThird, In!GetNext, In!Gets, In!Fails
<1>2. PICK c, q \in Nat : \E r \in 0..Len(ss) : At(c, r, ps) /\ Met(q, r, ss)
  BY DEF Reading
<1>3. PICK r \in 0..Len(ss) : At(c, r, ps) /\ Met(q, r, ss)
  BY <1>2
<1>4. ASSUME In!Fails PROVE Follows(ps, ss, os)'
  BY <1>4, FailsAhead, FailsRead DEF Follows
<1>5. ASSUME NEW k \in 1..Len(ss), NEW o, In!Gets(o), Ahead(os)', NEW e \in Nat,
             k \in 1..Len(ps), k > r, In!LeavesFrom((ps[k] - c) + 1), Met(e, k, ss)'
      PROVE  Follows(ps, ss, os)'
  <2>1. ps[k] > c /\ ps[k] \in Nat
    BY <1>1, <1>3, <1>5, ElementOfSeq DEF At, Shown
  <2>2. At(ps[k], k, ps)'
    BY <1>1, <1>3, <1>5, <2>1, LeavesPast
  <2>3. PICK d \in Nat : d = ps[k]
    BY <2>1
  <2>4. At(d, k, ps)'
    BY <2>2, <2>3, Zenon
  <2>5. k \in 0..Len(ss)
    BY <1>1, <1>5
  <2>6. Reading(ps, ss)'
    BY <1>5, <2>3, <2>4, <2>5, Zenon DEF Reading
  <2>7. ended' = -1
    BY <1>5 DEF In!Gets
  <2>8. QED BY <1>5, <2>6, <2>7 DEF Follows
<1>6. CASE In!GetFirst
  <2>1. CASE In!Fails
    BY <1>4, <2>1
  <2>2. CASE ~In!Fails
    <3>1. /\ In!IsSextet(In!First) /\ In!IsSextet(In!Second)
          /\ In!LeavesFrom(In!Second + 1) /\ In!Gets(In!FirstOctet)
          /\ In!To("second", In!SextetOf(src[In!Second])) /\ get_fn = "first"
      BY <1>6, <2>2 DEF In!GetFirst
    <3>2. Len(got) = 3 * q /\ r = 4 * q
      BY <1>3, <3>1 DEF Met
    <3>3. /\ r + 1 <= Len(ss) /\ In!SextetOf(src[In!First]) = ss[r + 1]
      BY <1>1, <1>3, <3>1, FirstReads
    <3>4. /\ r + 2 <= Len(ss) /\ In!SextetOf(src[In!Second]) = ss[r + 2]
          /\ r + 2 \in 1..Len(ps) /\ In!Second = ps[r + 2] - c
      BY <1>1, <1>3, <3>1, <3>3, SecondReads
    <3>5. PICK k \in 1..Len(ss) : k = r + 2 /\ k = 4 * q + 2 /\ k > r /\ k \in 1..Len(ps)
      BY <1>1, <3>2, <3>4
    <3>6. /\ 3 * q + 1 <= Len(os)
          /\ FirstOf(ss[4 * q + 1], ss[4 * q + 2]) = os[3 * q + 1]
      BY <1>1, <3>2, <3>4 DEF Encodes
    <3>7. In!FirstOctet = os[3 * q + 1]
      BY <3>2, <3>3, <3>4, <3>6, Zenon DEF In!FirstOctet, FirstOf
    <3>8. Ahead(os)' /\ Len(got') = Len(got) + 1
      <4>1. Len(got) < Len(os) /\ 3 * q + 1 \in 1..Len(os) /\ Len(got) + 1 = 3 * q + 1
        BY <1>1, <3>2, <3>6
      <4>2. PICK e \in Octet : e = os[3 * q + 1]
        BY <1>1, <4>1, ElementOfSeq
      <4>3. e % 256 = e
        <5>1. e \in 0..255
          BY DEF Octet
        <5>2. QED BY <5>1
      <4>4. In!FirstOctet % 256 = os[Len(got) + 1]
        BY <3>7, <4>1, <4>2, <4>3, Zenon
      <4>5. QED BY <3>1, <4>1, <4>4, GetsAhead
    <3>9. Met(q, k, ss)'
      <4>1. get_fn' = "second" /\ last_s' = ss[4 * q + 2] /\ Len(got') = 3 * q + 1
        BY <3>1, <3>2, <3>4, <3>5, <3>8 DEF In!To
      <4>2. QED BY <3>5, <4>1 DEF Met
    <3>10. In!LeavesFrom((ps[k] - c) + 1)
      BY <3>1, <3>4, <3>5
    <3>11. QED BY <1>5, <3>1, <3>5, <3>8, <3>9, <3>10
  <2>3. QED BY <2>1, <2>2
<1>7. CASE In!GetSecond
  <2>1. CASE In!Fails
    BY <1>4, <2>1
  <2>2. CASE ~In!Fails
    <3>1. /\ In!IsSextet(In!First) /\ In!LeavesFrom(In!First + 1) /\ In!Gets(In!SecondOctet)
          /\ In!To("third", In!SextetOf(src[In!First])) /\ get_fn = "second"
      BY <1>7, <2>2 DEF In!GetSecond, In!GetNext
    <3>2. Len(got) = 3 * q + 1 /\ r = 4 * q + 2 /\ last_s = ss[4 * q + 2]
      BY <1>3, <3>1 DEF Met
    <3>3. /\ r + 1 <= Len(ss) /\ In!SextetOf(src[In!First]) = ss[r + 1]
          /\ r + 1 \in 1..Len(ps) /\ In!First = ps[r + 1] - c
      BY <1>1, <1>3, <3>1, FirstReads
    <3>4. PICK k \in 1..Len(ss) : k = r + 1 /\ k = 4 * q + 3 /\ k > r /\ k \in 1..Len(ps)
      BY <1>1, <3>2, <3>3
    <3>5. /\ 3 * q + 2 <= Len(os)
          /\ SecondOf(ss[4 * q + 2], ss[4 * q + 3]) = os[3 * q + 2]
      BY <1>1, <3>4 DEF Encodes
    <3>6. In!SecondOctet % 256 = os[3 * q + 2]
      BY <3>2, <3>3, <3>4, <3>5, Zenon DEF In!SecondOctet, SecondOf
    <3>7. Ahead(os)' /\ Len(got') = Len(got) + 1
      <4>1. Len(got) < Len(os) /\ Len(got) + 1 = 3 * q + 2
        BY <1>1, <3>2, <3>5
      <4>2. QED BY <3>1, <3>6, <4>1, GetsAhead
    <3>8. Met(q, k, ss)'
      <4>1. get_fn' = "third" /\ last_s' = ss[4 * q + 3] /\ Len(got') = 3 * q + 2
        BY <3>1, <3>2, <3>3, <3>4, <3>7 DEF In!To
      <4>2. QED BY <3>4, <4>1 DEF Met
    <3>9. In!LeavesFrom((ps[k] - c) + 1)
      BY <3>1, <3>3, <3>4
    <3>10. QED BY <1>5, <3>1, <3>4, <3>7, <3>8, <3>9
  <2>3. QED BY <2>1, <2>2
<1>8. CASE In!GetThird
  <2>1. CASE In!Fails
    BY <1>4, <2>1
  <2>2. CASE ~In!Fails
    <3>1. /\ In!IsSextet(In!First) /\ In!LeavesFrom(In!First + 1) /\ In!Gets(In!ThirdOctet)
          /\ get_fn' = "first" /\ get_fn = "third"
      BY <1>8, <2>2 DEF In!GetThird, In!GetNext, In!To
    <3>2. Len(got) = 3 * q + 2 /\ r = 4 * q + 3 /\ last_s = ss[4 * q + 3]
      BY <1>3, <3>1 DEF Met
    <3>3. /\ r + 1 <= Len(ss) /\ In!SextetOf(src[In!First]) = ss[r + 1]
          /\ r + 1 \in 1..Len(ps) /\ In!First = ps[r + 1] - c
      BY <1>1, <1>3, <3>1, FirstReads
    <3>4. PICK k \in 1..Len(ss) : k = r + 1 /\ k = 4 * q + 4 /\ k > r /\ k \in 1..Len(ps)
      BY <1>1, <3>2, <3>3
    <3>5. /\ 3 * q + 3 <= Len(os)
          /\ ThirdOf(ss[4 * q + 3], ss[4 * q + 4]) = os[3 * q + 3]
      BY <1>1, <3>4 DEF Encodes
    <3>6. In!ThirdOctet % 256 = os[3 * q + 3]
      BY <3>2, <3>3, <3>4, <3>5, Zenon DEF In!ThirdOctet, ThirdOf
    <3>7. Ahead(os)' /\ Len(got') = Len(got) + 1
      <4>1. Len(got) < Len(os) /\ Len(got) + 1 = 3 * q + 3
        BY <1>1, <3>2, <3>5
      <4>2. QED BY <3>1, <3>6, <4>1, GetsAhead
    <3>8. q + 1 \in Nat /\ Met(q + 1, k, ss)'
      <4>1. Len(got') = 3 * (q + 1) /\ k = 4 * (q + 1)
        BY <3>2, <3>4, <3>7
      <4>2. QED BY <3>1, <4>1 DEF Met
    <3>9. In!LeavesFrom((ps[k] - c) + 1)
      BY <3>1, <3>3, <3>4
    <3>10. QED BY <1>5, <3>1, <3>4, <3>7, <3>8, <3>9
  <2>3. QED BY <2>1, <2>2
<1>9. QED BY <1>6, <1>7, <1>8 DEF In!Get

-----------------------------------------------------------------------------
(* The round trip.                                                         *)

(* A line separator is made of spaces, which the reader ignores; any other *)
(* character would end the text for it, or be taken for a sextet.          *)
SeparatorsAreSpaces == \A l \in Formats : Spaces(l.sep)

(* Once the writer is done, the text between calls carries what was put.   *)
TripInv ==
  /\ PipeTypeOK /\ CallInv
  /\ closed => call = "none" /\ (broken \/ put_fn = "first")
  /\ \E ps, ss : Written(ps, ss)

LEMMA TripStart ==
  ASSUME PipeInit
  PROVE  TripInv
<1>1. PipeTypeOK /\ CallInv
  BY PipeStart DEF PipeInit, Ready, CallInv, Idle
<1>2. sink = << >> /\ accepted = << >> /\ put_fn = "first" /\ call = "none" /\ todo = << >>
  BY DEF PipeInit, Ready
<1>3. Holds(<< >>, << >>, << >>, << >>)
  <2>1. Placed(<< >>, << >>) /\ Carries(<< >>, << >>, << >>)
    BY DEF Placed, Shown, Carries
  <2>2. Encodes(<< >>, << >>)
    <3>1. \A q \in Nat : ~(4 * q + 2 <= 0) /\ ~(4 * q + 3 <= 0) /\ ~(4 * q + 4 <= 0)
      OBVIOUS
    <3>2. Len(<< >>) = 0
      OBVIOUS
    <3>3. QED BY <3>1, <3>2 DEF Encodes
  <2>3. QED BY <2>1, <2>2 DEF Holds
<1>4. Linked(<< >>)
  <2>1. Begun(0, << >>)
    BY <1>2 DEF Begun
  <2>2. QED BY <1>2, <2>1 DEF Linked, Idle
<1>5. Written(<< >>, << >>)
  <2>1. Len(<< >>) = 0 /\ 0 \in Nat /\ 0 = 4 * 0 /\ 0 = 3 * 0
    OBVIOUS
  <2>2. Between(0, 0, 0) /\ (Idle \/ Starting) /\ ~broken
    BY <1>2, <2>1 DEF Between, Idle, PipeInit, Ready
  <2>3. Kept(0, 0)
    BY <2>1, <2>2 DEF Kept
  <2>4. QED BY <1>2, <1>3, <1>4, <2>1, <2>3 DEF Written
<1>6. QED BY <1>1, <1>2, <1>5 DEF TripInv

LEMMA TripStep ==
  ASSUME SeparatorsAreSpaces, TripInv, [PipeNext]_pipe
  PROVE  TripInv'
<1>1. PipeTypeOK'
  BY PipeStep DEF TripInv
<1>2. PICK ps, ss : Written(ps, ss)
  BY DEF TripInv
<1>3. CASE Next
  <2>1. Spaces(line.sep) /\ TypeOK /\ CallInv
    BY DEF SeparatorsAreSpaces, TripInv, PipeTypeOK, TypeOK
  <2>2. CallInv' /\ \E qs, xs : Written(qs, xs)'
    BY <1>2, <1>3, <2>1, WriterKeeps
  <2>3. closed' => call' = "none" /\ (broken' \/ put_fn' = "first")
    <3>1. CASE Close
      BY <3>1 DEF Close
    <3>2. CASE ~Close
      <4>1. \A o : Put(o) => ~closed'
        BY <1>1 DEF Put, PipeTypeOK, TypeOK
      <4>2. Conclude => ~closed'
        BY DEF Conclude
      <4>3. SinkPut => (closed' => closed) /\ call # "none"
        BY DEF SinkPut, TripInv, CallInv, Idle, Starting, Halfway, Padding
      <4>4. SinkRefuses => (closed' => closed) /\ call # "none"
        BY DEF SinkRefuses, TripInv, CallInv, Idle, Starting, Halfway, Padding
      <4>5. QED BY <1>3, <3>2, <4>1, <4>2, <4>3, <4>4 DEF Next, TripInv
    <3>3. QED BY <3>1, <3>2
  <2>4. QED BY <1>1, <2>2, <2>3 DEF TripInv
<1>4. CASE UNCHANGED vars
  <2>1. CallInv' /\ Written(ps, ss)'
    BY <1>2, <1>4, WriterRests DEF TripInv
  <2>2. QED BY <1>1, <1>4, <2>1 DEF TripInv, vars
<1>5. QED BY <1>3, <1>4 DEF PipeNext, Write, Read, pipe

(* Until the writer is done the reader has not begun.  Whatever the        *)
(* sextets of the text encode is what the reader gets from it.             *)
ReadInv ==
  /\ PipeTypeOK /\ text \in Seq(Int)
  /\ ~closed => text = << >> /\ src = << >> /\ got = << >> /\ get_fn = "first" /\ ended = -1
  /\ \A ps, ss : \A os \in Seq(Octet) :
       Told(text, ps, ss) /\ Encodes(ss, os) => Follows(ps, ss, os)

LEMMA ToldFromStart ==
  ASSUME NEW s, NEW ps, NEW ss, Told(s, ps, ss)
  PROVE  /\ 0 \in 0..Len(s) /\ Len(s) = Len(s) - 0 /\ 0 \in 0..Len(ss)
         /\ \A j \in 1..Len(s) : 0 + j = j
         /\ \A i \in 1..Len(ps) : ps[i] > 0 <=> i > 0
<1>1. Len(s) \in Nat /\ Len(ps) \in Nat /\ Len(ss) \in Nat
  BY LenProperties DEF Told, Shown
<1>2. QED BY <1>1 DEF Told, Shown

LEMMA ReadStart ==
  ASSUME PipeInit
  PROVE  ReadInv
<1>1. /\ PipeTypeOK /\ src = text /\ got = << >> /\ get_fn = "first" /\ ended = -1
      /\ ~closed => text = << >>
  BY PipeStart DEF PipeInit, In!Init
<1>2. ASSUME NEW ps, NEW ss, NEW os \in Seq(Octet), Told(text, ps, ss)
      PROVE  Follows(ps, ss, os)
  <2>1. At(0, 0, ps)
    BY <1>1, <1>2, ToldFromStart DEF At
  <2>2. Met(0, 0, ss) /\ Ahead(os)
    BY <1>1, LenProperties DEF Met, Ahead
  <2>3. Reading(ps, ss)
    BY <1>2, <2>1, <2>2, ToldFromStart DEF Reading
  <2>4. QED BY <1>1, <2>2, <2>3 DEF Follows
<1>3. text \in Seq(Int)
  BY EmptySeq, B64PipeAssumption DEF PipeInit, In!Init
<1>4. QED BY <1>1, <1>2, <1>3 DEF ReadInv

LEMMA ReadStep ==
  ASSUME ReadInv, [PipeNext]_pipe
  PROVE  ReadInv'
<1>1. PipeTypeOK'
  BY PipeStep DEF ReadInv
<1>2. ASSUME UNCHANGED reader, closed' = closed
      PROVE  ReadInv'
  <2>1. ASSUME NEW ps, NEW ss, NEW os, Follows(ps, ss, os) PROVE Follows(ps, ss, os)'
    <3>1. Ahead(os)' /\ (AllRead(Len(ss)) => AllRead(Len(ss))')
      BY <1>2, <2>1 DEF reader, Follows, Ahead, AllRead
    <3>2. Reading(ps, ss) => Reading(ps, ss)'
      BY <1>2, ZenonT(40) DEF reader, Reading, At, Met
    <3>3. QED BY <1>2, <2>1, <3>1, <3>2 DEF Follows, reader
  <2>2. QED BY <1>1, <1>2, <2>1 DEF ReadInv, reader
<1>3. CASE Write
  <2>1. /\ text = << >> /\ src = << >> /\ got = << >> /\ get_fn = "first" /\ ended = -1 /\ ~closed
        /\ text' = (IF closed' THEN sink ELSE text) /\ src' = (IF closed' THEN sink ELSE src)
        /\ UNCHANGED <<get_fn, last_s, want, got, ended>>
    BY <1>3 DEF Write, ReadInv
  <2>2. src' = text' /\ got' = << >> /\ get_fn' = "first" /\ ended' = -1
        /\ (~closed' => text' = << >>)
    BY <2>1
  <2>3. ASSUME NEW ps, NEW ss, NEW os \in Seq(Octet), Told(text', ps, ss)
        PROVE  Follows(ps, ss, os)'
    <3>1. At(0, 0, ps)'
      BY <2>2, <2>3, ToldFromStart DEF At
    <3>2. Met(0, 0, ss)' /\ Ahead(os)'
      BY <2>2, LenProperties DEF Met, Ahead
    <3>3. Reading(ps, ss)'
      BY <2>3, <3>1, <3>2, ToldFromStart DEF Reading
    <3>4. QED BY <2>2, <3>2, <3>3 DEF Follows
  <2>4. text' \in Seq(Int)
    BY <2>1, CharsAreInts DEF ReadInv, PipeTypeOK, TypeOK
  <2>5. QED BY <1>1, <2>2, <2>3, <2>4 DEF ReadInv
<1>4. CASE Read
  <2>1. closed /\ closed' /\ ended = -1 /\ text' = text
    BY <1>4 DEF Read, vars, In!Get, In!GetFirst, In!GetSecond, In!GetThird, In!GetNext, In!Gets,
       In!Fails
  <2>2. ASSUME NEW ps, NEW ss, NEW os \in Seq(Octet), Told(text, ps, ss), Encodes(ss, os)
        PROVE  Follows(ps, ss, os)'
    <3>1. PipeTypeOK /\ Ahead(os) /\ Reading(ps, ss)
      BY <2>1, <2>2 DEF ReadInv, Follows
    <3>2. CASE In!Get
      BY <2>1, <2>2, <3>1, <3>2, GetReading
    <3>3. CASE UNCHANGED <<src, get_fn, last_s, got, ended, text>>
      <4>1. Ahead(os)' /\ Reading(ps, ss)' /\ ended' = -1
        <5>1. UNCHANGED <<src, get_fn, last_s, got, text>> /\ ended' = -1
          BY <2>1, <3>3
        <5>2. Ahead(os)'
          BY <3>1, <5>1 DEF Ahead
        <5>3. Reading(ps, ss)'
          BY <3>1, <5>1, ZenonT(40) DEF Reading, At, Met
        <5>4. QED BY <5>1, <5>2, <5>3
      <4>2. QED BY <4>1 DEF Follows
    <3>4. QED BY <1>4, <3>2, <3>3 DEF Read
  <2>3. QED BY <1>1, <2>1, <2>2 DEF ReadInv
<1>5. CASE UNCHANGED pipe
  BY <1>2, <1>5 DEF pipe, vars
<1>6. QED BY <1>3, <1>4, <1>5 DEF PipeNext

(* What is in the sink is read as what was put.                            *)
LEMMA SinkFollowed ==
  ASSUME TripInv, ReadInv, text = sink
  PROVE  \E ps, ss : Written(ps, ss) /\ Follows(ps, ss, accepted)
<1>1. PICK ps, ss : Written(ps, ss)
  BY DEF TripInv
<1>2. PICK os \in Seq(Octet) : os = accepted
  BY DEF TripInv, PipeTypeOK, TypeOK
<1>3. Told(text, ps, ss) /\ Encodes(ss, os)
  BY <1>1, <1>2, HoldsTold DEF Written
<1>4. Follows(ps, ss, accepted)
  BY <1>2, <1>3 DEF ReadInv
<1>5. QED BY <1>1, <1>4

(* What is read is what was put, in order, and nothing else, wherever the  *)
(* sink broke and whatever the length of the lines, when these are         *)
(* separated by spaces.                                                    *)
THEOREM RoundTrip ==
  ASSUME SeparatorsAreSpaces
  PROVE  PipeSpec => []ReadIsPrefixOfPut
<1>1. PipeInit => TripInv /\ ReadInv
  BY TripStart, ReadStart
<1>2. TripInv /\ ReadInv /\ [PipeNext]_pipe => TripInv' /\ ReadInv'
  BY TripStep, ReadStep
<1>3. TripInv /\ ReadInv => ReadIsPrefixOfPut
  <2>1. SUFFICES ASSUME TripInv, ReadInv, text = sink PROVE IsPrefix(got, accepted)
    BY DEF ReadIsPrefixOfPut
  <2>2. got \in Seq(Octet) /\ accepted \in Seq(Octet)
    BY <2>1, SameTables DEF TripInv, PipeTypeOK, TypeOK, In!TypeOK
  <2>3. Ahead(accepted)
    BY <2>1, SinkFollowed DEF Follows
  <2>4. QED BY <2>2, <2>3, PrefixByElements DEF Ahead, IsPrefix
<1>4. QED BY <1>1, <1>2, <1>3, PTL DEF PipeSpec

(* What is lost of the octets that were put: the last one, when the sink   *)
(* broke, and none otherwise (b64.h:375-424).                              *)
THEOREM AlwaysAtMostLastLost ==
  ASSUME SeparatorsAreSpaces
  PROVE  PipeSpec => []AtMostLastLost
<1>1. PipeInit => TripInv /\ ReadInv
  BY TripStart, ReadStart
<1>2. TripInv /\ ReadInv /\ [PipeNext]_pipe => TripInv' /\ ReadInv'
  BY TripStep, ReadStep
<1>3. TripInv /\ ReadInv => AtMostLastLost
  <2>1. SUFFICES ASSUME TripInv, ReadInv, ended # -1, text = sink, ConcludedOnce
                 PROVE  Len(got) >= IF broken THEN Len(accepted) - 1 ELSE Len(accepted)
    BY DEF AtMostLastLost
  <2>2. closed /\ call = "none" /\ (broken \/ put_fn = "first")
    BY <2>1 DEF TripInv, ReadInv
  <2>3. PICK ps, ss : Written(ps, ss) /\ Follows(ps, ss, accepted)
    BY <2>1, SinkFollowed
  <2>4. PICK n, m \in Nat : n = Len(ss) /\ m = Len(ps)
    BY <2>3, LenProperties DEF Written, Holds, Placed, Shown, Carries
  <2>5. Kept(n, m) /\ AllRead(n)
    BY <2>1, <2>3, <2>4 DEF Written, Follows
  <2>6. PICK a, g \in Nat : a = Len(accepted) /\ g = Len(got)
    BY <2>1, SameTables, LenProperties DEF TripInv, PipeTypeOK, TypeOK, In!TypeOK
  <2>7. ~(m >= n + 3)
    <3>1. SUFFICES ASSUME m >= n + 3 PROVE FALSE
      OBVIOUS
    <3>2. n + 1 \in 1..Len(ps) /\ n + 2 \in 1..Len(ps) /\ n + 3 \in 1..Len(ps) /\ n < m
      BY <2>4, <3>1
    <3>3. ps[n + 1] \in VisiblePlaces /\ ps[n + 2] \in VisiblePlaces /\ ps[n + 3] \in VisiblePlaces
      <4>1. \A i \in 1..Len(ps) : ps[i] \in 1..Len(sink) /\ ~IsSpace(sink[ps[i]])
        BY <2>3, Zenon DEF Written, Holds, Placed, Shown
      <4>2. DOMAIN sink = 1..Len(sink)
        BY <2>3, LenProperties DEF Written, Holds, Placed, Shown
      <4>3. QED BY <3>2, <4>1, <4>2, Zenon DEF VisiblePlaces
    <3>4. ps[n + 1] < ps[n + 2] /\ ps[n + 2] < ps[n + 3]
      <4>1. n + 1 < n + 2 /\ n + 2 < n + 3
        OBVIOUS
      <4>2. QED BY <2>3, <3>2, <4>1 DEF Written, Holds, Placed, Shown
    <3>5. sink[ps[n + 1]] = Pad
      BY <2>3, <2>4, <3>2 DEF Written, Holds, Carries
    <3>6. QED BY <2>1, <3>3, <3>4, <3>5 DEF ConcludedOnce
  <2>8. PICK d \in Nat : \/ n \in {4 * d, 4 * d + 1} /\ g = 3 * d
                         \/ n = 4 * d + 2 /\ g = 3 * d + 1
                         \/ n = 4 * d + 3 /\ g = 3 * d + 2
    BY <2>5, <2>6 DEF AllRead
  <2>9. CASE broken
    <3>1. PICK q \in Nat : Spared(q, n)
      BY <2>5, <2>7, <2>9 DEF Kept
    <3>2. \/ n \in {4 * q, 4 * q + 1} /\ a <= 3 * q + 1
          \/ n = 4 * q + 2 /\ a <= 3 * q + 2
          \/ n = 4 * q + 3 /\ a <= 3 * q + 3
      BY <2>6, <3>1 DEF Spared
    <3>3. q = d
      BY <2>8, <3>2
    <3>4. g >= a - 1
      BY <2>8, <3>2, <3>3
    <3>5. QED BY <2>6, <2>9, <3>4
  <2>10. CASE ~broken
    <3>1. PICK q \in Nat : Between(q, n, m) \/ Within(q, n, m)
      BY <2>5, <2>7, <2>10 DEF Kept
    <3>2. Between(q, n, m)
      BY <2>2, <3>1 DEF Within, Halfway, Padding
    <3>3. \/ n = 4 * q /\ a = 3 * q
          \/ n = 4 * q + 2 /\ a = 3 * q + 1
          \/ n = 4 * q + 3 /\ a = 3 * q + 2
      BY <2>2, <2>6, <2>10, <3>2 DEF Between
    <3>4. q = d
      BY <2>8, <3>3
    <3>5. g = a
      BY <2>8, <3>3, <3>4
    <3>6. QED BY <2>6, <2>10, <3>5
  <2>11. QED BY <2>9, <2>10
<1>4. QED BY <1>1, <1>2, <1>3, PTL DEF PipeSpec

-----------------------------------------------------------------------------
(* The characters that are no spaces, counted.                             *)

VisibleIn(s) == {i \in DOMAIN s : ~IsSpace(s[i])}

LEMMA VisibleFinite ==
  ASSUME NEW s \in Seq(Char)
  PROVE  IsFiniteSet(VisibleIn(s)) /\ Cardinality(VisibleIn(s)) \in Nat
<1>1. VisibleIn(s) \subseteq 1..Len(s) /\ Len(s) \in Nat
  BY LenProperties DEF VisibleIn
<1>2. IsFiniteSet(1..Len(s))
  BY <1>1, FS_Interval, 1 \in Int
<1>3. IsFiniteSet(VisibleIn(s))
  BY <1>1, <1>2, FS_Subset
<1>4. QED BY <1>3, FS_CardinalityType

LEMMA VisibleWithSpaces ==
  ASSUME NEW s \in Seq(Char), NEW sp \in Seq(Char), Spaces(sp)
  PROVE  VisibleIn(s \o sp) = VisibleIn(s)
<1> DEFINE t == s \o sp
<1>1. /\ t \in Seq(Char) /\ Len(t) = Len(s) + Len(sp)
      /\ \A i \in 1..Len(s) + Len(sp) : t[i] = IF i <= Len(s) THEN s[i] ELSE sp[i - Len(s)]
  BY ConcatProperties
<1>2. /\ Len(s) \in Nat /\ Len(sp) \in Nat
      /\ DOMAIN s = 1..Len(s) /\ DOMAIN t = 1..Len(s) + Len(sp)
  BY <1>1, LenProperties
<1> HIDE DEF t
<1>3. ASSUME NEW i \in DOMAIN t, ~IsSpace(t[i]) PROVE i \in DOMAIN s /\ t[i] = s[i]
  <2>1. CASE i <= Len(s)
    BY <1>1, <1>2, <2>1
  <2>2. CASE ~(i <= Len(s))
    <3>1. i - Len(s) \in 1..Len(sp) /\ t[i] = sp[i - Len(s)]
      BY <1>1, <1>2, <2>2
    <3>2. QED BY <1>3, <3>1 DEF Spaces
  <2>3. QED BY <2>1, <2>2
<1>4. ASSUME NEW i \in DOMAIN s PROVE i \in DOMAIN t /\ t[i] = s[i]
  BY <1>1, <1>2
<1>5. VisibleIn(t) = VisibleIn(s)
  BY <1>3, <1>4, Zenon DEF VisibleIn
<1>6. QED BY <1>5 DEF t

LEMMA VisibleWithMore ==
  ASSUME NEW s \in Seq(Char), NEW c \in Char, ~IsSpace(c)
  PROVE  Cardinality(VisibleIn(Append(s, c))) = Cardinality(VisibleIn(s)) + 1
<1> DEFINE t == Append(s, c)
           n == Len(s) + 1
<1>1. /\ t \in Seq(Char) /\ Len(s) \in Nat /\ Len(t) = n
      /\ t[n] = c /\ \A i \in 1..Len(s) : t[i] = s[i]
  BY AppendFacts
<1>2. DOMAIN s = 1..Len(s) /\ DOMAIN t = 1..n
  BY <1>1, LenProperties
<1>3. /\ n \notin 1..Len(s) /\ n \in 1..n
      /\ \A i \in 1..n : i = n \/ i \in 1..Len(s)
      /\ \A i \in 1..Len(s) : i \in 1..n
  BY <1>1
<1> HIDE DEF t, n
<1>4. VisibleIn(t) = VisibleIn(s) \cup {n}
  <2>1. ASSUME NEW i \in VisibleIn(t) PROVE i \in VisibleIn(s) \cup {n}
    BY <1>1, <1>2, <1>3, <2>1, Zenon DEF VisibleIn
  <2>2. ASSUME NEW i \in VisibleIn(s) \cup {n} PROVE i \in VisibleIn(t)
    BY <1>1, <1>2, <1>3, <2>2, Zenon DEF VisibleIn
  <2>3. QED BY <2>1, <2>2
<1>5. n \notin VisibleIn(s)
  BY <1>2, <1>3 DEF VisibleIn
<1>6. QED BY <1>4, <1>5, VisibleFinite, FS_AddElement DEF t

(* How far a call has come: what it has still to put makes the quartet as  *)
(* long as the state that follows it says.                                 *)
Phase(fn) == CASE fn = "first" -> 0 [] fn = "second" -> 1 [] fn = "third" -> 2
Due ==
  CASE call = "none" -> Phase(put_fn)
    [] call = "put" -> Phase(Following[put_fn])
    [] call = "conclude" -> 0

CountInv ==
  /\ TypeOK /\ CallInv
  /\ ~broken => (Cardinality(VisiblePlaces) + Len(todo)) % 4 = Due

LEMMA CountStart ==
  ASSUME Ready, closed \in BOOLEAN
  PROVE  CountInv
<1>1. TypeOK /\ CallInv
  BY WriterStart DEF Ready, CallInv, Idle
<1>2. sink = << >> /\ Len(todo) = 0 /\ Due = 0
  BY DEF Ready, Due, Phase
<1>3. VisiblePlaces = {}
  BY <1>2 DEF VisiblePlaces
<1>4. Cardinality(VisiblePlaces) = 0
  BY <1>3, FS_EmptySet
<1>5. QED BY <1>1, <1>2, <1>4 DEF CountInv

(* A call puts the characters that it takes to get there.                  *)
LEMMA CountBegins ==
  ASSUME CountInv, call = "none",
         \/ call' = "put" /\ \E o : todo' = Chars(o)
         \/ call' = "conclude" /\ todo' = Rest /\ Rest # << >>,
         UNCHANGED <<sink, put_fn, broken>>, ~broken
  PROVE  (Cardinality(VisiblePlaces) + Len(todo))' % 4 = Due'
<1>1. todo = << >> /\ put_fn \in {"first", "second", "third"} /\ sink \in Seq(Char)
  BY DEF CountInv, CallInv, Idle, Starting, Halfway, Padding, TypeOK
<1>2. PICK n \in Nat : n = Cardinality(VisiblePlaces)
  BY <1>1, VisibleFinite DEF VisibleIn, VisiblePlaces
<1>3. n % 4 = Phase(put_fn) /\ Cardinality(VisiblePlaces)' = n
  <2>1. (n + 0) % 4 = Due /\ Due = Phase(put_fn)
    BY <1>1, <1>2 DEF CountInv, Due
  <2>2. QED BY <1>2, <2>1 DEF VisiblePlaces
<1>4. CASE call' = "put"
  <2>1. PICK o : todo' = Chars(o)
    BY <1>4
  <2>2. CASE put_fn = "first"
    <3>1. Len(todo') = 1 /\ Due' = 1 /\ n % 4 = 0
      BY <1>3, <1>4, <2>1, <2>2 DEF Chars, Due, Following, Phase
    <3>2. QED BY <1>3, <3>1
  <2>3. CASE put_fn = "second"
    <3>1. Len(todo') = 1 /\ Due' = 2 /\ n % 4 = 1
      BY <1>3, <1>4, <2>1, <2>3 DEF Chars, Due, Following, Phase
    <3>2. QED BY <1>3, <3>1
  <2>4. CASE put_fn = "third"
    <3>1. Len(todo') = 2 /\ Due' = 0 /\ n % 4 = 2
      BY <1>3, <1>4, <2>1, <2>4 DEF Chars, Due, Following, Phase
    <3>2. QED BY <1>3, <3>1
  <2>5. QED BY <1>1, <2>2, <2>3, <2>4
<1>5. CASE call' = "conclude"
  <2>1. todo' = Rest /\ put_fn # "first" /\ Due' = 0
    BY <1>5 DEF Rest, Due
  <2>2. CASE put_fn = "second"
    <3>1. Len(todo') = 3 /\ n % 4 = 1
      BY <1>3, <2>1, <2>2 DEF Rest, Phase
    <3>2. QED BY <1>3, <2>1, <3>1
  <2>3. CASE put_fn = "third"
    <3>1. Len(todo') = 2 /\ n % 4 = 2
      BY <1>3, <2>1, <2>3 DEF Rest, Phase
    <3>2. QED BY <1>3, <2>1, <3>1
  <2>4. QED BY <1>1, <2>1, <2>2, <2>3
<1>6. QED BY <1>4, <1>5

(* A character put is one that is no longer to be put.                     *)
LEMMA CountSinkPut ==
  ASSUME CountInv, Spaces(line.sep), SinkPut
  PROVE  (Cardinality(VisiblePlaces) + Len(todo))' % 4 = Due'
<1> DEFINE sep == IF NewLine THEN line.sep ELSE << >>
<1>1. /\ ~broken /\ todo # << >> /\ todo \in Seq(Char) /\ sink \in Seq(Char)
      /\ todo' = Tail(todo) /\ sink' = sink \o sep \o <<Head(todo)>>
  BY DEF SinkPut, CountInv, TypeOK
<1>2. PICK h \in Char : h = Head(todo) /\ ~IsSpace(h)
  BY <1>1, SinkPutCall DEF CountInv
<1>3. sep \in Seq(Char) /\ Spaces(sep)
  <2>1. line.sep \in Seq(Char)
    BY IndexType DEF CountInv
  <2>2. QED BY <2>1 DEF Spaces
<1> HIDE DEF sep
<1>4. PICK t \in Seq(Char) : t = sink \o sep /\ VisibleIn(t) = VisibleIn(sink)
  BY <1>1, <1>3, VisibleWithSpaces, ConcatProperties
<1>5. sink' = Append(t, h)
  <2>1. sink' = t \o <<h>>
    BY <1>1, <1>2, <1>4, Zenon
  <2>2. QED BY <2>1, AppendIsConcat
<1>6. PICK n \in Nat : n = Cardinality(VisiblePlaces)
  BY <1>1, VisibleFinite DEF VisibleIn, VisiblePlaces
<1>7. Cardinality(VisiblePlaces)' = n + 1
  <2>1. Cardinality(VisibleIn(t)) = n
    BY <1>4, <1>6 DEF VisibleIn, VisiblePlaces
  <2>2. Cardinality(VisibleIn(Append(t, h))) = n + 1
    BY <1>2, <2>1, VisibleWithMore
  <2>3. VisiblePlaces' = VisibleIn(Append(t, h))
    BY <1>5 DEF VisibleIn, VisiblePlaces
  <2>4. QED BY <2>2, <2>3
<1>8. PICK k \in Nat : Len(todo) = k + 1 /\ Len(todo') = k
  <2>1. Len(todo) \in Nat /\ Len(todo) # 0 /\ Len(todo') = Len(todo) - 1
    BY <1>1, EmptySeq, HeadTailProperties
  <2>2. QED BY <2>1
<1>9. Due' = Due
  <2>1. CASE todo' = << >>
    <3>1. Finished
      BY <2>1 DEF SinkPut
    <3>2. CASE call = "put"
      BY <3>1, <3>2 DEF Finished, Due
    <3>3. CASE call # "put"
      <4>1. call = "conclude"
        BY <1>1, <3>3 DEF CountInv, CallInv, Idle, Starting, Halfway, Padding
      <4>2. QED BY <3>1, <4>1 DEF Finished, Due, Phase
    <3>4. QED BY <3>2, <3>3
  <2>2. CASE todo' # << >>
    BY <2>2 DEF SinkPut, Due
  <2>3. QED BY <2>1, <2>2
<1>10. (n + (k + 1)) % 4 = Due
  BY <1>1, <1>6, <1>8 DEF CountInv
<1>11. (n + 1) + k = n + (k + 1)
  OBVIOUS
<1>12. QED BY <1>7, <1>8, <1>9, <1>10, <1>11

LEMMA CountStep ==
  ASSUME SeparatorsAreSpaces, CountInv, [Next]_vars
  PROVE  CountInv'
<1>1. Spaces(line.sep) /\ TypeOK /\ CallInv
  BY DEF SeparatorsAreSpaces, CountInv, TypeOK
<1>2. CASE UNCHANGED vars
  <2>1. TypeOK' /\ CallInv'
    BY <1>1, <1>2, ZenonT(40) DEF vars, TypeOK, CallInv, Idle, Starting, Halfway, Padding, Chars, Rest,
       SecondSextet, ThirdSextet
  <2>2. QED BY <1>2, <2>1 DEF CountInv, vars, VisiblePlaces, Due
<1>3. ASSUME Next PROVE TypeOK'
  BY <1>1, <1>3, WriterType
<1>4. ASSUME NEW o \in Octets \cup Range(Script), Put(o) PROVE CountInv'
  <2>1. TypeOK'
    BY <1>3, <1>4 DEF Next
  <2>2. Starting'
    BY <1>4 DEF Put, Starting, Chars, SecondSextet, ThirdSextet
  <2>3. broken' = broken /\ (~broken => (Cardinality(VisiblePlaces) + Len(todo))' % 4 = Due')
    BY <1>4, CountBegins DEF Put
  <2>4. QED BY <2>1, <2>2, <2>3 DEF CountInv, CallInv
<1>5. CASE Conclude
  <2>1. TypeOK'
    BY <1>3, <1>5 DEF Next
  <2>2. Starting'
    BY <1>5 DEF Conclude, Starting, Rest, SecondSextet, ThirdSextet
  <2>3. broken' = broken /\ (~broken => (Cardinality(VisiblePlaces) + Len(todo))' % 4 = Due')
    BY <1>5, CountBegins DEF Conclude
  <2>4. QED BY <2>1, <2>2, <2>3 DEF CountInv, CallInv
<1>6. CASE SinkPut
  <2>1. TypeOK' /\ CallInv'
    BY <1>1, <1>3, <1>6, SinkPutCall DEF Next
  <2>2. QED BY <1>1, <1>6, <2>1, CountSinkPut DEF CountInv
<1>7. CASE SinkRefuses
  <2>1. TypeOK'
    BY <1>3, <1>7 DEF Next
  <2>2. Idle' /\ broken'
    BY <1>7 DEF SinkRefuses, Idle
  <2>3. QED BY <2>1, <2>2 DEF CountInv, CallInv
<1>8. CASE Close
  <2>1. TypeOK'
    BY <1>3, <1>8 DEF Next
  <2>2. Idle'
    BY <1>1, <1>8 DEF Close, CallInv, Idle, Starting, Halfway, Padding
  <2>3. UNCHANGED <<sink, todo, call, put_fn, broken>>
    BY <1>8 DEF Close
  <2>4. QED BY <2>1, <2>2, <2>3 DEF CountInv, CallInv, VisiblePlaces, Due
<1>9. QED BY <1>2, <1>4, <1>5, <1>6, <1>7, <1>8 DEF Next

(* Between calls a sink that has refused nothing holds whole quartets and  *)
(* the characters of the octets since (b64.h:375-424), when the lines are  *)
(* separated by spaces.                                                    *)
THEOREM AlwaysQuartetsWhole ==
  ASSUME SeparatorsAreSpaces
  PROVE  PipeSpec => []QuartetsWhole
<1>1. PipeInit => CountInv
  BY CountStart DEF PipeInit
<1>2. CountInv /\ [PipeNext]_pipe => CountInv'
  <2>1. [PipeNext]_pipe => [Next]_vars
    BY DEF PipeNext, Write, Read, pipe
  <2>2. QED BY <2>1, CountStep
<1>3. CountInv => QuartetsWhole
  <2>1. SUFFICES ASSUME CountInv, call = "none", ~broken
                 PROVE  Cardinality(VisiblePlaces) % 4 = Phase(put_fn)
    BY DEF QuartetsWhole, Phase
  <2>2. todo = << >> /\ sink \in Seq(Char)
    BY <2>1 DEF CountInv, CallInv, Idle, Starting, Halfway, Padding, TypeOK
  <2>3. PICK n \in Nat : n = Cardinality(VisiblePlaces)
    BY <2>2, VisibleFinite DEF VisibleIn, VisiblePlaces
  <2>4. (n + 0) % 4 = Phase(put_fn)
    BY <2>1, <2>2, <2>3 DEF CountInv, Due
  <2>5. QED BY <2>3, <2>4
<1>4. QED BY <1>1, <1>2, <1>3, PTL DEF PipeSpec

-----------------------------------------------------------------------------
(* The lines of a text.  A line and its separator take a period of places; *)
(* one character, c, is at the place of each period that follows the l     *)
(* characters of the line, and nowhere else.                               *)

\* i places lie before place o of period k, both counted from 0.
Place(i, k, o, period) ==
  period \in Nat /\ k \in Nat /\ o \in 0..period - 1 /\ i = k * period + o

Lined(s, period, l, c) ==
  \A i \in Nat : \A k, o :
    Place(i, k, o, period) /\ i < Len(s) => (s[i + 1] = c <=> o = l)

\* The characters t, put r places into a period, have c where Lined wants it.
Continues(t, r, l, c) == \A j \in 1..Len(t) : t[j] = c <=> r + j = l + 1

LEMMA PlaceUnique ==
  ASSUME NEW i, NEW p, NEW k, NEW o, Place(i, k, o, p), NEW q, NEW r, Place(i, q, r, p)
  PROVE  k = q /\ o = r
<1>1. /\ p \in Nat /\ k \in Nat /\ q \in Nat /\ o \in 0..p - 1 /\ r \in 0..p - 1
      /\ k * p + o = q * p + r
  BY DEF Place
<1>2. ASSUME NEW a \in Nat, NEW b \in Nat, a < b PROVE a * p + p <= b * p
  <2>1. PICK d \in Nat : b = a + 1 + d
    <3>1. b - a - 1 \in Nat /\ b = a + 1 + (b - a - 1)
      BY <1>2
    <3>2. QED BY <3>1
  <2>2. b * p = a * p + p + d * p /\ d * p \in Nat
    BY <1>1, <2>1
  <2>3. a * p \in Nat
    BY <1>1
  <2>4. QED BY <1>1, <2>2, <2>3
<1>3. PICK x, y \in Nat : x = k * p /\ y = q * p
  BY <1>1
<1>4. x + o = y + r
  BY <1>1, <1>3
<1>5. ~(k < q)
  <2>1. SUFFICES ASSUME x + p <= y PROVE FALSE
    BY <1>1, <1>2, <1>3
  <2>2. QED BY <1>1, <1>4, <2>1
<1>6. ~(q < k)
  <2>1. SUFFICES ASSUME y + p <= x PROVE FALSE
    BY <1>1, <1>2, <1>3
  <2>2. QED BY <1>1, <1>4, <2>1
<1>7. k = q
  BY <1>1, <1>5, <1>6
<1>8. x = y
  BY <1>3, <1>7
<1>9. QED BY <1>1, <1>4, <1>7, <1>8

(* Every number has one place.                                             *)
LEMMA PlaceOf ==
  ASSUME NEW p \in Nat \ {0}, NEW i \in Nat
  PROVE  \E k : Place(i, k, i % p, p)
<1>1. i \div p \in Nat /\ i % p \in 0..p - 1 /\ i = (i \div p) * p + (i % p)
  OBVIOUS
<1>2. QED BY <1>1 DEF Place

LEMMA PlaceMod ==
  ASSUME NEW p \in Nat \ {0}, NEW i \in Nat, NEW k, NEW o, Place(i, k, o, p)
  PROVE  i % p = o
BY PlaceOf, PlaceUnique

(* The places that follow one in its period, and the first one of the next.*)
LEMMA PlaceAfter ==
  ASSUME NEW i \in Nat, NEW k, NEW o, NEW p, Place(i, k, o, p), NEW d \in Nat, o + d < p
  PROVE  Place(i + d, k, o + d, p)
<1>1. p \in Nat /\ k \in Nat /\ o \in 0..p - 1 /\ i = k * p + o
  BY DEF Place
<1>2. o + d \in 0..p - 1
  BY <1>1
<1>3. PICK x \in Nat : x = k * p
  BY <1>1
<1>4. i + d = k * p + (o + d)
  BY <1>1, <1>3
<1>5. QED BY <1>1, <1>2, <1>4 DEF Place

LEMMA PlaceNext ==
  ASSUME NEW i \in Nat, NEW k, NEW o, NEW p, Place(i, k, o, p), NEW d \in Nat, o + d = p
  PROVE  Place(i + d, k + 1, 0, p)
<1>1. p \in Nat /\ k \in Nat /\ o \in 0..p - 1 /\ i = k * p + o
  BY DEF Place
<1>2. PICK x \in Nat : x = k * p
  BY <1>1
<1>3. (k + 1) * p = x + p
  BY <1>1, <1>2
<1>4. i + d = (k + 1) * p + 0 /\ 0 \in 0..p - 1
  BY <1>1, <1>2, <1>3
<1>5. QED BY <1>1, <1>4 DEF Place

LEMMA LinedConcat ==
  ASSUME NEW s \in Seq(Char), NEW t \in Seq(Char), NEW p, NEW l \in Nat, NEW c,
         Lined(s, p, l, c), NEW q, NEW r, Place(Len(s), q, r, p), r + Len(t) <= p,
         Continues(t, r, l, c)
  PROVE  Lined(s \o t, p, l, c) /\ Len(s \o t) = Len(s) + Len(t) /\ s \o t \in Seq(Char)
<1> DEFINE u == s \o t
<1>1. PICK n, m \in Nat : n = Len(s) /\ m = Len(t)
  BY LenProperties
<1>2. /\ Len(u) = n + m /\ \A i \in 1..n + m : u[i] = IF i <= n THEN s[i] ELSE t[i - n]
      /\ u \in Seq(Char)
  BY <1>1, ConcatProperties
<1>3. p \in Nat /\ r \in 0..p - 1
  BY DEF Place
<1> HIDE DEF u
<1>4. ASSUME NEW i \in Nat, NEW k, NEW o, Place(i, k, o, p), i < n + m
      PROVE  u[i + 1] = c <=> o = l
  <2>1. CASE i < n
    <3>1. u[i + 1] = s[i + 1]
      BY <1>2, <2>1
    <3>2. s[i + 1] = c <=> o = l
      BY <1>1, <1>4, <2>1 DEF Lined
    <3>3. QED BY <3>1, <3>2
  <2>2. CASE ~(i < n)
    <3>1. PICK d \in Nat : i = n + d /\ d < m
      <4>1. i - n \in Nat /\ i = n + (i - n) /\ i - n < m
        BY <1>4, <2>2
      <4>2. QED BY <4>1
    <3>2. PICK j \in 1..m : j = d + 1
      BY <3>1
    <3>3. u[i + 1] = t[j]
      <4>1. PICK x \in 1..n + m : x = i + 1 /\ ~(x <= n) /\ x - n = j
        <5>1. i + 1 \in 1..n + m /\ ~(i + 1 <= n) /\ i + 1 - n = j
          BY <3>1, <3>2
        <5>2. QED BY <5>1
      <4>2. u[x] = t[x - n]
        BY <1>2, <4>1
      <4>3. QED BY <4>1, <4>2
    <3>4. r + d < p
      BY <1>1, <1>3, <3>1
    <3>5. Place(n + d, q, r + d, p)
      BY <1>1, <3>4, PlaceAfter
    <3>6. o = r + d
      BY <1>4, <3>1, <3>5, PlaceUnique
    <3>7. r + j = l + 1 <=> o = l
      BY <1>3, <3>2, <3>6
    <3>8. QED BY <1>1, <3>3, <3>7 DEF Continues
  <2>3. QED BY <2>1, <2>2
<1>5. Lined(u, p, l, c)
  BY <1>2, <1>4 DEF Lined
<1>6. QED BY <1>1, <1>2, <1>5 DEF u

(* A separator begins with a space that it has nowhere else, so that its   *)
(* beginnings can be told from what is between them: a line feed, say, or  *)
(* a carriage return and a line feed.                                      *)
SeparatorsBegin ==
  \A l \in Formats :
    l.len > 0 => l.sep # << >> /\ IsSpace(l.sep[1]) /\ \A j \in 2..Len(l.sep) : l.sep[j] # l.sep[1]

Period == line.len + Len(line.sep)

(* The index is the place in the line; a line of which nothing has been    *)
(* put has not been begun, but for the first one.                          *)
LineInv ==
  /\ TypeOK /\ CallInv
  /\ line.len > 0 /\ ~broken =>
       /\ \E q \in Nat : Place(Len(sink), q, index, Period) /\ (q > 0 => index > 0)
       /\ Lined(sink, Period, line.len, line.sep[1])

LEMMA LineSinkPut ==
  ASSUME SeparatorsBegin, LineInv, SinkPut, line.len > 0
  PROVE  /\ \E q \in Nat : Place(Len(sink'), q, index', Period) /\ (q > 0 => index' > 0)
         /\ Lined(sink', Period, line.len, line.sep[1])
<1> DEFINE c == line.sep[1]
<1>1. /\ ~broken /\ sink \in Seq(Char) /\ line.sep \in Seq(Char) /\ Len(line.sep) \in Nat
      /\ Len(line.sep) > 0 /\ IsSpace(c) /\ \A j \in 2..Len(line.sep) : line.sep[j] # c
      /\ line.len \in Nat /\ index \in 0..line.len
  <2>1. line \in Formats /\ sink \in Seq(Char) /\ index \in 0..line.len /\ ~broken
    BY DEF LineInv, TypeOK, SinkPut
  <2>2. line.sep \in Seq(Char) /\ line.len \in Nat /\ line.sep # << >>
    BY <2>1, B64OutputAssumption DEF SeparatorsBegin
  <2>3. Len(line.sep) \in Nat /\ Len(line.sep) > 0
    BY <2>2, EmptySeq
  <2>4. QED BY <2>1, <2>2, <2>3 DEF SeparatorsBegin
<1>2. PICK h \in Char : h = Head(todo) /\ ~IsSpace(h) /\ h # c
  BY <1>1, SinkPutCall DEF LineInv, SinkPut, TypeOK
<1>3. PICK p \in Nat : p = Period /\ p = line.len + Len(line.sep)
  BY <1>1 DEF Period
<1>4. PICK q \in Nat : Place(Len(sink), q, index, p) /\ (q > 0 => index > 0)
  BY <1>1, <1>3 DEF LineInv
<1>5. Lined(sink, p, line.len, c) /\ sink' = sink \o (IF NewLine THEN line.sep ELSE << >>) \o <<h>>
  BY <1>1, <1>2, <1>3 DEF LineInv, SinkPut
<1>6. PICK hs \in Seq(Char) : hs = <<h>> /\ Len(hs) = 1 /\ hs[1] = h
  <2>1. <<h>> \in Seq(Char) /\ Len(<<h>>) = 1 /\ <<h>>[1] = h
    BY <1>2
  <2>2. QED BY <2>1, Zenon
<1>7. PICK d \in Char : d = c /\ h # d
  <2>1. 1 \in 1..Len(line.sep)
    BY <1>1
  <2>2. QED BY <1>1, <1>2, <2>1, ElementOfSeq
<1> HIDE DEF c
<1>8. Lined(sink, p, line.len, d) /\ Len(sink) \in Nat
  BY <1>1, <1>5, <1>7, LenProperties
<1>9. CASE NewLine
  <2>1. index = line.len /\ index' = 1
    BY <1>1, <1>9 DEF NewLine, SinkPut, Index
  <2>2. index + Len(line.sep) = p /\ index + Len(line.sep) <= p
    BY <1>1, <1>3, <2>1
  <2>3. Continues(line.sep, index, line.len, d)
    BY <1>1, <1>7, <2>1 DEF c, Continues
  <2>4. PICK t \in Seq(Char) : /\ t = sink \o line.sep /\ Lined(t, p, line.len, d)
                              /\ Len(t) = Len(sink) + Len(line.sep)
    BY <1>1, <1>4, <1>8, <2>2, <2>3, LinedConcat, Zenon
  <2>5. Place(Len(t), q + 1, 0, p)
    BY <1>1, <1>4, <1>8, <2>2, <2>4, PlaceNext
  <2>6. 0 + Len(hs) <= p /\ Continues(hs, 0, line.len, d)
    BY <1>1, <1>3, <1>6, <1>7, <2>1 DEF Continues
  <2>7. Lined(t \o hs, p, line.len, d) /\ Len(t \o hs) = Len(t) + 1
    <3>1. Lined(t \o hs, p, line.len, d) /\ Len(t \o hs) = Len(t) + Len(hs)
      BY <1>1, <1>6, <2>4, <2>5, <2>6, LinedConcat, Zenon
    <3>2. QED BY <1>6, <3>1
  <2>8. sink' = t \o hs
    BY <1>5, <1>6, <1>9, <2>4
  <2>9. Place(Len(t) + 1, q + 1, 0 + 1, p)
    <3>1. Len(t) \in Nat /\ 0 + 1 < p
      BY <1>1, <1>3, <2>4, LenProperties
    <3>2. QED BY <2>5, <3>1, PlaceAfter
  <2>10. Place(Len(sink'), q + 1, index', p) /\ index' > 0 /\ q + 1 \in Nat
    BY <2>1, <2>7, <2>8, <2>9
  <2>11. QED BY <1>3, <1>7, <2>7, <2>8, <2>10 DEF c
<1>10. CASE ~NewLine
  <2>1. index < line.len /\ index' = index + 1
    BY <1>1, <1>10 DEF NewLine, SinkPut, Index
  <2>2. sink' = sink \o hs
    BY <1>1, <1>5, <1>6, <1>10
  <2>3. index + Len(hs) <= p /\ index + 1 < p
    BY <1>1, <1>3, <1>6, <2>1
  <2>4. Continues(hs, index, line.len, d)
    BY <1>1, <1>6, <1>7, <2>1 DEF Continues
  <2>5. Lined(sink \o hs, p, line.len, d) /\ Len(sink \o hs) = Len(sink) + 1
    <3>1. Lined(sink \o hs, p, line.len, d) /\ Len(sink \o hs) = Len(sink) + Len(hs)
      BY <1>1, <1>4, <1>6, <1>8, <2>3, <2>4, LinedConcat, Zenon
    <3>2. QED BY <1>6, <3>1
  <2>6. Place(Len(sink) + 1, q, index + 1, p)
    BY <1>4, <1>8, <2>3, PlaceAfter
  <2>7. Place(Len(sink'), q, index', p) /\ index' > 0
    BY <1>1, <2>1, <2>2, <2>5, <2>6
  <2>8. QED BY <1>3, <1>7, <2>2, <2>5, <2>7 DEF c
<1>11. QED BY <1>9, <1>10

LEMMA LineStep ==
  ASSUME SeparatorsBegin, LineInv, [Next]_vars
  PROVE  LineInv'
<1>1. ASSUME UNCHANGED <<line, sink, index, broken>>, TypeOK', CallInv'
      PROVE  LineInv'
  BY <1>1 DEF LineInv, Period
<1>2. CASE UNCHANGED vars
  <2>1. TypeOK' /\ CallInv'
    BY <1>2, ZenonT(40) DEF LineInv, vars, TypeOK, CallInv, Idle, Starting, Halfway, Padding, Chars, Rest,
       SecondSextet, ThirdSextet
  <2>2. QED BY <1>1, <1>2, <2>1 DEF vars
<1>3. ASSUME Next PROVE TypeOK'
  BY <1>3, WriterType DEF LineInv
<1>4. ASSUME NEW o \in Octets \cup Range(Script), Put(o) PROVE LineInv'
  <2>1. TypeOK' /\ Starting'
    BY <1>3, <1>4 DEF Next, Put, Starting, Chars, SecondSextet, ThirdSextet
  <2>2. QED BY <1>1, <1>4, <2>1 DEF Put, CallInv
<1>5. CASE Conclude
  <2>1. TypeOK' /\ Starting'
    BY <1>3, <1>5 DEF Next, Conclude, Starting, Rest, SecondSextet, ThirdSextet
  <2>2. QED BY <1>1, <1>5, <2>1 DEF Conclude, CallInv
<1>6. CASE SinkPut
  <2>1. TypeOK' /\ CallInv'
    BY <1>3, <1>6, SinkPutCall DEF Next, LineInv
  <2>2. line' = line
    BY <1>6 DEF SinkPut
  <2>3. QED BY <1>6, <2>1, <2>2, LineSinkPut DEF LineInv, Period
<1>7. CASE SinkRefuses
  <2>1. TypeOK' /\ Idle' /\ broken'
    BY <1>3, <1>7 DEF Next, SinkRefuses, Idle
  <2>2. QED BY <2>1 DEF LineInv, CallInv
<1>8. CASE Close
  <2>1. TypeOK' /\ Idle'
    BY <1>3, <1>8 DEF Next, Close, LineInv, CallInv, Idle, Starting, Halfway, Padding
  <2>2. QED BY <1>1, <1>8, <2>1 DEF Close, CallInv
<1>9. QED BY <1>2, <1>4, <1>5, <1>6, <1>7, <1>8 DEF Next

(* Lines are full before they are separated, and no separator is put that  *)
(* no character follows (b64.h:265-267), whatever the length of a line,    *)
(* for separators that begin as SeparatorsBegin says.                      *)
THEOREM LinesAlwaysFull ==
  ASSUME SeparatorsBegin
  PROVE  PipeSpec => []LinesFull
<1>1. PipeInit => LineInv
  <2>1. SUFFICES ASSUME Ready, closed \in BOOLEAN PROVE LineInv
    BY DEF PipeInit
  <2>2. TypeOK /\ CallInv /\ sink = << >> /\ index = 0 /\ Len(sink) = 0
    BY <2>1, WriterStart DEF Ready, CallInv, Idle
  <2>3. Period \in Nat
    BY <2>2, IndexType, LenProperties DEF Period
  <2>4. Period > 0 => Place(Len(sink), 0, index, Period)
    BY <2>2, <2>3 DEF Place
  <2>5. line.len > 0 => Period > 0
    BY <2>2, IndexType, LenProperties DEF Period
  <2>6. Lined(sink, Period, line.len, line.sep[1])
    BY <2>2 DEF Lined
  <2>7. 0 \in Nat /\ ~(0 > 0)
    OBVIOUS
  <2>8. QED BY <2>2, <2>4, <2>5, <2>6, <2>7, Zenon DEF LineInv
<1>2. LineInv /\ [PipeNext]_pipe => LineInv'
  <2>1. [PipeNext]_pipe => [Next]_vars
    BY DEF PipeNext, Write, Read, pipe
  <2>2. QED BY <2>1, LineStep
<1>3. LineInv => LinesFull
  <2>1. SUFFICES ASSUME LineInv, line.len > 0, ~broken
                 PROVE  /\ \A i \in 1..Len(sink) :
                             sink[i] = line.sep[1] <=> i % Period = (line.len + 1) % Period
                        /\ \A i \in Separators : i + Len(line.sep) <= Len(sink)
    BY DEF LinesFull, Period
  <2>2. /\ line.len \in Nat /\ line.len > 0 /\ Len(line.sep) \in Nat /\ Len(line.sep) > 0
        /\ Len(sink) \in Nat /\ sink \in Seq(Char) /\ index \in 0..line.len
    <3>1. line \in Formats /\ sink \in Seq(Char) /\ index \in 0..line.len
      BY <2>1 DEF LineInv, TypeOK
    <3>2. line.sep \in Seq(Char) /\ line.len \in Nat /\ line.sep # << >>
      BY <2>1, <3>1, B64OutputAssumption DEF SeparatorsBegin
    <3>3. Len(line.sep) \in Nat /\ Len(line.sep) > 0 /\ Len(sink) \in Nat
      BY <3>1, <3>2, EmptySeq, LenProperties
    <3>4. QED BY <2>1, <3>1, <3>2, <3>3
  <2>3. PICK l \in Nat \ {0}, z \in Nat \ {0}, n \in Nat, p \in Nat \ {0} :
          l = line.len /\ z = Len(line.sep) /\ n = Len(sink) /\ p = Period /\ p = l + z
    BY <2>2 DEF Period
  <2>4. PICK q \in Nat : Place(n, q, index, p) /\ (q > 0 => index > 0)
    BY <2>1, <2>3 DEF LineInv
  <2>5. ASSUME NEW i \in 1..n
        PROVE  \E k, o : /\ Place(i - 1, k, o, p)
                         /\ sink[i] = line.sep[1] <=> o = l
                         /\ i % p = (l + 1) % p <=> o = l
    <3>1. PICK b \in Nat : b = i - 1 /\ i = b + 1 /\ b < n
      BY <2>3
    <3>2. PICK k, o : Place(b, k, o, p)
      BY PlaceOf
    <3>3. sink[i] = line.sep[1] <=> o = l
      <4>1. Lined(sink, p, l, line.sep[1])
        BY <2>1, <2>3 DEF LineInv
      <4>2. sink[b + 1] = line.sep[1] <=> o = l
        BY <2>3, <3>1, <3>2, <4>1 DEF Lined
      <4>3. QED BY <3>1, <4>2
    <3>4. ASSUME NEW x \in Nat, NEW e, NEW f, Place(x, e, f, p)
          PROVE  f \in 0..p - 1 /\ (x + 1) % p = IF f = p - 1 THEN 0 ELSE f + 1
      <4>1. f \in 0..p - 1 /\ x + 1 \in Nat
        BY <3>4 DEF Place
      <4>2. CASE f = p - 1
        <5>1. Place(x + 1, e + 1, 0, p)
          BY <3>4, <4>2, PlaceNext
        <5>2. QED BY <4>1, <4>2, <5>1, PlaceMod
      <4>3. CASE f # p - 1
        <5>1. Place(x + 1, e, f + 1, p)
          <6>1. f + 1 < p /\ 1 \in Nat
            BY <4>1, <4>3
          <6>2. QED BY <3>4, <6>1, PlaceAfter
        <5>2. QED BY <4>1, <4>3, <5>1, PlaceMod
      <4>4. QED BY <4>2, <4>3
    <3>5. Place(l, 0, l, p)
      BY <2>3 DEF Place
    <3>6. /\ o \in 0..p - 1 /\ i % p = IF o = p - 1 THEN 0 ELSE o + 1
          /\ l \in 0..p - 1 /\ (l + 1) % p = IF l = p - 1 THEN 0 ELSE l + 1
      BY <3>1, <3>2, <3>4, <3>5
    <3>7. i % p = (l + 1) % p <=> o = l
      <4>1. PICK x, y \in Nat : x = i % p /\ y = (l + 1) % p
        BY <3>6
      <4>2. x = y <=> o = l
        BY <3>6, <4>1
      <4>3. QED BY <4>1, <4>2
    <3>8. QED BY <3>1, <3>2, <3>3, <3>6, <3>7
  <2>6. ASSUME NEW i \in Separators PROVE i + Len(line.sep) <= Len(sink)
    <3>1. i \in 1..n - z + 1 /\ i \in 1..n /\ SubSeq(sink, i, i + z - 1) = line.sep
      BY <2>2, <2>3 DEF Separators
    <3>2. sink[i] = line.sep[1]
      <4>1. i + z - 1 \in 0..Len(sink) /\ i \in 1..i + z - 1 + 1 /\ 1 \in 1..i + z - 1 + 1 - i
            /\ i + 1 - 1 = i
        BY <2>3, <3>1
      <4>2. SubSeq(sink, i, i + z - 1)[1] = sink[i + 1 - 1]
        BY <2>2, <4>1, SubSeqFacts
      <4>3. QED BY <3>1, <4>1, <4>2
    <3>3. PICK k, o : Place(i - 1, k, o, p) /\ (sink[i] = line.sep[1] <=> o = l)
      BY <2>5, <3>1
    <3>4. Place(i - 1, k, l, p)
      BY <3>2, <3>3
    <3>5. Place((i - 1) + z, k + 1, 0, p)
      BY <2>3, <3>1, <3>4, PlaceNext
    <3>6. ~((i - 1) + z = n)
      <4>1. SUFFICES ASSUME Place(n, k + 1, 0, p) PROVE FALSE
        BY <3>5
      <4>2. k + 1 = q /\ 0 = index
        BY <2>4, <4>1, PlaceUnique
      <4>3. q > 0
        <5>1. k \in Nat
          BY <3>4 DEF Place
        <5>2. QED BY <4>2, <5>1
      <4>4. QED BY <2>4, <4>2, <4>3
    <3>7. (i - 1) + z <= n
      BY <2>3, <3>1
    <3>8. i + z <= n
      BY <2>3, <3>1, <3>6, <3>7
    <3>9. QED BY <2>3, <3>8
  <2>7. \A i \in 1..Len(sink) :
          sink[i] = line.sep[1] <=> i % Period = (line.len + 1) % Period
    BY <2>3, <2>5
  <2>8. QED BY <2>6, <2>7
<1>4. QED BY <1>1, <1>2, <1>3, PTL DEF PipeSpec
-----------------------------------------------------------------------------
(* A text from elsewhere.                                                  *)

(* Its characters that are no spaces have places.                          *)
LEMMA EveryTextShown ==
  ASSUME NEW s \in Seq(Int)
  PROVE  \E ps : Shown(s, ps)
<1> DEFINE Pre(n) == SubSeq(s, 1, n)
           T == {n \in 0..Len(s) : ~ \E ps : Shown(Pre(n), ps)}
<1>1. Len(s) \in Nat
  BY LenProperties
<1>2. ASSUME NEW n \in 0..Len(s)
      PROVE  /\ Pre(n) \in Seq(Int) /\ Len(Pre(n)) = n /\ \A i \in 1..n : Pre(n)[i] = s[i]
  <2>1. 1 \in 1..n + 1 /\ n + 1 - 1 = n /\ \A i \in 1..n : 1 + i - 1 = i
    BY <1>1
  <2>2. QED BY <2>1, SubSeqFacts
<1> HIDE DEF Pre
<1>3. T = {}
  <2>1. SUFFICES ASSUME T # {} PROVE FALSE
    OBVIOUS
  <2>2. PICK m \in T : \A k \in T : m <= k
    <3>1. T \subseteq Nat
      OBVIOUS
    <3> HIDE DEF T
    <3>2. QED BY <2>1, <3>1, LeastNatural
  <2>3. m # 0
    <3>1. ASSUME m = 0 PROVE Shown(Pre(m), << >>)
      <4>1. Len(Pre(m)) = 0
        BY <1>2, <3>1
      <4>2. << >> \in Seq(Nat) /\ Len(<< >>) = 0
        OBVIOUS
      <4>3. QED BY <4>1, <4>2 DEF Shown
    <3>2. QED BY <2>2, <3>1
  <2>4. PICK b \in 0..Len(s) : b = m - 1 /\ m = b + 1 /\ m \in 1..Len(s) /\ b \notin T
    <3>1. m - 1 \in 0..Len(s) /\ m = (m - 1) + 1 /\ m \in 1..Len(s) /\ ~(m <= m - 1)
      BY <1>1, <2>3
    <3>2. m - 1 \notin T
      BY <2>2, <3>1
    <3>3. QED BY <3>1, <3>2
  <2>5. PICK ps : Shown(Pre(b), ps)
    BY <2>4
  <2>6. PICK c \in Int : c = s[m]
    BY <2>4, ElementOfSeq
  <2>7. Pre(m) = Append(Pre(b), c)
    <3>1. /\ Append(Pre(b), c) \in Seq(Int) /\ Len(Append(Pre(b), c)) = b + 1
          /\ Append(Pre(b), c)[b + 1] = c
          /\ \A i \in 1..b : Append(Pre(b), c)[i] = s[i]
      <4>1. Pre(b) \in Seq(Int) /\ Len(Pre(b)) = b /\ \A i \in 1..b : Pre(b)[i] = s[i]
        BY <1>2
      <4>2. /\ Append(Pre(b), c) \in Seq(Int) /\ Len(Append(Pre(b), c)) = Len(Pre(b)) + 1
            /\ Append(Pre(b), c)[Len(Pre(b)) + 1] = c
            /\ \A i \in 1..Len(Pre(b)) : Append(Pre(b), c)[i] = Pre(b)[i]
        BY <4>1, <2>6, AppendFacts
      <4>3. QED BY <4>1, <4>2
    <3>2. Pre(m) \in Seq(Int) /\ Len(Pre(m)) = m /\ \A i \in 1..m : Pre(m)[i] = s[i]
      BY <1>2
    <3>3. \A i \in 1..m : i = m \/ i \in 1..b
      BY <2>4
    <3>4. \A i \in 1..m : Pre(m)[i] = Append(Pre(b), c)[i]
      BY <2>4, <2>6, <3>1, <3>2, <3>3
    <3>5. QED BY <2>4, <3>1, <3>2, <3>4, SeqEqual
  <2>8. CASE IsSpace(c)
    <3>1. /\ Len(Pre(b)) = b /\ Len(Pre(m)) = m /\ Pre(m)[m] = c
          /\ \A i \in 1..b : Pre(m)[i] = Pre(b)[i]
      <4>1. \A i \in 1..b : i \in 1..m
        BY <2>4
      <4>2. m \in 1..m
        BY <2>4
      <4>3. QED BY <1>2, <2>6, <4>1, <4>2
    <3>2. \A i \in 1..Len(ps) : ps[i] \in 1..m /\ ~IsSpace(Pre(m)[ps[i]])
      <4>1. TAKE i \in 1..Len(ps)
      <4>2. ps[i] \in 1..b /\ ~IsSpace(Pre(b)[ps[i]])
        BY <2>5, <3>1 DEF Shown
      <4>3. ps[i] \in 1..m
        BY <2>4, <4>2
      <4>4. QED BY <3>1, <4>2, <4>3
    <3>3. \A j \in 1..m : ~IsSpace(Pre(m)[j]) => \E i \in 1..Len(ps) : ps[i] = j
      <4>1. SUFFICES ASSUME NEW j \in 1..m, ~IsSpace(Pre(m)[j])
                     PROVE  \E i \in 1..Len(ps) : ps[i] = j
        OBVIOUS
      <4>2. j # m
        BY <2>8, <3>1, <4>1
      <4>3. j \in 1..b
        BY <2>4, <4>2
      <4>4. QED BY <2>5, <3>1, <4>1, <4>3 DEF Shown
    <3>4. Shown(Pre(m), ps)
      BY <2>5, <3>1, <3>2, <3>3 DEF Shown
    <3>5. QED BY <2>2, <3>4
  <2>9. CASE ~IsSpace(c)
    <3>1. Pre(b) \in Seq(Int)
      BY <1>2
    <3>2. Shown(Append(Pre(b), c), Append(ps, Len(Pre(b)) + 1))
      BY <2>5, <2>9, <3>1, ShownAppend
    <3>3. QED BY <2>2, <2>7, <3>2
  <2>10. QED BY <2>8, <2>9
<1>4. \E ps : Shown(Pre(Len(s)), ps)
  <2>1. Len(s) \in 0..Len(s)
    BY <1>1
  <2>2. QED BY <1>3, <2>1
<1>5. Pre(Len(s)) = s
  <2>1. Len(s) \in 0..Len(s)
    BY <1>1
  <2>2. QED BY <1>2, <2>1, SeqEqual
<1>6. QED BY <1>4, <1>5

(* The first of them have sextets.                                         *)
LEMMA EveryTextTold ==
  ASSUME NEW s \in Seq(Int)
  PROVE  \E ps, ss : Told(s, ps, ss)
<1>1. PICK ps : Shown(s, ps)
  BY EveryTextShown
<1>2. PICK n \in Nat : n = Len(ps)
  BY <1>1, LenProperties DEF Shown
<1> DEFINE Sextets(k) == SextetOf(s[ps[k]])
           T == {k \in 1..n + 1 : k = n + 1 \/ Sextets(k) = InvalidSextet}
<1>3. PICK m \in T : \A k \in T : m <= k
  <2>1. T \subseteq Nat /\ n + 1 \in T
    BY <1>2
  <2> HIDE DEF T
  <2>2. QED BY <2>1, LeastNatural
<1>4. PICK b \in 0..n : m = b + 1
  <2>1. m - 1 \in 0..n /\ m = (m - 1) + 1
    BY <1>2, <1>3
  <2>2. QED BY <2>1
<1>5. ASSUME NEW k \in 1..b PROVE Sextets(k) # InvalidSextet /\ Sextets(k) \in Sextet
  <2>1. k \in 1..n + 1 /\ ~(m <= k) /\ k \in 1..n
    BY <1>4
  <2>2. Sextets(k) # InvalidSextet
    BY <1>3, <2>1
  <2>3. s[ps[k]] \in Int
    <3>1. ps[k] \in 1..Len(s)
      BY <1>1, <1>2, <2>1 DEF Shown
    <3>2. QED BY <3>1, ElementOfSeq
  <2>4. QED BY <2>2, <2>3, SextetType
<1>6. b < n => Sextets(b + 1) = InvalidSextet
  <2>1. b < n => m # n + 1
    BY <1>4
  <2>2. QED BY <1>3, <1>4, <2>1
<1> HIDE DEF Sextets
<1> DEFINE ss == [k \in 1..b |-> Sextets(k)]
<1>7. ss \in Seq(Sextet) /\ Len(ss) = b /\ \A k \in 1..b : ss[k] = Sextets(k)
  BY <1>5
<1> HIDE DEF ss
<1>8. Told(s, ps, ss)
  BY <1>1, <1>2, <1>6, <1>7 DEF Told, Sextets
<1>9. QED BY <1>8

(* These are the sextets of the text as SextetsOf counts them.             *)
LEMMA SextetsTold ==
  ASSUME NEW s, NEW ps, NEW ss, Told(s, ps, ss)
  PROVE  ss = In!SextetsOf(s)
<1> DEFINE P == In!SextetPlaces(s)
           First(n) == {ps[k] : k \in 1..n}
           Upto(i) == {j \in P : j <= i}
           Nth(k) == CHOOSE i \in P : In!Cardinality(Upto(i)) = k
<1>1. PICK n, m \in Nat : n = Len(ss) /\ m = Len(ps) /\ n <= m
  BY LenProperties DEF Told, Shown
<1>2. /\ DOMAIN s = 1..Len(s) /\ Len(s) \in Nat
      /\ \A k \in 1..m : ps[k] \in 1..Len(s) /\ ps[k] \in Nat /\ ~IsSpace(s[ps[k]])
      /\ \A i, k \in 1..m : i < k => ps[i] < ps[k]
  BY <1>1, LenProperties DEF Told, Shown
<1>3. \A i, k \in 1..m : ps[i] <= ps[k] <=> i <= k
  <2>1. TAKE i, k \in 1..m
  <2>2. PICK a, b \in Nat : a = ps[i] /\ b = ps[k]
    BY <1>2
  <2>3. (i < k => a < b) /\ (k < i => b < a)
    BY <1>2, <2>2
  <2>4. i = k => a = b
    BY <2>2
  <2>5. QED BY <2>2, <2>3, <2>4
<1>4. \A c : /\ In!InAlphabet(c) <=> SextetOf(c) # InvalidSextet
             /\ In!IsSpace(c) <=> IsSpace(c)
             /\ In!SextetOf(c) = SextetOf(c)
  BY SameTables
<1>5. \A k \in 1..n : k \in 1..m /\ SextetOf(s[ps[k]]) = ss[k] /\ ss[k] # InvalidSextet
  <2>1. TAKE k \in 1..n
  <2>2. ss[k] \in Sextet
    BY <1>1, ElementOfSeq DEF Told
  <2>3. ss[k] # InvalidSextet
    BY <2>2 DEF Sextet, InvalidSextet
  <2>4. QED BY <1>1, <2>3 DEF Told
<1>6. P = First(n)
  <2>1. ASSUME NEW k \in 1..n PROVE ps[k] \in P
    <3>1. ps[k] \in DOMAIN s /\ In!InAlphabet(s[ps[k]])
      BY <1>2, <1>4, <1>5
    <3>2. ASSUME NEW j \in 1..ps[k], ~In!IsSpace(s[j]) PROVE In!InAlphabet(s[j])
      <4>1. j \in 1..Len(s) /\ j <= ps[k]
        BY <1>2, <1>5
      <4>2. PICK i \in 1..m : ps[i] = j
        BY <1>1, <1>4, <3>2, <4>1 DEF Told, Shown
      <4>3. i <= k
        BY <1>3, <1>5, <4>1, <4>2
      <4>4. i \in 1..n
        BY <4>3
      <4>5. QED BY <1>4, <1>5, <4>2, <4>4
    <3>3. QED BY <3>1, <3>2 DEF In!SextetPlaces
  <2>2. ASSUME NEW i \in P PROVE i \in First(n)
    <3>1. /\ i \in 1..Len(s) /\ SextetOf(s[i]) # InvalidSextet
          /\ \A j \in 1..i : SextetOf(s[j]) # InvalidSextet \/ IsSpace(s[j])
      BY <1>2, <1>4 DEF In!SextetPlaces
    <3>2. ~IsSpace(s[i])
      BY <3>1, SpaceNoSextet
    <3>3. PICK k \in 1..m : ps[k] = i
      BY <1>1, <3>1, <3>2 DEF Told, Shown
    <3>4. CASE k <= n
      <4>1. k \in 1..n
        BY <3>4
      <4>2. QED BY <3>3, <4>1
    <3>5. CASE ~(k <= n)
      <4>1. PICK e \in 1..m : e = n + 1 /\ n < m /\ e <= k
        BY <1>1, <3>5
      <4>2. SextetOf(s[ps[e]]) = InvalidSextet
        BY <1>1, <4>1 DEF Told
      <4>3. ps[e] <= i /\ ~IsSpace(s[ps[e]])
        BY <1>2, <1>3, <3>3, <4>1
      <4>4. ps[e] \in 1..i
        BY <1>2, <3>1, <4>3
      <4>5. QED BY <3>1, <4>2, <4>3, <4>4
    <3>6. QED BY <3>4, <3>5
  <2> HIDE DEF P
  <2>3. First(n) \subseteq P
    BY <2>1
  <2>4. P \subseteq First(n)
    BY <2>2, Zenon
  <2>5. QED BY <2>3, <2>4
<1>7. \A k \in 0..n : In!Cardinality(First(k)) = k
  <2>1. TAKE k \in 0..n
  <2> DEFINE f == [i \in 1..k |-> ps[i]]
  <2>2. \A i \in 1..k : i \in 1..m
    BY <1>1
  <2>3. \A i, j \in 1..k : ps[i] = ps[j] => i = j
    <3>1. SUFFICES ASSUME NEW i \in 1..k, NEW j \in 1..k, ps[i] = ps[j] PROVE i = j
      OBVIOUS
    <3>2. ps[i] <= ps[j] /\ ps[j] <= ps[i]
      BY <1>2, <2>2, <3>1
    <3>3. i <= j /\ j <= i
      BY <1>3, <2>2, <3>2
    <3>4. QED BY <3>3
  <2>4. f \in Bijection(1..k, First(k))
    BY <2>3 DEF Bijection, Injection, Surjection, IsInjective
  <2>5. ExistsBijection(1..k, First(k))
    BY <2>4 DEF ExistsBijection
  <2>6. k \in Nat
    OBVIOUS
  <2> HIDE DEF First
  <2>7. Cardinality(First(k)) = k
    BY <2>5, <2>6, FS_CountingElements
  <2>8. In!Cardinality(First(k)) = Cardinality(First(k))
    BY Zenon DEF In!Cardinality, Cardinality
  <2>9. QED BY <2>7, <2>8
<1>8. \A k \in 1..n : Upto(ps[k]) = First(k)
  <2>1. TAKE k \in 1..n
  <2>2. ASSUME NEW j \in First(k) PROVE j \in Upto(ps[k])
    <3>1. PICK i \in 1..k : j = ps[i]
      OBVIOUS
    <3>2. i \in 1..n /\ i <= k
      OBVIOUS
    <3>3. ps[i] <= ps[k]
      BY <1>3, <1>5, <3>2
    <3>4. j \in First(n)
      BY <3>1, <3>2
    <3> HIDE DEF First, P
    <3>5. QED BY <1>6, <3>1, <3>3, <3>4
  <2>3. ASSUME NEW j \in Upto(ps[k]) PROVE j \in First(k)
    <3>1. j \in P /\ j <= ps[k]
      <4> HIDE DEF P
      <4>1. QED OBVIOUS
    <3>2. j \in First(n)
      BY <1>6, <3>1, Zenon
    <3>3. PICK i \in 1..n : j = ps[i]
      BY <3>2
    <3>4. i <= k
      BY <1>3, <1>5, <3>1, <3>3
    <3>5. i \in 1..k
      BY <3>4
    <3>6. QED BY <3>3, <3>5
  <2> HIDE DEF Upto, First
  <2>4. QED BY <2>2, <2>3
<1> HIDE DEF P, First, Upto
<1>9. \A k \in 1..n : Nth(k) = ps[k]
  <2>1. TAKE k \in 1..n
  <2>2. ps[k] \in P
    BY <1>6 DEF First
  <2>3. k \in 0..n /\ In!Cardinality(Upto(ps[k])) = k
    BY <1>7, <1>8
  <2>4. ASSUME NEW i \in P, In!Cardinality(Upto(i)) = k PROVE i = ps[k]
    <3>1. PICK e \in 1..n : i = ps[e]
      BY <1>6 DEF First
    <3>2. e \in 0..n /\ In!Cardinality(Upto(i)) = e
      BY <1>7, <1>8, <3>1
    <3>3. QED BY <2>4, <3>1, <3>2
  <2>5. QED BY <2>2, <2>3, <2>4, Zenon
<1>10. In!Cardinality(P) = n
  <2>1. n \in 0..n
    OBVIOUS
  <2>2. QED BY <1>6, <1>7, <2>1
<1>11. In!SextetsOf(s) = [k \in 1..In!Cardinality(P) |-> In!SextetOf(s[Nth(k)])]
  BY Zenon DEF In!SextetsOf, P, Upto
<1>12. ss = [k \in 1..n |-> In!SextetOf(s[Nth(k)])]
  <2>1. ss = [k \in 1..n |-> ss[k]]
    BY <1>1, LenProperties DEF Told
  <2>2. \A k \in 1..n : ss[k] = In!SextetOf(s[Nth(k)])
    BY <1>4, <1>5, <1>9
  <2> HIDE DEF Nth
  <2>3. QED BY <2>1, <2>2
<1>13. QED BY <1>10, <1>11, <1>12

(* The octets of some sextets are those that the decoder makes.            *)
LEMMA OctetsOfTwelve ==
  ASSUME NEW x \in Sextet, NEW y \in Sextet
  PROVE  /\ ((x * 64 + y) \div 16) % 256 = FirstOf(x, y) /\ FirstOf(x, y) \in Octet
         /\ ((x * 64 + y) \div 4) % 256 = SecondOf(x, y) /\ SecondOf(x, y) \in Octet
         /\ ((x * 64 + y) \div 1) % 256 = ThirdOf(x, y) /\ ThirdOf(x, y) \in Octet
<1>1. x \in 0..63 /\ y \in 0..63
  BY DEF Sextet
<1>2. (x * 64 + y) \div 16 = FirstOf(x, y) /\ FirstOf(x, y) \in 0..255
  BY <1>1 DEF FirstOf
<1>3. (x * 64 + y) \div 4 = x * 16 + y \div 4 /\ x * 16 + y \div 4 \in Nat
  BY <1>1
<1>4. (x * 64 + y) \div 1 = x * 64 + y /\ x * 64 + y \in Nat
  BY <1>1
<1>5. \A v \in Nat : v % 256 \in 0..255 /\ (v \in 0..255 => v % 256 = v)
  OBVIOUS
<1>6. ((x * 64 + y) \div 16) % 256 = FirstOf(x, y)
  <2>1. FirstOf(x, y) \in Nat
    BY <1>2
  <2>2. QED BY <1>2, <1>5, <2>1
<1>7. ((x * 64 + y) \div 4) % 256 = SecondOf(x, y) /\ SecondOf(x, y) \in 0..255
  BY <1>3, <1>5 DEF SecondOf
<1>8. ((x * 64 + y) \div 1) % 256 = ThirdOf(x, y) /\ ThirdOf(x, y) \in 0..255
  BY <1>4, <1>5 DEF ThirdOf
<1>9. QED BY <1>2, <1>6, <1>7, <1>8 DEF Octet

LEMMA OctetsEncoded ==
  ASSUME NEW ss \in Seq(Sextet)
  PROVE  /\ In!OctetsOf(ss) \in Seq(Octet) /\ Encodes(ss, In!OctetsOf(ss))
         /\ Len(In!OctetsOf(ss)) = (Len(ss) * 6) \div 8
<1> DEFINE os == In!OctetsOf(ss)
           Twelve(bit) == ss[bit \div 6 + 1] * 64 + ss[bit \div 6 + 2]
           Behind(before) == CASE before = 0 -> 16 [] before = 2 -> 4 [] before = 4 -> 1
           Made(k) == (Twelve(8 * (k - 1)) \div Behind((8 * (k - 1)) % 6)) % 256
<1>1. PICK n, m \in Nat : n = Len(ss) /\ m = (n * 6) \div 8
  BY LenProperties
<1>2. os = [k \in 1..m |-> Made(k)]
  BY <1>1 DEF In!OctetsOf
<1> HIDE DEF os
<1>3. \A i \in 1..n : ss[i] \in Sextet
  BY <1>1, ElementOfSeq
<1>4. ASSUME NEW q \in Nat
      PROVE  /\ 4 * q + 2 <= n <=> 3 * q + 1 <= m
             /\ 4 * q + 3 <= n <=> 3 * q + 2 <= m
             /\ 4 * q + 4 <= n <=> 3 * q + 3 <= m
  BY <1>1
<1>5. ASSUME NEW q \in Nat, 4 * q + 2 <= n
      PROVE  /\ Made(3 * q + 1) = FirstOf(ss[4 * q + 1], ss[4 * q + 2])
             /\ Made(3 * q + 1) \in Octet
  <2>1. 8 * ((3 * q + 1) - 1) = 24 * q /\ (24 * q) \div 6 = 4 * q /\ (24 * q) % 6 = 0
    OBVIOUS
  <2>2. 4 * q + 1 \in 1..n /\ 4 * q + 2 \in 1..n
    BY <1>1, <1>5
  <2>3. Twelve(24 * q) = ss[4 * q + 1] * 64 + ss[4 * q + 2] /\ Behind((24 * q) % 6) = 16
    BY <2>1
  <2> HIDE DEF Twelve, Behind
  <2>4. Made(3 * q + 1) = ((ss[4 * q + 1] * 64 + ss[4 * q + 2]) \div 16) % 256
    BY <2>1, <2>3
  <2>5. QED BY <1>3, <2>2, <2>4, OctetsOfTwelve
<1>6. ASSUME NEW q \in Nat, 4 * q + 3 <= n
      PROVE  /\ Made(3 * q + 2) = SecondOf(ss[4 * q + 2], ss[4 * q + 3])
             /\ Made(3 * q + 2) \in Octet
  <2>1. /\ 8 * ((3 * q + 2) - 1) = 24 * q + 8
        /\ (24 * q + 8) \div 6 = 4 * q + 1 /\ (24 * q + 8) % 6 = 2
    OBVIOUS
  <2>2. 4 * q + 2 \in 1..n /\ 4 * q + 3 \in 1..n /\ (4 * q + 1) + 1 = 4 * q + 2
        /\ (4 * q + 1) + 2 = 4 * q + 3
    BY <1>1, <1>6
  <2>3. Twelve(24 * q + 8) = ss[4 * q + 2] * 64 + ss[4 * q + 3] /\ Behind((24 * q + 8) % 6) = 4
    <3>1. Twelve(24 * q + 8) = ss[(4 * q + 1) + 1] * 64 + ss[(4 * q + 1) + 2]
      BY <2>1, Zenon
    <3>2. Behind((24 * q + 8) % 6) = 4
      BY <2>1
    <3>3. QED BY <2>2, <3>1, <3>2
  <2> HIDE DEF Twelve, Behind
  <2>4. Made(3 * q + 2) = ((ss[4 * q + 2] * 64 + ss[4 * q + 3]) \div 4) % 256
    BY <2>1, <2>3
  <2>5. QED BY <1>3, <2>2, <2>4, OctetsOfTwelve
<1>7. ASSUME NEW q \in Nat, 4 * q + 4 <= n
      PROVE  /\ Made(3 * q + 3) = ThirdOf(ss[4 * q + 3], ss[4 * q + 4])
             /\ Made(3 * q + 3) \in Octet
  <2>1. /\ 8 * ((3 * q + 3) - 1) = 24 * q + 16
        /\ (24 * q + 16) \div 6 = 4 * q + 2 /\ (24 * q + 16) % 6 = 4
    OBVIOUS
  <2>2. 4 * q + 3 \in 1..n /\ 4 * q + 4 \in 1..n /\ (4 * q + 2) + 1 = 4 * q + 3
        /\ (4 * q + 2) + 2 = 4 * q + 4
    BY <1>1, <1>7
  <2>3. Twelve(24 * q + 16) = ss[4 * q + 3] * 64 + ss[4 * q + 4] /\ Behind((24 * q + 16) % 6) = 1
    <3>1. Twelve(24 * q + 16) = ss[(4 * q + 2) + 1] * 64 + ss[(4 * q + 2) + 2]
      BY <2>1, Zenon
    <3>2. Behind((24 * q + 16) % 6) = 1
      BY <2>1
    <3>3. QED BY <2>2, <3>1, <3>2
  <2> HIDE DEF Twelve, Behind
  <2>4. Made(3 * q + 3) = ((ss[4 * q + 3] * 64 + ss[4 * q + 4]) \div 1) % 256
    BY <2>1, <2>3
  <2>5. QED BY <1>3, <2>2, <2>4, OctetsOfTwelve
<1> HIDE DEF Made
<1>8. os \in Seq(Octet) /\ Len(os) = m /\ \A k \in 1..m : os[k] = Made(k)
  <2>1. ASSUME NEW k \in 1..m PROVE Made(k) \in Octet
    <3>1. PICK q \in Nat : k \in {3 * q + 1, 3 * q + 2, 3 * q + 3}
      <4>1. (k - 1) \div 3 \in Nat
        OBVIOUS
      <4>2. LET d == (k - 1) \div 3 IN k \in {3 * d + 1, 3 * d + 2, 3 * d + 3}
        OBVIOUS
      <4>3. QED BY <4>1, <4>2
    <3>2. CASE k = 3 * q + 1
      BY <1>4, <1>5, <3>2
    <3>3. CASE k = 3 * q + 2
      BY <1>4, <1>6, <3>3
    <3>4. CASE k = 3 * q + 3
      BY <1>4, <1>7, <3>4
    <3>5. QED BY <3>1, <3>2, <3>3, <3>4
  <2>2. QED BY <1>2, <2>1
<1>9. Encodes(ss, os)
  <2>1. SUFFICES ASSUME NEW q \in Nat
                 PROVE  /\ 4 * q + 2 <= n =>
                             3 * q + 1 <= m /\ FirstOf(ss[4 * q + 1], ss[4 * q + 2]) = os[3 * q + 1]
                        /\ 4 * q + 3 <= n =>
                             3 * q + 2 <= m /\ SecondOf(ss[4 * q + 2], ss[4 * q + 3]) = os[3 * q + 2]
                        /\ 4 * q + 4 <= n =>
                             3 * q + 3 <= m /\ ThirdOf(ss[4 * q + 3], ss[4 * q + 4]) = os[3 * q + 3]
    BY <1>1, <1>8 DEF Encodes
  <2>2. /\ 3 * q + 1 <= m => 3 * q + 1 \in 1..m
        /\ 3 * q + 2 <= m => 3 * q + 2 \in 1..m
        /\ 3 * q + 3 <= m => 3 * q + 3 \in 1..m
    OBVIOUS
  <2>3. QED BY <1>4, <1>5, <1>6, <1>7, <1>8, <2>2
<1>10. QED BY <1>1, <1>8, <1>9 DEF os

(* From any text, whoever wrote it, the octets that Base-64 has in it are  *)
(* read, in order, and all of them until a call comes back short           *)
(* (b64.h:81-90).                                                          *)
THEOREM AlwaysDecodesText == PipeSpec => []DecodesText
<1>1. PipeInit => ReadInv
  BY ReadStart
<1>2. ReadInv /\ [PipeNext]_pipe => ReadInv'
  BY ReadStep
<1>3. ReadInv => DecodesText
  <2>1. SUFFICES ASSUME ReadInv PROVE In!DecodesText
    BY DEF DecodesText
  <2> DEFINE os == In!OctetsOf(In!SextetsOf(text))
             n == IF ended = -1 THEN Len(got) ELSE ended
  <2>2. got \in Seq(Octet) /\ text \in Seq(Int)
    BY <2>1, SameTables DEF ReadInv, PipeTypeOK, In!TypeOK
  <2>3. PICK ps, ss : Told(text, ps, ss) /\ ss = In!SextetsOf(text)
    BY <2>2, EveryTextTold, SextetsTold
  <2>4. ss \in Seq(Sextet) /\ Len(ss) \in Nat
    BY <2>3, LenProperties DEF Told
  <2>5. os \in Seq(Octet) /\ Encodes(ss, os) /\ Len(os) = (Len(ss) * 6) \div 8
    BY <2>3, <2>4, OctetsEncoded
  <2> HIDE DEF os
  <2>6. Follows(ps, ss, os)
    BY <2>1, <2>3, <2>5 DEF ReadInv
  <2>7. n = Len(got) /\ SubSeq(got, 1, n) = got
    BY <2>2, <2>6 DEF Follows
  <2>8. IsPrefix(got, os)
    BY <2>2, <2>5, <2>6, PrefixByElements DEF Follows, Ahead, IsPrefix
  <2>9. ended # -1 => n = Len(os)
    <3>1. SUFFICES ASSUME AllRead(Len(ss)) PROVE Len(got) = Len(os)
      BY <2>6, <2>7 DEF Follows
    <3>2. QED BY <2>4, <2>5, <3>1 DEF AllRead
  <2>10. QED BY <2>7, <2>8, <2>9, Zenon DEF In!DecodesText, In!IsPrefix, IsPrefix, os
<1>4. QED BY <1>1, <1>2, <1>3, PTL DEF PipeSpec

=============================================================================
