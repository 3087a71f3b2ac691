----------------------------- MODULE ProofFacts -----------------------------
(***************************************************************************)
(* Facts of numbers, sequences, groups of octets and encoded headers that  *)
(* the proofs of several components use.                                   *)
(***************************************************************************)
EXTENDS OctetGroups, SequenceTheorems, WellFoundedInduction, TLAPS

(* A set of natural numbers that is not empty has a least element.  This   *)
(* is how the proofs make an induction: the induction theorems of the      *)
(* library take an operator, which no prover here can instantiate, but the *)
(* numbers for which a statement fails, if there is one, are a set.        *)
LEMMA LeastNatural ==
  ASSUME NEW T, T \subseteq Nat, T # {}
  PROVE  \E m \in T : \A k \in T : m <= k
<1> DEFINE R == {ss \in Nat \X Nat : ss[1] < ss[2]}
<1>1. IsWellFoundedOn(R, Nat)
  BY NatLessThanWellFounded, Zenon DEF OpToRel
<1>2. PICK m \in T : \A k \in T : <<k, m>> \notin R
  <2> HIDE DEF R
  <2>1. QED BY <1>1, WFMin
<1>3. ASSUME NEW k \in T PROVE m <= k
  <2> DEFINE p == <<k, m>>
  <2>1. p \in Nat \X Nat /\ p[1] = k /\ p[2] = m
    OBVIOUS
  <2>2. ~(p[1] < p[2])
    <3> HIDE DEF p
    <3>1. QED BY <1>2, <2>1, Zenon DEF p
  <2>3. k \in Nat /\ m \in Nat
    OBVIOUS
  <2>4. QED BY <2>1, <2>2, <2>3
<1>4. QED BY <1>3

-----------------------------------------------------------------------------
(* Concatenations may be grouped in any way.                               *)
LEMMA Regrouped ==
  \A S : \A s \in Seq(S), t \in Seq(S), u \in Seq(S) : (s \o t) \o u = s \o (t \o u)
<1>1. ASSUME NEW S, NEW s \in Seq(S), NEW t \in Seq(S), NEW u \in Seq(S)
      PROVE  (s \o t) \o u = s \o (t \o u)
  BY ConcatAssociative
<1>2. QED BY <1>1

(* A sequence with one more element.                                       *)
LEMMA AppendFacts ==
  ASSUME NEW S, NEW s \in Seq(S), NEW e \in S
  PROVE  /\ Append(s, e) \in Seq(S)
         /\ Len(s) \in Nat /\ Len(Append(s, e)) = Len(s) + 1
         /\ Append(s, e)[Len(s) + 1] = e
         /\ \A i \in 1..Len(s) : Append(s, e)[i] = s[i]
  BY AppendProperties

(* The end of a sequence, when one more element is appended.               *)
LEMMA SubSeqAppend ==
  ASSUME NEW S, NEW s \in Seq(S), NEW e \in S, NEW a \in 1..Len(s) + 1
  PROVE  /\ SubSeq(s, a, Len(s)) \in Seq(S)
         /\ Len(SubSeq(s, a, Len(s))) = Len(s) + 1 - a
         /\ SubSeq(Append(s, e), a, Len(s) + 1) = Append(SubSeq(s, a, Len(s)), e)
<1> DEFINE n == Len(s)
           x == Append(s, e)
<1>1. /\ n \in Nat /\ x \in Seq(S) /\ Len(x) = n + 1 /\ x[n + 1] = e
      /\ \A i \in 1..n : x[i] = s[i] /\ s[i] \in S
      /\ \A i \in 1..n + 1 : x[i] \in S
  BY AppendProperties, LenProperties, ElementOfSeq
<1> HIDE DEF n, x
<1>2. /\ SubSeq(s, a, n) \in Seq(S) /\ Len(SubSeq(s, a, n)) = n + 1 - a
      /\ \A i \in 1..n + 1 - a : SubSeq(s, a, n)[i] = s[a + i - 1]
  <2>1. a \in Int /\ \A i \in a..n : s[i] \in S
    BY <1>1 DEF n
  <2>2. /\ SubSeq(s, a, n) \in Seq(S)
        /\ Len(SubSeq(s, a, n)) = IF a <= n THEN n - a + 1 ELSE 0
        /\ \A i \in 1..n - a + 1 : SubSeq(s, a, n)[i] = s[a + i - 1]
    BY <1>1, <2>1, SubSeqProperties
  <2>3. n - a + 1 = n + 1 - a /\ (~(a <= n) => n + 1 - a = 0)
    BY <1>1, <2>1 DEF n
  <2>4. QED BY <2>2, <2>3
<1>3. /\ SubSeq(x, a, n + 1) \in Seq(S) /\ Len(SubSeq(x, a, n + 1)) = n + 2 - a
      /\ \A i \in 1..n + 2 - a : SubSeq(x, a, n + 1)[i] = x[a + i - 1]
  <2>1. a \in Int /\ a <= n + 1 /\ \A i \in a..n + 1 : x[i] \in S
    BY <1>1 DEF n
  <2>2. /\ SubSeq(x, a, n + 1) \in Seq(S)
        /\ Len(SubSeq(x, a, n + 1)) = IF a <= n + 1 THEN (n + 1) - a + 1 ELSE 0
        /\ \A i \in 1..(n + 1) - a + 1 : SubSeq(x, a, n + 1)[i] = x[a + i - 1]
    BY <1>1, <2>1, SubSeqProperties
  <2>3. (n + 1) - a + 1 = n + 2 - a
    BY <1>1, <2>1
  <2>4. QED BY <2>1, <2>2, <2>3
<1> DEFINE t == SubSeq(s, a, n)
           u == SubSeq(x, a, n + 1)
           v == Append(t, e)
<1> HIDE DEF t, u, v
<1>4. /\ v \in Seq(S) /\ Len(v) = n + 2 - a /\ v[n + 2 - a] = e
      /\ \A i \in 1..n + 1 - a : v[i] = s[a + i - 1]
  <2>1. t \in Seq(S) /\ Len(t) = n + 1 - a /\ (n + 1 - a) + 1 = n + 2 - a
    BY <1>1, <1>2 DEF t, n
  <2>2. /\ v \in Seq(S) /\ Len(v) = (n + 1 - a) + 1 /\ v[(n + 1 - a) + 1] = e
        /\ \A i \in 1..n + 1 - a : v[i] = t[i]
    BY <2>1, AppendProperties DEF v
  <2>3. QED BY <1>2, <2>1, <2>2 DEF t
<1>5. ASSUME NEW i \in 1..n + 2 - a PROVE u[i] = v[i]
  <2>1. CASE i = n + 2 - a
    <3>1. a + i - 1 = n + 1
      BY <1>1, <2>1 DEF n
    <3>2. QED BY <1>1, <1>3, <1>4, <2>1, <3>1 DEF u
  <2>2. CASE i # n + 2 - a
    <3>1. i \in 1..n + 1 - a /\ a + i - 1 \in 1..n
      BY <1>1, <2>2 DEF n
    <3>2. QED BY <1>1, <1>3, <1>4, <3>1 DEF u
  <2>3. QED BY <2>1, <2>2
<1>6. u = v
  BY <1>3, <1>4, <1>5, SeqEqual DEF u
<1>7. QED BY <1>2, <1>6 DEF n, x, t, u, v

(* An element that is appended leaves what came before it.                 *)
LEMMA SubSeqOfAppend ==
  ASSUME NEW S, NEW s \in Seq(S), NEW e \in S, NEW b \in 0..Len(s), NEW a \in 1..b + 1
  PROVE  SubSeq(Append(s, e), a, b) = SubSeq(s, a, b)
<1>1. CASE b = 0 \/ a = b + 1
  BY <1>1, SubSeqEmpty, LenProperties
<1>2. CASE b # 0 /\ a # b + 1
  <2>1. Append(s, e) = s \o <<e>> /\ <<e>> \in Seq(S) /\ Len(s) \in Nat
    BY AppendIsConcat, LenProperties
  <2>2. a \in 1..Len(s) /\ b \in 1..Len(s)
    BY <1>2, <2>1
  <2>3. QED BY <2>1, <2>2, SubSeqOfConcat1
<1>3. QED BY <1>1, <1>2

(* The end of a sequence from its mth element on.                          *)
LEMMA SubSeqToEnd ==
  ASSUME NEW S, NEW s \in Seq(S), NEW m \in 1..Len(s)
  PROVE  /\ Len(SubSeq(s, m, Len(s))) = Len(s) + 1 - m
         /\ SubSeq(s, m, Len(s))[1] = s[m]
         /\ Tail(SubSeq(s, m, Len(s))) = SubSeq(s, m + 1, Len(s))
<1>1. Len(s) \in Nat /\ m \in Int /\ Len(s) \in m..Len(s) /\ \A i \in m..Len(s) : s[i] \in S
  BY LenProperties, ElementOfSeq
<1>2. Tail(SubSeq(s, m, Len(s))) = SubSeq(s, m + 1, Len(s))
  BY <1>1, HeadTailOfSubSeq
<1> DEFINE n == Len(s)
           t == SubSeq(s, m, n)
<1>3. /\ Len(t) = IF m <= n THEN n - m + 1 ELSE 0
      /\ \A i \in 1..n - m + 1 : t[i] = s[m + i - 1]
  BY <1>1, SubSeqProperties
<1> HIDE DEF t
<1>4. m <= n /\ n - m + 1 = n + 1 - m /\ 1 \in 1..n - m + 1 /\ m + 1 - 1 = m
  BY <1>1
<1>5. QED BY <1>2, <1>3, <1>4 DEF t

(* A sequence that begins another one.                                     *)
LEMMA PrefixByElements ==
  ASSUME NEW S, NEW s \in Seq(S), NEW t \in Seq(S), Len(s) <= Len(t),
         \A k \in 1..Len(s) : s[k] = t[k]
  PROVE  SubSeq(s, 1, Len(s)) = SubSeq(t, 1, Len(s))
<1>1. PICK n \in Nat : n = Len(s)
  BY LenProperties
<1>2. n <= Len(t) /\ Len(t) \in Nat
  BY <1>1, LenProperties
<1>3. \A j \in 1..n : s[j] \in S /\ t[j] \in S
  <2>1. TAKE j \in 1..n
  <2>2. j \in 1..Len(s) /\ j \in 1..Len(t)
    BY <1>1, <1>2
  <2>3. QED BY <2>2, ElementOfSeq
<1>4. /\ SubSeq(s, 1, n) \in Seq(S) /\ SubSeq(t, 1, n) \in Seq(S)
      /\ Len(SubSeq(s, 1, n)) = IF 1 <= n THEN n - 1 + 1 ELSE 0
      /\ Len(SubSeq(t, 1, n)) = IF 1 <= n THEN n - 1 + 1 ELSE 0
      /\ \A j \in 1..n - 1 + 1 : /\ SubSeq(s, 1, n)[j] = s[1 + j - 1]
                                 /\ SubSeq(t, 1, n)[j] = t[1 + j - 1]
  BY <1>1, <1>3, SubSeqProperties
<1>5. n - 1 + 1 = n /\ \A j \in 1..n : 1 + j - 1 = j
  BY <1>1
<1>6. Len(SubSeq(s, 1, n)) = n /\ Len(SubSeq(t, 1, n)) = n
  BY <1>1, <1>4, <1>5
<1>7. \A j \in 1..n : SubSeq(s, 1, n)[j] = SubSeq(t, 1, n)[j]
  BY <1>1, <1>4, <1>5
<1>8. SubSeq(s, 1, n) = SubSeq(t, 1, n)
  BY <1>4, <1>6, <1>7, SeqEqual
<1>9. QED BY <1>1, <1>8

(* A part of a sequence.                                                   *)
LEMMA SubSeqFacts ==
  ASSUME NEW S, NEW s \in Seq(S), NEW b \in 0..Len(s), NEW a \in 1..b + 1
  PROVE  /\ SubSeq(s, a, b) \in Seq(S) /\ Len(SubSeq(s, a, b)) = b + 1 - a
         /\ \A i \in 1..b + 1 - a : SubSeq(s, a, b)[i] = s[a + i - 1]
<1>1. Len(s) \in Nat /\ a \in Int /\ b \in Int /\ \A i \in a..b : s[i] \in S
  <2>1. Len(s) \in Nat /\ \A i \in 1..Len(s) : s[i] \in S
    BY LenProperties, ElementOfSeq
  <2>2. QED BY <2>1
<1>2. /\ SubSeq(s, a, b) \in Seq(S)
      /\ Len(SubSeq(s, a, b)) = IF a <= b THEN b - a + 1 ELSE 0
      /\ \A i \in 1..b - a + 1 : SubSeq(s, a, b)[i] = s[a + i - 1]
  BY <1>1, SubSeqProperties
<1>3. b - a + 1 = b + 1 - a /\ (~(a <= b) => b + 1 - a = 0)
  BY <1>1
<1>4. QED BY <1>2, <1>3

-----------------------------------------------------------------------------
(* A function that is defined by its value for a smaller number exists.    *)
Recursion(f, Z, z, step, down) ==
  \A x \in Nat : f[x] = IF x \in Z THEN z ELSE step[<<x, f[down[x]]>>]

LEMMA DescendingRecursion ==
  ASSUME NEW V, NEW Z, 0 \in Z, NEW z \in V, NEW step \in [Nat \X V -> V],
         NEW down \in [Nat -> Nat], \A x \in Nat \ {0} : down[x] < x
  PROVE  \E f \in [Nat -> V] : Recursion(f, Z, z, step, down)
<1> DEFINE Def(g, x) == IF x \in Z THEN z ELSE step[<<x, g[down[x]]>>]
           Solves(g, k) == g \in [0..k -> V] /\ \A x \in 0..k : g[x] = Def(g, x)
           T == {k \in Nat : ~ \E g : Solves(g, k)}
           A(x) == CHOOSE g : Solves(g, x)
           f == [x \in Nat |-> A(x)[x]]
<1> HIDE DEF f, A, T, Solves, Def
<1>1. ASSUME NEW x \in Nat, x # 0 PROVE down[x] \in 0..x - 1
  <2>1. x \in Nat \ {0} /\ down[x] \in Nat
    BY <1>1
  <2>2. down[x] < x
    BY <2>1
  <2>3. QED BY <2>1, <2>2
<1>2. T = {}
  <2>1. SUFFICES ASSUME T # {} PROVE FALSE
    OBVIOUS
  <2>2. PICK m \in T : \A k \in T : m <= k
    <3>1. T \subseteq Nat
      BY DEF T
    <3>2. QED BY <2>1, <3>1, LeastNatural
  <2>3. m \in Nat /\ m # 0
    <3>1. Solves([x \in 0..0 |-> z], 0)
      BY DEF Solves, Def
    <3>2. QED BY <3>1 DEF T
  <2>4. PICK g : Solves(g, m - 1)
    <3>1. m - 1 \in Nat /\ ~(m <= m - 1)
      BY <2>3
    <3>2. m - 1 \notin T
      BY <2>2, <3>1
    <3>3. QED BY <3>1, <3>2 DEF T
  <2> DEFINE h == [x \in 0..m |-> IF x = m THEN Def(g, m) ELSE g[x]]
  <2>5. Def(g, m) \in V
    <3>1. g[down[m]] \in V
      BY <1>1, <2>3, <2>4 DEF Solves
    <3>2. <<m, g[down[m]]>> \in Nat \X V
      BY <2>3, <3>1
    <3>3. QED BY <3>2 DEF Def
  <2>6. h \in [0..m -> V]
    BY <2>3, <2>4, <2>5 DEF Solves
  <2>7. ASSUME NEW x \in 0..m PROVE h[x] = Def(h, x)
    <3>1. CASE x = 0
      <4>1. x \in 0..m - 1 /\ x # m
        BY <2>3, <3>1
      <4>2. h[x] = g[x] /\ g[x] = Def(g, x)
        BY <2>4, <4>1 DEF Solves
      <4> HIDE DEF h
      <4>3. QED BY <3>1, <4>2 DEF Def
    <3>2. CASE x # 0
      <4>1. down[x] \in 0..m /\ down[x] # m
        BY <1>1, <2>3, <3>2
      <4>2. h[down[x]] = g[down[x]]
        BY <4>1
      <4>3. Def(h, x) = Def(g, x)
        <5> HIDE DEF h
        <5>1. QED BY <4>2 DEF Def
      <4>4. h[x] = Def(g, x)
        BY <2>3, <2>4 DEF Solves
      <4>5. QED BY <4>3, <4>4
    <3>3. QED BY <3>1, <3>2
  <2>8. Solves(h, m)
    <3> HIDE DEF h
    <3>1. QED BY <2>6, <2>7 DEF Solves
  <2>9. QED BY <2>2, <2>8 DEF T
<1>3. ASSUME NEW x \in Nat PROVE Solves(A(x), x)
  <2>1. \E g : Solves(g, x)
    BY <1>2 DEF T
  <2>2. QED BY <2>1 DEF A
<1>4. ASSUME NEW x \in Nat, NEW y \in 0..x PROVE A(x)[y] = A(y)[y]
  <2> DEFINE U == {i \in 0..y : A(x)[i] # A(y)[i]}
  <2>1. SUFFICES ASSUME U # {} PROVE FALSE
    OBVIOUS
  <2>2. PICK m \in U : \A i \in U : m <= i
    <3>1. U \subseteq Nat
      OBVIOUS
    <3> HIDE DEF U
    <3>2. QED BY <2>1, <3>1, LeastNatural
  <2> DEFINE g == A(x)
             h == A(y)
  <2>3. Solves(g, x) /\ Solves(h, y) /\ m \in 0..y /\ m \in 0..x /\ m \in Nat
    BY <1>3
  <2>4. g[m] # h[m] /\ \A i \in 0..m - 1 : g[i] = h[i]
    <3>1. \A i \in 0..m - 1 : i \in 0..y /\ ~(m <= i)
      BY <2>3
    <3>2. QED BY <2>2, <3>1
  <2> HIDE DEF g, h, U
  <2>5. g[m] = Def(g, m) /\ h[m] = Def(h, m)
    BY <2>3 DEF Solves
  <2>6. CASE m = 0
    BY <2>4, <2>5, <2>6 DEF Def
  <2>7. CASE m # 0
    <3>1. down[m] \in 0..m - 1
      BY <1>1, <2>3, <2>7
    <3>2. g[down[m]] = h[down[m]]
      BY <2>4, <3>1
    <3>3. QED BY <2>4, <2>5, <3>2 DEF Def
  <2>8. QED BY <2>6, <2>7
<1>5. f \in [Nat -> V]
  <2>1. ASSUME NEW x \in Nat PROVE A(x)[x] \in V
    <3>1. Solves(A(x), x)
      BY <1>3
    <3>2. QED BY <3>1 DEF Solves
  <2>2. QED BY <2>1 DEF f
<1>6. ASSUME NEW x \in Nat PROVE f[x] = Def(f, x)
  <2> DEFINE g == A(x)
  <2>1. Solves(g, x) /\ f[x] = g[x]
    BY <1>3 DEF f
  <2>2. x # 0 => g[down[x]] = f[down[x]]
    <3>1. HAVE x # 0
    <3>2. down[x] \in 0..x /\ down[x] \in Nat
      BY <3>1
    <3>3. A(x)[down[x]] = A(down[x])[down[x]]
      BY <1>4, <3>2
    <3>4. QED BY <3>2, <3>3 DEF f
  <2> HIDE DEF g
  <2>3. g[x] = Def(g, x)
    BY <2>1 DEF Solves
  <2>4. QED BY <2>1, <2>2, <2>3 DEF Def
<1>7. QED BY <1>5, <1>6 DEF Def, Recursion

-----------------------------------------------------------------------------
(* What the operators of OctetGroups compute on sequences of any length:   *)
(* the number that digits stand for grows by one digit as the accumulators *)
(* of the code do.  Value is recursive, so these are proofs by induction   *)
(* (LeastNatural).                                                         *)

(* The recursion of Value has a solution, whatever the digits.              *)
LEMMA DigitsDefined ==
  ASSUME NEW base \in Nat, NEW n \in Nat, NEW ds \in [1..n -> Nat]
  PROVE  \E g : g = [i \in 0..n |-> IF i = 0 THEN 0 ELSE g[i - 1] * base + ds[i]]
<1> DEFINE Def(g, i) == IF i = 0 THEN 0 ELSE g[i - 1] * base + ds[i]
           Solves(g, k) == g = [i \in 0..k |-> Def(g, i)]
           T == {k \in 0..n : ~ \E g : Solves(g, k)}
<1>1. SUFFICES ASSUME T # {} PROVE FALSE
  <2>1. n \in 0..n
    OBVIOUS
  <2>2. QED BY <2>1, Zenon
<1>2. PICK m \in T : \A k \in T : m <= k
  <2>1. T \subseteq Nat
    OBVIOUS
  <2> HIDE DEF T
  <2>2. QED BY <1>1, <2>1, LeastNatural
<1>3. m # 0
  <2>1. Solves([i \in 0..0 |-> 0], 0)
    OBVIOUS
  <2>2. QED BY <2>1
<1>4. PICK g : Solves(g, m - 1)
  <2>1. m - 1 \in 0..n /\ ~(m <= m - 1)
    BY <1>3
  <2>2. m - 1 \notin T
    BY <1>2, <2>1
  <2>3. QED BY <2>1, <2>2, Zenon
<1> DEFINE h == [i \in 0..m |-> IF i = m THEN g[m - 1] * base + ds[m] ELSE g[i]]
<1>5. Solves(h, m)
  BY <1>3, <1>4, SMTT(30)
<1>6. QED BY <1>5, <1>2

(* Value is what its recursive definition says.                            *)
LEMMA ValueDef ==
  ASSUME NEW base \in Nat, NEW ds \in Seq(Nat)
  PROVE  \E g : /\ Value(base, ds) = g[Len(ds)]
                /\ g = [i \in 0..Len(ds) |-> IF i = 0 THEN 0 ELSE g[i - 1] * base + ds[i]]
<1>1. ds \in [1..Len(ds) -> Nat] /\ Len(ds) \in Nat
  OBVIOUS
<1>2. \E g : g = [i \in 0..Len(ds) |-> IF i = 0 THEN 0 ELSE g[i - 1] * base + ds[i]]
  BY <1>1, DigitsDefined
<1> DEFINE v == CHOOSE g : g = [i \in 0..Len(ds) |-> IF i = 0 THEN 0 ELSE g[i - 1] * base + ds[i]]
<1>3. v = [i \in 0..Len(ds) |-> IF i = 0 THEN 0 ELSE v[i - 1] * base + ds[i]]
  BY <1>2, Zenon
<1>4. Value(base, ds) = v[Len(ds)]
  BY DEF Value
<1>5. QED BY <1>3, <1>4

(* One more digit multiplies the value by the base and is added to it.     *)
LEMMA ValueStep ==
  ASSUME NEW base \in Nat, NEW ds \in Seq(Nat), NEW d \in Nat
  PROVE  /\ Value(base, ds) \in Nat
         /\ Value(base, Append(ds, d)) = Value(base, ds) * base + d
<1> DEFINE n == Len(ds)
           es == Append(ds, d)
<1>1. /\ n \in Nat /\ Len(es) = n + 1 /\ es \in Seq(Nat)
      /\ es[n + 1] = d /\ \A i \in 1..n : es[i] = ds[i] /\ ds[i] \in Nat
  BY AppendProperties, LenProperties, ElementOfSeq
<1>2. PICK g : /\ Value(base, ds) = g[n]
               /\ g = [i \in 0..n |-> IF i = 0 THEN 0 ELSE g[i - 1] * base + ds[i]]
  BY ValueDef
<1>3. PICK h : /\ Value(base, es) = h[n + 1]
               /\ h = [i \in 0..n + 1 |-> IF i = 0 THEN 0 ELSE h[i - 1] * base + es[i]]
  BY <1>1, ValueDef
<1> HIDE DEF n, es
<1>4. \A i \in 0..n : g[i] = IF i = 0 THEN 0 ELSE g[i - 1] * base + ds[i]
  BY <1>2
<1>5. \A i \in 0..n + 1 : h[i] = IF i = 0 THEN 0 ELSE h[i - 1] * base + es[i]
  BY <1>3
<1>6. \A i \in 0..n : g[i] \in Nat /\ h[i] = g[i]
  <2> DEFINE T == {i \in 0..n : ~(g[i] \in Nat /\ h[i] = g[i])}
  <2>1. SUFFICES ASSUME T # {} PROVE FALSE
    OBVIOUS
  <2>2. PICK m \in T : \A k \in T : m <= k
    <3>1. T \subseteq Nat
      BY <1>1
    <3> HIDE DEF T
    <3>2. QED BY <2>1, <3>1, LeastNatural
  <2>3. m # 0
    BY <1>1, <1>4, <1>5
  <2>4. m - 1 \in 0..n /\ m \in 1..n /\ ~(m <= m - 1)
    BY <1>1, <2>3
  <2>5. g[m - 1] \in Nat /\ h[m - 1] = g[m - 1]
    BY <2>2, <2>4
  <2>6. g[m] = g[m - 1] * base + ds[m] /\ h[m] = h[m - 1] * base + es[m] /\ es[m] = ds[m]
    BY <1>1, <1>4, <1>5, <2>3, <2>4, SMTT(30)
  <2>7. ds[m] \in Nat
    BY <1>1, <2>4
  <2>8. g[m] \in Nat /\ h[m] = g[m]
    <3>1. \A a, b, c \in Nat : a * b + c \in Nat
      OBVIOUS
    <3>2. QED BY <2>5, <2>6, <2>7, <3>1, Zenon
  <2>9. QED BY <2>8
<1>7. n \in 0..n /\ n + 1 \in 0..n + 1 /\ n + 1 # 0 /\ n + 1 - 1 = n
  BY <1>1
<1>8. h[n + 1] = h[n] * base + d
  BY <1>1, <1>5, <1>7
<1>9. QED BY <1>2, <1>3, <1>6, <1>7, <1>8 DEF n, es

(* No digits stand for zero.                                               *)
LEMMA ValueEmpty ==
  ASSUME NEW base \in Nat
  PROVE  Value(base, << >>) = 0
<1> DEFINE ds == << >>
<1>1. ds \in Seq(Nat) /\ Len(ds) = 0
  OBVIOUS
<1> HIDE DEF ds
<1>2. PICK g : /\ Value(base, ds) = g[Len(ds)]
               /\ g = [i \in 0..Len(ds) |-> IF i = 0 THEN 0 ELSE g[i - 1] * base + ds[i]]
  BY <1>1, ValueDef
<1>3. Value(base, ds) = 0
  BY <1>1, <1>2
<1>4. QED BY <1>3 DEF ds

(* One digit stands for itself.                                            *)
LEMMA ValueSingle ==
  ASSUME NEW base \in Nat, NEW d \in Nat
  PROVE  Value(base, <<d>>) = d
<1>1. <<d>> = Append(<< >>, d) /\ << >> \in Seq(Nat)
  OBVIOUS
<1>2. Value(base, <<d>>) = 0 * base + d
  BY <1>1, ValueStep, ValueEmpty
<1>3. QED BY <1>2

(* The number of the first digits, with a zero for each digit that is left *)
(* out, is no greater than the whole number.                               *)
LEMMA ValueOfPrefix ==
  ASSUME NEW base \in Nat \ {0}, NEW ds \in Seq(Nat), NEW k \in 0..Len(ds)
  PROVE  /\ Value(base, SubSeq(ds, 1, k)) \in Nat
         /\ Value(base, SubSeq(ds, 1, k)) <= Value(base, ds)
         /\ k < Len(ds) => Value(base, SubSeq(ds, 1, k)) * base <= Value(base, ds)
<1> DEFINE n == Len(ds)
           V(i) == Value(base, SubSeq(ds, 1, i))
           T == {i \in k..n : ~(V(k) <= V(i) /\ (k < i => V(k) * base <= V(i)))}
<1>1. n \in Nat /\ k \in Nat /\ k <= n /\ SubSeq(ds, 1, n) = ds
  BY LenProperties, SubSeqFull
<1>2. ASSUME NEW i \in 0..n PROVE V(i) \in Nat
  <2>1. SubSeq(ds, 1, i) \in Seq(Nat)
    BY <1>1, SubSeqFacts
  <2>2. QED BY <2>1, ValueStep
<1>3. ASSUME NEW i \in 0..n - 1 PROVE \E d \in Nat : V(i + 1) = V(i) * base + d
  <2>1. i + 1 \in 1..n /\ 1 \in 1..n /\ i + 1 \in 1..i + 1 /\ (i + 1) - 1 = i
    BY <1>1
  <2>2. PICK d \in Nat : d = ds[i + 1]
    BY <2>1, ElementOfSeq
  <2>3. SubSeq(ds, 1, i) \in Seq(Nat)
    BY <1>1, SubSeqFacts
  <2>4. SubSeq(ds, 1, i + 1) = SubSeq(ds, 1, i) \o <<d>>
    BY <2>1, <2>2, SubSeqRecursiveSecond
  <2>5. SubSeq(ds, 1, i) \o <<d>> = Append(SubSeq(ds, 1, i), d)
    BY <2>3, AppendIsConcat
  <2> DEFINE s == SubSeq(ds, 1, i)
  <2>6. s \in Seq(Nat) /\ V(i + 1) = Value(base, Append(s, d))
    BY <2>3, <2>4, <2>5
  <2> HIDE DEF s
  <2>7. Value(base, Append(s, d)) = Value(base, s) * base + d
    BY <2>6, ValueStep
  <2>8. QED BY <2>6, <2>7 DEF s
<1> HIDE DEF V
<1>4. T = {}
  <2>1. SUFFICES ASSUME T # {} PROVE FALSE
    OBVIOUS
  <2>2. PICK m \in T : \A i \in T : m <= i
    <3>1. T \subseteq Nat
      BY <1>1
    <3> HIDE DEF T
    <3>2. QED BY <2>1, <3>1, LeastNatural
  <2>3. V(k) \in Nat /\ m \in k..n
    BY <1>1, <1>2
  <2>4. m # k
    BY <1>1, <2>3
  <2>5. m - 1 \in k..n /\ m - 1 \in 0..n - 1 /\ ~(m <= m - 1) /\ (m - 1) + 1 = m
    BY <1>1, <2>3, <2>4
  <2>6. V(k) <= V(m - 1)
    BY <2>2, <2>5
  <2>7. PICK d \in Nat : V(m) = V(m - 1) * base + d
    BY <1>3, <2>5
  <2>8. V(m - 1) \in Nat
    BY <1>1, <1>2, <2>5
  <2>9. \A a, b, c \in Nat : a <= b => a * base <= b * base + c /\ b <= b * base + c
    <3>1. ASSUME NEW a \in Nat, NEW b \in Nat, a <= b PROVE a * base <= b * base
      BY <3>1
    <3>2. ASSUME NEW b \in Nat PROVE b <= b * base
      OBVIOUS
    <3>3. ASSUME NEW a \in Nat, NEW b \in Nat, NEW c \in Nat, a <= b
          PROVE  a * base <= b * base + c /\ b <= b * base + c
      <4>1. a * base <= b * base /\ b <= b * base /\ a * base \in Nat /\ b * base \in Nat
        BY <3>1, <3>2, <3>3
      <4>2. QED BY <4>1
    <3>4. QED BY <3>3
  <2>10. V(k) * base <= V(m) /\ V(m - 1) <= V(m)
    BY <2>3, <2>6, <2>7, <2>8, <2>9
  <2>11. V(m) \in Nat
    BY <1>1, <1>2, <2>3
  <2>12. V(k) <= V(m)
    BY <2>3, <2>6, <2>8, <2>10, <2>11
  <2>13. QED BY <2>10, <2>12
<1>5. n \in k..n
  BY <1>1
<1>6. V(k) <= V(n) /\ (k < n => V(k) * base <= V(n))
  BY <1>4, <1>5
<1>7. V(k) \in Nat
  BY <1>1, <1>2
<1>8. V(n) = Value(base, ds)
  BY <1>1 DEF V
<1>9. QED BY <1>6, <1>7, <1>8 DEF V

(* One more octet is one more group of seven bits.                         *)
LEMMA GroupsAppend ==
  ASSUME NEW os \in Seq(Octet), NEW o \in Octet
  PROVE  /\ Groups(os) \in Seq(Nat) /\ Len(Groups(os)) = Len(os)
         /\ Low7(o) \in Nat
         /\ Groups(Append(os, o)) = Append(Groups(os), Low7(o))
<1>1. \A x \in Octet : Low7(x) \in Nat
  BY DEF Octet, Low7
<1>2. \A s \in Seq(Octet) : Groups(s) \in Seq(Nat) /\ Len(Groups(s)) = Len(s)
                            /\ \A i \in 1..Len(s) : Groups(s)[i] = Low7(s[i])
  BY <1>1 DEF Groups
<1>3. /\ Append(os, o) \in Seq(Octet) /\ Len(Append(os, o)) = Len(os) + 1
      /\ Append(os, o)[Len(os) + 1] = o
      /\ \A i \in 1..Len(os) : Append(os, o)[i] = os[i]
      /\ Len(os) \in Nat
  BY AppendProperties, LenProperties
<1> DEFINE s == Groups(Append(os, o))
           t == Append(Groups(os), Low7(o))
<1>4. /\ t \in Seq(Nat) /\ Len(t) = Len(os) + 1 /\ t[Len(os) + 1] = Low7(o)
      /\ \A i \in 1..Len(os) : t[i] = Low7(os[i])
  BY <1>1, <1>2, AppendProperties
<1>5. /\ s \in Seq(Nat) /\ Len(s) = Len(os) + 1
      /\ \A i \in 1..Len(os) + 1 : s[i] = t[i]
  <2>1. /\ s \in Seq(Nat) /\ Len(s) = Len(os) + 1
        /\ \A i \in 1..Len(os) + 1 : s[i] = Low7(Append(os, o)[i])
    BY <1>2, <1>3
  <2> HIDE DEF s, t
  <2>2. ASSUME NEW i \in 1..Len(os) + 1 PROVE s[i] = t[i]
    <3>1. CASE i = Len(os) + 1
      BY <1>3, <1>4, <2>1, <3>1
    <3>2. CASE i # Len(os) + 1
      <4>1. i \in 1..Len(os)
        BY <1>3, <3>2
      <4>2. QED BY <1>3, <1>4, <2>1, <4>1
    <3>3. QED BY <3>1, <3>2
  <2>3. QED BY <2>1, <2>2
<1>6. s = t
  <2> HIDE DEF s, t
  <2>1. QED BY <1>4, <1>5, SeqEqual
<1>7. QED BY <1>1, <1>2, <1>6

(* Octets are digits of the base 256.                                      *)
LEMMA OctetsAreNumbers ==
  ASSUME NEW os \in Seq(Octet)
  PROVE  os \in Seq(Nat)
<1>1. Octet \subseteq Nat
  BY DEF Octet
<1>2. QED BY <1>1, SeqMonotonic

(* One more octet multiplies the number by 256 and is added to it.         *)
LEMMA OctetsAppend ==
  ASSUME NEW os \in Seq(Octet), NEW o \in Octet
  PROVE  /\ Append(os, o) \in Seq(Octet)
         /\ Len(os) \in Nat /\ Len(Append(os, o)) = Len(os) + 1
         /\ Value(256, os) \in Nat
         /\ Value(256, Append(os, o)) = Value(256, os) * 256 + o
<1>1. os \in Seq(Nat) /\ o \in Nat
  BY OctetsAreNumbers DEF Octet
<1>2. PICK b \in Nat : b = 256
  OBVIOUS
<1>3. Value(b, os) \in Nat /\ Value(b, Append(os, o)) = Value(b, os) * b + o
  BY <1>1, ValueStep
<1>4. Value(256, os) \in Nat /\ Value(256, Append(os, o)) = Value(256, os) * 256 + o
  BY <1>2, <1>3, Zenon
<1>5. /\ Append(os, o) \in Seq(Octet)
      /\ Len(os) \in Nat /\ Len(Append(os, o)) = Len(os) + 1
  BY AppendProperties, LenProperties
<1>6. QED BY <1>4, <1>5

-----------------------------------------------------------------------------
(* One more bit doubles the greatest number and adds one.                  *)
LEMMA AllOnesStep ==
  ASSUME NEW n \in Nat
  PROVE  AllOnes(n) \in Nat /\ AllOnes(n + 1) = 2 * AllOnes(n) + 1
<1> DEFINE s == [i \in 1..n |-> 1]
           t == [i \in 1..n + 1 |-> 1]
<1>1. /\ s \in Seq(Nat) /\ Len(s) = n /\ \A i \in 1..n : s[i] = 1
      /\ t \in Seq(Nat) /\ Len(t) = n + 1 /\ \A i \in 1..n + 1 : t[i] = 1
  OBVIOUS
<1> DEFINE u == Append(s, 1)
<1> HIDE DEF s, t
<1>2. /\ u \in Seq(Nat) /\ Len(u) = n + 1 /\ u[n + 1] = 1
      /\ \A i \in 1..n : u[i] = 1
  <2>1. 1 \in Nat
    OBVIOUS
  <2>2. /\ u \in Seq(Nat) /\ Len(u) = Len(s) + 1 /\ u[Len(s) + 1] = 1
        /\ \A i \in 1..Len(s) : u[i] = s[i]
    BY <1>1, <2>1, AppendProperties
  <2> HIDE DEF u
  <2>3. QED BY <1>1, <2>2
<1> HIDE DEF u
<1>3. t = u
  <2>1. \A i \in 1..n + 1 : i \in 1..n \/ i = n + 1
    OBVIOUS
  <2>2. \A i \in 1..Len(t) : t[i] = u[i]
    BY <1>1, <1>2, <2>1
  <2>3. QED BY <1>1, <1>2, <2>2, SeqEqual
<1>4. Value(2, s) \in Nat /\ Value(2, t) = Value(2, s) * 2 + 1
  <2>1. 2 \in Nat /\ 1 \in Nat
    OBVIOUS
  <2>2. Value(2, s) \in Nat /\ Value(2, Append(s, 1)) = Value(2, s) * 2 + 1
    BY <1>1, <2>1, ValueStep, Zenon
  <2>3. QED BY <1>3, <2>2, Zenon DEF u
<1>5. QED BY <1>4 DEF AllOnes, s, t

LEMMA AllOnesSeven ==
  ASSUME NEW n \in Nat
  PROVE  AllOnes(n + 7) = 128 * AllOnes(n) + 127
<1>1. AllOnes(n) \in Nat /\ AllOnes(n + 1) = 2 * AllOnes(n) + 1
  BY AllOnesStep
<1>2. AllOnes(n + 2) = 4 * AllOnes(n) + 3
  <2>1. n + 1 \in Nat /\ (n + 1) + 1 = n + 2
    OBVIOUS
  <2>2. AllOnes(n + 2) = 2 * AllOnes(n + 1) + 1
    BY <2>1, AllOnesStep
  <2>3. QED BY <1>1, <2>2
<1>3. AllOnes(n + 4) = 16 * AllOnes(n) + 15
  <2>1. /\ n + 2 \in Nat /\ (n + 2) + 1 = n + 3
        /\ n + 3 \in Nat /\ (n + 3) + 1 = n + 4
    OBVIOUS
  <2>2. AllOnes(n + 3) = 2 * AllOnes(n + 2) + 1 /\ AllOnes(n + 4) = 2 * AllOnes(n + 3) + 1
    BY <2>1, AllOnesStep
  <2>3. QED BY <1>1, <1>2, <2>2
<1>4. AllOnes(n + 6) = 64 * AllOnes(n) + 63
  <2>1. /\ n + 4 \in Nat /\ (n + 4) + 1 = n + 5
        /\ n + 5 \in Nat /\ (n + 5) + 1 = n + 6
    OBVIOUS
  <2>2. AllOnes(n + 5) = 2 * AllOnes(n + 4) + 1 /\ AllOnes(n + 6) = 2 * AllOnes(n + 5) + 1
    BY <2>1, AllOnesStep
  <2>3. QED BY <1>1, <1>3, <2>2
<1>5. AllOnes(n + 7) = 2 * AllOnes(n + 6) + 1
  <2>1. n + 6 \in Nat /\ (n + 6) + 1 = n + 7
    OBVIOUS
  <2>2. QED BY <2>1, AllOnesStep
<1>6. QED BY <1>1, <1>4, <1>5

(* More bits, no smaller a greatest number.                                *)
LEMMA AllOnesGrow ==
  ASSUME NEW m \in Nat, NEW n \in Nat, m <= n
  PROVE  AllOnes(m) <= AllOnes(n)
<1> DEFINE T == {k \in Nat : m <= k /\ ~(AllOnes(m) <= AllOnes(k))}
<1>1. SUFFICES ASSUME T # {} PROVE FALSE
  OBVIOUS
<1>2. PICK k \in T : \A i \in T : k <= i
  <2>1. T \subseteq Nat
    OBVIOUS
  <2> HIDE DEF T
  <2>2. QED BY <1>1, <2>1, LeastNatural
<1>3. k # m
  BY AllOnesStep
<1>4. k - 1 \in Nat /\ m <= k - 1 /\ ~(k <= k - 1) /\ (k - 1) + 1 = k
  BY <1>3
<1>5. AllOnes(m) <= AllOnes(k - 1)
  BY <1>2, <1>4
<1>6. /\ AllOnes(m) \in Nat /\ AllOnes(k - 1) \in Nat
      /\ AllOnes(k) = 2 * AllOnes(k - 1) + 1
  <2>1. \A i \in Nat : AllOnes(i) \in Nat /\ AllOnes(i + 1) = 2 * AllOnes(i) + 1
    BY AllOnesStep
  <2>2. AllOnes((k - 1) + 1) = 2 * AllOnes(k - 1) + 1
    BY <1>4, <2>1
  <2>3. QED BY <1>4, <2>1, <2>2
<1>7. AllOnes(m) <= AllOnes(k)
  BY <1>5, <1>6
<1>8. QED BY <1>7

(* A value in an unsigned type is what is left of it modulo 2^w.           *)
LEMMA TruncatedIsModulo ==
  ASSUME NEW max \in Nat, NEW v \in Nat
  PROVE  /\ Truncated(max, v) \in 0..max
         /\ Truncated(max, v) = v % (max + 1)
         /\ v <= max => Truncated(max, v) = v
<1>1. v % (max + 1) \in 0..max
  OBVIOUS
<1>2. v <= max => v % (max + 1) = v
  OBVIOUS
<1>3. QED BY <1>1, <1>2 DEF Truncated

(* An accumulator that loses its high digits at every step holds in the    *)
(* end what it would if it lost them only then.                            *)
LEMMA ModuloStep ==
  ASSUME NEW m \in Nat \ {0}, NEW v \in Nat, NEW b \in Nat, NEW d \in Nat
  PROVE  ((v % m) * b + d) % m = (v * b + d) % m
<1> DEFINE q == v \div m
           r == v % m
           x == r * b + d
           p == x \div m
           y == x % m
<1>1. q \in Int /\ r \in Nat /\ v = q * m + r
  OBVIOUS
<1> HIDE DEF q, r
<1>2. x \in Nat
  BY <1>1
<1> HIDE DEF x
<1>3. p \in Int /\ y \in 0..m - 1 /\ x = p * m + y
  BY <1>2
<1> HIDE DEF p, y
<1>4. v * b + d = (q * b + p) * m + y
  <2>1. v * b + d = q * b * m + (r * b + d)
    BY <1>1
  <2>2. (q * b + p) * m + y = q * b * m + (p * m + y)
    BY <1>1, <1>3
  <2>3. QED BY <1>3, <2>1, <2>2 DEF x
<1>5. (v * b + d) % m = y
  <2> DEFINE a == v * b + d
             k == q * b + p
  <2>1. a \in Int /\ k \in Int /\ a = k * m + y
    BY <1>1, <1>3, <1>4
  <2> HIDE DEF a, k
  <2>2. a % m = y
    BY <1>3, <2>1
  <2>3. QED BY <2>2 DEF a
<1>6. QED BY <1>5 DEF r, x, y

-----------------------------------------------------------------------------
(* A number that is shifted to the right is a number, and one that is      *)
(* shifted by no bit is the same.                                          *)
LEMMA ShiftedRightFacts ==
  ASSUME NEW v \in Nat, NEW bits \in Nat
  PROVE  ShiftedRight(v, bits) \in Nat /\ (bits = 0 => ShiftedRight(v, bits) = v)
<1> DEFINE Def(g, i) == IF i = 0 THEN v ELSE g[i - 1] \div 2
           Solves(g, k) == g = [i \in 0..k |-> Def(g, i)]
           T == {k \in 0..bits : ~ \E g : Solves(g, k)}
<1>1. \E g : Solves(g, bits)
  <2>1. SUFFICES ASSUME T # {} PROVE FALSE
    <3>1. bits \in 0..bits
      OBVIOUS
    <3>2. QED BY <3>1, Zenon
  <2>2. PICK m \in T : \A k \in T : m <= k
    <3>1. T \subseteq Nat
      OBVIOUS
    <3> HIDE DEF T
    <3>2. QED BY <2>1, <3>1, LeastNatural
  <2>3. m # 0
    <3>1. Solves([i \in 0..0 |-> v], 0)
      OBVIOUS
    <3>2. QED BY <3>1
  <2>4. PICK g : Solves(g, m - 1)
    <3>1. m - 1 \in 0..bits /\ ~(m <= m - 1)
      BY <2>3
    <3>2. m - 1 \notin T
      BY <2>2, <3>1
    <3>3. QED BY <3>1, <3>2, Zenon
  <2> DEFINE h == [i \in 0..m |-> IF i = m THEN g[m - 1] \div 2 ELSE g[i]]
  <2>5. Solves(h, m)
    BY <2>3, <2>4
  <2>6. QED BY <2>2, <2>5
<1> DEFINE r == CHOOSE g : Solves(g, bits)
<1>2. Solves(r, bits)
  <2> HIDE DEF Solves
  <2>1. QED BY <1>1
<1>3. ShiftedRight(v, bits) = r[bits]
  BY DEF ShiftedRight
<1> HIDE DEF r
<1>4. \A i \in 0..bits : r[i] = Def(r, i)
  BY <1>2
<1> DEFINE U == {i \in 0..bits : r[i] \notin Nat}
<1>5. U = {}
  <2>1. SUFFICES ASSUME U # {} PROVE FALSE
    OBVIOUS
  <2>2. PICK m \in U : \A k \in U : m <= k
    <3>1. U \subseteq Nat
      OBVIOUS
    <3> HIDE DEF U
    <3>2. QED BY <2>1, <3>1, LeastNatural
  <2>3. m # 0
    BY <1>4
  <2>4. m - 1 \in 0..bits /\ ~(m <= m - 1)
    BY <2>3
  <2>5. r[m - 1] \in Nat
    BY <2>2, <2>4
  <2>6. r[m] = r[m - 1] \div 2
    BY <1>4, <2>3
  <2>7. r[m] \in Nat
    BY <2>5, <2>6
  <2>8. QED BY <2>7
<1>6. bits \in 0..bits
  OBVIOUS
<1>7. QED BY <1>3, <1>4, <1>5, <1>6

-----------------------------------------------------------------------------
(* The octets of a header (tag_encode), which the proofs about a stream of *)
(* headers and about the printer share.  None of the definitions of        *)
(* TagEncode used here depends on its constants and variables.             *)

Encoder == INSTANCE TagEncode WITH
             NumberMax <- 0, SizeMax <- 0, Headers <- {}, call <- "idle", header <- 0,
             pending <- << >>, out <- << >>

\* A header whose length, if it takes more than one octet, takes at most 126 more.
Encodable(h) ==
  /\ h.tclass \in Encoder!TagClass /\ h.number \in Nat
  /\ h.shape \in Encoder!TagShape /\ h.length \in Nat
  /\ Encoder!SizeofExt(h.length, 256) < 127

LEMMA Quotients ==
  ASSUME NEW base \in {128, 256}, NEW x \in Nat
  PROVE  /\ x \div base \in Nat /\ (x # 0 => x \div base < x)
         /\ x \div base = 0 <=> x < base
<1>1. CASE base = 128
  BY <1>1
<1>2. CASE base = 256
  BY <1>2
<1>3. QED BY <1>1, <1>2

(* tag_sizeof_ext counts one octet for each shift that leaves something.   *)
LEMMA SizeofExtDefined ==
  ASSUME NEW base \in {128, 256}
  PROVE  \A v \in Nat :
           /\ Encoder!SizeofExt(v, base) \in Nat \ {0}
           /\ Encoder!SizeofExt(v, base) =
                IF v \div base = 0 THEN 1 ELSE Encoder!SizeofExt(v \div base, base) + 1
<1> DEFINE V == Nat \ {0}
           Z == {x \in Nat : x \div base = 0}
           step == [p \in Nat \X V |-> p[2] + 1]
           down == [x \in Nat |-> x \div base]
           Solves(f) == f = [x \in Nat |-> IF x \div base = 0 THEN 1 ELSE f[x \div base] + 1]
           s == CHOOSE f : Solves(f)
<1>1. /\ 0 \in Z /\ 1 \in V /\ step \in [Nat \X V -> V]
      /\ down \in [Nat -> Nat] /\ \A x \in Nat \ {0} : down[x] < x
  BY Quotients
<1>2. PICK f \in [Nat -> V] : Recursion(f, Z, 1, step, down)
  <2>1. PICK one \in V : one = 1
    BY <1>1
  <2> HIDE DEF V, Z, step, down
  <2>2. \E f \in [Nat -> V] : Recursion(f, Z, one, step, down)
    BY <1>1, DescendingRecursion
  <2>3. QED BY <2>1, <2>2
<1>3. \A x \in Nat : f[x] = IF x \div base = 0 THEN 1 ELSE f[x \div base] + 1
  <2>1. TAKE x \in Nat
  <2>2. x \div base \in Nat /\ down[x] = x \div base /\ (x \in Z <=> x \div base = 0)
    BY Quotients
  <2>3. step[<<x, f[x \div base]>>] = f[x \div base] + 1
    BY <2>2
  <2> HIDE DEF Z, step, down
  <2>4. QED BY <1>2, <2>2, <2>3 DEF Recursion
<1>4. Solves(f)
  <2>1. f = [x \in Nat |-> f[x]]
    OBVIOUS
  <2>2. QED BY <1>3, <2>1
<1>5. Solves(s)
  <2> HIDE DEF Solves
  <2>1. QED BY <1>4
<1>6. \A v \in Nat : Encoder!SizeofExt(v, base) = s[v]
  BY DEF Encoder!SizeofExt
<1> HIDE DEF s
<1>7. \A x \in Nat : s[x] = IF x \div base = 0 THEN 1 ELSE s[x \div base] + 1
  BY <1>5
<1>8. \A x \in Nat : s[x] \in Nat \ {0}
  <2> DEFINE T == {x \in Nat : s[x] \notin Nat \ {0}}
  <2>1. SUFFICES ASSUME T # {} PROVE FALSE
    OBVIOUS
  <2>2. PICK m \in T : \A x \in T : m <= x
    <3>1. T \subseteq Nat
      OBVIOUS
    <3> HIDE DEF T
    <3>2. QED BY <2>1, <3>1, LeastNatural
  <2>3. CASE m \div base = 0
    BY <1>7, <2>3
  <2>4. CASE m \div base # 0
    <3>1. m # 0 /\ m \div base \in Nat /\ m \div base < m
      BY <2>4, Quotients
    <3>2. s[m \div base] \in Nat \ {0}
      BY <2>2, <3>1
    <3>3. s[m] = s[m \div base] + 1
      BY <1>7, <2>4
    <3>4. QED BY <3>2, <3>3
  <2>5. QED BY <2>3, <2>4
<1>9. QED BY <1>6, <1>7, <1>8, Quotients

(* A longer number has no fewer octets.                                    *)
LEMMA SizeofExtGrows ==
  ASSUME NEW y \in Nat, NEW x \in 0..y
  PROVE  Encoder!SizeofExt(x, 256) <= Encoder!SizeofExt(y, 256)
<1> DEFINE S(v) == Encoder!SizeofExt(v, 256)
           T == {j \in Nat : \E i \in 0..j : ~(S(i) <= S(j))}
<1>1. \A v \in Nat : S(v) \in Nat \ {0} /\ S(v) = IF v \div 256 = 0 THEN 1 ELSE S(v \div 256) + 1
  BY SizeofExtDefined
<1> HIDE DEF S
<1>2. SUFFICES ASSUME T # {} PROVE FALSE
  BY DEF S
<1>3. PICK j \in T : \A k \in T : j <= k
  <2>1. T \subseteq Nat
    OBVIOUS
  <2> HIDE DEF T
  <2>2. QED BY <1>2, <2>1, LeastNatural
<1>4. PICK i \in 0..j : ~(S(i) <= S(j))
  OBVIOUS
<1>5. j \in Nat /\ i \in Nat /\ S(i) \in Nat \ {0} /\ S(j) \in Nat \ {0}
  BY <1>1
<1>6. S(i) # 1
  BY <1>4, <1>5
<1>7. i \div 256 # 0 /\ j \div 256 # 0
  BY <1>1, <1>5, <1>6
<1> DEFINE p == i \div 256
           q == j \div 256
<1>8. p \in 0..q /\ q \in Nat /\ q < j
  BY <1>5, <1>7
<1>9. S(i) = S(p) + 1 /\ S(j) = S(q) + 1
  BY <1>1, <1>5, <1>7
<1> HIDE DEF p, q
<1>10. S(p) <= S(q)
  <2>1. ~(j <= q)
    BY <1>5, <1>8
  <2>2. q \notin T
    <3> HIDE DEF T
    <3>1. QED BY <1>3, <2>1
  <2>3. QED BY <1>8, <2>2
<1>11. S(p) \in Nat /\ S(q) \in Nat
  BY <1>1, <1>8
<1>12. QED BY <1>4, <1>9, <1>10, <1>11

(* So any header is encodable that is not longer than what is.             *)
LEMMA EncodableUpTo ==
  ASSUME NEW h, NEW max \in Nat, Encoder!SizeofExt(max, 256) < 127,
         h.tclass \in Encoder!TagClass, h.number \in Nat, h.shape \in Encoder!TagShape,
         h.length \in 0..max
  PROVE  Encodable(h)
<1>1. PICK x \in Nat, y \in Nat :
        x = Encoder!SizeofExt(h.length, 256) /\ y = Encoder!SizeofExt(max, 256)
  BY SizeofExtDefined
<1>2. x <= y
  BY <1>1, SizeofExtGrows
<1>3. x < 127
  BY <1>1, <1>2
<1>4. QED BY <1>1, <1>3 DEF Encodable

(* tag_encode_ltn is a recursion too.                                      *)
LEMMA EncodedNumberDef ==
  \E ltn \in [Nat -> Seq(Octet)] :
    /\ \A x \in Nat : ltn[x] = IF x = 0 THEN << >> ELSE Append(ltn[x \div 128], 128 + Low7(x))
    /\ \A n \in Nat : Encoder!EncodedNumber(n) = Append(ltn[n \div 128], Low7(n))
<1> DEFINE V == Seq(Octet)
           Z == {0}
           none == << >>
           step == [p \in Nat \X V |-> Append(p[2], 128 + Low7(p[1]))]
           down == [x \in Nat |-> x \div 128]
           Solves(f) == f = [x \in Nat |->
                               IF x = 0 THEN << >> ELSE Append(f[x \div 128], 128 + Encoder!Low7(x))]
           s == CHOOSE f : Solves(f)
<1>1. \A x \in Nat : Low7(x) = Encoder!Low7(x) /\ Low7(x) \in Octet /\ 128 + Low7(x) \in Octet
  BY DEF Low7, Encoder!Low7, Octet
<1>2. /\ 0 \in Z /\ none \in V /\ down \in [Nat -> Nat]
      /\ \A x \in Nat \ {0} : down[x] < x
  BY Quotients
<1>3. step \in [Nat \X V -> V]
  <2>1. ASSUME NEW p \in Nat \X V PROVE Append(p[2], 128 + Low7(p[1])) \in V
    <3>1. p[1] \in Nat /\ p[2] \in Seq(Octet)
      OBVIOUS
    <3>2. 128 + Low7(p[1]) \in Octet
      BY <1>1, <3>1
    <3>3. QED BY <3>1, <3>2, AppendFacts
  <2> HIDE DEF V
  <2>2. QED BY <2>1
<1>4. PICK f \in [Nat -> V] : Recursion(f, Z, << >>, step, down)
  <2> HIDE DEF V, Z, step, down, none
  <2>1. \E f \in [Nat -> V] : Recursion(f, Z, none, step, down)
    BY <1>2, <1>3, DescendingRecursion
  <2>2. QED BY <2>1 DEF none
<1>5. \A x \in Nat : f[x] = IF x = 0 THEN << >> ELSE Append(f[x \div 128], 128 + Encoder!Low7(x))
  <2>1. TAKE x \in Nat
  <2>2. x \div 128 \in Nat /\ down[x] = x \div 128 /\ (x \in Z <=> x = 0)
    BY Quotients
  <2>3. step[<<x, f[x \div 128]>>] = Append(f[x \div 128], 128 + Low7(x))
    BY <2>2
  <2> HIDE DEF Z, step, down
  <2>4. QED BY <1>1, <1>4, <2>2, <2>3 DEF Recursion
<1>6. Solves(f)
  <2>1. f = [x \in Nat |-> f[x]]
    OBVIOUS
  <2>2. QED BY <1>5, <2>1
<1>7. Solves(s)
  <2> HIDE DEF Solves
  <2>1. QED BY <1>6
<1>8. \A n \in Nat : Encoder!EncodedNumber(n) = Append(s[n \div 128], Encoder!Low7(n))
  BY DEF Encoder!EncodedNumber
<1> HIDE DEF s
<1>9. \A x \in Nat : s[x] = IF x = 0 THEN << >> ELSE Append(s[x \div 128], 128 + Encoder!Low7(x))
  BY <1>7
<1>10. \A x \in Nat : s[x] \in Seq(Octet)
  <2> DEFINE T == {x \in Nat : s[x] \notin Seq(Octet)}
  <2>1. SUFFICES ASSUME T # {} PROVE FALSE
    OBVIOUS
  <2>2. PICK m \in T : \A x \in T : m <= x
    <3>1. T \subseteq Nat
      OBVIOUS
    <3> HIDE DEF T
    <3>2. QED BY <2>1, <3>1, LeastNatural
  <2>3. m # 0
    <3>1. s[0] = << >>
      BY <1>9
    <3>2. s[0] \in Seq(Octet)
      BY <3>1, EmptySeq
    <3>3. s[m] \notin Seq(Octet)
      OBVIOUS
    <3>4. QED BY <3>2, <3>3
  <2>4. m \div 128 \in Nat /\ m \div 128 < m
    BY <2>3, Quotients
  <2>5. s[m \div 128] \in Seq(Octet)
    BY <2>2, <2>4
  <2>6. s[m] = Append(s[m \div 128], 128 + Low7(m)) /\ 128 + Low7(m) \in Octet
    BY <1>1, <1>9, <2>3
  <2>7. s[m] \in Seq(Octet)
    BY <2>5, <2>6, AppendFacts
  <2>8. QED BY <2>7
<1>11. s \in [Nat -> Seq(Octet)]
  <2>1. s = [x \in Nat |-> s[x]]
    <3>1. \E g : s = [x \in Nat |-> g[x]]
      <4> DEFINE g == [x \in Nat |-> IF x = 0 THEN << >> ELSE Append(s[x \div 128], 128 + Encoder!Low7(x))]
      <4>1. s = g
        BY <1>7
      <4>2. g = [x \in Nat |-> g[x]]
        OBVIOUS
      <4>3. QED BY <4>1, <4>2
    <3>2. QED BY <3>1
  <2>2. QED BY <1>10, <2>1
<1>12. /\ \A x \in Nat : s[x] = IF x = 0 THEN << >> ELSE Append(s[x \div 128], 128 + Low7(x))
       /\ \A n \in Nat : Encoder!EncodedNumber(n) = Append(s[n \div 128], Low7(n))
  BY <1>1, <1>8, <1>9, ZenonT(40)
<1>13. QED BY <1>11, <1>12

(* The groups of a number are put with the highest first, each of them     *)
(* marked, and there are as many as tag_sizeof_ext counts.                 *)
GroupsPut(os, x) ==
  /\ os \in Seq(Octet) /\ \A i \in 1..Len(os) : More(os[i])
  /\ Value(128, Groups(os)) = x
  /\ Len(os) = IF x = 0 THEN 0 ELSE Encoder!SizeofExt(x, 128)

NumberPut(os, x) ==
  /\ os \in Seq(Octet) /\ \A i \in 1..Len(os) : More(os[i]) <=> i < Len(os)
  /\ Value(128, Groups(os)) = x
  /\ Len(os) = Encoder!SizeofExt(x, 128)

LEMMA GroupsPutStep ==
  ASSUME NEW os, NEW x \in Nat, GroupsPut(os, x \div 128)
  PROVE  /\ x # 0 => GroupsPut(Append(os, 128 + Low7(x)), x)
         /\ NumberPut(Append(os, Low7(x)), x)
<1> DEFINE q == x \div 128
           r == Low7(x)
<1>1. /\ q \in Nat /\ r \in 0..127 /\ x = q * 128 + r
      /\ Low7(r) = r /\ Low7(128 + r) = r /\ ~More(r) /\ More(128 + r)
      /\ r \in Octet /\ 128 + r \in Octet
  BY DEF Low7, More, Octet
<1>2. /\ os \in Seq(Octet) /\ \A i \in 1..Len(os) : More(os[i])
      /\ Value(128, Groups(os)) = q
      /\ Len(os) = IF q = 0 THEN 0 ELSE Encoder!SizeofExt(q, 128)
  BY DEF GroupsPut
<1>3. Encoder!SizeofExt(x, 128) = Len(os) + 1
  <2>1. Encoder!SizeofExt(x, 128) = IF q = 0 THEN 1 ELSE Encoder!SizeofExt(q, 128) + 1
    BY SizeofExtDefined
  <2> HIDE DEF q
  <2>2. QED BY <1>2, <2>1
<1> HIDE DEF q, r
<1>4. ASSUME NEW o \in Octet, Low7(o) = r PROVE Value(128, Groups(Append(os, o))) = x
  <2>1. PICK b \in Nat : b = 128
    OBVIOUS
  <2>2. Groups(os) \in Seq(Nat) /\ Groups(Append(os, o)) = Append(Groups(os), r) /\ r \in Nat
    BY <1>2, <1>4, GroupsAppend
  <2>3. Value(b, Groups(Append(os, o))) = Value(b, Groups(os)) * b + r
    BY <2>2, ValueStep
  <2>4. Value(b, Groups(os)) = q
    BY <1>2, <2>1
  <2>5. q * b + r = x
    BY <1>1, <2>1
  <2>6. Value(b, Groups(Append(os, o))) = x
    BY <2>3, <2>4, <2>5
  <2>7. QED BY <2>1, <2>6
<1>5. ASSUME NEW o \in Octet
      PROVE  /\ Append(os, o) \in Seq(Octet) /\ Len(os) \in Nat
             /\ Len(Append(os, o)) = Len(os) + 1 /\ Append(os, o)[Len(os) + 1] = o
             /\ \A i \in 1..Len(os) : Append(os, o)[i] = os[i]
  BY <1>2, AppendFacts
<1>6. ASSUME x # 0 PROVE GroupsPut(Append(os, 128 + r), x)
  <2> DEFINE ps == Append(os, 128 + r)
  <2>1. ps \in Seq(Octet) /\ Len(ps) = Encoder!SizeofExt(x, 128) /\ Value(128, Groups(ps)) = x
    BY <1>1, <1>3, <1>4, <1>5
  <2>2. \A i \in 1..Len(ps) : More(ps[i])
    <3>1. /\ Len(os) \in Nat /\ Len(ps) = Len(os) + 1 /\ ps[Len(os) + 1] = 128 + r
          /\ \A i \in 1..Len(os) : ps[i] = os[i]
      BY <1>1, <1>5
    <3> HIDE DEF ps
    <3>2. \A i \in 1..Len(ps) : i \in 1..Len(os) \/ i = Len(os) + 1
      BY <3>1
    <3>3. QED BY <1>1, <1>2, <3>1, <3>2
  <2> HIDE DEF ps
  <2>3. GroupsPut(ps, x)
    BY <1>6, <2>1, <2>2 DEF GroupsPut
  <2>4. QED BY <2>3 DEF ps
<1>7. ASSUME NEW ps, ps = Append(os, r)
      PROVE  NumberPut(ps, x)
  <2>1. ps \in Seq(Octet) /\ Len(ps) = Encoder!SizeofExt(x, 128) /\ Value(128, Groups(ps)) = x
    BY <1>1, <1>3, <1>4, <1>5, <1>7
  <2>2. \A i \in 1..Len(ps) : More(ps[i]) <=> i < Len(ps)
    <3>1. PICK m \in Nat : m = Len(os)
      BY <1>1, <1>5
    <3>2. /\ Len(ps) = m + 1 /\ ps[m + 1] = r
          /\ \A i \in 1..m : ps[i] = os[i]
      BY <1>1, <1>5, <1>7, <3>1
    <3>3. ASSUME NEW i \in 1..m + 1 PROVE More(ps[i]) <=> i < m + 1
      <4>1. i \in 1..m => i < m + 1 /\ ps[i] = os[i]
        BY <3>2
      <4>2. i \notin 1..m => ~(i < m + 1) /\ ps[i] = r
        BY <3>2
      <4>3. QED BY <1>1, <1>2, <3>1, <4>1, <4>2, Zenon
    <3>4. QED BY <3>2, <3>3
  <2>3. QED BY <2>1, <2>2 DEF NumberPut
<1>8. QED BY <1>6, <1>7 DEF r

(* The number octets of a header: they stand for the number, only the last *)
(* one is not marked, and the first one is not zero in the high form.      *)
LEMMA NumberEncoded ==
  ASSUME NEW n \in Nat
  PROVE  LET os == Encoder!EncodedNumber(n)
         IN  /\ os \in Seq(Octet) /\ Value(128, Groups(os)) = n
             /\ Len(os) = Encoder!SizeofExt(n, 128) /\ Len(os) \in Nat \ {0}
             /\ \A i \in 1..Len(os) : More(os[i]) <=> i < Len(os)
             /\ n # 0 => os[1] # 0
<1>1. PICK ltn \in [Nat -> Seq(Octet)] :
        /\ \A x \in Nat : ltn[x] = IF x = 0 THEN << >> ELSE Append(ltn[x \div 128], 128 + Low7(x))
        /\ \A x \in Nat : Encoder!EncodedNumber(x) = Append(ltn[x \div 128], Low7(x))
  BY EncodedNumberDef
<1>2. \A x \in Nat : GroupsPut(ltn[x], x)
  <2> DEFINE T == {x \in Nat : ~GroupsPut(ltn[x], x)}
  <2>1. SUFFICES ASSUME T # {} PROVE FALSE
    OBVIOUS
  <2>2. PICK m \in T : \A x \in T : m <= x
    <3>1. T \subseteq Nat
      OBVIOUS
    <3> HIDE DEF T
    <3>2. QED BY <2>1, <3>1, LeastNatural
  <2>3. m # 0
    <3>1. ltn[0] = << >>
      BY <1>1
    <3>2. Groups(<< >>) = << >> /\ Value(128, << >>) = 0
      BY ValueEmpty DEF Groups
    <3>3. GroupsPut(<< >>, 0)
      BY <3>2, EmptySeq DEF GroupsPut
    <3>4. GroupsPut(ltn[0], 0)
      BY <3>1, <3>3
    <3>5. ~GroupsPut(ltn[m], m)
      OBVIOUS
    <3>6. QED BY <3>4, <3>5
  <2>4. m \div 128 \in Nat /\ m \div 128 < m
    BY <2>3, Quotients
  <2>5. GroupsPut(ltn[m \div 128], m \div 128)
    BY <2>2, <2>4
  <2>6. GroupsPut(Append(ltn[m \div 128], 128 + Low7(m)), m)
    BY <2>3, <2>5, GroupsPutStep
  <2>7. GroupsPut(ltn[m], m)
    BY <1>1, <2>3, <2>6
  <2>8. QED BY <2>7
<1> DEFINE os == Encoder!EncodedNumber(n)
<1>3. /\ os \in Seq(Octet) /\ Value(128, Groups(os)) = n
      /\ Len(os) = Encoder!SizeofExt(n, 128)
      /\ \A i \in 1..Len(os) : More(os[i]) <=> i < Len(os)
  <2>1. n \div 128 \in Nat
    OBVIOUS
  <2>2. GroupsPut(ltn[n \div 128], n \div 128)
    BY <1>2, <2>1
  <2>3. os = Append(ltn[n \div 128], Low7(n))
    BY <1>1
  <2>4. NumberPut(Append(ltn[n \div 128], Low7(n)), n)
    BY <2>2, GroupsPutStep
  <2> HIDE DEF os
  <2>5. QED BY <2>3, <2>4 DEF NumberPut
<1>4. Len(os) \in Nat \ {0}
  BY <1>3, SizeofExtDefined
<1> HIDE DEF os
<1>5. ASSUME n # 0, os[1] = 0 PROVE FALSE
  <2>1. Len(os) = 1
    <3>1. 1 \in 1..Len(os)
      BY <1>4
    <3>2. ~More(os[1])
      BY <1>5 DEF More
    <3>3. ~(1 < Len(os))
      BY <1>3, <3>1, <3>2
    <3>4. PICK m \in Nat \ {0} : m = Len(os)
      BY <1>4
    <3>5. QED BY <3>3, <3>4
  <2>2. Groups(os) = <<0>>
    <3>1. os = <<0>>
      <4>1. os \in Seq(Octet) /\ <<0>> \in Seq(Octet) /\ Len(<<0>>) = 1
        BY <1>3 DEF Octet
      <4>2. \A i \in 1..1 : os[i] = <<0>>[i]
        BY <1>5
      <4>3. QED BY <2>1, <4>1, <4>2, SeqEqual
    <3>2. Groups(<<0>>) = <<0>>
      BY DEF Groups, Low7
    <3>3. QED BY <3>1, <3>2
  <2>3. Value(128, <<0>>) = 0
    BY ValueSingle
  <2>4. QED BY <1>3, <1>5, <2>2, <2>3
<1>6. QED BY <1>3, <1>4, <1>5 DEF os

-----------------------------------------------------------------------------
(* The octets of a header.                                                 *)

IdentifierPut(is, h) ==
  /\ is \in Seq(Octet) /\ Encoder!IdentifierDenotes(is, h)
  /\ Len(is) = IF h.number <= 30 THEN 1 ELSE 1 + Encoder!SizeofExt(h.number, 128)
  /\ Len(is) > 1 => h.number > 30 /\ is[2] # 0

IdentifierOctet(c, b, n) == c * 64 + b + n

LEMMA IdentifierParts ==
  ASSUME NEW c \in Encoder!TagClass, NEW b \in {0, 32}, NEW n \in 0..31
  PROVE  LET o == IdentifierOctet(c, b, n)
         IN  o \in Octet /\ Encoder!Class(o) = c /\ (Encoder!Constructed(o) <=> b = 32) /\ Encoder!LowNumber(o) = n
<1>1. PICK o \in Int : o = c * 64 + b + n
  BY DEF Encoder!TagClass
<1>2. o \in 0..255 /\ o \div 64 = c /\ o % 32 = n /\ ((o \div 32) % 2 = 1 <=> b = 32)
  <2>1. o \in 0..255 /\ o \div 64 = c
    BY <1>1 DEF Encoder!TagClass
  <2>2. o % 32 = n
    BY <1>1 DEF Encoder!TagClass
  <2>3. b = 0 => o \div 32 = c * 2
    BY <1>1 DEF Encoder!TagClass
  <2>4. b = 32 => o \div 32 = c * 2 + 1
    BY <1>1 DEF Encoder!TagClass
  <2>5. QED BY <2>1, <2>2, <2>3, <2>4 DEF Encoder!TagClass
<1>3. QED BY <1>1, <1>2 DEF Octet, Encoder!Class, Encoder!Constructed, Encoder!LowNumber, IdentifierOctet

LEMMA IdentifierOfHeader ==
  ASSUME NEW h, Encodable(h)
  PROVE  IdentifierPut(Encoder!EncodedIdentifier(h), h)
<1> DEFINE b == IF h.shape = "primitive" THEN 0 ELSE 32
           c == h.tclass
           n == h.number
           is == Encoder!EncodedIdentifier(h)
<1>1. b \in {0, 32} /\ (b = 32 <=> h.shape # "primitive") /\ c \in Encoder!TagClass /\ n \in Nat
  BY DEF Encodable
<1>2. is = IF n <= 30 THEN <<IdentifierOctet(c, b, n)>>
           ELSE <<IdentifierOctet(c, b, 31)>> \o Encoder!EncodedNumber(n)
  BY DEF Encoder!EncodedIdentifier, Encoder!HighForm, IdentifierOctet
<1> HIDE DEF b, is
<1>3. CASE n <= 30
  <2>1. PICK o : o = IdentifierOctet(c, b, n)
    OBVIOUS
  <2>2. o \in Octet /\ Encoder!Class(o) = c /\ (Encoder!Constructed(o) <=> b = 32) /\ Encoder!LowNumber(o) = n
    <3>1. n \in 0..31
      BY <1>1, <1>3
    <3>2. QED BY <1>1, <2>1, <3>1, IdentifierParts
  <2>3. is = <<o>>
    BY <1>2, <1>3, <2>1
  <2>4. is \in Seq(Octet) /\ Len(is) = 1 /\ is[1] = o
    BY <2>2, <2>3
  <2>5. n < 31
    BY <1>1, <1>3
  <2>6. Encoder!IdentifierDenotes(is, h)
    BY <1>1, <2>2, <2>4, <2>5 DEF Encoder!IdentifierDenotes, Encoder!HighForm,
         More, Encoder!More, Value, Encoder!Value, Groups, Encoder!Groups, Low7, Encoder!Low7
  <2>7. IdentifierPut(is, h)
    BY <1>3, <2>4, <2>6 DEF IdentifierPut
  <2>8. QED BY <2>7 DEF is
<1>4. CASE ~(n <= 30)
  <2>1. PICK o : o = IdentifierOctet(c, b, 31)
    OBVIOUS
  <2>2. o \in Octet /\ Encoder!Class(o) = c /\ (Encoder!Constructed(o) <=> b = 32) /\ Encoder!LowNumber(o) = 31
    <3>1. 31 \in 0..31
      OBVIOUS
    <3>2. QED BY <1>1, <2>1, <3>1, IdentifierParts
  <2>3. PICK os : os = Encoder!EncodedNumber(n)
    OBVIOUS
  <2>4. /\ os \in Seq(Octet) /\ Value(128, Groups(os)) = n
        /\ Len(os) = Encoder!SizeofExt(n, 128) /\ Len(os) \in Nat \ {0}
        /\ \A i \in 1..Len(os) : More(os[i]) <=> i < Len(os)
        /\ os[1] # 0
    <3>1. n # 0
      BY <1>4
    <3>2. QED BY <1>1, <2>3, <3>1, NumberEncoded
  <2>5. PICK m \in Nat \ {0} : m = Len(os)
    BY <2>4
  <2>6. is = <<o>> \o os
    BY <1>2, <1>4, <2>1, <2>3
  <2>7. /\ is \in Seq(Octet) /\ Len(is) = m + 1 /\ is[1] = o
        /\ \A i \in 1..m : is[i + 1] = os[i]
    <3>1. <<o>> \in Seq(Octet) /\ Len(<<o>>) = 1 /\ <<o>>[1] = o
      BY <2>2
    <3>2. QED BY <2>4, <2>5, <2>6, <3>1, ConcatProperties
  <2>8. Tail(is) = os
    BY <2>2, <2>4, <2>6
  <2>9. ASSUME NEW i \in 2..m + 1 PROVE More(is[i]) <=> i < m + 1
    <3>1. /\ i - 1 \in 1..m /\ (i - 1) + 1 = i
          /\ (i < m + 1) <=> (i - 1 < m)
      BY <2>5
    <3>2. is[i] = os[i - 1]
      BY <2>7, <3>1
    <3>3. QED BY <2>4, <2>5, <3>1, <3>2, Zenon
  <2>10. Encoder!IdentifierDenotes(is, h)
    <3>1. Len(is) > 1
      BY <2>7
    <3>2. Encoder!Value(128, Encoder!Groups(os)) = n
      BY <2>4, Zenon DEF Value, Encoder!Value, Groups, Encoder!Groups, Low7, Encoder!Low7
    <3>3. \A i \in 2..Len(is) : Encoder!More(is[i]) <=> i < Len(is)
      BY <2>7, <2>9 DEF More, Encoder!More
    <3>4. QED BY <1>1, <2>2, <2>7, <2>8, <3>1, <3>2, <3>3
              DEF Encoder!IdentifierDenotes, Encoder!HighForm
  <2>11. n > 30 /\ is[2] = os[1]
    <3>1. 1 \in 1..m /\ 1 + 1 = 2
      BY <2>5
    <3>2. QED BY <1>1, <1>4, <2>7, <3>1
  <2>12. Len(is) = 1 + Encoder!SizeofExt(n, 128)
    BY <2>4, <2>5, <2>7
  <2>13. IdentifierPut(is, h)
    BY <1>4, <2>4, <2>7, <2>10, <2>11, <2>12 DEF IdentifierPut
  <2>14. QED BY <2>13 DEF is
<1>5. QED BY <1>3, <1>4 DEF is

LengthPut(ls, h) ==
  /\ ls \in Seq(Octet)
  /\ Len(ls) = IF h.shape = "constructed_indefinite" \/ h.length <= 127 THEN 1
               ELSE 1 + Encoder!SizeofExt(h.length, 256)
  /\ Len(ls) > 1 => h.length > 127

LEMMA LengthOfHeader ==
  ASSUME NEW h, Encodable(h)
  PROVE  LengthPut(Encoder!EncodedLength(h), h)
<1> DEFINE l == h.length
           ls == Encoder!EncodedLength(h)
<1>1. l \in Nat
  BY DEF Encodable
<1>2. CASE h.shape = "constructed_indefinite"
  <2>1. ls = <<128>>
    BY <1>2 DEF Encoder!EncodedLength, Encoder!Indefinite
  <2>2. ls \in Seq(Octet) /\ Len(ls) = 1
    BY <2>1 DEF Octet
  <2>3. QED BY <1>2, <2>2 DEF LengthPut
<1>3. CASE h.shape # "constructed_indefinite" /\ l <= 127
  <2>1. ls = <<l>>
    BY <1>3 DEF Encoder!EncodedLength
  <2>2. ls \in Seq(Octet) /\ Len(ls) = 1
    BY <1>1, <1>3, <2>1 DEF Octet
  <2>3. QED BY <1>3, <2>2 DEF LengthPut
<1>4. CASE h.shape # "constructed_indefinite" /\ ~(l <= 127)
  <2>1. PICK size \in Nat \ {0} : size = Encoder!SizeofExt(l, 256)
    BY <1>1, SizeofExtDefined
  <2>2. size < 127
    BY <2>1 DEF Encodable
  <2>3. PICK ds : ds = [k \in 1..size |-> Encoder!ShiftedRight(l, size - k) % 256]
    OBVIOUS
  <2>4. ds \in Seq(Octet) /\ Len(ds) = size
    <3>1. ASSUME NEW k \in 1..size PROVE Encoder!ShiftedRight(l, size - k) % 256 \in Octet
      <4>1. size - k \in Nat
        BY <2>1
      <4>2. Encoder!ShiftedRight(l, size - k) = ShiftedRight(l, size - k)
        BY DEF Encoder!ShiftedRight, ShiftedRight
      <4>3. PICK v \in Nat : v = ShiftedRight(l, size - k)
        BY <1>1, <4>1, ShiftedRightFacts
      <4>4. v % 256 \in Octet
        BY DEF Octet
      <4>5. QED BY <4>2, <4>3, <4>4
    <3>2. ds \in [1..size -> Octet]
      BY <2>3, <3>1
    <3>3. QED BY <3>2
  <2>5. PICK o : o = 128 + size
    OBVIOUS
  <2>6. ls = <<o>> \o ds
    BY <1>4, <2>1, <2>3, <2>5 DEF Encoder!EncodedLength
  <2>7. o \in Octet
    BY <2>1, <2>2, <2>5 DEF Octet
  <2> HIDE DEF ls
  <2>8. ls \in Seq(Octet) /\ Len(ls) = 1 + size
    <3>1. <<o>> \in Seq(Octet) /\ Len(<<o>>) = 1
      BY <2>7
    <3>2. QED BY <2>4, <2>6, <3>1, ConcatProperties
  <2>9. l > 127
    BY <1>1, <1>4
  <2>10. LengthPut(ls, h)
    BY <1>4, <2>1, <2>8, <2>9 DEF LengthPut
  <2>11. QED BY <2>10 DEF ls
<1>5. QED BY <1>2, <1>3, <1>4

(* The first length octet, and the second one if there are no more.        *)
LEMMA LengthFirst ==
  ASSUME NEW h, Encodable(h), NEW ls, ls = Encoder!EncodedLength(h)
  PROVE  /\ ls \in Seq(Octet) /\ Len(ls) \in Nat \ {0} /\ ls[1] \in Octet
         /\ h.shape = "constructed_indefinite" => ls[1] = 128 /\ Len(ls) = 1
         /\ h.shape # "constructed_indefinite" =>
              /\ ls[1] # 128
              /\ ls[1] < 128 => Len(ls) = 1 /\ ls[1] = h.length
              /\ ls[1] > 128 => Len(ls) = 1 + (ls[1] - 128)
              /\ ls[1] = 129 => ls[2] = h.length
<1> DEFINE l == h.length
<1>1. l \in Nat
  BY DEF Encodable
<1>2. /\ ls \in Seq(Octet)
      /\ Len(ls) = IF h.shape = "constructed_indefinite" \/ l <= 127 THEN 1
                   ELSE 1 + Encoder!SizeofExt(l, 256)
  BY <1>1, LengthOfHeader DEF LengthPut
<1>3. CASE h.shape = "constructed_indefinite"
  <2>1. ls = <<128>>
    BY <1>3 DEF Encoder!EncodedLength, Encoder!Indefinite
  <2>2. ls[1] = 128 /\ 128 \in Octet /\ Len(ls) = 1
    BY <2>1 DEF Octet
  <2>3. QED BY <1>2, <1>3, <2>2
<1>4. CASE h.shape # "constructed_indefinite" /\ l <= 127
  <2>1. ls = <<l>>
    BY <1>1, <1>4 DEF Encoder!EncodedLength
  <2>2. ls[1] = l /\ l \in Octet /\ Len(ls) = 1 /\ l < 128
    BY <1>1, <1>4, <2>1 DEF Octet
  <2>3. QED BY <1>1, <1>2, <1>4, <2>2
<1>5. CASE h.shape # "constructed_indefinite" /\ ~(l <= 127)
  <2>1. PICK size \in Nat \ {0} : size = Encoder!SizeofExt(l, 256)
    BY <1>1, SizeofExtDefined
  <2>2. PICK o \in Nat, ds \in Seq(Nat) :
          /\ o = 128 + size /\ ls = <<o>> \o ds
          /\ Len(ds) = size /\ ds[1] = Encoder!ShiftedRight(l, size - 1) % 256
    <3>1. PICK ds : ds = [k \in 1..size |-> Encoder!ShiftedRight(l, size - k) % 256]
      OBVIOUS
    <3>2. \A k \in 1..size : Encoder!ShiftedRight(l, size - k) % 256 \in Nat
      <4>1. TAKE k \in 1..size
      <4>2. size - k \in Nat
        OBVIOUS
      <4>3. Encoder!ShiftedRight(l, size - k) = ShiftedRight(l, size - k)
        BY DEF Encoder!ShiftedRight, ShiftedRight
      <4>4. PICK v \in Nat : v = ShiftedRight(l, size - k)
        BY <1>1, <4>2, ShiftedRightFacts
      <4>5. v % 256 \in Nat
        OBVIOUS
      <4>6. QED BY <4>3, <4>4, <4>5
    <3>3. ds \in [1..size -> Nat]
      BY <3>1, <3>2
    <3>4. ds \in Seq(Nat) /\ Len(ds) = size /\ 1 \in 1..size
      BY <3>3
    <3>5. ds[1] = Encoder!ShiftedRight(l, size - 1) % 256
      BY <3>1, <3>4
    <3>6. PICK o \in Nat : o = 128 + size
      OBVIOUS
    <3>7. ls = <<o>> \o ds
      BY <1>5, <2>1, <3>1, <3>6 DEF Encoder!EncodedLength
    <3>8. QED BY <3>4, <3>5, <3>6, <3>7
  <2>3. ls[1] = o /\ ls[2] = ds[1] /\ Len(ls) = 1 + size
    <3>1. <<o>> \in Seq(Nat) /\ Len(<<o>>) = 1 /\ <<o>>[1] = o
      OBVIOUS
    <3>2. QED BY <2>2, <3>1, ConcatProperties
  <2>4. ls[1] \in Octet
    <3>1. 1 \in 1..Len(ls)
      BY <2>3
    <3>2. QED BY <1>2, <3>1, ElementOfSeq
  <2>5. ASSUME size = 1 PROVE ls[2] = l
    <3>1. l \div 256 = 0
      <4>1. PICK r \in Nat : r = l \div 256
        BY <1>1, Quotients
      <4>2. Encoder!SizeofExt(l, 256) = IF l \div 256 = 0 THEN 1 ELSE Encoder!SizeofExt(l \div 256, 256) + 1
        <5>1. \A v \in Nat :
                /\ Encoder!SizeofExt(v, 256) \in Nat \ {0}
                /\ Encoder!SizeofExt(v, 256) =
                     IF v \div 256 = 0 THEN 1 ELSE Encoder!SizeofExt(v \div 256, 256) + 1
          BY SizeofExtDefined
        <5>2. QED BY <1>1, <5>1, Zenon
      <4>3. PICK z \in Nat \ {0} : z = Encoder!SizeofExt(r, 256)
        BY SizeofExtDefined
      <4>4. size = IF r = 0 THEN 1 ELSE z + 1
        BY <2>1, <4>1, <4>2, <4>3
      <4>5. r = 0
        BY <2>5, <4>4
      <4>6. QED BY <4>1, <4>5
    <3>2. l % 256 = l
      BY <1>1, <3>1
    <3>3. Encoder!ShiftedRight(l, 0) = l
      <4>1. Encoder!ShiftedRight(l, 0) = ShiftedRight(l, 0)
        BY DEF Encoder!ShiftedRight, ShiftedRight
      <4>2. ShiftedRight(l, 0) = l
        BY <1>1, ShiftedRightFacts
      <4>3. QED BY <4>1, <4>2
    <3>4. size - 1 = 0
      BY <2>5
    <3>5. QED BY <2>2, <2>3, <3>2, <3>3, <3>4
  <2>6. QED BY <1>1, <1>2, <1>5, <2>2, <2>3, <2>4, <2>5
<1>6. QED BY <1>3, <1>4, <1>5

(* A header has as many octets as tag_sizeof says: "this operation is      *)
(* consistent with tag_sizeof".                                            *)
LEMMA OctetsOfHeader ==
  ASSUME NEW h, Encodable(h)
  PROVE  /\ Encoder!EncodedHeader(h) \in Seq(Octet) /\ Len(Encoder!EncodedHeader(h)) \in Nat \ {0}
         /\ Len(Encoder!EncodedHeader(h)) = Encoder!Sizeof(h)
         /\ Len(Encoder!EncodedHeader(h)) = Len(Encoder!EncodedIdentifier(h)) + Len(Encoder!EncodedLength(h))
         /\ \A i \in 1..Len(Encoder!EncodedHeader(h)) :
              Encoder!EncodedHeader(h)[i] =
                IF i <= Len(Encoder!EncodedIdentifier(h)) THEN Encoder!EncodedIdentifier(h)[i]
                ELSE Encoder!EncodedLength(h)[i - Len(Encoder!EncodedIdentifier(h))]
<1>1. PICK is, ls : is = Encoder!EncodedIdentifier(h) /\ ls = Encoder!EncodedLength(h)
  OBVIOUS
<1>2. /\ is \in Seq(Octet) /\ ls \in Seq(Octet)
      /\ Len(is) = IF h.number <= 30 THEN 1 ELSE 1 + Encoder!SizeofExt(h.number, 128)
      /\ Len(ls) = IF h.shape = "constructed_indefinite" \/ h.length <= 127 THEN 1
                   ELSE 1 + Encoder!SizeofExt(h.length, 256)
  BY <1>1, IdentifierOfHeader, LengthOfHeader DEF IdentifierPut, LengthPut
<1>3. /\ h.number \in Nat /\ h.length \in Nat
      /\ Encoder!SizeofExt(h.number, 128) \in Nat \ {0} /\ Encoder!SizeofExt(h.length, 256) \in Nat \ {0}
  <2>1. h.number \in Nat /\ h.length \in Nat
    BY DEF Encodable
  <2>2. QED BY <2>1, SizeofExtDefined
<1>4. PICK m \in Nat \ {0}, n \in Nat \ {0} : m = Len(is) /\ n = Len(ls)
  BY <1>2, <1>3
<1>5. m + n = Encoder!Sizeof(h)
  <2>1. m - 1 = IF h.number <= 30 THEN 0 ELSE Encoder!SizeofExt(h.number, 128)
    BY <1>2, <1>3, <1>4
  <2>2. n - 1 = IF h.shape = "constructed_indefinite" \/ h.length <= 127 THEN 0
                ELSE Encoder!SizeofExt(h.length, 256)
    BY <1>2, <1>3, <1>4
  <2>3. Encoder!Sizeof(h) = 2 + (m - 1) + (n - 1)
    BY <2>1, <2>2, ZenonT(40) DEF Encoder!Sizeof
  <2>4. QED BY <2>3
<1>6. PICK os : os = Encoder!EncodedHeader(h)
  OBVIOUS
<1>7. os = is \o ls
  BY <1>1, <1>6 DEF Encoder!EncodedHeader
<1>8. /\ os \in Seq(Octet) /\ Len(os) = m + n
      /\ \A i \in 1..m + n : os[i] = IF i <= m THEN is[i] ELSE ls[i - m]
  <2>1. is \in Seq(Octet) /\ ls \in Seq(Octet)
    BY <1>2
  <2>2. /\ is \o ls \in Seq(Octet) /\ Len(is \o ls) = Len(is) + Len(ls)
        /\ \A i \in 1..Len(is) + Len(ls) :
             (is \o ls)[i] = IF i <= Len(is) THEN is[i] ELSE ls[i - Len(is)]
    BY <2>1, ConcatProperties, Zenon
  <2>3. QED BY <1>4, <1>7, <2>2, Zenon
<1>9. /\ os \in Seq(Octet) /\ Len(os) \in Nat \ {0}
      /\ Len(os) = Encoder!Sizeof(h) /\ Len(os) = Len(is) + Len(ls)
  BY <1>4, <1>5, <1>8
<1>10. \A i \in 1..Len(os) : os[i] = IF i <= Len(is) THEN is[i] ELSE ls[i - Len(is)]
  BY <1>4, <1>8, Zenon
<1>11. QED BY <1>1, <1>6, <1>9, <1>10, Zenon
=============================================================================
