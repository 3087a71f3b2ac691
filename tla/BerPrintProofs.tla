--------------------------- MODULE BerPrintProofs ---------------------------
(***************************************************************************)
(* For every text and every width of the integers: the type invariant of   *)
(* BerPrint; that tags are printed in the order of the text, each one      *)
(* once, and nested; that the octets put are the encoding of the tags      *)
(* printed, and are read as these; and that no tag is lost of a text that  *)
(* is a tree the printer supports.                                         *)
(***************************************************************************)
EXTENDS BerPrint, ProofFacts, FiniteSetTheorems

-----------------------------------------------------------------------------
(* The invariant.                                                          *)

\* ls are lines of a text t in its order: the first at level v, and each of the
\* others deeper than that and at most one level below the one before it.
Nest(t, ls, v) ==
  /\ ls \in Seq(1..Len(t)) /\ ls # << >>
  /\ t[ls[1]].level = v
  /\ \A k \in 2..Len(ls) :
       ls[k - 1] < ls[k] /\ t[ls[k]].level \in v + 1..t[ls[k - 1]].level + 1

Before(ls, ms) == \A i \in 1..Len(ls) : \A j \in 1..Len(ms) : ls[i] < ms[j]

\* The loops fs: those of definite tags, whose lines are still to be printed, above
\* those of indefinite ones, which have been, each inside the one before; ps are
\* the lines printed.
Loops(fs, t, ps) ==
  /\ \A i \in 1..Len(fs) :
       /\ Nest(t, fs[i].node.lines, fs[i].level)
       /\ Definite(fs[i].node) => Before(ps, fs[i].node.lines)
       /\ ~Definite(fs[i].node) =>
            ps # << >> /\ fs[i].level \in t[ps[1]].level..t[ps[Len(ps)]].level
  /\ \A j \in 1..Len(fs) : \A i \in 1..j - 1 :
       /\ ~Definite(fs[j].node) => ~Definite(fs[i].node) /\ fs[i].level < fs[j].level
       /\ Definite(fs[i].node) => Before(fs[i].node.lines, fs[j].node.lines)

\* The lines of the node of f are behind those printed and those of the loops.
Follows(f, fs, t, ps) ==
  /\ Nest(t, f.node.lines, f.level)
  /\ Before(ps, f.node.lines)
  /\ \A i \in 1..Len(fs) : Definite(fs[i].node) => Before(fs[i].node.lines, f.node.lines)

\* Nothing is printed before the first loop of an indefinite tag but one whole tag.
Prints(a, fs, t, ps) ==
  /\ ps # << >> => Nest(t, ps, t[ps[1]].level)
  /\ a \in {"extract", "returned"} /\ (fs = << >> \/ Definite(fs[1].node)) => ps = << >>

Frame == [level : Nat, node : Node]

Typed ==
  /\ at \in {"extract", "returned", "done", "terminated"}
  /\ frames \in Seq(Frame)
  /\ good \in BOOLEAN /\ stuck \in BOOLEAN /\ refused \in BOOLEAN /\ invalid \in BOOLEAN
  /\ got \in Frame
  /\ out \in Seq(Octet)
  /\ taken \in Seq(Lines) /\ Len(taken) <= MaxLines
  /\ printed \in Seq(1..Len(taken))

IInv ==
  /\ Typed
  /\ Loops(frames, taken, printed)
  /\ at = "returned" /\ good => Follows(got, frames, taken, printed)
  /\ Prints(at, frames, taken, printed)

-----------------------------------------------------------------------------
(* Lines.                                                                  *)

LEMMA Levels ==
  ASSUME NEW t \in Seq(Lines), NEW i \in 1..Len(t)
  PROVE  t[i] \in Line /\ t[i].level \in Nat
<1>1. t[i] \in Lines
  BY ElementOfSeq
<1>2. t[i] \in Line
  BY <1>1, BerPrintAssumption
<1>3. QED BY <1>2 DEF Line

LEMMA NestFacts ==
  ASSUME NEW t \in Seq(Lines), NEW ls, NEW v, Nest(t, ls, v)
  PROVE  /\ v \in Nat /\ Len(ls) \in Nat \ {0} /\ ls \in Seq(1..Len(t))
         /\ \A k \in 1..Len(ls) :
              ls[k] \in 1..Len(t) /\ t[ls[k]].level \in Nat /\ v <= t[ls[k]].level
<1>1. /\ ls \in Seq(1..Len(t)) /\ ls # << >> /\ t[ls[1]].level = v
      /\ \A k \in 2..Len(ls) : t[ls[k]].level \in v + 1..t[ls[k - 1]].level + 1
  BY DEF Nest
<1>2. Len(ls) \in Nat \ {0}
  BY <1>1
<1>3. \A k \in 1..Len(ls) : ls[k] \in 1..Len(t) /\ t[ls[k]].level \in Nat
  BY <1>1, ElementOfSeq, Levels
<1>4. v \in Nat
  BY <1>1, <1>2, <1>3
<1>5. \A k \in 1..Len(ls) : v <= t[ls[k]].level
  <2>1. TAKE k \in 1..Len(ls)
  <2>2. CASE k = 1
    BY <1>1, <1>4, <2>2
  <2>3. CASE k # 1
    <3>1. k \in 2..Len(ls)
      BY <1>2, <2>3
    <3>2. v + 1 <= t[ls[k]].level
      BY <1>1, <3>1
    <3>3. t[ls[k]].level \in Nat
      BY <1>3
    <3>4. QED BY <1>4, <3>2, <3>3
  <2>4. QED BY <2>2, <2>3
<1>6. QED BY <1>1, <1>2, <1>3, <1>4, <1>5

(* Lines that nest one level below those before them go on nesting.        *)
LEMMA NestsJoin ==
  ASSUME NEW t \in Seq(Lines), NEW ls, NEW v, Nest(t, ls, v),
         NEW ms, NEW w, Nest(t, ms, w), Before(ls, ms),
         v < w, w <= t[ls[Len(ls)]].level + 1
  PROVE  Nest(t, ls \o ms, v)
<1> DEFINE js == ls \o ms
<1>1. PICK m \in Nat \ {0}, n \in Nat \ {0} : m = Len(ls) /\ n = Len(ms)
  BY NestFacts
<1>2. /\ v \in Nat /\ w \in Nat /\ ls \in Seq(1..Len(t)) /\ ms \in Seq(1..Len(t))
      /\ \A k \in 1..m : ls[k] \in 1..Len(t) /\ t[ls[k]].level \in Nat
      /\ \A k \in 1..n : ms[k] \in 1..Len(t) /\ t[ms[k]].level \in Nat /\ w <= t[ms[k]].level
  BY <1>1, NestFacts, Zenon
<1>3. /\ js \in Seq(1..Len(t)) /\ Len(js) = m + n
      /\ \A k \in 1..m + n : js[k] = IF k <= m THEN ls[k] ELSE ms[k - m]
  <2>1. /\ js \in Seq(1..Len(t)) /\ Len(js) = Len(ls) + Len(ms)
        /\ \A k \in 1..Len(ls) + Len(ms) : js[k] = IF k <= Len(ls) THEN ls[k] ELSE ms[k - Len(ls)]
    BY <1>2, ConcatProperties, Zenon
  <2>2. QED BY <1>1, <2>1
<1> HIDE DEF js
<1>4. js # << >> /\ js[1] = ls[1]
  BY <1>1, <1>3
<1>5. t[js[1]].level = v
  BY <1>4 DEF Nest
<1>6. \A k \in 2..m + n : js[k - 1] < js[k] /\ t[js[k]].level \in v + 1..t[js[k - 1]].level + 1
  <2>1. TAKE k \in 2..m + n
  <2>2. CASE k <= m
    <3>1. k \in 1..m + n /\ k - 1 \in 1..m + n /\ k - 1 <= m /\ k \in 2..m
      BY <2>2
    <3>2. js[k] = ls[k] /\ js[k - 1] = ls[k - 1]
      BY <1>3, <2>2, <3>1, Zenon
    <3>3. \A i \in 2..m : ls[i - 1] < ls[i] /\ t[ls[i]].level \in v + 1..t[ls[i - 1]].level + 1
      BY <1>1, Zenon DEF Nest
    <3>4. QED BY <3>1, <3>2, <3>3, Zenon
  <2>3. CASE k = m + 1
    <3>0. k \in 1..m + n /\ k - 1 \in 1..m + n /\ ~(k <= m) /\ k - m = 1 /\ k - 1 = m /\ m <= m
      BY <2>3
    <3>1. js[k - 1] = ls[m] /\ js[k] = ms[1]
      BY <1>3, <3>0, Zenon
    <3>2. ls[m] < ms[1]
      BY <1>1 DEF Before
    <3>3. t[ms[1]].level = w
      BY DEF Nest
    <3>4. t[ls[m]].level \in Nat /\ w <= t[ls[m]].level + 1
      BY <1>1, <1>2
    <3>5. w \in v + 1..t[ls[m]].level + 1
      BY <1>2, <3>4
    <3>6. QED BY <3>1, <3>2, <3>3, <3>5
  <2>4. CASE k > m + 1
    <3>0. k - m \in 2..n
      BY <2>4
    <3>1. PICK i \in 2..n : i = k - m
      BY <3>0
    <3>2. js[k - 1] = ms[i - 1] /\ js[k] = ms[i]
      <4>1. k \in 1..m + n /\ k - 1 \in 1..m + n /\ ~(k <= m) /\ ~(k - 1 <= m)
        BY <2>4
      <4>2. js[k] = ms[k - m] /\ js[k - 1] = ms[k - 1 - m]
        BY <1>3, <4>1, Zenon
      <4>3. k - 1 - m = i - 1
        BY <3>1
      <4>4. QED BY <3>1, <4>2, <4>3
    <3>3. ms[i - 1] < ms[i] /\ t[ms[i]].level \in w + 1..t[ms[i - 1]].level + 1
      BY <1>1 DEF Nest
    <3>4. t[ms[i - 1]].level \in Nat /\ t[ms[i]].level \in Nat
      <4>1. i - 1 \in 1..n /\ i \in 1..n
        BY <3>1
      <4>2. QED BY <1>2, <4>1, Zenon
    <3>5. t[ms[i]].level \in v + 1..t[ms[i - 1]].level + 1
      <4>1. \A a \in Nat, b \in Nat : a \in w + 1..b + 1 => a \in v + 1..b + 1
        BY <1>2
      <4>2. QED BY <3>3, <3>4, <4>1, Zenon
    <3>6. QED BY <3>2, <3>3, <3>5
  <2>5. QED BY <1>1, <2>2, <2>3, <2>4
<1>7. QED BY <1>3, <1>4, <1>5, <1>6, Zenon DEF Nest, js

LEMMA JoinBefore ==
  ASSUME NEW S, NEW ls \in Seq(S), NEW ms \in Seq(S), NEW ns
  PROVE  /\ Before(ls, ns) /\ Before(ms, ns) => Before(ls \o ms, ns)
         /\ Before(ns, ls) /\ Before(ns, ms) => Before(ns, ls \o ms)
<1> DEFINE js == ls \o ms
<1>1. PICK m \in Nat, n \in Nat : m = Len(ls) /\ n = Len(ms)
  BY LenProperties
<1>2. Len(js) = m + n /\ \A k \in 1..m + n : js[k] = IF k <= m THEN ls[k] ELSE ms[k - m]
  <2>1. /\ Len(js) = Len(ls) + Len(ms)
        /\ \A k \in 1..Len(ls) + Len(ms) : js[k] = IF k <= Len(ls) THEN ls[k] ELSE ms[k - Len(ls)]
    BY ConcatProperties, Zenon
  <2>2. QED BY <1>1, <2>1
<1> HIDE DEF js
<1>3. \A k \in 1..m + n : (\E i \in 1..m : js[k] = ls[i]) \/ (\E i \in 1..n : js[k] = ms[i])
  <2>1. TAKE k \in 1..m + n
  <2>2. CASE k <= m
    BY <1>2, <2>2
  <2>3. CASE ~(k <= m)
    <3>1. k - m \in 1..n
      BY <2>3
    <3>2. QED BY <1>2, <2>3, <3>1
  <2>4. QED BY <2>2, <2>3
<1>4. QED BY <1>1, <1>2, <1>3, Zenon DEF Before, js

(* One line more: what nests does, and the line is behind all others.      *)
LEMMA NestOfMore ==
  ASSUME NEW t \in Seq(Lines), NEW l \in Lines, NEW ls, NEW v, Nest(t, ls, v)
  PROVE  Nest(Append(t, l), ls, v)
<1> DEFINE u == Append(t, l)
<1>1. Len(t) \in Nat /\ Len(u) = Len(t) + 1 /\ \A i \in 1..Len(t) : u[i] = t[i]
  BY AppendFacts
<1> HIDE DEF u
<1>2. Len(ls) \in Nat \ {0} /\ ls \in Seq(1..Len(t)) /\ \A k \in 1..Len(ls) : ls[k] \in 1..Len(t)
  BY NestFacts
<1>3. ls \in Seq(1..Len(u))
  BY <1>1, <1>2
<1>4. \A k \in 1..Len(ls) : u[ls[k]] = t[ls[k]]
  BY <1>1, <1>2
<1>5. u[ls[1]].level = v
  BY <1>2, <1>4 DEF Nest
<1>6. \A k \in 2..Len(ls) : ls[k - 1] < ls[k] /\ u[ls[k]].level \in v + 1..u[ls[k - 1]].level + 1
  <2>1. TAKE k \in 2..Len(ls)
  <2>2. k \in 1..Len(ls) /\ k - 1 \in 1..Len(ls)
    BY <1>2
  <2>3. u[ls[k]] = t[ls[k]] /\ u[ls[k - 1]] = t[ls[k - 1]]
    BY <1>4, <2>2
  <2>4. QED BY <2>3 DEF Nest
<1>7. ls # << >>
  BY DEF Nest
<1>8. QED BY <1>3, <1>5, <1>6, <1>7, Zenon DEF Nest, u

LEMMA LastLine ==
  ASSUME NEW t \in Seq(Lines), NEW l \in Lines
  PROVE  /\ Nest(Append(t, l), <<Len(t) + 1>>, l.level)
         /\ \A ls \in Seq(1..Len(t)) : Before(ls, <<Len(t) + 1>>)
<1>1. PICK n \in Nat : n = Len(t)
  BY LenProperties
<1>2. Append(t, l) \in Seq(Lines) /\ Len(Append(t, l)) = n + 1 /\ Append(t, l)[n + 1] = l
  BY <1>1, AppendFacts
<1>3. l.level \in Nat
  BY BerPrintAssumption DEF Line
<1>4. Nest(Append(t, l), <<n + 1>>, l.level)
  <2>1. <<n + 1>> \in Seq(1..n + 1) /\ <<n + 1>> # << >> /\ Len(<<n + 1>>) = 1 /\ <<n + 1>>[1] = n + 1
    OBVIOUS
  <2>2. QED BY <1>2, <2>1 DEF Nest
<1>5. \A ls \in Seq(1..n) : Before(ls, <<n + 1>>)
  <2>1. TAKE ls \in Seq(1..n)
  <2>2. \A i \in 1..Len(ls) : ls[i] \in 1..n
    BY ElementOfSeq
  <2>3. QED BY <2>2 DEF Before
<1>6. QED BY <1>1, <1>4, <1>5

LEMMA LoopsOfMore ==
  ASSUME NEW t \in Seq(Lines), NEW l \in Lines, NEW ps \in Seq(1..Len(t)),
         NEW fs, Loops(fs, t, ps)
  PROVE  Loops(fs, Append(t, l), ps)
<1> DEFINE u == Append(t, l)
<1>1. PICK n \in Nat : n = Len(t)
  BY LenProperties
<1>2. \A i \in 1..n : u[i] = t[i]
  BY <1>1, AppendFacts
<1>3. Len(ps) \in Nat /\ \A k \in 1..Len(ps) : ps[k] \in 1..n
  BY <1>1, ElementOfSeq, LenProperties
<1>4. ps # << >> => u[ps[1]] = t[ps[1]] /\ u[ps[Len(ps)]] = t[ps[Len(ps)]]
  <2>1. SUFFICES ASSUME ps # << >> PROVE ps[1] \in 1..n /\ ps[Len(ps)] \in 1..n
    BY <1>2
  <2>2. Len(ps) # 0
    BY <2>1, EmptySeq
  <2>3. 1 \in 1..Len(ps) /\ Len(ps) \in 1..Len(ps)
    BY <1>3, <2>2
  <2>4. QED BY <1>3, <2>3
<1> HIDE DEF u
<1>5. \A i \in 1..Len(fs) :
        Nest(t, fs[i].node.lines, fs[i].level) => Nest(u, fs[i].node.lines, fs[i].level)
  BY NestOfMore DEF u
<1>6. QED BY <1>4, <1>5, Zenon DEF Loops, u

-----------------------------------------------------------------------------
(* Loops.                                                                  *)

LEMMA FrontFacts ==
  ASSUME NEW S, NEW fs \in Seq(S), fs # << >>
  PROVE  /\ Len(fs) \in Nat \ {0} /\ Front(fs) \in Seq(S) /\ Len(Front(fs)) = Len(fs) - 1
         /\ Last(fs) = fs[Len(fs)] /\ Last(fs) \in S
         /\ \A i \in 1..Len(fs) - 1 : Front(fs)[i] = fs[i]
<1>1. PICK n \in Nat \ {0} : n = Len(fs)
  BY LenProperties, EmptySeq
<1>2. n - 1 \in 0..Len(fs) /\ 1 \in 1..(n - 1) + 1
  BY <1>1
<1>3. /\ SubSeq(fs, 1, n - 1) \in Seq(S) /\ Len(SubSeq(fs, 1, n - 1)) = (n - 1) + 1 - 1
      /\ \A i \in 1..(n - 1) + 1 - 1 : SubSeq(fs, 1, n - 1)[i] = fs[1 + i - 1]
  BY <1>2, SubSeqFacts
<1>4. fs[n] \in S
  BY <1>1, ElementOfSeq
<1>5. QED BY <1>1, <1>3, <1>4 DEF Front, Last

(* A loop that ends leaves the loops around it as they were, and the tag   *)
(* of a loop that is not printed yet behind them.                          *)
LEMMA LoopsPop ==
  ASSUME NEW fs \in Seq(Frame), fs # << >>, NEW t, NEW ps, Loops(fs, t, ps)
  PROVE  /\ Loops(Front(fs), t, ps)
         /\ Definite(Last(fs).node) => Follows(Last(fs), Front(fs), t, ps)
<1>1. PICK gs : gs = Front(fs)
  OBVIOUS
<1>2. PICK n \in Nat : /\ n + 1 = Len(fs) /\ n = Len(gs) /\ Last(fs) = fs[n + 1]
                       /\ \A i \in 1..n : gs[i] = fs[i]
  <2>1. PICK m \in Nat \ {0} : m = Len(fs)
    BY FrontFacts
  <2>2. Len(gs) = m - 1 /\ Last(fs) = fs[m] /\ \A i \in 1..m - 1 : gs[i] = fs[i]
    BY <1>1, <2>1, FrontFacts
  <2>3. m - 1 \in Nat /\ (m - 1) + 1 = m
    OBVIOUS
  <2>4. QED BY <2>1, <2>2, <2>3
<1>3. \A j \in 1..n : j \in 1..n + 1 /\ \A i \in 1..j - 1 : i \in 1..n
  OBVIOUS
<1>4. Loops(gs, t, ps)
  BY <1>2, <1>3, Zenon DEF Loops
<1>5. Definite(fs[n + 1].node) => Follows(fs[n + 1], gs, t, ps)
  <2>1. n + 1 \in 1..n + 1 /\ (n + 1) - 1 = n
    OBVIOUS
  <2>2. /\ Nest(t, fs[n + 1].node.lines, fs[n + 1].level)
        /\ Definite(fs[n + 1].node) => Before(ps, fs[n + 1].node.lines)
        /\ \A i \in 1..n : Definite(fs[i].node) => Before(fs[i].node.lines, fs[n + 1].node.lines)
    <3>1. /\ Nest(t, fs[n + 1].node.lines, fs[n + 1].level)
          /\ Definite(fs[n + 1].node) => Before(ps, fs[n + 1].node.lines)
      BY <1>2, <2>1, Zenon DEF Loops
    <3>2. \A i \in 1..(n + 1) - 1 :
             Definite(fs[i].node) => Before(fs[i].node.lines, fs[n + 1].node.lines)
      BY <1>2, <2>1, Zenon DEF Loops
    <3>3. QED BY <2>1, <3>1, <3>2, Zenon
  <2>3. QED BY <1>2, <2>2, Zenon DEF Follows
<1>6. QED BY <1>1, <1>2, <1>4, <1>5

(* The loop of a tag that is behind all lines, and inside the last loop if *)
(* it is indefinite.                                                       *)
LEMMA LoopsPush ==
  ASSUME NEW fs \in Seq(Frame), NEW f \in Frame, NEW t, NEW ps, Loops(fs, t, ps),
         Nest(t, f.node.lines, f.level),
         \A i \in 1..Len(fs) : Definite(fs[i].node) => Before(fs[i].node.lines, f.node.lines),
         Definite(f.node) => Before(ps, f.node.lines),
         ~Definite(f.node) =>
           /\ ps # << >> /\ f.level \in t[ps[1]].level..t[ps[Len(ps)]].level
           /\ \A i \in 1..Len(fs) : ~Definite(fs[i].node) /\ fs[i].level < f.level
  PROVE  Loops(Append(fs, f), t, ps)
<1>1. PICK n \in Nat : n = Len(fs)
  BY LenProperties
<1>2. PICK gs : gs = Append(fs, f)
  BY Zenon
<1>3. Len(gs) = n + 1 /\ gs[n + 1] = f /\ \A i \in 1..n : gs[i] = fs[i]
  BY <1>1, <1>2, AppendFacts
<1>4. \A j \in 1..n + 1 : j = n + 1 \/ (j \in 1..n /\ \A i \in 1..j - 1 : i \in 1..n)
  OBVIOUS
<1>5. (n + 1) - 1 = n
  OBVIOUS
<1>6. \A i \in 1..n + 1 :
        /\ Nest(t, gs[i].node.lines, gs[i].level)
        /\ Definite(gs[i].node) => Before(ps, gs[i].node.lines)
        /\ ~Definite(gs[i].node) =>
             ps # << >> /\ gs[i].level \in t[ps[1]].level..t[ps[Len(ps)]].level
  <2>1. TAKE i \in 1..n + 1
  <2>2. CASE i = n + 1
    BY <1>3, <2>2, Zenon
  <2>3. CASE i \in 1..n
    BY <1>1, <1>3, <2>3, Zenon DEF Loops
  <2>4. QED BY <1>4, <2>2, <2>3
<1>7. \A j \in 1..n + 1 : \A i \in 1..j - 1 :
        /\ ~Definite(gs[j].node) => ~Definite(gs[i].node) /\ gs[i].level < gs[j].level
        /\ Definite(gs[i].node) => Before(gs[i].node.lines, gs[j].node.lines)
  <2>1. TAKE j \in 1..n + 1
  <2>2. TAKE i \in 1..j - 1
  <2>3. CASE j = n + 1
    <3>1. i \in 1..n
      BY <1>5, <2>3
    <3>2. QED BY <1>1, <1>3, <2>3, <3>1, Zenon
  <2>4. CASE j \in 1..n
    <3>1. i \in 1..n
      BY <2>4
    <3>2. QED BY <1>1, <1>3, <2>4, <3>1, Zenon DEF Loops
  <2>5. QED BY <1>4, <2>3, <2>4
<1>8. QED BY <1>2, <1>3, <1>6, <1>7, Zenon DEF Loops

(* The loop on top takes the lines of a node one level below its tag.      *)
LEMMA LoopsPushBack ==
  ASSUME NEW t \in Seq(Lines), NEW fs \in Seq(Frame), fs # << >>, NEW ps \in Seq(1..Len(t)),
         Loops(fs, t, ps), NEW g \in Frame, Follows(g, fs, t, ps),
         g.level = Last(fs).level + 1, Definite(Last(fs).node),
         NEW nd \in Node, Definite(nd), nd.lines = Last(fs).node.lines \o g.node.lines
  PROVE  LET gs == [fs EXCEPT ![Len(fs)].node = nd]
         IN  gs \in Seq(Frame) /\ Loops(gs, t, ps)
<1> DEFINE gs == [fs EXCEPT ![Len(fs)].node = nd]
<1>1. PICK n \in Nat \ {0} : n = Len(fs) /\ Last(fs) = fs[n] /\ fs[n] \in Frame
  BY FrontFacts, Zenon
<1>2. n \in 1..n /\ \A i \in 1..n : i = n \/ i \in 1..n - 1
  OBVIOUS
<1>3. PICK f \in Frame : f = [fs[n] EXCEPT !.node = nd]
  BY <1>1, Zenon DEF Frame
<1>4. f.level = fs[n].level /\ f.node = nd
  BY <1>1, <1>3 DEF Frame
<1>5. gs \in Seq(Frame) /\ Len(gs) = n /\ gs[n] = f /\ \A i \in 1..n - 1 : gs[i] = fs[i]
  <2>1. gs = [fs EXCEPT ![n] = f]
    BY <1>1, <1>3
  <2>2. /\ [fs EXCEPT ![n] = f] \in Seq(Frame) /\ Len([fs EXCEPT ![n] = f]) = n
        /\ [fs EXCEPT ![n] = f][n] = f /\ \A i \in 1..n - 1 : [fs EXCEPT ![n] = f][i] = fs[i]
    BY <1>1, <1>2
  <2>3. QED BY <2>1, <2>2, Zenon
<1> HIDE DEF gs
<1>6. /\ Nest(t, fs[n].node.lines, fs[n].level) /\ Nest(t, g.node.lines, g.level)
      /\ Before(ps, fs[n].node.lines) /\ Before(ps, g.node.lines)
      /\ Before(fs[n].node.lines, g.node.lines)
  <2>1. Nest(t, fs[n].node.lines, fs[n].level) /\ Before(ps, fs[n].node.lines)
    BY <1>1, <1>2, Zenon DEF Loops
  <2>2. Nest(t, g.node.lines, g.level) /\ Before(ps, g.node.lines)
    BY DEF Follows
  <2>3. Before(fs[n].node.lines, g.node.lines)
    BY <1>1, <1>2, Zenon DEF Follows
  <2>4. QED BY <2>1, <2>2, <2>3
<1>7. fs[n].node.lines \in Seq(1..Len(t)) /\ g.node.lines \in Seq(1..Len(t))
  BY <1>6 DEF Nest
<1>8. nd.lines = fs[n].node.lines \o g.node.lines
  BY <1>1
<1>9. Nest(t, nd.lines, f.level)
  <2>1. PICK ls, v, w : ls = fs[n].node.lines /\ v = fs[n].level /\ w = g.level
    OBVIOUS
  <2>2. Len(ls) \in 1..Len(ls) /\ v \in Nat /\ t[ls[Len(ls)]].level \in Nat /\ v <= t[ls[Len(ls)]].level
    <3>1. Len(ls) \in Nat \ {0}
      BY <1>6, <2>1, NestFacts, Zenon
    <3>2. Len(ls) \in 1..Len(ls)
      BY <3>1
    <3>3. QED BY <1>6, <2>1, <3>2, NestFacts, Zenon
  <2>3. w = v + 1
    BY <1>1, <2>1
  <2>4. v < w /\ w <= t[ls[Len(ls)]].level + 1
    BY <2>2, <2>3
  <2>5. Nest(t, ls \o g.node.lines, v)
    BY <1>6, <2>1, <2>4, NestsJoin
  <2>6. QED BY <1>4, <1>8, <2>1, <2>5
<1>10. Before(ps, nd.lines)
  BY <1>6, <1>7, <1>8, JoinBefore
<1>11. \A i \in 1..n - 1 : Definite(fs[i].node) => Before(fs[i].node.lines, nd.lines)
  <2>1. SUFFICES ASSUME NEW i \in 1..n - 1, Definite(fs[i].node)
                 PROVE  Before(fs[i].node.lines, nd.lines)
    OBVIOUS
  <2>2. i \in 1..n
    OBVIOUS
  <2>3. Before(fs[i].node.lines, fs[n].node.lines)
    BY <1>1, <1>2, <2>1, Zenon DEF Loops
  <2>4. Before(fs[i].node.lines, g.node.lines)
    BY <1>1, <2>1, <2>2, Zenon DEF Follows
  <2>5. QED BY <1>7, <1>8, <2>3, <2>4, JoinBefore
<1>12. Loops(gs, t, ps)
  <2>1. \A i \in 1..n :
          /\ Nest(t, gs[i].node.lines, gs[i].level)
          /\ Definite(gs[i].node) => Before(ps, gs[i].node.lines)
          /\ ~Definite(gs[i].node) =>
               ps # << >> /\ gs[i].level \in t[ps[1]].level..t[ps[Len(ps)]].level
    <3>1. TAKE i \in 1..n
    <3>2. CASE i = n
      BY <1>4, <1>5, <1>9, <1>10, <3>2, Zenon
    <3>3. CASE i \in 1..n - 1
      BY <1>1, <1>5, <3>3, Zenon DEF Loops
    <3>4. QED BY <1>2, <3>2, <3>3
  <2>2. \A j \in 1..n : \A i \in 1..j - 1 :
          /\ ~Definite(gs[j].node) => ~Definite(gs[i].node) /\ gs[i].level < gs[j].level
          /\ Definite(gs[i].node) => Before(gs[i].node.lines, gs[j].node.lines)
    <3>1. TAKE j \in 1..n
    <3>2. TAKE i \in 1..j - 1
    <3>3. i \in 1..n - 1
      OBVIOUS
    <3>4. CASE j = n
      BY <1>4, <1>5, <1>11, <3>3, <3>4, Zenon
    <3>5. CASE j \in 1..n - 1
      BY <1>1, <1>5, <3>3, <3>5, Zenon DEF Loops
    <3>6. QED BY <1>2, <3>4, <3>5
  <2>3. QED BY <1>5, <2>1, <2>2, Zenon DEF Loops
<1>13. QED BY <1>5, <1>12 DEF gs

(* A tag printed at the root or one level below the innermost loop goes on *)
(* the nest that has been printed.                                         *)
LEMMA LoopsPrint ==
  ASSUME NEW t \in Seq(Lines), NEW fs \in Seq(Frame), NEW ps \in Seq(1..Len(t)),
         Loops(fs, t, ps), \A i \in 1..Len(fs) : ~Definite(fs[i].node),
         NEW g \in Frame, Follows(g, fs, t, ps),
         ps # << >> => Nest(t, ps, t[ps[1]].level),
         \/ fs = << >> /\ ps = << >>
         \/ fs # << >> /\ g.level = Last(fs).level + 1
  PROVE  LET qs == ps \o g.node.lines
         IN  /\ qs \in Seq(1..Len(t)) /\ qs # << >> /\ Nest(t, qs, t[qs[1]].level)
             /\ Loops(fs, t, qs) /\ g.level \in t[qs[1]].level..t[qs[Len(qs)]].level
             /\ \A i \in 1..Len(fs) : fs[i].level < g.level
<1> DEFINE ls == g.node.lines
<1>1. PICK qs : qs = ps \o ls
  BY Zenon
<1>2. Nest(t, ls, g.level) /\ Before(ps, ls)
  BY DEF Follows
<1>3. PICK m \in Nat \ {0} : m = Len(ls)
  BY <1>2, NestFacts
<1>4. /\ ls \in Seq(1..Len(t)) /\ m \in 1..m /\ g.level \in Nat
      /\ t[ls[m]].level \in Nat /\ g.level <= t[ls[m]].level
  <2>1. m \in 1..m
    OBVIOUS
  <2>2. QED BY <1>2, <1>3, <2>1, NestFacts, Zenon
<1> HIDE DEF ls
<1>5. CASE fs = << >> /\ ps = << >>
  <2>1. qs = ls
    BY <1>1, <1>4, <1>5
  <2>2. Len(fs) = 0
    BY <1>5
  <2>3. t[ls[1]].level = g.level /\ ls # << >>
    BY <1>2 DEF Nest
  <2>4. g.level \in t[qs[1]].level..t[qs[Len(qs)]].level
    BY <1>3, <1>4, <2>1, <2>3
  <2>5. Loops(fs, t, qs)
    BY <2>2 DEF Loops
  <2>6. QED BY <1>1, <1>2, <1>4, <2>1, <2>2, <2>3, <2>4, <2>5 DEF ls
<1>6. CASE fs # << >> /\ g.level = Last(fs).level + 1
  <2>1. PICK n \in Nat \ {0} : n = Len(fs) /\ Last(fs) = fs[n] /\ fs[n] \in Frame
    BY <1>6, FrontFacts, ZenonT(40)
  <2>2. n \in 1..n /\ \A i \in 1..n : i = n \/ i \in 1..n - 1
    OBVIOUS
  <2>3. ps # << >> /\ fs[n].level \in t[ps[1]].level..t[ps[Len(ps)]].level
    BY <2>1, <2>2, Zenon DEF Loops
  <2>4. PICK v, x : v = t[ps[1]].level /\ x = t[ps[Len(ps)]].level
    OBVIOUS
  <2>5. Nest(t, ps, v)
    BY <2>3, <2>4
  <2>6. PICK k \in Nat \ {0} : k = Len(ps)
    BY <2>5, NestFacts
  <2>7. v \in Nat /\ x \in Nat
    <3>1. k \in 1..k
      OBVIOUS
    <3>2. QED BY <2>4, <2>5, <2>6, <3>1, NestFacts, Zenon
  <2>8. fs[n].level \in Nat /\ v <= fs[n].level /\ fs[n].level <= x /\ g.level = fs[n].level + 1
    BY <1>6, <2>1, <2>3, <2>4, <2>7
  <2>9. Nest(t, qs, v)
    <3>1. v < g.level /\ g.level <= t[ps[Len(ps)]].level + 1
      <4>1. \A a \in Nat : \A b : v <= a /\ a <= x /\ b = a + 1 => v < b /\ b <= x + 1
        BY <2>7
      <4>2. v < g.level /\ g.level <= x + 1
        BY <2>8, <4>1
      <4>3. QED BY <2>4, <4>2, Zenon
    <3>2. QED BY <1>1, <1>2, <2>5, <3>1, NestsJoin
  <2>10. /\ Len(qs) = k + m /\ qs[1] = ps[1] /\ qs[k + m] = ls[m]
         /\ qs \in Seq(1..Len(t)) /\ qs # << >>
    <3>1. /\ Len(ps \o ls) = Len(ps) + Len(ls)
          /\ \A i \in 1..Len(ps) + Len(ls) :
               (ps \o ls)[i] = IF i <= Len(ps) THEN ps[i] ELSE ls[i - Len(ps)]
      BY <1>4, ConcatProperties, Zenon
    <3>2. 1 \in 1..k + m /\ 1 <= k /\ k + m \in 1..k + m /\ ~(k + m <= k) /\ (k + m) - k = m
      OBVIOUS
    <3>3. QED BY <1>1, <1>3, <2>6, <2>9, <3>1, <3>2, Zenon DEF Nest
  <2>11. t[qs[1]].level = v /\ t[qs[Len(qs)]].level = t[ls[m]].level
    BY <2>4, <2>10
  <2>12. g.level \in t[qs[1]].level..t[qs[Len(qs)]].level
    BY <1>4, <2>7, <2>8, <2>11
  <2>13. \A i \in 1..n : fs[i].level \in Nat /\ v <= fs[i].level /\ fs[i].level < g.level
    <3>1. TAKE i \in 1..n
    <3>2. fs[i] \in Frame
      BY <2>1, ElementOfSeq
    <3>3. fs[i].level \in Nat
      BY <3>2 DEF Frame
    <3>4. fs[i].level \in v..x
      BY <2>1, <2>4, Zenon DEF Loops
    <3>5. i = n \/ fs[i].level < fs[n].level
      BY <2>1, <2>2, Zenon DEF Loops
    <3>6. QED BY <2>7, <2>8, <3>3, <3>4, <3>5
  <2>14. \A i \in 1..n : fs[i].level \in t[qs[1]].level..t[qs[Len(qs)]].level
    <3>1. PICK z \in Nat, b \in Nat : z = t[ls[m]].level /\ b = g.level /\ b <= z
      BY <1>4, Zenon
    <3>2. \A a \in Nat : v <= a /\ a < b => a \in v..z
      BY <2>7, <3>1
    <3>3. QED BY <2>11, <2>13, <3>1, <3>2, Zenon
  <2>15. Loops(fs, t, qs)
    BY <2>1, <2>10, <2>14, Zenon DEF Loops
  <2>16. Nest(t, qs, t[qs[1]].level)
    BY <2>9, <2>11
  <2>17. QED BY <1>1, <2>1, <2>10, <2>12, <2>13, <2>15, <2>16 DEF ls
<1>7. QED BY <1>5, <1>6, Zenon

-----------------------------------------------------------------------------
(* Nodes.                                                                  *)

LEMMA HeadersEncodable ==
  ASSUME NEW h \in Header
  PROVE  Encodable(h)
<1>1. /\ h.tclass \in Encoder!TagClass /\ h.number \in Nat
      /\ h.shape \in Encoder!TagShape /\ h.length \in 0..SizeMax
  BY BerPrintAssumption DEF Header, TagClass, Encoder!TagClass, TagShape, Encoder!TagShape
<1>2. SizeMax \in Nat /\ Encoder!SizeofExt(SizeMax, 256) < 127
  <2>1. Encoder!SizeofExt(SizeMax, 256) = Enc!SizeofExt(SizeMax, 256)
    BY DEF Encoder!SizeofExt, Enc!SizeofExt
  <2>2. QED BY <2>1, BerPrintAssumption
<1>3. QED BY <1>1, <1>2, EncodableUpTo

LEMMA SameEncoder ==
  \A h : /\ Encoder!EncodedIdentifier(h) = Enc!EncodedIdentifier(h)
         /\ Encoder!EncodedLength(h) = Enc!EncodedLength(h)
         /\ Encoder!EncodedHeader(h) = Enc!EncodedHeader(h)
         /\ Encoder!Sizeof(h) = Enc!Sizeof(h)
<1>1. ASSUME NEW h PROVE Encoder!EncodedIdentifier(h) = Enc!EncodedIdentifier(h)
  BY DEF Encoder!EncodedIdentifier, Enc!EncodedIdentifier, Encoder!EncodedNumber, Enc!EncodedNumber,
         Encoder!Low7, Enc!Low7, Encoder!HighForm, Enc!HighForm
<1>2. ASSUME NEW h PROVE Encoder!EncodedLength(h) = Enc!EncodedLength(h)
  BY Zenon DEF Encoder!EncodedLength, Enc!EncodedLength, Encoder!SizeofExt, Enc!SizeofExt,
         Encoder!ShiftedRight, Enc!ShiftedRight, Encoder!Indefinite, Enc!Indefinite
<1>3. ASSUME NEW h PROVE Encoder!EncodedHeader(h) = Enc!EncodedHeader(h)
  BY <1>1, <1>2 DEF Encoder!EncodedHeader, Enc!EncodedHeader
<1>4. ASSUME NEW h PROVE Encoder!Sizeof(h) = Enc!Sizeof(h)
  BY DEF Encoder!Sizeof, Enc!Sizeof, Encoder!SizeofExt, Enc!SizeofExt
<1>5. QED BY <1>1, <1>2, <1>3, <1>4

LEMMA HeaderPut ==
  ASSUME NEW h \in Header
  PROVE  /\ Enc!EncodedHeader(h) \in Seq(Octet) /\ Enc!Sizeof(h) \in Nat
         /\ Len(Enc!EncodedHeader(h)) = Enc!Sizeof(h)
<1>1. PICK os, n : os = Enc!EncodedHeader(h) /\ n = Enc!Sizeof(h)
  OBVIOUS
<1>2. os \in Seq(Octet) /\ Len(os) \in Nat \ {0} /\ Len(os) = n
  BY <1>1, HeadersEncodable, SameEncoder, OctetsOfHeader, Zenon
<1>3. QED BY <1>1, <1>2

LEMMA Concatenated ==
  ASSUME NEW S, NEW s \in Seq(S), NEW t \in Seq(S)
  PROVE  s \o t \in Seq(S)
  BY ConcatProperties

LEMMA ContentTyped ==
  ASSUME NEW line \in Lines
  PROVE  Content(line) \in Seq(Octet) /\ Len(Content(line)) \in 0..SizeMax
<1>1. line.items \in Seq(Nat) /\ Len(line.items) <= SizeMax
  BY BerPrintAssumption DEF Line
<1>2. PICK n \in 0..SizeMax : n = Len(line.items)
  BY <1>1, BerPrintAssumption
<1>3. CASE IsUniversal(line, univ.boolean)
  <2>1. \A b \in BOOLEAN : <<IF b THEN 255 ELSE 0>> \in Seq(Octet) /\ Len(<<IF b THEN 255 ELSE 0>>) = 1
    BY DEF Octet
  <2>2. EncodedBoolean(line.items = <<1>>) \in Seq(Octet) /\ Len(EncodedBoolean(line.items = <<1>>)) = 1
    BY <2>1, Zenon DEF EncodedBoolean
  <2>3. 1 \in 0..SizeMax
    BY BerPrintAssumption
  <2>4. QED BY <1>3, <2>2, <2>3, Zenon DEF Content
<1>4. CASE ~IsUniversal(line, univ.boolean)
  <2>1. \A i \in 1..n : line.items[i] \in Nat
    BY <1>1, <1>2, ElementOfSeq
  <2>2. \A i \in 1..n : line.items[i] % 256 \in Octet
    BY <2>1 DEF Octet
  <2>3. DOMAIN line.items = 1..n
    BY <1>1, <1>2, LenProperties
  <2>4. OctetString(line) = [i \in 1..n |-> line.items[i] % 256]
    BY <2>3 DEF OctetString
  <2>5. OctetString(line) \in Seq(Octet) /\ Len(OctetString(line)) = n
    BY <1>2, <2>2, <2>4
  <2>6. QED BY <1>2, <1>4, <2>5 DEF Content
<1>5. QED BY <1>3, <1>4

LEMMA NodeTyped ==
  ASSUME NEW line \in Lines, LabelRead(line), NEW shape \in TagShape,
         NEW content \in Seq(Octet), Len(content) \in 0..SizeMax, taken' \in Seq(Lines)
  PROVE  /\ [level |-> line.level, node |-> NodeOf(line, shape, content)] \in Frame
         /\ NodeOf(line, shape, content).th.shape = shape
         /\ NodeOf(line, shape, content).lines = <<Len(taken')>>
<1>1. line.tclass \in TagClass /\ line.number \in 0..NumberMax /\ line.level \in Nat
  BY BerPrintAssumption DEF Line, LabelRead
<1>2. Len(taken') \in Nat
  BY LenProperties
<1>3. <<Len(taken')>> \in Seq(Nat)
  BY <1>2
<1>4. QED BY <1>1, <1>3 DEF NodeOf, Node, Header, Frame

LEMMA PushBackTyped ==
  ASSUME NEW n \in Node, NEW child \in Node
  PROVE  /\ PushBack(n, child) \in Node
         /\ PushBack(n, child).th.shape = n.th.shape
         /\ PushBack(n, child).lines = n.lines \o child.lines
<1>1. /\ n.th \in Header /\ n.content \in Seq(Octet) /\ n.lines \in Seq(Nat)
      /\ child.th \in Header /\ child.content \in Seq(Octet) /\ child.lines \in Seq(Nat)
  BY DEF Node
<1>2. n.th.length \in Nat /\ child.th.length \in Nat
  BY <1>1, BerPrintAssumption DEF Header
<1>3. Enc!EncodedHeader(child.th) \in Seq(Octet) /\ Enc!Sizeof(child.th) \in Nat
  BY <1>1, HeaderPut
<1>4. n.th.length + Length(child) \in Nat
  BY <1>2, <1>3 DEF Length
<1>5. Truncated(SizeMax, n.th.length + Length(child)) \in 0..SizeMax
  <2>1. SizeMax \in Nat
    BY BerPrintAssumption
  <2>2. QED BY <1>4, <2>1, TruncatedIsModulo, Zenon
<1>6. [n.th EXCEPT !.length = Truncated(SizeMax, @ + Length(child))]
        = [n.th EXCEPT !.length = Truncated(SizeMax, n.th.length + Length(child))]
  BY <1>1 DEF Header
<1> DEFINE h == [n.th EXCEPT !.length = Truncated(SizeMax, n.th.length + Length(child))]
<1>7. h \in Header /\ h.shape = n.th.shape
  <2>1. \A size \in 0..SizeMax : LET k == [n.th EXCEPT !.length = size]
                                 IN  k \in Header /\ k.shape = n.th.shape
    BY <1>1, Zenon DEF Header
  <2>2. QED BY <1>5, <2>1
<1> HIDE DEF h
<1>8. n.content \o Octets(child) \in Seq(Octet)
  BY <1>1, <1>3, Concatenated DEF Octets
<1>9. n.lines \o child.lines \in Seq(Nat)
  BY <1>1, Concatenated
<1>10. PushBack(n, child)
         = [th |-> h, content |-> n.content \o Octets(child), lines |-> n.lines \o child.lines]
  BY <1>6 DEF PushBack, h
<1>11. QED BY <1>7, <1>8, <1>9, <1>10, SMTT(30) DEF Node

LEMMA PutTyped ==
  ASSUME NEW n \in Node, Put(n), out \in Seq(Octet), refused \in BOOLEAN
  PROVE  out' \in Seq(Octet) /\ refused' \in BOOLEAN /\ printed' = printed \o n.lines
<1>1. PICK os \in Seq(Octet) : os = Octets(n)
  <2>1. n.th \in Header /\ n.content \in Seq(Octet)
    BY DEF Node
  <2>2. QED BY <2>1, HeaderPut, Concatenated, Zenon DEF Octets
<1>2. out' \in Seq(Octet) /\ refused' \in BOOLEAN
  <2>1. CASE refused
    BY <2>1 DEF Put
  <2>2. CASE ~refused /\ out' = out \o os /\ UNCHANGED refused
    BY <2>2, Concatenated
  <2>3. CASE ~refused /\ \E k \in 0..Len(os) - 1 : out' = out \o SubSeq(os, 1, k) /\ refused' = TRUE
    <3>1. PICK k \in 0..Len(os) - 1 : out' = out \o SubSeq(os, 1, k) /\ refused' = TRUE
      BY <2>3
    <3>2. k \in 0..Len(os) /\ 1 \in 1..k + 1
      BY LenProperties
    <3>3. SubSeq(os, 1, k) \in Seq(Octet)
      BY <3>2, SubSeqFacts
    <3>4. QED BY <3>1, <3>3, Concatenated
  <2>4. QED BY <1>1, <2>1, <2>2, <2>3, Zenon DEF Put
<1>3. QED BY <1>2 DEF Put

-----------------------------------------------------------------------------
(* The invariant is inductive.                                             *)

LEMMA Holds ==
  ASSUME Typed', Loops(frames', taken', printed'),
         at' = "returned" /\ good' => Follows(got', frames', taken', printed'),
         Prints(at', frames', taken', printed')
  PROVE  IInv'
  BY Zenon DEF IInv

LEMMA Initial ==
  ASSUME Init
  PROVE  IInv
<1>1. Typed
  <2>1. 0 \in 0..NumberMax /\ 0 \in 0..SizeMax
    BY BerPrintAssumption
  <2>2. got \in Frame
    BY <2>1 DEF Init, Frame, Node, Header, TagClass, TagShape
  <2>3. MaxLines \in Nat
    BY BerPrintAssumption
  <2>4. taken = << >> /\ taken \in Seq(Lines) /\ Len(taken) = 0 /\ frames \in Seq(Frame)
        /\ out \in Seq(Octet)
    BY DEF Init
  <2>5. printed \in Seq(1..Len(taken))
    BY DEF Init
  <2>6. Len(taken) <= MaxLines
    BY <2>3, <2>4
  <2>7. QED BY <2>2, <2>4, <2>5, <2>6, Zenon DEF Init, Typed
<1>2. QED BY <1>1 DEF Init, IInv, Loops, Prints

LEMMA Invariant ==
  ASSUME IInv
  PROVE  /\ frames \in Seq(Frame) /\ taken \in Seq(Lines) /\ Len(taken) <= MaxLines
         /\ printed \in Seq(1..Len(taken)) /\ got \in Frame
         /\ Loops(frames, taken, printed)
         /\ at = "returned" /\ good => Follows(got, frames, taken, printed)
         /\ Prints(at, frames, taken, printed)
  BY Zenon DEF IInv, Typed

(* A line is read: it is behind those printed and those of the loops.      *)
LEMMA LineTaken ==
  ASSUME IInv, Len(taken) < MaxLines, NEW line \in Lines, taken' = Append(taken, line),
         UNCHANGED sink
  PROVE  /\ taken' \in Seq(Lines) /\ Len(taken') <= MaxLines
         /\ printed' \in Seq(1..Len(taken')) /\ printed' = printed
         /\ Loops(frames, taken', printed') /\ Prints(at, frames, taken', printed')
         /\ Nest(taken', <<Len(taken')>>, line.level)
         /\ Before(printed', <<Len(taken')>>)
         /\ \A i \in 1..Len(frames) : Before(frames[i].node.lines, <<Len(taken')>>)
<1>1. /\ taken \in Seq(Lines) /\ printed \in Seq(1..Len(taken)) /\ printed' = printed
      /\ Loops(frames, taken, printed) /\ Prints(at, frames, taken, printed)
  BY Invariant DEF sink
<1>2. PICK n \in Nat : n = Len(taken) /\ Len(taken') = n + 1 /\ taken' \in Seq(Lines)
  BY <1>1, AppendFacts
<1>3. Len(taken') <= MaxLines
  BY <1>2, BerPrintAssumption
<1>4. printed' \in Seq(1..Len(taken'))
  <2>1. 1..n \subseteq 1..n + 1
    OBVIOUS
  <2>2. QED BY <1>1, <1>2, <2>1, SeqMonotonic
<1>5. Loops(frames, taken', printed')
  BY <1>1, LoopsOfMore
<1>6. Prints(at, frames, taken', printed')
  <2>1. SUFFICES ASSUME printed # << >> PROVE Nest(taken', printed, taken'[printed[1]].level)
    BY <1>1 DEF Prints
  <2>2. Nest(taken, printed, taken[printed[1]].level)
    BY <1>1, <2>1 DEF Prints
  <2>3. Nest(taken', printed, taken[printed[1]].level)
    BY <1>1, <2>2, NestOfMore
  <2>4. QED BY <2>3, Zenon DEF Nest
<1>7. Nest(taken', <<Len(taken')>>, line.level) /\ Before(printed', <<Len(taken')>>)
  BY <1>1, <1>2, LastLine
<1>8. \A i \in 1..Len(frames) : Before(frames[i].node.lines, <<Len(taken')>>)
  <2>1. TAKE i \in 1..Len(frames)
  <2>2. Nest(taken, frames[i].node.lines, frames[i].level)
    BY <1>1, Zenon DEF Loops
  <2>3. frames[i].node.lines \in Seq(1..Len(taken))
    BY <2>2 DEF Nest
  <2>4. QED BY <1>1, <1>2, <2>3, LastLine
<1>9. QED BY <1>1, <1>2, <1>3, <1>4, <1>5, <1>6, <1>7, <1>8, Zenon

LEMMA ExtractionFails ==
  ASSUME IInv, at = "extract", at' = "returned", good' = FALSE, stuck' \in BOOLEAN,
         UNCHANGED <<frames, got, sink, invalid>>,
         \/ UNCHANGED taken
         \/ Len(taken) < MaxLines /\ \E line \in Lines : taken' = Append(taken, line)
  PROVE  IInv'
<1>1. UNCHANGED sink
  OBVIOUS
<1>2. /\ taken' \in Seq(Lines) /\ Len(taken') <= MaxLines /\ printed' \in Seq(1..Len(taken'))
      /\ Loops(frames, taken', printed') /\ Prints(at, frames, taken', printed')
  <2>1. CASE UNCHANGED taken
    BY <2>1, Invariant DEF sink
  <2>2. CASE Len(taken) < MaxLines /\ \E line \in Lines : taken' = Append(taken, line)
    BY <1>1, <2>2, LineTaken
  <2>3. QED BY <2>1, <2>2
<1>3. Typed'
  BY <1>2, Zenon DEF IInv, Typed, sink
<1>4. Prints(at', frames', taken', printed')
  BY <1>2 DEF Prints
<1>5. QED BY <1>2, <1>3, <1>4, Holds

(* A tag that is complete, or indefinite, is in the printer of the call.   *)
LEMMA ExtractionReturns ==
  ASSUME IInv, at = "extract", good, Len(taken) < MaxLines,
         NEW line \in Lines, taken' = Append(taken, line), LabelRead(line),
         NEW shape \in TagShape, NEW content \in Seq(Octet), Len(content) \in 0..SizeMax,
         Extracted(line.level, NodeOf(line, shape, content)),
         stuck' \in BOOLEAN, UNCHANGED <<frames, good, sink, invalid>>
  PROVE  IInv'
<1>1. UNCHANGED sink
  OBVIOUS
<1>2. /\ taken' \in Seq(Lines) /\ Len(taken') <= MaxLines /\ printed' \in Seq(1..Len(taken'))
      /\ Loops(frames, taken', printed') /\ Prints(at, frames, taken', printed')
      /\ Nest(taken', <<Len(taken')>>, line.level)
      /\ Before(printed', <<Len(taken')>>)
      /\ \A i \in 1..Len(frames) : Before(frames[i].node.lines, <<Len(taken')>>)
  BY <1>1, LineTaken, Zenon
<1>3. at' = "returned" /\ got' \in Frame /\ got'.level = line.level /\ got'.node.lines = <<Len(taken')>>
  BY <1>2, NodeTyped DEF Extracted
<1>4. Typed'
  BY <1>2, <1>3 DEF IInv, Typed, sink
<1>5. Follows(got', frames', taken', printed')
  BY <1>2, <1>3, Zenon DEF Follows
<1>6. Prints(at', frames', taken', printed')
  BY <1>2, <1>3 DEF Prints
<1>7. QED BY <1>2, <1>4, <1>5, <1>6, Holds

LEMMA ExtractDefiniteKeeps ==
  ASSUME IInv, Len(taken) < MaxLines, NEW line \in Lines, ExtractDefinite(line)
  PROVE  IInv'
<1>1. PICK f : f = [level |-> line.level, node |-> NodeOf(line, "constructed_definite", << >>)]
  BY Zenon
<1>2. /\ at = "extract" /\ taken' = Append(taken, line) /\ UNCHANGED sink /\ LabelRead(line)
      /\ frames' = Append(frames, f) /\ UNCHANGED <<at, good, got, invalid>> /\ stuck' \in BOOLEAN
  BY <1>1 DEF ExtractDefinite, Takes
<1>3. /\ taken' \in Seq(Lines) /\ Len(taken') <= MaxLines /\ printed' \in Seq(1..Len(taken'))
      /\ Loops(frames, taken', printed') /\ Prints(at, frames, taken', printed')
      /\ Nest(taken', <<Len(taken')>>, line.level)
      /\ Before(printed', <<Len(taken')>>)
      /\ \A i \in 1..Len(frames) : Before(frames[i].node.lines, <<Len(taken')>>)
  BY <1>2, LineTaken, Zenon
<1>4. f \in Frame /\ Definite(f.node) /\ f.node.lines = <<Len(taken')>> /\ f.level = line.level
  <2>1. << >> \in Seq(Octet) /\ Len(<< >>) \in 0..SizeMax
    BY BerPrintAssumption
  <2>2. "constructed_definite" \in TagShape
    BY DEF TagShape
  <2>3. QED BY <1>1, <1>2, <1>3, <2>1, <2>2, NodeTyped, Zenon DEF Definite
<1>5. frames \in Seq(Frame)
  BY Invariant
<1>6. frames' \in Seq(Frame) /\ (frames # << >> => frames'[1] = frames[1]) /\ frames' # << >>
      /\ (frames = << >> => frames'[1] = f)
  BY <1>2, <1>4, <1>5
<1>7. Typed'
  BY <1>2, <1>3, <1>6 DEF IInv, Typed, sink
<1>8. Loops(frames', taken', printed')
  BY <1>2, <1>3, <1>4, <1>5, LoopsPush, Zenon
<1>9. Prints(at', frames', taken', printed')
  BY <1>2, <1>3, <1>6, Zenon DEF Prints
<1>10. QED BY <1>2, <1>7, <1>8, <1>9, Holds

LEMMA PushKeeps ==
  ASSUME IInv, Push
  PROVE  IInv'
<1> DEFINE nd == PushBack(Top.node, got.node)
<1>1. /\ at = "returned" /\ good /\ frames # << >> /\ Definite(Top.node)
      /\ got.level = Top.level + 1 /\ at' = "extract"
      /\ UNCHANGED <<good, stuck, got, sink, taken, invalid>>
  BY DEF Push, InDefinite, IsChild
<1>2. /\ frames \in Seq(Frame) /\ taken \in Seq(Lines) /\ printed \in Seq(1..Len(taken))
      /\ got \in Frame /\ Loops(frames, taken, printed)
      /\ Follows(got, frames, taken, printed) /\ Prints(at, frames, taken, printed)
  BY <1>1, Invariant
<1>3. PICK n \in Nat \ {0} : n = Len(frames) /\ Top = frames[n] /\ Top \in Frame
  BY <1>1, <1>2, FrontFacts DEF Top
<1>4. Top.node \in Node /\ got.node \in Node
  BY <1>2, <1>3 DEF Frame
<1>5. nd \in Node /\ Definite(nd) /\ nd.lines = Top.node.lines \o got.node.lines
  BY <1>1, <1>4, PushBackTyped, Zenon DEF Definite
<1>6. frames' = [frames EXCEPT ![Len(frames)].node = nd]
  BY <1>2, <1>3 DEF Push
<1> HIDE DEF nd
<1>7. frames' \in Seq(Frame) /\ Loops(frames', taken, printed)
  BY <1>1, <1>2, <1>5, <1>6, LoopsPushBack, Zenon DEF Top
<1>8. Typed'
  BY <1>1, <1>7 DEF IInv, Typed, sink
<1>9. Prints(at', frames', taken', printed')
  <2>1. frames' = << >> \/ Definite(frames'[1].node) => Definite(frames[1].node)
    <3>1. CASE n = 1
      BY <1>1, <1>3, <3>1
    <3>2. CASE n # 1
      <4>1. frames'[1] = frames[1] /\ frames' # << >>
        BY <1>2, <1>3, <1>6, <3>2
      <4>2. QED BY <4>1
    <3>3. QED BY <3>1, <3>2
  <2>2. QED BY <1>1, <1>2, <2>1 DEF Prints, sink
<1>10. QED BY <1>1, <1>7, <1>8, <1>9, Holds DEF sink

(* The loop of a definite tag ends: the tag that the printer of the call   *)
(* now has is behind the loops that are left.                              *)
LEMMA ReturnKeeps ==
  ASSUME IInv, InDefinite, NEW isGood \in BOOLEAN, ReturnsNode(isGood), invalid' \in BOOLEAN
  PROVE  IInv'
<1>1. /\ at = "returned" /\ frames # << >> /\ Definite(Last(frames).node)
      /\ frames' = Front(frames) /\ at' = "returned"
      /\ got' = [level |-> Last(frames).level, node |-> Last(frames).node]
      /\ good' = isGood /\ UNCHANGED <<stuck, sink, taken>>
  BY DEF InDefinite, ReturnsNode, Extracted, Top
<1>2. /\ frames \in Seq(Frame) /\ Loops(frames, taken, printed) /\ Prints(at, frames, taken, printed)
  BY Invariant
<1>3. got' = Last(frames) /\ got' \in Frame /\ frames' \in Seq(Frame)
  <2>1. Last(frames) \in Frame
    BY <1>1, <1>2, FrontFacts
  <2>2. Last(frames) = [level |-> Last(frames).level, node |-> Last(frames).node]
    BY <2>1 DEF Frame
  <2>3. QED BY <1>1, <1>2, <2>1, <2>2, FrontFacts
<1>4. Loops(frames', taken', printed') /\ Follows(got', frames', taken', printed')
  BY <1>1, <1>2, <1>3, LoopsPop DEF sink
<1>5. Typed'
  BY <1>1, <1>3 DEF IInv, Typed, sink
<1>6. Prints(at', frames', taken', printed')
  <2>1. frames' = << >> \/ Definite(frames'[1].node) => Definite(frames[1].node)
    <3>1. PICK n \in Nat \ {0} : n = Len(frames) /\ Last(frames) = frames[n] /\ Len(frames') = n - 1
                                 /\ \A i \in 1..n - 1 : frames'[i] = frames[i]
      BY <1>1, <1>2, FrontFacts
    <3>2. CASE n = 1
      BY <1>1, <3>1, <3>2
    <3>3. CASE n # 1
      <4>1. frames'[1] = frames[1] /\ frames' # << >>
        BY <3>1, <3>3
      <4>2. QED BY <4>1
    <3>4. QED BY <3>2, <3>3
  <2>2. QED BY <1>1, <1>2, <2>1 DEF Prints, sink
<1>7. QED BY <1>4, <1>5, <1>6, Holds

(* The innermost loop of an indefinite tag is where a tag is printed.      *)
LEMMA AllIndefinite ==
  ASSUME NEW fs \in Seq(Frame), NEW t, NEW ps, Loops(fs, t, ps),
         fs # << >> => ~Definite(Last(fs).node)
  PROVE  \A i \in 1..Len(fs) : ~Definite(fs[i].node)
<1>1. TAKE i \in 1..Len(fs)
<1>2. PICK n \in Nat : n = Len(fs)
  BY LenProperties
<1>3. fs # << >>
  BY <1>2
<1>4. Last(fs) = fs[n] /\ n \in 1..n
  <2>1. n \in 1..n
    BY <1>2
  <2>2. QED BY <1>2, <1>3, <2>1, FrontFacts, Zenon
<1>5. i = n \/ i \in 1..n - 1
  BY <1>2
<1>6. CASE i = n
  BY <1>3, <1>4, <1>6
<1>7. CASE i \in 1..n - 1
  BY <1>2, <1>3, <1>4, <1>7, Zenon DEF Loops
<1>8. QED BY <1>5, <1>6, <1>7

LEMMA EndsKeeps ==
  ASSUME IInv, InIndefinite, Ends(frames), UNCHANGED <<good, stuck, got, taken, invalid>>,
         out' \in Seq(Octet), refused' \in BOOLEAN, printed' \in Seq(1..Len(taken)),
         Loops(frames, taken, printed'),
         printed' # << >> => Nest(taken, printed', taken[printed'[1]].level)
  PROVE  IInv'
<1>1. /\ frames # << >> /\ ~Definite(Last(frames).node) /\ frames' = Front(frames)
      /\ at' \in {"extract", "done"} /\ (at' = "extract" => Len(frames) # 1)
  BY DEF InIndefinite, Ends, Top
<1>2. frames \in Seq(Frame) /\ Loops(frames, taken, printed)
  BY Invariant
<1>3. frames' \in Seq(Frame) /\ Loops(frames', taken', printed')
  BY <1>1, <1>2, FrontFacts, LoopsPop, Zenon
<1>4. Typed'
  BY <1>1, <1>3 DEF IInv, Typed
<1>5. Prints(at', frames', taken', printed')
  <2>1. SUFFICES ASSUME at' = "extract" PROVE frames' # << >> /\ ~Definite(frames'[1].node)
    BY <1>1 DEF Prints
  <2>2. PICK n \in Nat \ {0} : n = Len(frames) /\ Len(frames') = n - 1
                               /\ \A i \in 1..n - 1 : frames'[i] = frames[i]
    BY <1>1, <1>2, FrontFacts, Zenon
  <2>3. 1 \in 1..n - 1 /\ 1 \in 1..n
    BY <1>1, <2>1, <2>2
  <2>4. frames'[1] = frames[1] /\ frames' # << >>
    BY <2>2, <2>3
  <2>5. ~Definite(frames[1].node)
    BY <1>1, <1>2, <2>2, <2>3, AllIndefinite
  <2>6. QED BY <2>4, <2>5
<1>6. QED BY <1>1, <1>3, <1>4, <1>5, Holds

LEMMA PrintKeeps ==
  ASSUME IInv, PrintNode
  PROVE  IInv'
<1> DEFINE qs == printed \o got.node.lines
<1>1. /\ at = "returned" /\ good /\ UNCHANGED <<good, stuck, got, taken, invalid>>
      /\ frames # << >> => ~Definite(Last(frames).node)
      /\ frames = << >> \/ (InIndefinite /\ got.level = Last(frames).level + 1)
  BY DEF PrintNode, AtRoot, InIndefinite, IsChild, Top
<1>2. /\ frames \in Seq(Frame) /\ taken \in Seq(Lines) /\ printed \in Seq(1..Len(taken))
      /\ got \in Frame /\ Loops(frames, taken, printed)
      /\ Follows(got, frames, taken, printed) /\ Prints(at, frames, taken, printed)
  BY <1>1, Invariant
<1>3. out' \in Seq(Octet) /\ refused' \in BOOLEAN /\ printed' = qs
  <2>1. got.node \in Node
    BY <1>2 DEF Frame
  <2>2. out \in Seq(Octet) /\ refused \in BOOLEAN
    BY DEF IInv, Typed
  <2>3. QED BY <2>1, <2>2, PutTyped, Zenon DEF PrintNode
<1>4. \A i \in 1..Len(frames) : ~Definite(frames[i].node)
  BY <1>1, <1>2, AllIndefinite
<1>5. /\ qs \in Seq(1..Len(taken)) /\ qs # << >> /\ Nest(taken, qs, taken[qs[1]].level)
      /\ Loops(frames, taken, qs) /\ got.level \in taken[qs[1]].level..taken[qs[Len(qs)]].level
      /\ \A i \in 1..Len(frames) : frames[i].level < got.level
  <2>1. /\ printed # << >> => Nest(taken, printed, taken[printed[1]].level)
        /\ frames = << >> => printed = << >>
    BY <1>1, <1>2 DEF Prints
  <2>2. QED BY <1>1, <1>2, <1>4, <2>1, LoopsPrint, Zenon
<1> HIDE DEF qs
<1>6. CASE got.node.th.shape = "constructed_indefinite"
  <2>1. frames' = Append(frames, got) /\ at' = "extract"
    BY <1>6 DEF PrintNode
  <2>2. ~Definite(got.node) /\ Nest(taken, got.node.lines, got.level)
    BY <1>2, <1>6 DEF Definite, Follows
  <2>3. Loops(frames', taken, qs)
    BY <1>2, <1>4, <1>5, <2>1, <2>2, LoopsPush, Zenon
  <2>4. frames' \in Seq(Frame) /\ frames' # << >> /\ ~Definite(frames'[1].node)
    <3>1. CASE frames = << >>
      BY <1>2, <2>1, <2>2, <3>1
    <3>2. CASE frames # << >>
      <4>1. 1 \in 1..Len(frames) /\ frames'[1] = frames[1]
        BY <1>2, <2>1, <3>2
      <4>2. QED BY <1>2, <1>4, <2>1, <4>1
    <3>3. QED BY <3>1, <3>2
  <2>5. Typed'
    BY <1>1, <1>3, <1>5, <2>1, <2>4 DEF IInv, Typed
  <2>6. Prints(at', frames', taken', printed')
    BY <1>1, <1>3, <1>5, <2>4 DEF Prints
  <2>7. QED BY <1>1, <1>3, <2>1, <2>3, <2>5, <2>6, Holds
<1>7. CASE got.node.th.shape # "constructed_indefinite" /\ frames = << >>
  <2>1. at' = "done" /\ UNCHANGED frames
    BY <1>1, <1>7 DEF PrintNode, AtRoot
  <2>2. Typed'
    BY <1>1, <1>3, <1>5, <2>1 DEF IInv, Typed
  <2>3. Prints(at', frames', taken', printed')
    BY <1>1, <1>3, <1>5, <2>1 DEF Prints
  <2>4. QED BY <1>1, <1>3, <1>5, <2>1, <2>2, <2>3, Holds
<1>8. CASE got.node.th.shape # "constructed_indefinite" /\ frames # << >> /\ IsEnd(got.node)
  <2>1. Ends(frames)
    BY <1>8 DEF PrintNode, AtRoot
  <2>2. QED BY <1>1, <1>3, <1>5, <1>8, <2>1, EndsKeeps
<1>9. CASE got.node.th.shape # "constructed_indefinite" /\ frames # << >> /\ ~IsEnd(got.node)
  <2>1. at' = "extract" /\ UNCHANGED frames
    BY <1>9 DEF PrintNode, AtRoot
  <2>2. Typed'
    BY <1>1, <1>3, <1>5, <2>1 DEF IInv, Typed
  <2>3. ~Definite(frames[1].node)
    <3>1. 1 \in 1..Len(frames)
      BY <1>2, <1>9
    <3>2. QED BY <1>4, <3>1
  <2>4. Prints(at', frames', taken', printed')
    BY <1>1, <1>3, <1>5, <1>9, <2>1, <2>3 DEF Prints
  <2>5. QED BY <1>1, <1>3, <1>5, <2>1, <2>2, <2>4, Holds
<1>10. QED BY <1>6, <1>7, <1>8, <1>9

LEMMA StopKeeps ==
  ASSUME IInv, at' \in {"done", "terminated"},
         UNCHANGED <<frames, good, stuck, got, sink, taken, invalid>>
  PROVE  IInv'
<1>1. Typed'
  BY DEF IInv, Typed, sink
<1>2. Loops(frames', taken', printed') /\ Prints(at', frames', taken', printed')
  BY Invariant, Zenon DEF Prints, sink
<1>3. QED BY <1>1, <1>2, Holds

LEMMA StutterKeeps ==
  ASSUME IInv, UNCHANGED vars
  PROVE  IInv'
<1>1. Typed'
  BY DEF IInv, Typed, vars, sink
<1>2. /\ Loops(frames', taken', printed') /\ Prints(at', frames', taken', printed')
      /\ at' = "returned" /\ good' => Follows(got', frames', taken', printed')
  BY Invariant DEF vars, sink
<1>3. QED BY <1>1, <1>2, Holds

LEMMA Inductive ==
  ASSUME IInv, [Next]_vars
  PROVE  IInv'
<1>1. ASSUME ExtractFails PROVE IInv'
  <2>1. stuck' \in BOOLEAN
    BY <1>1 DEF ExtractFails, IInv, Typed
  <2>2. QED BY <1>1, <2>1, ExtractionFails, Zenon DEF ExtractFails
<1>2. ASSUME Len(taken) < MaxLines, NEW line \in Lines, ExtractBadLabel(line) PROVE IInv'
  <2>1. stuck' \in BOOLEAN
    BY <1>2 DEF ExtractBadLabel
  <2>2. QED BY <1>2, <2>1, ExtractionFails, Zenon DEF ExtractBadLabel, Takes
<1>3. ASSUME Len(taken) < MaxLines, NEW line \in Lines, ExtractBadContent(line) PROVE IInv'
  BY <1>3, ExtractionFails, Zenon DEF ExtractBadContent, Takes
<1>4. ASSUME Len(taken) < MaxLines, NEW line \in Lines, ExtractPrimitive(line) PROVE IInv'
  <2>1. Content(line) \in Seq(Octet) /\ Len(Content(line)) \in 0..SizeMax
    BY ContentTyped
  <2>2. "primitive" \in TagShape
    BY DEF TagShape
  <2>3. stuck' \in BOOLEAN
    BY <1>4 DEF ExtractPrimitive, IInv, Typed
  <2>4. QED BY <1>4, <2>1, <2>2, <2>3, ExtractionReturns DEF ExtractPrimitive, Takes
<1>5. ASSUME Len(taken) < MaxLines, NEW line \in Lines, ExtractDefinite(line) PROVE IInv'
  BY <1>5, ExtractDefiniteKeeps
<1>6. ASSUME Len(taken) < MaxLines, NEW line \in Lines, ExtractIndefinite(line) PROVE IInv'
  <2>1. << >> \in Seq(Octet) /\ Len(<< >>) \in 0..SizeMax
    BY BerPrintAssumption
  <2>2. "constructed_indefinite" \in TagShape
    BY DEF TagShape
  <2>3. stuck' \in BOOLEAN
    BY <1>6 DEF ExtractIndefinite
  <2>4. QED BY <1>6, <2>1, <2>2, <2>3, ExtractionReturns, Zenon DEF ExtractIndefinite, Takes
<1>7. ASSUME Push PROVE IInv'
  BY <1>7, PushKeeps
<1>8. ASSUME PushThrows PROVE IInv'
  BY <1>8, StopKeeps DEF PushThrows
<1>9. ASSUME SiblingEnds \/ Invalid \/ FailureEnds PROVE IInv'
  <2>1. InDefinite /\ invalid' \in BOOLEAN /\ \E isGood \in BOOLEAN : ReturnsNode(isGood)
    BY <1>9, Zenon DEF SiblingEnds, Invalid, FailureEnds, IInv, Typed
  <2>2. QED BY <2>1, ReturnKeeps
<1>10. ASSUME PrintNode PROVE IInv'
  BY <1>10, PrintKeeps
<1>11. ASSUME PrintBreaks PROVE IInv'
  <2>1. InIndefinite /\ Ends(frames) /\ UNCHANGED <<good, stuck, got, sink, taken, invalid>>
    BY <1>11 DEF PrintBreaks
  <2>2. /\ printed \in Seq(1..Len(taken)) /\ Loops(frames, taken, printed)
        /\ printed # << >> => Nest(taken, printed, taken[printed[1]].level)
    BY Invariant DEF Prints
  <2>3. out \in Seq(Octet) /\ refused \in BOOLEAN
    BY DEF IInv, Typed
  <2>4. QED BY <2>1, <2>2, <2>3, EndsKeeps DEF sink
<1>12. ASSUME NothingToPrint PROVE IInv'
  BY <1>12, StopKeeps DEF NothingToPrint
<1>13. ASSUME UNCHANGED vars PROVE IInv'
  BY <1>13, StutterKeeps
<1>14. QED
  BY <1>1, <1>2, <1>3, <1>4, <1>5, <1>6, <1>7, <1>8, <1>9, <1>10, <1>11, <1>12, <1>13, Zenon
     DEF Next

THEOREM Inductively == Spec => []IInv
<1>1. Init => IInv
  BY Initial
<1>2. IInv /\ [Next]_vars => IInv'
  BY Inductive
<1>3. QED BY <1>1, <1>2, PTL DEF Spec

LEMMA LoopsOutside ==
  ASSUME NEW fs \in Seq(Frame), NEW t, NEW ps, Loops(fs, t, ps)
  PROVE  Indefinites(fs) = 1..Cardinality(Indefinites(fs))
<1>1. PICK n \in Nat : n = Len(fs) /\ DOMAIN fs = 1..n
  BY LenProperties
<1> DEFINE T == {i \in 1..n + 1 : i = n + 1 \/ Definite(fs[i].node)}
<1>2. PICK m \in T : \A k \in T : m <= k
  <2>1. T \subseteq Nat /\ n + 1 \in T
    OBVIOUS
  <2>2. QED BY <2>1, LeastNatural, Zenon
<1>3. \A i \in 1..n : ~Definite(fs[i].node) <=> i < m
  <2>1. TAKE i \in 1..n
  <2>2. ASSUME i < m PROVE ~Definite(fs[i].node)
    BY <1>2, <2>2
  <2>3. ASSUME ~Definite(fs[i].node) PROVE i < m
    <3>1. SUFFICES ASSUME ~(i < m) PROVE FALSE
      OBVIOUS
    <3>2. m \in 1..n /\ Definite(fs[m].node)
      BY <1>2, <3>1
    <3>3. m # i
      BY <2>3, <3>2
    <3>4. m \in 1..i - 1
      BY <3>1, <3>2, <3>3
    <3>5. ~Definite(fs[m].node)
      BY <1>1, <2>3, <3>4, Zenon DEF Loops
    <3>6. QED BY <3>2, <3>5
  <2>4. QED BY <2>2, <2>3
<1>4. m \in 1..n + 1
  OBVIOUS
<1> HIDE DEF T
<1>5. Indefinites(fs) = 1..m - 1
  <2>1. Indefinites(fs) = {i \in 1..n : ~Definite(fs[i].node)}
    BY <1>1 DEF Indefinites
  <2>2. {i \in 1..n : ~Definite(fs[i].node)} = {i \in 1..n : i < m}
    BY <1>3
  <2>3. {i \in 1..n : i < m} = 1..m - 1
    BY <1>4
  <2>4. QED BY <2>1, <2>2, <2>3
<1>6. Cardinality(1..m - 1) = m - 1
  BY <1>4, FS_Interval
<1>7. QED BY <1>5, <1>6

(* Whatever the text and the widths of the integers are, the state of the  *)
(* printer is of its type: the loops of indefinite tags, content_print's,  *)
(* are outside those of do_extract, the octets of a content are octets,    *)
(* and no length that push_back adds up is more than a size_t holds.       *)
THEOREM TypeCorrect == Spec => []TypeOK
<1>1. IInv => TypeOK
  <2>1. SUFFICES ASSUME IInv PROVE TypeOK
    OBVIOUS
  <2>2. /\ frames \in Seq(Frame) /\ Loops(frames, taken, printed)
        /\ taken \in Seq(Lines) /\ printed \in Seq(1..Len(taken))
    BY <2>1, Invariant, Zenon
  <2>3. Indefinites(frames) = 1..Cardinality(Indefinites(frames))
    BY <2>2, LoopsOutside
  <2>4. DOMAIN taken = 1..Len(taken)
    BY <2>2, LenProperties
  <2>5. printed \in Seq(DOMAIN taken)
    BY <2>2, <2>4
  <2>6. QED BY <2>1, <2>3, <2>5, Zenon DEF IInv, Typed, TypeOK, Frame
<1>2. QED BY <1>1, Inductively, PTL

(* Whatever the text is, and whichever of its lines are lost, the tags     *)
(* that are printed are in the order of the text, each of them once, and   *)
(* nest.                                                                   *)
THEOREM AlwaysPrintedNest == Spec => []PrintedNest
<1>1. IInv => PrintedNest
  <2>1. SUFFICES ASSUME IInv, NEW k \in DOMAIN printed \ {1}
                 PROVE  /\ printed[k - 1] < printed[k]
                        /\ taken[printed[k]].level \in
                             taken[printed[1]].level + 1..taken[printed[k - 1]].level + 1
    BY DEF PrintedNest
  <2>2. printed \in Seq(1..Len(taken)) /\ Prints(at, frames, taken, printed)
    BY <2>1, Invariant, Zenon
  <2>3. k \in 2..Len(printed) /\ printed # << >>
    <3>1. k \in 1..Len(printed) /\ Len(printed) \in Nat
      BY <2>2, LenProperties
    <3>2. QED BY <2>2, <3>1
  <2>4. Nest(taken, printed, taken[printed[1]].level)
    BY <2>2, <2>3 DEF Prints
  <2>5. QED BY <2>3, <2>4, Zenon DEF Nest
<1>2. QED BY <1>1, Inductively, PTL

-----------------------------------------------------------------------------
(* What is put.                                                            *)

\* The octets of the tag of line l, without those of tags in it.
TagOf(l, n) == Enc!EncodedHeader(HeaderOf(l, n)) \o Own(l)

\* The octets g stand in s behind the first bs[k], and bs[k + 1] is where they end.
Stands(bs, s, k, g) ==
  g \in Seq(Octet) /\ bs[k + 1] = bs[k] + Len(g) /\ \A i \in 1..Len(g) : s[bs[k] + i] = g[i]

\* s are the tags of the lines ls of t: the kth is behind the first bs[k] octets and
\* has ns[k] for its length.
Placed(t, ls, bs, ns, s) ==
  /\ ls \in Seq(1..Len(t)) /\ s \in Seq(Octet)
  /\ bs \in Seq(Nat) /\ Len(bs) = Len(ls) + 1 /\ bs[1] = 0 /\ bs[Len(ls) + 1] = Len(s)
  /\ ns \in Seq(0..SizeMax) /\ Len(ns) = Len(ls)
  /\ \A k \in 1..Len(ls) :
       HeaderOf(t[ls[k]], ns[k]) \in Header /\ Stands(bs, s, k, TagOf(t[ls[k]], ns[k]))

\* The tags behind the kth up to the eth, and no others, are deeper.
Ending(t, ls, k, e) ==
  /\ e \in k + 1..Len(ls) + 1
  /\ \A j \in k + 1..e - 1 : t[ls[j]].level > t[ls[k]].level
  /\ e <= Len(ls) => t[ls[e]].level <= t[ls[k]].level

\* The length of the kth tag is that of its content, unless it is indefinite; what has
\* octets of its own has no tags in it.
MeasuredAt(t, ls, bs, ns, k) ==
  LET l == t[ls[k]] IN
  /\ l.star => l.form # "octets"
  /\ ~l.star => \E e \in k + 1..Len(ls) + 1 :
       /\ Ending(t, ls, k, e)
       /\ l.form = "octets" => e = k + 1
       /\ ns[k] = Truncated(SizeMax, Len(Own(l)) + (bs[e] - bs[k + 1]))
Measured(t, ls, bs, ns) == \A k \in 1..Len(ls) : MeasuredAt(t, ls, bs, ns, k)

Layout(t, ls, s) == \E bs, ns : Placed(t, ls, bs, ns, s) /\ Measured(t, ls, bs, ns)

-----------------------------------------------------------------------------
LEMMA OwnTyped ==
  ASSUME NEW l \in Lines
  PROVE  Own(l) \in Seq(Octet) /\ Len(Own(l)) \in 0..SizeMax
<1>1. << >> \in Seq(Octet) /\ Len(<< >>) = 0 /\ 0 \in 0..SizeMax
  BY BerPrintAssumption
<1>2. QED BY <1>1, ContentTyped DEF Own

LEMMA TagTyped ==
  ASSUME NEW l \in Lines, NEW n, HeaderOf(l, n) \in Header
  PROVE  /\ Enc!EncodedHeader(HeaderOf(l, n)) \in Seq(Octet)
         /\ TagOf(l, n) \in Seq(Octet) /\ Len(TagOf(l, n)) \in Nat
         /\ Len(TagOf(l, n)) = Enc!Sizeof(HeaderOf(l, n)) + Len(Own(l))
<1>1. Enc!EncodedHeader(HeaderOf(l, n)) \in Seq(Octet)
  BY HeaderPut
<1>2. Own(l) \in Seq(Octet)
  BY OwnTyped
<1>3. /\ TagOf(l, n) \in Seq(Octet)
      /\ Len(TagOf(l, n)) = Len(Enc!EncodedHeader(HeaderOf(l, n))) + Len(Own(l))
  BY <1>1, <1>2, ConcatProperties, Zenon DEF TagOf
<1>4. Len(TagOf(l, n)) \in Nat
  BY <1>3, LenProperties
<1>5. QED BY <1>1, <1>3, <1>4, HeaderPut

(* Tags stand one behind the other.                                        *)
LEMMA Rising ==
  ASSUME NEW t, NEW ls, NEW bs, NEW ns, NEW s, Placed(t, ls, bs, ns, s)
  PROVE  /\ Len(ls) \in Nat /\ Len(s) \in Nat /\ \A k \in 1..Len(ls) + 1 : bs[k] \in Nat
         /\ \A k \in 1..Len(ls) + 1 : \A j \in 1..k : bs[j] <= bs[k]
         /\ \A k \in 1..Len(ls) + 1 : bs[k] <= Len(s)
<1>1. PICK n \in Nat : n = Len(ls)
  BY LenProperties DEF Placed
<1>2. \A k \in 1..n + 1 : bs[k] \in Nat
  <2>1. bs \in Seq(Nat) /\ Len(bs) = n + 1
    BY <1>1 DEF Placed
  <2>2. QED BY <2>1, ElementOfSeq
<1>3. \A k \in 1..n : k \in 1..n + 1 /\ k + 1 \in 1..n + 1 /\ bs[k] <= bs[k + 1]
  <2>1. TAKE k \in 1..n
  <2>2. PICK g \in Seq(Octet) : bs[k + 1] = bs[k] + Len(g)
    BY <1>1 DEF Placed, Stands
  <2>3. Len(g) \in Nat /\ k \in 1..n + 1 /\ k + 1 \in 1..n + 1
    BY LenProperties
  <2>4. QED BY <1>2, <2>2, <2>3
<1>4. ASSUME NEW j \in 1..n + 1 PROVE \A k \in j..n + 1 : bs[j] <= bs[k]
  <2> DEFINE T == {k \in j..n + 1 : ~(bs[j] <= bs[k])}
  <2>1. SUFFICES ASSUME T # {} PROVE FALSE
    OBVIOUS
  <2>2. PICK m \in T : \A k \in T : m <= k
    <3>1. T \subseteq Nat
      OBVIOUS
    <3> HIDE DEF T
    <3>2. QED BY <2>1, <3>1, LeastNatural, Zenon
  <2>3. m # j
    BY <1>2
  <2>4. m - 1 \in j..n + 1 /\ m - 1 \in 1..n /\ ~(m <= m - 1) /\ (m - 1) + 1 = m /\ m \in 1..n + 1
    BY <2>3
  <2>5. bs[j] <= bs[m - 1] /\ bs[m - 1] <= bs[m]
    BY <1>3, <2>2, <2>4
  <2>6. bs[j] \in Nat /\ bs[m - 1] \in Nat /\ bs[m] \in Nat
    BY <1>2, <1>3, <2>4
  <2>7. bs[j] <= bs[m]
    BY <2>5, <2>6
  <2>8. QED BY <2>7
<1>5. \A k \in 1..n + 1 : \A j \in 1..k : j \in 1..n + 1 /\ k \in j..n + 1
  OBVIOUS
<1>6. \A k \in 1..n + 1 : n + 1 \in k..n + 1
  OBVIOUS
<1>7. bs[n + 1] = Len(s) /\ Len(s) \in Nat
  BY <1>1, LenProperties DEF Placed
<1>8. QED BY <1>1, <1>2, <1>4, <1>5, <1>6, <1>7

-----------------------------------------------------------------------------
(* One text of octets behind another one.                                  *)

Joined(bs, m, cs, n) == [k \in 1..m + n + 1 |-> IF k <= m THEN bs[k] ELSE bs[m + 1] + cs[k - m]]

LEMMA JoinFacts ==
  ASSUME NEW S, NEW s \in Seq(S), NEW u \in Seq(S)
  PROVE  /\ s \o u \in Seq(S) /\ Len(s) \in Nat /\ Len(u) \in Nat /\ Len(s \o u) = Len(s) + Len(u)
         /\ \A i \in 1..Len(s) : (s \o u)[i] = s[i]
         /\ \A i \in 1..Len(u) : (s \o u)[Len(s) + i] = u[i]
<1>1. PICK m \in Nat, n \in Nat : m = Len(s) /\ n = Len(u)
  BY LenProperties
<1>2. s \o u \in Seq(S) /\ Len(s \o u) = m + n
      /\ \A i \in 1..m + n : (s \o u)[i] = IF i <= m THEN s[i] ELSE u[i - m]
  BY <1>1, ConcatProperties, Zenon
<1>3. \A i \in 1..m : (s \o u)[i] = s[i]
  <2>1. \A i \in 1..m : i \in 1..m + n /\ i <= m
    OBVIOUS
  <2>2. QED BY <1>2, <2>1, Zenon
<1>4. \A i \in 1..n : (s \o u)[m + i] = u[i]
  <2>1. \A i \in 1..n : m + i \in 1..m + n /\ ~(m + i <= m) /\ m + i - m = i
    OBVIOUS
  <2>2. QED BY <1>2, <2>1
<1>5. QED BY <1>1, <1>2, <1>3, <1>4

LEMMA PlacesJoin ==
  ASSUME NEW m \in Nat, NEW n \in Nat, NEW bs, NEW cs,
         \A k \in 1..m + 1 : bs[k] \in Nat, \A k \in 1..n + 1 : cs[k] \in Nat, cs[1] = 0,
         NEW es, es = Joined(bs, m, cs, n)
  PROVE  /\ es \in Seq(Nat) /\ Len(es) = m + n + 1
         /\ \A k \in 1..m + 1 : es[k] = bs[k]
         /\ \A k \in 1..n + 1 : es[m + k] = bs[m + 1] + cs[k]
<1> DEFINE ds == Joined(bs, m, cs, n)
<1>1. bs[m + 1] \in Nat
  OBVIOUS
<1>2. \A k \in 1..m + n + 1 :
        /\ k <= m => k \in 1..m + 1
        /\ ~(k <= m) => k - m \in 1..n + 1
  OBVIOUS
<1>3. \A k \in 1..m + n + 1 : (IF k <= m THEN bs[k] ELSE bs[m + 1] + cs[k - m]) \in Nat
  <2>1. TAKE k \in 1..m + n + 1
  <2>2. CASE k <= m
    BY <1>2, <2>2
  <2>3. CASE ~(k <= m)
    <3>1. PICK c \in Nat : c = cs[k - m]
      BY <1>2, <2>3
    <3>2. bs[m + 1] + c \in Nat
      BY <1>1
    <3>3. QED BY <2>3, <3>1, <3>2
  <2>4. QED BY <2>2, <2>3
<1>4. ds \in Seq(Nat) /\ Len(ds) = m + n + 1
  BY <1>3 DEF Joined
<1>5. \A k \in 1..m + n + 1 : ds[k] = IF k <= m THEN bs[k] ELSE bs[m + 1] + cs[k - m]
  BY DEF Joined
<1> HIDE DEF ds
<1>6. ASSUME NEW k \in 1..m + 1 PROVE ds[k] = bs[k]
  <2>1. k \in 1..m + n + 1
    OBVIOUS
  <2>2. CASE k = m + 1
    <3>1. ~(k <= m) /\ k - m = 1
      BY <2>2
    <3>2. ds[k] = bs[m + 1] + 0
      BY <1>5, <2>1, <3>1
    <3>3. QED BY <1>1, <2>2, <3>2
  <2>3. CASE k # m + 1
    <3>1. k <= m
      BY <2>3
    <3>2. QED BY <1>5, <2>1, <3>1
  <2>4. QED BY <2>2, <2>3
<1>7. ASSUME NEW k \in 1..n + 1 PROVE ds[m + k] = bs[m + 1] + cs[k]
  <2>1. m + k \in 1..m + n + 1 /\ ~(m + k <= m) /\ m + k - m = k
    OBVIOUS
  <2>2. QED BY <1>5, <2>1
<1>8. QED BY <1>4, <1>6, <1>7 DEF ds

\* js, ds and xs are those of two texts, one behind the other.
Both(m, ls, bs, ns, n, ms, cs, os, js, ds, xs) ==
  /\ m \in Nat /\ n \in Nat /\ js = ls \o ms /\ xs = ns \o os
  /\ Len(js) = m + n /\ Len(xs) = m + n
  /\ \A k \in 1..m : js[k] = ls[k] /\ xs[k] = ns[k]
  /\ \A k \in 1..n : js[m + k] = ms[k] /\ xs[m + k] = os[k]
  /\ \A k \in 1..m + 1 : bs[k] \in Nat /\ ds[k] = bs[k]
  /\ \A k \in 1..n + 1 : cs[k] \in Nat /\ ds[m + k] = bs[m + 1] + cs[k]

LEMMA BothJoined ==
  ASSUME NEW t, NEW ls, NEW bs, NEW ns, NEW s, Placed(t, ls, bs, ns, s),
         NEW ms, NEW cs, NEW os, NEW u, Placed(t, ms, cs, os, u),
         NEW ds, ds = Joined(bs, Len(ls), cs, Len(ms))
  PROVE  /\ Both(Len(ls), ls, bs, ns, Len(ms), ms, cs, os, ls \o ms, ds, ns \o os)
         /\ ls \o ms \in Seq(1..Len(t)) /\ ns \o os \in Seq(0..SizeMax) /\ ds \in Seq(Nat)
         /\ Len(ds) = Len(ls) + Len(ms) + 1
<1>1. PICK m \in Nat, n \in Nat : m = Len(ls) /\ n = Len(ms)
  BY Rising
<1>2. ds = Joined(bs, m, cs, n)
  BY <1>1
<1>3. bs[1] = 0 /\ cs[1] = 0 /\ Len(ns) = m /\ Len(os) = n
  BY <1>1 DEF Placed
<1>4. /\ \A k \in 1..m + 1 : bs[k] \in Nat
      /\ \A k \in 1..n + 1 : cs[k] \in Nat
  BY <1>1, Rising
<1>5. /\ ds \in Seq(Nat) /\ Len(ds) = m + n + 1
      /\ \A k \in 1..m + 1 : ds[k] = bs[k]
      /\ \A k \in 1..n + 1 : ds[m + k] = bs[m + 1] + cs[k]
  <2>1. cs[1] = 0
    BY <1>3
  <2>2. QED BY <1>2, <1>4, <2>1, PlacesJoin
<1>6. /\ ls \o ms \in Seq(1..Len(t)) /\ Len(ls \o ms) = m + n
      /\ \A k \in 1..m : (ls \o ms)[k] = ls[k]
      /\ \A k \in 1..n : (ls \o ms)[m + k] = ms[k]
  <2>1. PICK S : S = 1..Len(t)
    OBVIOUS
  <2>2. ls \in Seq(S) /\ ms \in Seq(S)
    BY <2>1 DEF Placed
  <2>3. /\ ls \o ms \in Seq(S) /\ Len(ls \o ms) = Len(ls) + Len(ms)
        /\ \A k \in 1..Len(ls) : (ls \o ms)[k] = ls[k]
        /\ \A k \in 1..Len(ms) : (ls \o ms)[Len(ls) + k] = ms[k]
    BY <2>2, JoinFacts
  <2>4. QED BY <1>1, <2>1, <2>3, Zenon
<1>7. /\ ns \o os \in Seq(0..SizeMax) /\ Len(ns \o os) = m + n
      /\ \A k \in 1..m : (ns \o os)[k] = ns[k]
      /\ \A k \in 1..n : (ns \o os)[m + k] = os[k]
  <2>1. PICK S : S = 0..SizeMax
    OBVIOUS
  <2>2. ns \in Seq(S) /\ os \in Seq(S)
    BY <2>1 DEF Placed
  <2>3. /\ ns \o os \in Seq(S) /\ Len(ns \o os) = Len(ns) + Len(os)
        /\ \A k \in 1..Len(ns) : (ns \o os)[k] = ns[k]
        /\ \A k \in 1..Len(os) : (ns \o os)[Len(ns) + k] = os[k]
    BY <2>2, JoinFacts
  <2>4. QED BY <1>3, <2>1, <2>3, Zenon
<1>8. Both(m, ls, bs, ns, n, ms, cs, os, ls \o ms, ds, ns \o os)
  BY <1>4, <1>5, <1>6, <1>7, Zenon DEF Both
<1>9. QED BY <1>1, <1>5, <1>6, <1>7, <1>8

LEMMA PlacedJoin ==
  ASSUME NEW t, NEW ls, NEW bs, NEW ns, NEW s, Placed(t, ls, bs, ns, s),
         NEW ms, NEW cs, NEW os, NEW u, Placed(t, ms, cs, os, u),
         NEW ds, ds = Joined(bs, Len(ls), cs, Len(ms))
  PROVE  Placed(t, ls \o ms, ds, ns \o os, s \o u)
<1> DEFINE js == ls \o ms
           xs == ns \o os
           v == s \o u
<1>1. PICK m \in Nat, n \in Nat : m = Len(ls) /\ n = Len(ms)
  BY Rising
<1>2. /\ Both(m, ls, bs, ns, n, ms, cs, os, js, ds, xs)
      /\ js \in Seq(1..Len(t)) /\ xs \in Seq(0..SizeMax) /\ ds \in Seq(Nat) /\ Len(ds) = m + n + 1
  BY <1>1, BothJoined
<1>3. PICK p \in Nat, q \in Nat : p = Len(s) /\ q = Len(u)
  BY Rising
<1>4. /\ bs[1] = 0 /\ bs[m + 1] = p /\ cs[1] = 0 /\ cs[n + 1] = q
      /\ \A k \in 1..m + 1 : bs[k] \in Nat /\ bs[k] <= p
      /\ \A k \in 1..n + 1 : cs[k] \in Nat /\ cs[k] <= q
  <2>1. bs[1] = 0 /\ bs[m + 1] = p /\ cs[1] = 0 /\ cs[n + 1] = q
    BY <1>1, <1>3 DEF Placed
  <2>2. /\ \A k \in 1..m + 1 : bs[k] \in Nat /\ bs[k] <= p
        /\ \A k \in 1..n + 1 : cs[k] \in Nat /\ cs[k] <= q
    BY <1>1, <1>3, Rising
  <2>3. QED BY <2>1, <2>2
<1>5. /\ \A k \in 1..m + 1 : ds[k] = bs[k]
      /\ \A k \in 1..n + 1 : ds[m + k] = p + cs[k]
  <2>1. /\ \A k \in 1..m + 1 : ds[k] = bs[k]
        /\ \A k \in 1..n + 1 : ds[m + k] = bs[m + 1] + cs[k]
    BY <1>2, Zenon DEF Both
  <2>2. QED BY <1>4, <2>1, Zenon
<1> HIDE DEF js, xs
<1>6. Len(js) = m + n /\ (\A k \in 1..m : js[k] = ls[k]) /\ (\A k \in 1..n : js[m + k] = ms[k])
  BY <1>2, Zenon DEF Both
<1>7. Len(xs) = m + n /\ (\A k \in 1..m : xs[k] = ns[k]) /\ (\A k \in 1..n : xs[m + k] = os[k])
  BY <1>2, Zenon DEF Both
<1>8. /\ v \in Seq(Octet) /\ Len(v) = p + q
      /\ \A i \in 1..p : v[i] = s[i]
      /\ \A i \in 1..q : v[p + i] = u[i]
  <2>1. s \in Seq(Octet) /\ u \in Seq(Octet)
    BY DEF Placed
  <2>2. QED BY <1>3, <2>1, JoinFacts
<1> HIDE DEF v
<1>9. ds[1] = 0 /\ ds[m + n + 1] = Len(v)
  <2>1. 1 \in 1..m + 1 /\ n + 1 \in 1..n + 1 /\ m + (n + 1) = m + n + 1
    OBVIOUS
  <2>2. ds[1] = 0 /\ ds[m + (n + 1)] = p + q
    BY <1>4, <1>5, <2>1, Zenon
  <2>3. QED BY <1>8, <2>1, <2>2
<1>10. ASSUME NEW k \in 1..m
       PROVE  HeaderOf(t[js[k]], xs[k]) \in Header /\ Stands(ds, v, k, TagOf(t[js[k]], xs[k]))
  <2>1. PICK g : g = TagOf(t[ls[k]], ns[k])
    OBVIOUS
  <2>2. HeaderOf(t[ls[k]], ns[k]) \in Header /\ Stands(bs, s, k, g)
    BY <1>1, <2>1 DEF Placed
  <2>3. k \in 1..m + 1 /\ k + 1 \in 1..m + 1
    OBVIOUS
  <2>4. ds[k] = bs[k] /\ ds[k + 1] = bs[k + 1] /\ bs[k] \in Nat /\ bs[k + 1] \in Nat /\ bs[k + 1] <= p
    BY <1>4, <1>5, <2>3, Zenon
  <2>5. g \in Seq(Octet) /\ bs[k + 1] = bs[k] + Len(g) /\ \A i \in 1..Len(g) : s[bs[k] + i] = g[i]
    BY <2>2 DEF Stands
  <2>6. PICK l \in Nat : l = Len(g)
    BY <2>5, LenProperties
  <2>7. \A i \in 1..l : bs[k] + i \in 1..p
    <3>1. PICK b \in Nat : b = bs[k] /\ b + l <= p
      BY <2>4, <2>5, <2>6
    <3>2. \A i \in 1..l : b + i \in 1..p
      BY <3>1
    <3>3. QED BY <3>1, <3>2
  <2>8. \A i \in 1..l : v[ds[k] + i] = g[i]
    BY <1>8, <2>4, <2>5, <2>6, <2>7, Zenon
  <2>9. Stands(ds, v, k, g)
    BY <2>4, <2>5, <2>6, <2>8 DEF Stands
  <2>10. js[k] = ls[k] /\ xs[k] = ns[k]
    BY <1>6, <1>7
  <2>11. QED BY <2>1, <2>2, <2>9, <2>10
<1>11. ASSUME NEW k \in 1..n
       PROVE  /\ HeaderOf(t[js[m + k]], xs[m + k]) \in Header
              /\ Stands(ds, v, m + k, TagOf(t[js[m + k]], xs[m + k]))
  <2>1. PICK g : g = TagOf(t[ms[k]], os[k])
    OBVIOUS
  <2>2. HeaderOf(t[ms[k]], os[k]) \in Header /\ Stands(cs, u, k, g)
    BY <1>1, <2>1 DEF Placed
  <2>3. k \in 1..n + 1 /\ k + 1 \in 1..n + 1 /\ m + k + 1 = m + (k + 1)
    OBVIOUS
  <2>4. PICK b \in Nat, c \in Nat : b = cs[k] /\ c = cs[k + 1] /\ c <= q
    BY <1>4, <2>3, Zenon
  <2>5. g \in Seq(Octet) /\ c = b + Len(g) /\ \A i \in 1..Len(g) : u[b + i] = g[i]
    BY <2>2, <2>4, Zenon DEF Stands
  <2>6. PICK l \in Nat : l = Len(g)
    BY <2>5, LenProperties
  <2>7. ds[m + k] = p + b /\ ds[m + k + 1] = p + c
    BY <1>5, <2>3, <2>4
  <2>8. \A i \in 1..l : b + i \in 1..q /\ p + b + i = p + (b + i)
    <3>1. b + l <= q
      BY <2>4, <2>5, <2>6
    <3>2. QED BY <3>1
  <2>9. \A i \in 1..l : v[ds[m + k] + i] = g[i]
    <3>1. TAKE i \in 1..l
    <3>2. v[p + (b + i)] = u[b + i]
      BY <1>8, <2>8, Zenon
    <3>3. u[b + i] = g[i] /\ ds[m + k] + i = p + (b + i)
      BY <2>5, <2>6, <2>7, <2>8
    <3>4. QED BY <3>2, <3>3
  <2>10. ds[m + k + 1] = ds[m + k] + Len(g)
    BY <2>5, <2>6, <2>7
  <2>11. Stands(ds, v, m + k, g)
    BY <2>5, <2>6, <2>9, <2>10 DEF Stands
  <2>12. js[m + k] = ms[k] /\ xs[m + k] = os[k]
    BY <1>6, <1>7
  <2>13. QED BY <2>1, <2>2, <2>11, <2>12
<1>12. ASSUME NEW k \in 1..m + n
       PROVE  HeaderOf(t[js[k]], xs[k]) \in Header /\ Stands(ds, v, k, TagOf(t[js[k]], xs[k]))
  <2>1. CASE k <= m
    <3>1. k \in 1..m
      BY <2>1
    <3>2. QED BY <1>10, <3>1
  <2>2. CASE ~(k <= m)
    <3>1. PICK i \in 1..n : k = m + i
      <4>1. k - m \in 1..n /\ k = m + (k - m)
        BY <2>2
      <4>2. QED BY <4>1
    <3>2. QED BY <1>11, <3>1, Zenon
  <2>3. QED BY <2>1, <2>2
<1>13. Placed(t, js, ds, xs, v)
  BY <1>2, <1>6, <1>7, <1>8, <1>9, <1>12 DEF Placed
<1>14. QED BY <1>13 DEF js, xs, v

LEMMA MeasuredSecond ==
  ASSUME NEW t, NEW ls, NEW bs, NEW ns, NEW ms, NEW cs, NEW os, NEW js, NEW ds, NEW xs,
         NEW m, NEW n, Both(m, ls, bs, ns, n, ms, cs, os, js, ds, xs), Len(ms) = n,
         NEW k \in 1..n, MeasuredAt(t, ms, cs, os, k)
  PROVE  MeasuredAt(t, js, ds, xs, m + k)
<1>1. PICK l : l = t[ms[k]]
  OBVIOUS
<1>2. /\ m \in Nat /\ n \in Nat /\ Len(js) = m + n
      /\ \A i \in 1..n : js[m + i] = ms[i] /\ xs[m + i] = os[i]
      /\ \A i \in 1..n + 1 : cs[i] \in Nat /\ ds[m + i] = bs[m + 1] + cs[i]
      /\ bs[m + 1] \in Nat
  <2>1. m \in Nat /\ n \in Nat
    BY DEF Both
  <2>2. m + 1 \in 1..m + 1
    BY <2>1
  <2>3. QED BY <2>1, <2>2, Zenon DEF Both
<1>3. js[m + k] = ms[k] /\ xs[m + k] = os[k]
  BY <1>2
<1>4. l.star => l.form # "octets"
  BY <1>1, Zenon DEF MeasuredAt
<1>5. ASSUME ~l.star
      PROVE  \E e \in (m + k) + 1..Len(js) + 1 :
               /\ Ending(t, js, m + k, e)
               /\ l.form = "octets" => e = (m + k) + 1
               /\ xs[m + k] = Truncated(SizeMax, Len(Own(l)) + (ds[e] - ds[(m + k) + 1]))
  <2>1. PICK e \in k + 1..n + 1 :
               /\ Ending(t, ms, k, e)
               /\ l.form = "octets" => e = k + 1
               /\ os[k] = Truncated(SizeMax, Len(Own(l)) + (cs[e] - cs[k + 1]))
    BY <1>1, <1>5, Zenon DEF MeasuredAt
  <2>2. e \in Nat /\ k \in Nat /\ m + e \in (m + k) + 1..(m + n) + 1
        /\ e \in 1..n + 1 /\ k + 1 \in 1..n + 1 /\ (m + k) + 1 = m + (k + 1)
    BY <1>2
  <2>3. PICK a \in Nat, b \in Nat, c \in Nat :
           a = bs[m + 1] /\ b = cs[e] /\ c = cs[k + 1]
    BY <1>2, <2>2, Zenon
  <2>4. ds[m + e] = a + b /\ ds[(m + k) + 1] = a + c
    BY <1>2, <2>2, <2>3
  <2>5. ds[m + e] - ds[(m + k) + 1] = cs[e] - cs[k + 1]
    BY <2>3, <2>4
  <2>6. \A j \in (m + k) + 1..(m + e) - 1 : t[js[j]].level > l.level
    <3>1. TAKE j \in (m + k) + 1..(m + e) - 1
    <3>2. PICK i \in k + 1..e - 1 : j = m + i
      <4>1. m \in Nat /\ k \in Nat /\ e \in Nat
        BY <1>2, <2>2
      <4>2. j - m \in k + 1..e - 1 /\ j = m + (j - m)
        BY <4>1
      <4>3. QED BY <4>2
    <3>3. i \in 1..n
      BY <2>2
    <3>4. js[j] = ms[i]
      BY <1>2, <3>2, <3>3
    <3>5. t[ms[i]].level > l.level
      BY <1>1, <2>1, <3>2 DEF Ending
    <3>6. QED BY <3>4, <3>5
  <2>7. m + e <= m + n => t[js[m + e]].level <= l.level
    <3>1. HAVE m + e <= m + n
    <3>2. e \in 1..n /\ e <= n
      BY <1>2, <2>2, <3>1
    <3>3. js[m + e] = ms[e]
      BY <1>2, <3>2, Zenon
    <3>4. QED BY <1>1, <2>1, <3>2, <3>3 DEF Ending
  <2>8. QED BY <1>1, <1>2, <1>3, <2>1, <2>2, <2>5, <2>6, <2>7, Zenon DEF Ending
<1>6. QED BY <1>1, <1>3, <1>4, <1>5, Zenon DEF MeasuredAt

LEMMA MeasuredFirst ==
  ASSUME NEW t, NEW ls, NEW bs, NEW ns, NEW ms, NEW cs, NEW os, NEW js, NEW ds, NEW xs,
         NEW m, NEW n, Both(m, ls, bs, ns, n, ms, cs, os, js, ds, xs), Len(ls) = m, n # 0,
         NEW k \in 1..m, MeasuredAt(t, ls, bs, ns, k),
         ~t[ls[k]].star /\ Ending(t, ls, k, m + 1) => t[ms[1]].level <= t[ls[k]].level
  PROVE  MeasuredAt(t, js, ds, xs, k)
<1>1. PICK l : l = t[ls[k]]
  OBVIOUS
<1>2. /\ m \in Nat /\ n \in Nat \ {0} /\ Len(js) = m + n
      /\ \A i \in 1..m : js[i] = ls[i] /\ xs[i] = ns[i]
      /\ \A i \in 1..m + 1 : ds[i] = bs[i]
      /\ js[m + 1] = ms[1]
  <2>1. m \in Nat /\ n \in Nat \ {0}
    BY DEF Both
  <2>2. 1 \in 1..n
    BY <2>1
  <2>3. QED BY <2>1, <2>2, Zenon DEF Both
<1>3. js[k] = ls[k] /\ xs[k] = ns[k]
  BY <1>2, Zenon
<1>4. l.star => l.form # "octets"
  BY <1>1, Zenon DEF MeasuredAt
<1>5. ASSUME ~l.star
      PROVE  \E e \in k + 1..Len(js) + 1 :
               /\ Ending(t, js, k, e)
               /\ l.form = "octets" => e = k + 1
               /\ xs[k] = Truncated(SizeMax, Len(Own(l)) + (ds[e] - ds[k + 1]))
  <2>1. PICK e \in k + 1..m + 1 :
               /\ Ending(t, ls, k, e)
               /\ l.form = "octets" => e = k + 1
               /\ ns[k] = Truncated(SizeMax, Len(Own(l)) + (bs[e] - bs[k + 1]))
    BY <1>1, <1>5, Zenon DEF MeasuredAt
  <2>2. e \in Nat /\ k \in Nat /\ e \in k + 1..(m + n) + 1 /\ e \in 1..m + 1 /\ k + 1 \in 1..m + 1
    BY <1>2
  <2>3. ds[e] = bs[e] /\ ds[k + 1] = bs[k + 1]
    BY <1>2, <2>2
  <2>4. \A j \in k + 1..e - 1 : t[js[j]].level > l.level
    <3>1. TAKE j \in k + 1..e - 1
    <3>2. j \in 1..m
      BY <1>2, <2>2
    <3>3. js[j] = ls[j]
      BY <1>2, <3>2
    <3>4. QED BY <1>1, <2>1, <3>3 DEF Ending
  <2>5. e <= m + n => t[js[e]].level <= l.level
    <3>1. CASE e = m + 1
      BY <1>1, <1>2, <1>5, <2>1, <3>1
    <3>2. CASE e # m + 1
      <4>1. e \in 1..m /\ e <= m
        BY <1>2, <2>2, <3>2
      <4>2. js[e] = ls[e]
        BY <1>2, <4>1
      <4>3. QED BY <1>1, <2>1, <4>1, <4>2 DEF Ending
    <3>3. QED BY <3>1, <3>2
  <2>6. QED BY <1>1, <1>2, <1>3, <2>1, <2>2, <2>3, <2>4, <2>5 DEF Ending
<1>6. QED BY <1>1, <1>3, <1>4, <1>5, Zenon DEF MeasuredAt

(* A layout behind another one, all of whose tags that are not indefinite  *)
(* end there.                                                              *)
LEMMA LayoutJoin ==
  ASSUME NEW t, NEW ls, NEW s, Layout(t, ls, s), NEW ms, NEW u, Layout(t, ms, u), ms # << >>,
         \A k \in 1..Len(ls) :
           ~t[ls[k]].star /\ Ending(t, ls, k, Len(ls) + 1) => t[ms[1]].level <= t[ls[k]].level
  PROVE  Layout(t, ls \o ms, s \o u)
<1>1. PICK bs, ns : Placed(t, ls, bs, ns, s) /\ Measured(t, ls, bs, ns)
  BY DEF Layout
<1>2. PICK cs, os : Placed(t, ms, cs, os, u) /\ Measured(t, ms, cs, os)
  BY DEF Layout
<1>3. PICK m \in Nat, n \in Nat \ {0} : m = Len(ls) /\ n = Len(ms)
  <2>1. Len(ls) \in Nat /\ Len(ms) \in Nat
    BY <1>1, <1>2, Rising
  <2>2. Len(ms) # 0
    BY <1>2, EmptySeq DEF Placed
  <2>3. QED BY <2>1, <2>2
<1>4. PICK ds, js, xs : ds = Joined(bs, Len(ls), cs, Len(ms)) /\ js = ls \o ms /\ xs = ns \o os
  BY Zenon
<1>5. Placed(t, js, ds, xs, s \o u)
  BY <1>1, <1>2, <1>4, PlacedJoin
<1>6. Both(m, ls, bs, ns, n, ms, cs, os, js, ds, xs)
  BY <1>1, <1>2, <1>3, <1>4, BothJoined
<1>7. Len(js) = m + n
  BY <1>6, Zenon DEF Both
<1>8. ASSUME NEW k \in 1..m PROVE MeasuredAt(t, js, ds, xs, k)
  <2>1. MeasuredAt(t, ls, bs, ns, k)
    BY <1>1, <1>3, Zenon DEF Measured
  <2>2. ~t[ls[k]].star /\ Ending(t, ls, k, m + 1) => t[ms[1]].level <= t[ls[k]].level
    BY <1>3, Zenon
  <2>3. n # 0
    OBVIOUS
  <2>4. QED BY <1>3, <1>6, <2>1, <2>2, <2>3, MeasuredFirst, Zenon
<1>9. ASSUME NEW k \in 1..n PROVE MeasuredAt(t, js, ds, xs, m + k)
  <2>1. MeasuredAt(t, ms, cs, os, k)
    BY <1>2, <1>3, Zenon DEF Measured
  <2>2. QED BY <1>3, <1>6, <2>1, MeasuredSecond
<1>10. Measured(t, js, ds, xs)
  <2>1. SUFFICES ASSUME NEW k \in 1..m + n PROVE MeasuredAt(t, js, ds, xs, k)
    BY <1>7 DEF Measured
  <2>2. k \in 1..m \/ (k - m \in 1..n /\ m + (k - m) = k)
    OBVIOUS
  <2>3. CASE k \in 1..m
    BY <1>8, <2>3
  <2>4. CASE k - m \in 1..n /\ m + (k - m) = k
    <3>1. MeasuredAt(t, js, ds, xs, m + (k - m))
      BY <1>9, <2>4, Zenon
    <3>2. QED BY <2>4, <3>1
  <2>5. QED BY <2>2, <2>3, <2>4
<1>11. QED BY <1>4, <1>5, <1>10 DEF Layout

LEMMA LayoutEmpty ==
  ASSUME NEW t
  PROVE  Layout(t, << >>, << >>)
<1>1. <<0>> \in Seq(Nat) /\ Len(<<0>>) = 1 /\ <<0>>[1] = 0
  OBVIOUS
<1>2. /\ << >> \in Seq(1..Len(t)) /\ << >> \in Seq(Octet) /\ << >> \in Seq(0..SizeMax)
      /\ Len(<< >>) = 0 /\ 0 + 1 = 1 /\ 1..0 = {}
  OBVIOUS
<1>3. Placed(t, << >>, <<0>>, << >>, << >>)
  BY <1>1, <1>2 DEF Placed
<1>4. Measured(t, << >>, <<0>>, << >>)
  BY <1>2 DEF Measured
<1>5. QED BY <1>3, <1>4 DEF Layout

(* A tag around a layout.                                                  *)
LEMMA LayoutTag ==
  ASSUME NEW t \in Seq(Lines), NEW i \in 1..Len(t), NEW z \in 0..SizeMax,
         HeaderOf(t[i], z) \in Header,
         NEW ms, NEW u, Layout(t, ms, u),
         t[i].star => t[i].form # "octets",
         ~t[i].star => /\ z = Truncated(SizeMax, Len(Own(t[i])) + Len(u))
                       /\ \A k \in 1..Len(ms) : t[ms[k]].level > t[i].level
                       /\ t[i].form = "octets" => ms = << >>
  PROVE  Layout(t, <<i>> \o ms, TagOf(t[i], z) \o u)
<1>1. PICK l \in Lines : l = t[i]
  BY ElementOfSeq
<1>2. PICK g \in Seq(Octet), w \in Nat : g = TagOf(l, z) /\ w = Len(g)
  <2>1. TagOf(l, z) \in Seq(Octet) /\ Len(TagOf(l, z)) \in Nat
    BY <1>1, TagTyped
  <2>2. QED BY <2>1
<1>3. PICK cs, os : Placed(t, ms, cs, os, u) /\ Measured(t, ms, cs, os)
  BY DEF Layout
<1>4. PICK n \in Nat : n = Len(ms)
  BY <1>3, Rising
<1>5. PICK ls, bs, ns : ls = <<i>> /\ bs = <<0, w>> /\ ns = <<z>>
  BY Zenon
<1>6. /\ ls \in Seq(1..Len(t)) /\ Len(ls) = 1 /\ ls[1] = i
      /\ bs \in Seq(Nat) /\ Len(bs) = 2 /\ bs[1] = 0 /\ bs[2] = w
      /\ ns \in Seq(0..SizeMax) /\ Len(ns) = 1 /\ ns[1] = z
  BY <1>5
<1>7. Placed(t, ls, bs, ns, g)
  <2>1. \A k \in 1..Len(g) : 0 + k = k
    BY <1>2
  <2>2. Stands(bs, g, 1, g)
    BY <1>2, <1>6, <2>1 DEF Stands
  <2>3. \A k \in 1..1 : k = 1
    OBVIOUS
  <2>4. \A k \in 1..1 :
          HeaderOf(t[ls[k]], ns[k]) \in Header /\ Stands(bs, g, k, TagOf(t[ls[k]], ns[k]))
    BY <1>1, <1>2, <1>6, <2>2, <2>3
  <2>5. bs[Len(ls) + 1] = Len(g) /\ Len(bs) = Len(ls) + 1
    BY <1>2, <1>6
  <2>6. QED BY <1>6, <2>4, <2>5 DEF Placed
<1>8. PICK ds, js, xs : ds = Joined(bs, Len(ls), cs, Len(ms)) /\ js = ls \o ms /\ xs = ns \o os
  BY Zenon
<1>9. Placed(t, js, ds, xs, g \o u)
  BY <1>3, <1>7, <1>8, PlacedJoin
<1>10. Both(1, ls, bs, ns, n, ms, cs, os, js, ds, xs)
  <2>1. Both(Len(ls), ls, bs, ns, Len(ms), ms, cs, os, ls \o ms, ds, ns \o os)
    BY <1>3, <1>7, <1>8, BothJoined
  <2>2. QED BY <1>4, <1>6, <1>8, <2>1
<1>11. /\ Len(js) = 1 + n /\ js[1] = i /\ xs[1] = z
       /\ \A k \in 1..n : js[1 + k] = ms[k]
       /\ ds[2] = w
       /\ \A k \in 1..n + 1 : cs[k] \in Nat /\ ds[1 + k] = w + cs[k]
  <2>1. 1 \in 1..1 /\ 2 \in 1..1 + 1 /\ 1 + 1 = 2
    OBVIOUS
  <2>2. /\ Len(js) = 1 + n /\ \A k \in 1..1 : js[k] = ls[k] /\ xs[k] = ns[k]
        /\ \A k \in 1..n : js[1 + k] = ms[k]
        /\ \A k \in 1..1 + 1 : ds[k] = bs[k]
        /\ \A k \in 1..n + 1 : cs[k] \in Nat /\ ds[1 + k] = bs[1 + 1] + cs[k]
    BY <1>10, Zenon DEF Both
  <2>3. QED BY <1>6, <2>1, <2>2, Zenon
<1>12. MeasuredAt(t, js, ds, xs, 1)
  <2>1. t[js[1]] = l
    BY <1>1, <1>11
  <2>2. ASSUME ~l.star
        PROVE  \E e \in 1 + 1..Len(js) + 1 :
                 /\ Ending(t, js, 1, e)
                 /\ l.form = "octets" => e = 1 + 1
                 /\ xs[1] = Truncated(SizeMax, Len(Own(l)) + (ds[e] - ds[1 + 1]))
    <3>1. PICK e \in Nat : e = n + 2 /\ e \in 1 + 1..Len(js) + 1 /\ e = Len(js) + 1 /\ e = 1 + (n + 1)
      BY <1>11
    <3>2. ASSUME NEW j \in 1 + 1..e - 1 PROVE t[js[j]].level > l.level
      <4>1. j - 1 \in 1..n /\ j = 1 + (j - 1)
        <5>1. e - 1 = n + 1
          BY <3>1
        <5>2. j \in 2..n + 1
          BY <3>2, <5>1
        <5>3. QED BY <5>2
      <4>2. js[j] = ms[j - 1]
        <5>1. js[1 + (j - 1)] = ms[j - 1]
          BY <1>11, <4>1
        <5>2. QED BY <4>1, <5>1
      <4>3. QED BY <1>1, <1>4, <2>2, <4>1, <4>2, Zenon
    <3>3. Ending(t, js, 1, e)
      BY <2>1, <3>1, <3>2, <1>11 DEF Ending
    <3>4. l.form = "octets" => e = 1 + 1
      <4>1. HAVE l.form = "octets"
      <4>2. ms = << >>
        BY <1>1, <2>2, <4>1
      <4>3. n = 0
        BY <1>4, <4>2
      <4>4. QED BY <3>1, <4>3
    <3>5. ds[e] - ds[1 + 1] = Len(u)
      <4>1. cs[n + 1] = Len(u) /\ n + 1 \in 1..n + 1 /\ 1 + 1 = 2
        BY <1>3, <1>4 DEF Placed
      <4>2. PICK c \in Nat : c = cs[n + 1] /\ ds[e] = w + c
        BY <1>11, <3>1, <4>1
      <4>3. QED BY <1>11, <4>1, <4>2
    <3>6. z = Truncated(SizeMax, Len(Own(l)) + Len(u))
      BY <1>1, <2>2
    <3>7. QED BY <1>11, <3>1, <3>3, <3>4, <3>5, <3>6, Zenon
  <2>3. QED BY <1>1, <2>1, <2>2 DEF MeasuredAt
<1>13. ASSUME NEW k \in 1..n PROVE MeasuredAt(t, js, ds, xs, 1 + k)
  <2>1. MeasuredAt(t, ms, cs, os, k)
    BY <1>3, <1>4, Zenon DEF Measured
  <2>2. QED BY <1>4, <1>10, <2>1, MeasuredSecond, Zenon
<1>14. Measured(t, js, ds, xs)
  <2>1. SUFFICES ASSUME NEW k \in 1..1 + n PROVE MeasuredAt(t, js, ds, xs, k)
    BY <1>11, Zenon DEF Measured
  <2>2. k = 1 \/ (k - 1 \in 1..n /\ 1 + (k - 1) = k)
    OBVIOUS
  <2>3. CASE k = 1
    BY <1>12, <2>3
  <2>4. CASE k - 1 \in 1..n /\ 1 + (k - 1) = k
    <3>1. MeasuredAt(t, js, ds, xs, 1 + (k - 1))
      BY <1>13, <2>4, Zenon
    <3>2. QED BY <2>4, <3>1
  <2>5. QED BY <2>2, <2>3, <2>4
<1>15. Layout(t, js, g \o u)
  BY <1>9, <1>14 DEF Layout
<1>16. QED BY <1>1, <1>2, <1>5, <1>8, <1>15, Zenon

(* One line more.                                                          *)
LEMMA EndingOfMore ==
  ASSUME NEW t, NEW v, NEW ls \in Seq(1..Len(t)), \A i \in 1..Len(t) : v[i] = t[i],
         NEW k \in 1..Len(ls), NEW e
  PROVE  Ending(v, ls, k, e) <=> Ending(t, ls, k, e)
<1>1. PICK n \in Nat : n = Len(ls)
  BY LenProperties
<1>2. \A j \in 1..n : v[ls[j]] = t[ls[j]]
  BY <1>1, ElementOfSeq, Zenon
<1>3. \A j \in k + 1..e - 1 : e \in k + 1..n + 1 => j \in 1..n
  BY <1>1
<1>4. e \in k + 1..n + 1 /\ e <= n => e \in 1..n
  BY <1>1
<1>5. QED BY <1>1, <1>2, <1>3, <1>4, Zenon DEF Ending

LEMMA LayoutOfMore ==
  ASSUME NEW t \in Seq(Lines), NEW l \in Lines, NEW ls, NEW s, Layout(t, ls, s)
  PROVE  Layout(Append(t, l), ls, s)
<1>1. PICK v : v = Append(t, l)
  BY Zenon
<1>2. PICK q \in Nat : q = Len(t) /\ Len(v) = q + 1 /\ \A i \in 1..q : v[i] = t[i]
  BY <1>1, AppendFacts
<1>3. PICK bs, ns : Placed(t, ls, bs, ns, s) /\ Measured(t, ls, bs, ns)
  BY DEF Layout
<1>4. PICK n \in Nat : n = Len(ls)
  BY <1>3, Rising
<1>5. ls \in Seq(1..q)
  BY <1>2, <1>3 DEF Placed
<1>6. \A k \in 1..n : v[ls[k]] = t[ls[k]]
  BY <1>2, <1>4, <1>5, ElementOfSeq
<1>7. ls \in Seq(1..Len(v))
  <2>1. 1..q \subseteq 1..q + 1
    OBVIOUS
  <2>2. QED BY <1>2, <1>5, <2>1, SeqMonotonic
<1>8. Placed(v, ls, bs, ns, s)
  BY <1>3, <1>4, <1>6, <1>7, Zenon DEF Placed
<1>9. ASSUME NEW k \in 1..n PROVE MeasuredAt(v, ls, bs, ns, k)
  <2>1. MeasuredAt(t, ls, bs, ns, k)
    BY <1>3, <1>4, Zenon DEF Measured
  <2>2. \A e : Ending(v, ls, k, e) <=> Ending(t, ls, k, e)
    BY <1>2, <1>4, <1>5, EndingOfMore, Zenon
  <2>3. QED BY <1>6, <2>1, <2>2, Zenon DEF MeasuredAt
<1>10. QED BY <1>1, <1>4, <1>8, <1>9, Zenon DEF Measured, Layout

-----------------------------------------------------------------------------
(* The printer.                                                            *)

\* The node of f is the tag of line l, the ith of t, whose content is its own and that
\* of the lines ms, which is c.
IsTag(t, f, i, l, ms, c) ==
  /\ i \in 1..Len(t) /\ l = t[i]
  /\ f.level = l.level
  /\ f.node.th = HeaderOf(l, f.node.th.length)
  /\ f.node.lines = <<i>> \o ms /\ f.node.content = Own(l) \o c
  /\ Layout(t, ms, c)
  /\ l.star => l.form # "octets" /\ ms = << >>
  /\ ~l.star => /\ f.node.th.length = Truncated(SizeMax, Len(f.node.content))
                /\ \A k \in 1..Len(ms) : t[ms[k]].level > l.level
                /\ l.form = "octets" => ms = << >>
Sound(t, f) == \E i, l, ms, c : IsTag(t, f, i, l, ms, c)

\* s is begun by o, and is longer.
Begun(o, s) == \E r \in Seq(Octet) : r # << >> /\ s = o \o r

Written(t, ps, o, cut) == \E s : Layout(t, ps, s) /\ IF cut THEN Begun(o, s) ELSE o = s

\* Of the tags printed, those that have a length and do not end before the next one
\* are inside the loops of indefinite tags.
Inside(t, fs, ps) ==
  \A k \in 1..Len(ps) : ~t[ps[k]].star /\ Ending(t, ps, k, Len(ps) + 1) =>
    \A i \in 1..Len(fs) : ~Definite(fs[i].node) => fs[i].level < t[ps[k]].level

LInv ==
  /\ IInv
  /\ \A i \in 1..Len(frames) : Sound(taken, frames[i])
  /\ at = "returned" /\ good => Sound(taken, got)
  /\ Written(taken, printed, out, refused)
  /\ Inside(taken, frames, printed)

(* What is put for a node are its lines.                                   *)
LEMMA NodeLaid ==
  ASSUME NEW t \in Seq(Lines), NEW f \in Frame, Sound(t, f)
  PROVE  Layout(t, f.node.lines, Octets(f.node)) /\ f.node.lines # << >>
         /\ t[f.node.lines[1]].level = f.level
<1>1. PICK i, l, ms, c, z : z = f.node.th.length /\ IsTag(t, f, i, l, ms, c)
  BY DEF Sound
<1>2. l \in Lines /\ f.node.th \in Header /\ z \in 0..SizeMax
  <2>1. f.node.th \in Header
    BY DEF Frame, Node
  <2>2. QED BY <1>1, <2>1, ElementOfSeq DEF Header, IsTag
<1>3. Layout(t, <<i>> \o ms, TagOf(l, z) \o c)
  <2>1. Len(f.node.content) = Len(Own(l)) + Len(c)
    <3>1. Own(l) \in Seq(Octet) /\ c \in Seq(Octet) /\ f.node.content = Own(l) \o c
      BY <1>1, <1>2, OwnTyped, Zenon DEF IsTag, Layout, Placed
    <3>2. QED BY <3>1, JoinFacts
  <2>2. /\ i \in 1..Len(t) /\ l = t[i] /\ HeaderOf(t[i], z) \in Header /\ Layout(t, ms, c)
        /\ t[i].star => t[i].form # "octets"
        /\ ~t[i].star => /\ z = Truncated(SizeMax, Len(Own(t[i])) + Len(c))
                         /\ \A k \in 1..Len(ms) : t[ms[k]].level > t[i].level
                         /\ t[i].form = "octets" => ms = << >>
    BY <1>1, <1>2, <2>1, Zenon DEF IsTag
  <2>3. QED BY <1>2, <2>2, LayoutTag
<1>4. Enc!EncodedHeader(HeaderOf(l, z)) \in Seq(Octet) /\ Own(l) \in Seq(Octet) /\ c \in Seq(Octet)
      /\ ms \in Seq(1..Len(t))
  <2>1. c \in Seq(Octet) /\ ms \in Seq(1..Len(t))
    BY <1>1 DEF IsTag, Layout, Placed
  <2>2. f.node.th = HeaderOf(l, z)
    BY <1>1 DEF IsTag
  <2>3. QED BY <1>2, <2>1, <2>2, HeaderPut, OwnTyped
<1>5. TagOf(l, z) \o c = Octets(f.node)
  <2>1. PICK h \in Seq(Octet), o \in Seq(Octet) : h = Enc!EncodedHeader(HeaderOf(l, z)) /\ o = Own(l)
    BY <1>4
  <2>2. (h \o o) \o c = h \o (o \o c)
    <3>1. h \in Seq(Octet) /\ o \in Seq(Octet) /\ c \in Seq(Octet)
      BY <1>4, <2>1
    <3>2. QED BY <3>1, Regrouped, SMTT(30)
  <2>3. f.node.th = HeaderOf(l, z) /\ f.node.content = o \o c
    BY <1>1, <2>1 DEF IsTag
  <2>4. QED BY <2>1, <2>2, <2>3, Zenon DEF TagOf, Octets
<1>6. f.node.lines # << >> /\ f.node.lines[1] = i
  <2>1. <<i>> \in Seq(1..Len(t)) /\ Len(<<i>>) = 1 /\ <<i>>[1] = i /\ 1 \in 1..1
    <3>1. i \in 1..Len(t)
      BY <1>1 DEF IsTag
    <3>2. QED BY <3>1
  <2>2. PICK S, h : S = 1..Len(t) /\ h = <<i>>
    BY Zenon
  <2>3. Len(h \o ms) = Len(h) + Len(ms) /\ Len(ms) \in Nat /\ \A k \in 1..Len(h) : (h \o ms)[k] = h[k]
    BY <1>4, <2>1, <2>2, JoinFacts
  <2>4. Len(f.node.lines) # 0 /\ f.node.lines[1] = i
    BY <1>1, <2>1, <2>2, <2>3 DEF IsTag
  <2>5. QED BY <2>4
<1>7. QED BY <1>1, <1>3, <1>5, <1>6 DEF IsTag

LEMMA SoundOfMore ==
  ASSUME NEW t \in Seq(Lines), NEW l \in Lines, NEW f, Sound(t, f)
  PROVE  Sound(Append(t, l), f)
<1>1. PICK v : v = Append(t, l)
  BY Zenon
<1>2. PICK q \in Nat : q = Len(t) /\ Len(v) = q + 1 /\ \A i \in 1..q : v[i] = t[i]
  BY <1>1, AppendFacts
<1>3. PICK i, l2, ms, c : IsTag(t, f, i, l2, ms, c)
  BY DEF Sound
<1>4. Layout(v, ms, c)
  BY <1>1, <1>3, LayoutOfMore DEF IsTag
<1>5. v[i] = t[i] /\ i \in 1..Len(v)
  BY <1>2, <1>3 DEF IsTag
<1>6. \A k \in 1..Len(ms) : v[ms[k]] = t[ms[k]]
  <2>1. ms \in Seq(1..q)
    BY <1>2, <1>3 DEF IsTag, Layout, Placed
  <2>2. QED BY <1>2, <2>1, ElementOfSeq
<1>7. IsTag(v, f, i, l2, ms, c)
  BY <1>3, <1>4, <1>5, <1>6, Zenon DEF IsTag
<1>8. QED BY <1>1, <1>7 DEF Sound

(* A line that has been read stands for a tag with nothing in it.          *)
LEMMA LineSound ==
  ASSUME taken \in Seq(Lines), NEW line \in Lines, taken' = Append(taken, line), LabelRead(line),
         line.star => line.form # "octets"
  PROVE  Sound(taken', [level |-> line.level, node |-> NodeOf(line, Shape(line), Own(line))])
<1>1. PICK n : n = Len(taken')
  OBVIOUS
<1>2. n \in 1..Len(taken') /\ taken'[n] = line
  BY <1>1, AppendFacts
<1>3. PICK f : f = [level |-> line.level, node |-> NodeOf(line, Shape(line), Own(line))]
  BY Zenon
<1>4. /\ f.level = line.level /\ f.node.th = HeaderOf(line, Len(Own(line)))
      /\ f.node.content = Own(line) /\ f.node.lines = <<n>>
  BY <1>1, <1>3 DEF NodeOf, HeaderOf
<1>5. f.node.th.length = Len(Own(line))
  BY <1>4 DEF HeaderOf
<1>6. Own(line) \in Seq(Octet) /\ Len(Own(line)) \in 0..SizeMax
  BY OwnTyped
<1>7. Len(Own(line)) = Truncated(SizeMax, Len(Own(line)))
  <2>1. PICK m \in 0..SizeMax : m = Len(Own(line))
    BY <1>6
  <2>2. SizeMax \in Nat /\ m \in Nat /\ m <= SizeMax
    BY BerPrintAssumption
  <2>3. QED BY <2>1, <2>2, TruncatedIsModulo, Zenon
<1>8. <<n>> \o << >> = <<n>> /\ Own(line) \o << >> = Own(line)
  <2>1. <<n>> \in Seq({n})
    OBVIOUS
  <2>2. QED BY <1>6, <2>1, ConcatEmptySeq
<1>9. Layout(taken', << >>, << >>)
  BY LayoutEmpty
<1>10. \A k \in 1..Len(<< >>) : taken'[<< >>[k]].level > line.level
  OBVIOUS
<1>11. IsTag(taken', f, n, line, << >>, << >>)
  BY <1>2, <1>4, <1>5, <1>7, <1>8, <1>9, <1>10, Zenon DEF IsTag
<1>12. QED BY <1>3, <1>11 DEF Sound

LEMMA SumModulo ==
  ASSUME NEW m \in Nat \ {0}, NEW v \in Nat, NEW d \in Nat
  PROVE  v % m \in Nat /\ ((v % m) + d) % m = (v + d) % m
<1>1. 1 \in Nat
  OBVIOUS
<1>2. ((v % m) * 1 + d) % m = (v * 1 + d) % m
  BY <1>1, ModuloStep, Zenon
<1>3. PICK r \in Nat : r = v % m
  OBVIOUS
<1>4. r * 1 = r /\ v * 1 = v
  OBVIOUS
<1>5. QED BY <1>2, <1>3, <1>4, Zenon

LEMMA TruncatedSum ==
  ASSUME NEW a \in Nat, NEW b \in Nat, NEW x \in Nat
  PROVE  Truncated(SizeMax, Truncated(SizeMax, a) + (x + Truncated(SizeMax, b)))
           = Truncated(SizeMax, a + (x + b))
<1>1. PICK m \in Nat \ {0} : m = SizeMax + 1
  BY BerPrintAssumption
<1>2. ASSUME NEW v \in Nat PROVE Truncated(SizeMax, v) = v % m
  <2>1. SizeMax \in Nat
    BY BerPrintAssumption
  <2>2. Truncated(SizeMax, v) = v % (SizeMax + 1)
    BY <2>1, TruncatedIsModulo, Zenon
  <2>3. QED BY <1>1, <2>2, Zenon
<1>3. PICK p \in Nat, q \in Nat : p = a % m /\ q = b % m
  BY SumModulo, Zenon
<1>4. (p + (x + q)) % m = (a + (x + q)) % m
  <2>1. PICK d \in Nat : d = x + q
    OBVIOUS
  <2>2. ((a % m) + d) % m = (a + d) % m
    BY SumModulo, Zenon
  <2>3. QED BY <1>3, <2>1, <2>2, Zenon
<1>5. (a + (x + q)) % m = (a + (x + b)) % m
  <2>1. PICK d \in Nat : d = a + x
    OBVIOUS
  <2>2. ((b % m) + d) % m = (b + d) % m
    BY SumModulo, Zenon
  <2>3. q + d = a + (x + q) /\ b + d = a + (x + b)
    BY <2>1
  <2>4. QED BY <1>3, <2>2, <2>3, Zenon
<1>6. p + (x + q) \in Nat /\ a + (x + b) \in Nat
  OBVIOUS
<1>7. /\ Truncated(SizeMax, a) = p /\ Truncated(SizeMax, b) = q
      /\ Truncated(SizeMax, p + (x + q)) = (p + (x + q)) % m
      /\ Truncated(SizeMax, a + (x + b)) = (a + (x + b)) % m
  BY <1>2, <1>3, <1>6, Zenon
<1>8. QED BY <1>4, <1>5, <1>7, Zenon

(* A tag takes the tags of a node one level below it behind those it has.  *)
LEMMA PushSound ==
  ASSUME NEW t \in Seq(Lines), NEW f \in Frame, Sound(t, f), Definite(f.node),
         NEW g \in Frame, Sound(t, g), g.level = f.level + 1,
         g.node.th.shape # "constructed_indefinite",
         NEW h, h = [f EXCEPT !.node = PushBack(f.node, g.node)]
  PROVE  Sound(t, h)
<1>1. PICK i, l, ms, c : IsTag(t, f, i, l, ms, c)
  BY DEF Sound
<1>2. PICK j, o, qs, d : IsTag(t, g, j, o, qs, d)
  BY DEF Sound
<1>3. PICK us, os, n : us = g.node.lines /\ os = Octets(g.node) /\ n = PushBack(f.node, g.node)
  OBVIOUS
<1>4. /\ Layout(t, us, os) /\ us # << >> /\ t[us[1]].level = g.level
  BY <1>3, NodeLaid
<1>5. /\ f.node \in Node /\ g.node \in Node /\ f.level \in Nat
      /\ f.node.th \in Header /\ g.node.th \in Header
      /\ f.node.content \in Seq(Octet) /\ g.node.content \in Seq(Octet)
  BY DEF Frame, Node
<1>6. /\ l \in Lines /\ l.level \in Nat /\ ~l.star /\ l.form # "octets"
  <2>1. f.node.th.shape = Shape(l)
    BY <1>1 DEF IsTag, HeaderOf
  <2>2. ~l.star /\ l.form # "octets"
    BY <2>1 DEF Definite, Shape
  <2>3. l \in Lines
    BY <1>1, ElementOfSeq DEF IsTag
  <2>4. l.level \in Nat
    BY <1>1, <1>5 DEF IsTag
  <2>5. QED BY <2>2, <2>3, <2>4
<1>7. ~o.star
  <2>1. g.node.th.shape = Shape(o)
    BY <1>2 DEF IsTag, HeaderOf
  <2>2. QED BY <2>1 DEF Shape
<1>8. ms \in Seq(1..Len(t)) /\ us \in Seq(1..Len(t)) /\ c \in Seq(Octet) /\ os \in Seq(Octet)
  BY <1>1, <1>4 DEF IsTag, Layout, Placed
<1>9. Layout(t, ms \o us, c \o os)
  <2>1. ASSUME NEW k \in 1..Len(ms) PROVE t[us[1]].level <= t[ms[k]].level
    <3>1. t[ms[k]].level > l.level
      BY <1>1, <1>6 DEF IsTag
    <3>2. t[ms[k]].level \in Nat
      BY <1>8, ElementOfSeq, Levels
    <3>3. t[us[1]].level = l.level + 1
      BY <1>1, <1>4 DEF IsTag
    <3>4. QED BY <1>6, <3>1, <3>2, <3>3
  <2>2. QED BY <1>1, <1>4, <2>1, LayoutJoin DEF IsTag
<1>10. \A k \in 1..Len(ms \o us) : t[(ms \o us)[k]].level > l.level
  <2>1. Nat \subseteq Int
    OBVIOUS
  <2>2. ASSUME NEW k \in 1..Len(us) PROVE t[us[k]].level > l.level
    <3>1. \A a \in Nat : a >= l.level + 1 => a > l.level
      BY <1>6
    <3>2. us = <<j>> \o qs /\ \A e \in 1..Len(qs) : t[qs[e]].level > t[j].level
      BY <1>2, <1>3, <1>7 DEF IsTag
    <3>3. t[j].level = l.level + 1 /\ j \in 1..Len(t) /\ qs \in Seq(1..Len(t))
      BY <1>1, <1>2 DEF IsTag, Layout, Placed
    <3>4. PICK S, js : S = 1..Len(t) /\ js = <<j>>
      BY Zenon
    <3>5. js \in Seq(S) /\ Len(js) = 1 /\ js[1] = j
      BY <3>3, <3>4
    <3>6. PICK w \in Nat : w = Len(qs)
      BY <3>3, LenProperties
    <3>7. Len(us) = 1 + w /\ us[1] = j /\ \A e \in 1..w : us[1 + e] = qs[e]
      <4>1. /\ Len(js \o qs) = Len(js) + Len(qs)
            /\ \A e \in 1..Len(js) : (js \o qs)[e] = js[e]
            /\ \A e \in 1..Len(qs) : (js \o qs)[Len(js) + e] = qs[e]
        BY <3>3, <3>4, <3>5, JoinFacts
      <4>2. 1 \in 1..1
        OBVIOUS
      <4>3. QED BY <3>2, <3>4, <3>5, <3>6, <4>1, <4>2
    <3>8. CASE k = 1
      BY <1>6, <3>3, <3>7, <3>8
    <3>9. CASE k # 1
      <4>1. k - 1 \in 1..w /\ 1 + (k - 1) = k
        BY <3>7, <3>9
      <4>2. us[1 + (k - 1)] = qs[k - 1]
        BY <3>7, <4>1
      <4>3. t[us[k]].level > l.level + 1 /\ us[k] \in 1..Len(t)
        BY <1>8, <3>2, <3>3, <3>6, <4>1, <4>2, ElementOfSeq, Zenon
      <4>4. t[us[k]].level \in Nat
        BY <4>3, Levels
      <4>5. QED BY <1>6, <4>3, <4>4
    <3>10. QED BY <3>8, <3>9
  <2>3. \A k \in 1..Len(ms) : t[ms[k]].level > l.level
    BY <1>1, <1>6 DEF IsTag
  <2>4. PICK a \in Nat, b \in Nat : a = Len(ms) /\ b = Len(us)
    BY <1>8, LenProperties, Zenon
  <2>5. /\ Len(ms \o us) = a + b
        /\ \A k \in 1..a : (ms \o us)[k] = ms[k]
        /\ \A k \in 1..b : (ms \o us)[a + k] = us[k]
    <3>1. PICK S : S = 1..Len(t)
      OBVIOUS
    <3>2. /\ Len(ms \o us) = Len(ms) + Len(us)
          /\ \A k \in 1..Len(ms) : (ms \o us)[k] = ms[k]
          /\ \A k \in 1..Len(us) : (ms \o us)[Len(ms) + k] = us[k]
      BY <1>8, <3>1, JoinFacts
    <3>3. QED BY <2>4, <3>2
  <2>6. \A k \in 1..a + b : k \in 1..a \/ (k - a \in 1..b /\ k = a + (k - a))
    OBVIOUS
  <2>7. ASSUME NEW k \in 1..a + b PROVE t[(ms \o us)[k]].level > l.level
    <3>1. CASE k \in 1..a
      BY <2>3, <2>4, <2>5, <3>1
    <3>2. CASE k - a \in 1..b /\ k = a + (k - a)
      <4>1. (ms \o us)[a + (k - a)] = us[k - a]
        BY <2>5, <3>2, Zenon
      <4>2. QED BY <2>2, <2>4, <3>2, <4>1, Zenon
    <3>3. QED BY <2>6, <3>1, <3>2, Zenon
  <2>8. QED BY <2>5, <2>7
<1>11. /\ n.lines = <<i>> \o (ms \o us) /\ n.content = Own(l) \o (c \o os)
  <2>1. n.lines = f.node.lines \o us /\ n.content = f.node.content \o os
    BY <1>3, Zenon DEF PushBack
  <2>2. PICK S, is : S = 1..Len(t) /\ is = <<i>>
    BY Zenon
  <2>3. is \in Seq(S) /\ Own(l) \in Seq(Octet)
    BY <1>1, <1>6, <2>2, OwnTyped DEF IsTag
  <2>4. (is \o ms) \o us = is \o (ms \o us)
    <3>1. is \in Seq(S) /\ ms \in Seq(S) /\ us \in Seq(S)
      BY <1>8, <2>2, <2>3
    <3>2. QED BY <3>1, Regrouped, SMTT(30)
  <2>5. (Own(l) \o c) \o os = Own(l) \o (c \o os)
    <3>1. PICK y \in Seq(Octet) : y = Own(l)
      BY <2>3
    <3>2. c \in Seq(Octet) /\ os \in Seq(Octet)
      BY <1>8
    <3>3. (y \o c) \o os = y \o (c \o os)
      BY <3>2, ConcatAssociative
    <3>4. QED BY <3>1, <3>3, Zenon
  <2>6. f.node.lines = is \o ms /\ f.node.content = Own(l) \o c
    BY <1>1, <2>2 DEF IsTag
  <2>7. QED BY <2>1, <2>2, <2>4, <2>5, <2>6, Zenon
<1>12. n.th.length = Truncated(SizeMax, Len(n.content))
  <2>1. PICK a \in Nat, b \in Nat, x \in Nat :
           a = Len(f.node.content) /\ b = Len(g.node.content) /\ x = Enc!Sizeof(g.node.th)
    BY <1>5, HeaderPut, LenProperties, Zenon
  <2>2. f.node.th.length = Truncated(SizeMax, a) /\ g.node.th.length = Truncated(SizeMax, b)
    BY <1>1, <1>2, <1>6, <1>7, <2>1 DEF IsTag
  <2>3. n.th.length = Truncated(SizeMax, f.node.th.length + Length(g.node))
    BY <1>3, <1>5 DEF PushBack, Header
  <2>4. Length(g.node) = x + g.node.th.length
    BY <2>1 DEF Length
  <2>5. Len(os) = x + b
    <3>1. Enc!EncodedHeader(g.node.th) \in Seq(Octet) /\ Len(Enc!EncodedHeader(g.node.th)) = x
      BY <1>5, <2>1, HeaderPut
    <3>2. PICK y \in Seq(Octet), z \in Seq(Octet) :
             y = Enc!EncodedHeader(g.node.th) /\ z = g.node.content
      BY <1>5, <3>1
    <3>3. Len(y \o z) = Len(y) + Len(z)
      BY JoinFacts
    <3>4. os = y \o z
      BY <1>3, <3>2, Zenon DEF Octets
    <3>5. QED BY <2>1, <3>1, <3>2, <3>3, <3>4, Zenon
  <2>6. Len(n.content) = a + (x + b)
    <3>1. n.content = f.node.content \o os
      BY <1>3, Zenon DEF PushBack
    <3>2. PICK y \in Seq(Octet) : y = f.node.content
      BY <1>5
    <3>3. Len(y \o os) = Len(y) + Len(os)
      BY <1>8, JoinFacts
    <3>4. QED BY <2>1, <2>5, <3>1, <3>2, <3>3
  <2>7. QED BY <2>2, <2>3, <2>4, <2>6, TruncatedSum
<1>13. n.th = HeaderOf(l, n.th.length)
  <2>1. f.node.th = HeaderOf(l, f.node.th.length)
    BY <1>1 DEF IsTag
  <2>2. n.th = [f.node.th EXCEPT !.length = n.th.length]
    BY <1>3, <1>5, Zenon DEF PushBack, Header
  <2>3. QED BY <2>1, <2>2 DEF HeaderOf
<1>14. h.level = f.level /\ h.node = n
  BY <1>3 DEF Frame
<1>15. IsTag(t, h, i, l, ms \o us, c \o os)
  BY <1>1, <1>6, <1>9, <1>10, <1>11, <1>12, <1>13, <1>14, Zenon DEF IsTag
<1>16. QED BY <1>15 DEF Sound

LEMMA InsideLoops ==
  ASSUME NEW t, NEW ps, NEW fs, NEW gs, Inside(t, fs, ps),
         \A i \in 1..Len(gs) : ~Definite(gs[i].node) =>
           \E j \in 1..Len(fs) : ~Definite(fs[j].node) /\ fs[j].level = gs[i].level
  PROVE  Inside(t, gs, ps)
  BY Zenon DEF Inside

LEMMA LaidHolds ==
  ASSUME IInv', \A i \in 1..Len(frames') : Sound(taken', frames'[i]),
         at' = "returned" /\ good' => Sound(taken', got'),
         Written(taken', printed', out', refused'), Inside(taken', frames', printed')
  PROVE  LInv'
  BY Zenon DEF LInv

LEMMA LaidFacts ==
  ASSUME LInv
  PROVE  /\ IInv /\ frames \in Seq(Frame) /\ taken \in Seq(Lines) /\ printed \in Seq(1..Len(taken))
         /\ got \in Frame /\ out \in Seq(Octet) /\ refused \in BOOLEAN
         /\ \A i \in 1..Len(frames) : Sound(taken, frames[i])
         /\ at = "returned" /\ good => Sound(taken, got)
         /\ Written(taken, printed, out, refused) /\ Inside(taken, frames, printed)
  BY Zenon DEF LInv, IInv, Typed

LEMMA LaidInitial ==
  ASSUME Init
  PROVE  LInv
<1>1. IInv
  BY Initial
<1>2. frames = << >> /\ printed = << >> /\ out = << >> /\ ~refused /\ at = "extract"
  BY DEF Init
<1>3. Written(taken, printed, out, refused)
  BY <1>2, LayoutEmpty, Zenon DEF Written
<1>4. 1..Len(<< >>) = {}
  OBVIOUS
<1>5. Inside(taken, frames, printed)
  BY <1>2, <1>4, Zenon DEF Inside
<1>6. QED BY <1>1, <1>2, <1>3, <1>4, <1>5, Zenon DEF LInv

(* A line more leaves what is printed.                                     *)
LEMMA WrittenOfMore ==
  ASSUME LInv, NEW line \in Lines, taken' = Append(taken, line), UNCHANGED sink
  PROVE  /\ \A i \in 1..Len(frames) : Sound(taken', frames[i])
         /\ Written(taken', printed', out', refused') /\ Inside(taken', frames, printed')
<1>1. /\ taken \in Seq(Lines) /\ printed \in Seq(1..Len(taken))
      /\ \A i \in 1..Len(frames) : Sound(taken, frames[i])
      /\ Written(taken, printed, out, refused) /\ Inside(taken, frames, printed)
  BY LaidFacts
<1>2. out' = out /\ printed' = printed /\ refused' = refused
  BY DEF sink
<1>3. \A i \in 1..Len(frames) : Sound(taken', frames[i])
  BY <1>1, SoundOfMore
<1>4. Written(taken', printed, out, refused)
  <2>1. PICK s : Layout(taken, printed, s) /\ IF refused THEN Begun(out, s) ELSE out = s
    BY <1>1 DEF Written
  <2>2. Layout(taken', printed, s)
    BY <1>1, <2>1, LayoutOfMore
  <2>3. QED BY <2>1, <2>2 DEF Written
<1>5. Inside(taken', frames, printed)
  <2>1. PICK v : v = taken'
    OBVIOUS
  <2>2. \A i \in 1..Len(taken) : v[i] = taken[i]
    BY <1>1, <2>1, AppendFacts
  <2>3. SUFFICES ASSUME NEW k \in 1..Len(printed), ~v[printed[k]].star,
                        Ending(v, printed, k, Len(printed) + 1),
                        NEW i \in 1..Len(frames), ~Definite(frames[i].node)
                 PROVE  frames[i].level < v[printed[k]].level
    BY <2>1, Zenon DEF Inside
  <2>4. Ending(taken, printed, k, Len(printed) + 1)
    BY <1>1, <2>2, <2>3, EndingOfMore, Zenon
  <2>5. v[printed[k]] = taken[printed[k]]
    BY <1>1, <2>2, ElementOfSeq, Zenon
  <2>6. QED BY <1>1, <2>3, <2>4, <2>5, Zenon DEF Inside
<1>6. QED BY <1>2, <1>3, <1>4, <1>5

LEMMA LaidExtractionFails ==
  ASSUME LInv, IInv', good' = FALSE, UNCHANGED <<frames, sink>>,
         UNCHANGED taken \/ \E line \in Lines : taken' = Append(taken, line)
  PROVE  LInv'
<1>1. UNCHANGED sink
  OBVIOUS
<1>2. /\ \A i \in 1..Len(frames) : Sound(taken', frames[i])
      /\ Written(taken', printed', out', refused') /\ Inside(taken', frames, printed')
  <2>1. CASE UNCHANGED taken
    BY <2>1, LaidFacts DEF sink
  <2>2. CASE \E line \in Lines : taken' = Append(taken, line)
    BY <1>1, <2>2, WrittenOfMore
  <2>3. QED BY <2>1, <2>2
<1>3. QED BY <1>2, LaidHolds

LEMMA LaidExtraction ==
  ASSUME LInv, IInv', UNCHANGED <<frames, sink>>,
         NEW line \in Lines, taken' = Append(taken, line), LabelRead(line),
         line.star => line.form # "octets",
         Extracted(line.level, NodeOf(line, Shape(line), Own(line)))
  PROVE  LInv'
<1>1. UNCHANGED sink
  OBVIOUS
<1>2. /\ \A i \in 1..Len(frames) : Sound(taken', frames[i])
      /\ Written(taken', printed', out', refused') /\ Inside(taken', frames, printed')
  BY <1>1, WrittenOfMore
<1>3. Sound(taken', got')
  BY LaidFacts, LineSound DEF Extracted
<1>4. QED BY <1>2, <1>3, LaidHolds

LEMMA LaidExtractDefinite ==
  ASSUME LInv, IInv', NEW line \in Lines, ExtractDefinite(line)
  PROVE  LInv'
<1>1. PICK f : f = [level |-> line.level, node |-> NodeOf(line, "constructed_definite", << >>)]
  BY Zenon
<1>2. /\ at' = "extract" /\ taken' = Append(taken, line) /\ LabelRead(line)
      /\ UNCHANGED sink /\ frames' = Append(frames, f) /\ ~line.star /\ line.form # "octets"
  BY <1>1 DEF ExtractDefinite, Takes, HasContent
<1>3. /\ \A i \in 1..Len(frames) : Sound(taken', frames[i])
      /\ Written(taken', printed', out', refused') /\ Inside(taken', frames, printed')
  BY <1>2, WrittenOfMore
<1>4. Shape(line) = "constructed_definite" /\ Own(line) = << >>
  BY <1>2 DEF Shape, Own
<1>5. Sound(taken', f)
  BY <1>1, <1>2, <1>4, LaidFacts, LineSound, Zenon
<1>6. PICK n \in Nat : n = Len(frames) /\ Len(frames') = n + 1 /\ frames'[n + 1] = f
                       /\ \A i \in 1..n : frames'[i] = frames[i]
  <2>1. frames' \in Seq(Frame) /\ Len(frames') = Len(frames) + 1 /\ frames'[Len(frames) + 1] = f
        /\ (\A i \in 1..Len(frames) : frames'[i] = frames[i]) /\ Len(frames) \in Nat
    <3>1. frames \in Seq(Frame) /\ frames' \in Seq(Frame)
      BY LaidFacts DEF IInv, Typed
    <3>2. Len(frames) \in Nat
      BY <3>1, LenProperties
    <3>3. PICK S : S = Frame \cup {f}
      BY Zenon
    <3>4. frames \in Seq(S) /\ f \in S
      <4>1. Frame \subseteq S
        BY <3>3
      <4>2. QED BY <3>1, <3>3, <4>1, SeqMonotonic
    <3>5. QED BY <1>2, <3>1, <3>2, <3>4, AppendFacts
  <2>2. QED BY <2>1
<1>7. Definite(f.node)
  BY <1>1 DEF Definite, NodeOf
<1>8. \A i \in 1..n + 1 : i = n + 1 \/ i \in 1..n
  OBVIOUS
<1>9. \A i \in 1..Len(frames') : Sound(taken', frames'[i])
  BY <1>3, <1>5, <1>6, <1>8
<1>10. Inside(taken', frames', printed')
  <2>1. \A i \in 1..Len(frames') : ~Definite(frames'[i].node) =>
           \E j \in 1..Len(frames) : ~Definite(frames[j].node) /\ frames[j].level = frames'[i].level
    BY <1>6, <1>7, <1>8
  <2>2. QED BY <1>3, <2>1, InsideLoops
<1>11. QED BY <1>2, <1>3, <1>9, <1>10, LaidHolds

LEMMA LaidPush ==
  ASSUME LInv, IInv', Push
  PROVE  LInv'
<1>1. /\ at = "returned" /\ good /\ frames # << >> /\ Definite(Top.node)
      /\ got.level = Top.level + 1 /\ at' = "extract"
      /\ got.node.th.shape # "constructed_indefinite"
      /\ UNCHANGED <<good, stuck, got, sink, taken, invalid>>
      /\ frames' = [frames EXCEPT ![Len(frames)].node = PushBack(@, got.node)]
  BY DEF Push, InDefinite, IsChild
<1>2. /\ frames \in Seq(Frame) /\ taken \in Seq(Lines) /\ got \in Frame
      /\ \A i \in 1..Len(frames) : Sound(taken, frames[i])
      /\ Sound(taken, got)
      /\ Written(taken, printed, out, refused) /\ Inside(taken, frames, printed)
  BY <1>1, LaidFacts
<1>3. PICK n \in Nat \ {0} : n = Len(frames) /\ Top = frames[n] /\ Top \in Frame
  BY <1>1, <1>2, FrontFacts DEF Top
<1>4. PICK h : h = [Top EXCEPT !.node = PushBack(Top.node, got.node)]
  BY Zenon
<1>5. Sound(taken, Top)
  BY <1>2, <1>3
<1>6. Sound(taken, h)
  BY <1>1, <1>2, <1>3, <1>4, <1>5, PushSound
<1>7. frames' = [frames EXCEPT ![n] = h]
  BY <1>1, <1>2, <1>3, <1>4
<1>8. h.node = PushBack(Top.node, got.node)
  BY <1>3, <1>4 DEF Frame
<1>9. Definite(h.node)
  <2>1. Top.node \in Node /\ got.node \in Node
    BY <1>2, <1>3 DEF Frame
  <2>2. h.node.th.shape = Top.node.th.shape
    <3>1. PushBack(Top.node, got.node).th.shape = Top.node.th.shape
      BY <2>1, PushBackTyped, Zenon
    <3>2. QED BY <1>8, <3>1, Zenon
  <2>3. QED BY <1>1, <2>2 DEF Definite
<1>10. /\ Len(frames') = n /\ n \in 1..n /\ frames'[n] = h
       /\ \A i \in 1..n : i # n => frames'[i] = frames[i]
  BY <1>2, <1>3, <1>7
<1>11. \A i \in 1..Len(frames') : Sound(taken, frames'[i])
  BY <1>2, <1>3, <1>6, <1>10
<1>12. Inside(taken, frames', printed)
  <2>1. \A i \in 1..Len(frames') : ~Definite(frames'[i].node) =>
           \E j \in 1..Len(frames) : ~Definite(frames[j].node) /\ frames[j].level = frames'[i].level
    <3>1. TAKE i \in 1..Len(frames')
    <3>2. HAVE ~Definite(frames'[i].node)
    <3>3. i \in 1..n /\ i # n
      BY <1>9, <1>10, <3>2
    <3>4. QED BY <1>3, <1>10, <3>2, <3>3
  <2>2. QED BY <1>2, <2>1, InsideLoops
<1>13. QED BY <1>1, <1>2, <1>11, <1>12, LaidHolds, Zenon DEF sink

\* Loops that end leave the rest as it was.
LEMMA LoopsLeft ==
  ASSUME NEW fs \in Seq(Frame), fs # << >>, NEW t, NEW ps,
         \A i \in 1..Len(fs) : Sound(t, fs[i]), Inside(t, fs, ps)
  PROVE  /\ \A i \in 1..Len(Front(fs)) : Sound(t, Front(fs)[i])
         /\ Inside(t, Front(fs), ps) /\ Sound(t, Last(fs))
<1>0. PICK gs : gs = Front(fs)
  OBVIOUS
<1>1. PICK n \in Nat \ {0} : n = Len(fs) /\ Len(gs) = n - 1 /\ Last(fs) = fs[n]
                             /\ \A i \in 1..n - 1 : gs[i] = fs[i]
  <2>1. PICK n \in Nat \ {0} : n = Len(fs)
    BY FrontFacts
  <2>2. Len(gs) = n - 1 /\ Last(fs) = fs[n] /\ \A i \in 1..n - 1 : gs[i] = fs[i]
    BY <1>0, <2>1, FrontFacts
  <2>3. QED BY <2>1, <2>2
<1>2. n \in 1..n /\ \A i \in 1..n - 1 : i \in 1..n
  OBVIOUS
<1>3. \A i \in 1..Len(gs) : Sound(t, gs[i])
  BY <1>1, <1>2
<1>4. \A i \in 1..Len(gs) : ~Definite(gs[i].node) =>
         \E j \in 1..Len(fs) : ~Definite(fs[j].node) /\ fs[j].level = gs[i].level
  BY <1>1, <1>2, Zenon
<1>5. Inside(t, gs, ps)
  BY <1>4, InsideLoops
<1>6. QED BY <1>0, <1>1, <1>2, <1>3, <1>5

LEMMA LaidReturn ==
  ASSUME LInv, IInv', InDefinite, NEW isGood \in BOOLEAN, ReturnsNode(isGood)
  PROVE  LInv'
<1>1. /\ frames # << >> /\ frames' = Front(frames)
      /\ got' = [level |-> Last(frames).level, node |-> Last(frames).node]
      /\ UNCHANGED <<sink, taken>>
  BY DEF InDefinite, ReturnsNode, Extracted, Top
<1>2. /\ frames \in Seq(Frame) /\ Written(taken, printed, out, refused)
      /\ \A i \in 1..Len(frames) : Sound(taken, frames[i])
      /\ Inside(taken, frames, printed)
  BY LaidFacts
<1>3. /\ \A i \in 1..Len(frames') : Sound(taken, frames'[i])
      /\ Inside(taken, frames', printed) /\ Sound(taken, Last(frames))
  BY <1>1, <1>2, LoopsLeft
<1>4. got' = Last(frames)
  <2>1. Last(frames) \in Frame
    BY <1>1, <1>2, FrontFacts
  <2>2. QED BY <1>1, <2>1 DEF Frame
<1>5. QED BY <1>1, <1>2, <1>3, <1>4, LaidHolds DEF sink

LEMMA LaidStop ==
  ASSUME LInv, IInv', UNCHANGED <<frames, good, stuck, got, sink, taken, invalid>>,
         at' \in {"done", "terminated"} \/ UNCHANGED at
  PROVE  LInv'
  BY LaidFacts, LaidHolds DEF sink

LEMMA LaidEnds ==
  ASSUME IInv', frames \in Seq(Frame), frames # << >>, Ends(frames),
         \A i \in 1..Len(frames) : Sound(taken, frames[i]),
         UNCHANGED <<good, stuck, got, taken, invalid>>,
         Written(taken, printed', out', refused'), Inside(taken, frames, printed')
  PROVE  LInv'
<1>1. frames' = Front(frames) /\ at' # "returned"
  BY DEF Ends
<1>2. /\ \A i \in 1..Len(frames') : Sound(taken, frames'[i])
      /\ Inside(taken, frames', printed')
  BY <1>1, LoopsLeft
<1>3. QED BY <1>1, <1>2, LaidHolds

-----------------------------------------------------------------------------
LEMMA BegunJoin ==
  ASSUME NEW o \in Seq(Octet), NEW s \in Seq(Octet), NEW u \in Seq(Octet)
  PROVE  /\ Begun(o, s) => Begun(o, s \o u)
         /\ \A k \in 0..Len(u) - 1 : Begun(s \o SubSeq(u, 1, k), s \o u)
<1>1. ASSUME Begun(o, s) PROVE Begun(o, s \o u)
  <2>1. PICK r \in Seq(Octet) : r # << >> /\ s = o \o r
    BY <1>1, Zenon DEF Begun
  <2>2. r \o u \in Seq(Octet) /\ r \o u # << >>
    <3>1. r \o u \in Seq(Octet) /\ Len(r \o u) = Len(r) + Len(u) /\ Len(u) \in Nat
      BY JoinFacts
    <3>2. Len(r) \in Nat \ {0}
      BY <2>1, EmptySeq
    <3>3. Len(r \o u) # 0
      BY <3>1, <3>2
    <3>4. QED BY <3>1, <3>3
  <2>3. s \o u = o \o (r \o u)
    BY <2>1, ConcatAssociative
  <2>4. QED BY <2>2, <2>3, Zenon DEF Begun
<1>2. ASSUME NEW k \in 0..Len(u) - 1 PROVE Begun(s \o SubSeq(u, 1, k), s \o u)
  <2>1. PICK n \in Nat \ {0} : n = Len(u) /\ k \in Nat /\ k < n
    BY LenProperties
  <2>2. k \in 0..Len(u) /\ 1 \in 1..k + 1 /\ Len(u) \in 0..Len(u) /\ k + 1 \in 1..Len(u) + 1
    BY <2>1
  <2>3. PICK v \in Seq(Octet), r \in Seq(Octet) :
           v = SubSeq(u, 1, k) /\ r = SubSeq(u, k + 1, Len(u)) /\ Len(r) = n + 1 - (k + 1)
    <3>1. SubSeq(u, 1, k) \in Seq(Octet)
      BY <2>2, SubSeqFacts
    <3>2. SubSeq(u, k + 1, n) \in Seq(Octet) /\ Len(SubSeq(u, k + 1, n)) = n + 1 - (k + 1)
      BY <2>1, <2>2, SubSeqFacts
    <3>3. QED BY <2>1, <3>1, <3>2, Zenon
  <2>4. r # << >>
    <3>1. Len(r) = n - k
      BY <2>1, <2>3
    <3>2. Len(r) # 0
      BY <2>1, <3>1
    <3>3. QED BY <3>2
  <2>5. v \o r = u
    <3>1. 1 \in 1..Len(u) + 1 /\ k \in 1 - 1..Len(u) /\ Len(u) \in k..Len(u)
      BY <2>1
    <3>2. SubSeq(u, 1, k) \o SubSeq(u, k + 1, Len(u)) = SubSeq(u, 1, Len(u))
      BY <3>1, ConcatAdjacentSubSeq, Zenon
    <3>3. SubSeq(u, 1, Len(u)) = u
      BY SubSeqFull
    <3>4. QED BY <2>3, <3>2, <3>3, Zenon
  <2>6. s \o u = (s \o v) \o r
    <3>1. (s \o v) \o r = s \o (v \o r)
      BY ConcatAssociative
    <3>2. QED BY <2>5, <3>1
  <2>7. QED BY <2>3, <2>4, <2>6, Zenon DEF Begun
<1>3. QED BY <1>1, <1>2

(* What is put for a node follows what was put before.                     *)
LEMMA PutWritten ==
  ASSUME NEW n, Put(n), NEW t, Written(t, printed, out, refused), refused \in BOOLEAN,
         out \in Seq(Octet), Layout(t, n.lines, Octets(n)), n.lines # << >>,
         \A k \in 1..Len(printed) :
           ~t[printed[k]].star /\ Ending(t, printed, k, Len(printed) + 1) =>
             t[n.lines[1]].level <= t[printed[k]].level
  PROVE  Written(t, printed', out', refused')
<1>1. PICK s : Layout(t, printed, s) /\ IF refused THEN Begun(out, s) ELSE out = s
  BY DEF Written
<1>2. PICK u, ms : u = Octets(n) /\ ms = n.lines
  OBVIOUS
<1>3. Layout(t, printed \o ms, s \o u)
  BY <1>1, <1>2, LayoutJoin
<1>4. s \in Seq(Octet) /\ u \in Seq(Octet)
  BY <1>1, <1>2 DEF Layout, Placed
<1>5. printed' = printed \o ms
  BY <1>2 DEF Put
<1>6. CASE refused
  <2>1. out' = out /\ refused'
    BY <1>6 DEF Put
  <2>2. Begun(out, s \o u)
    BY <1>1, <1>4, <1>6, BegunJoin
  <2>3. QED BY <1>3, <1>5, <2>1, <2>2 DEF Written
<1>7. CASE ~refused /\ out' = out \o u /\ UNCHANGED refused
  BY <1>1, <1>3, <1>5, <1>7, Zenon DEF Written
<1>8. CASE ~refused /\ \E k \in 0..Len(u) - 1 : out' = out \o SubSeq(u, 1, k) /\ refused' = TRUE
  <2>1. PICK k \in 0..Len(u) - 1 : out' = out \o SubSeq(u, 1, k) /\ refused' = TRUE
    BY <1>8, Zenon
  <2>2. Begun(out', s \o u)
    BY <1>1, <1>4, <1>8, <2>1, BegunJoin
  <2>3. QED BY <1>3, <1>5, <2>1, <2>2 DEF Written
<1>9. QED BY <1>2, <1>6, <1>7, <1>8, Zenon DEF Put

(* The tags that are open behind lines ms, which end all those before them *)
(* that are not indefinite, are among ms.                                  *)
LEMMA OpenBehind ==
  ASSUME NEW t \in Seq(Lines), NEW ps \in Seq(1..Len(t)), NEW ms \in Seq(1..Len(t)), ms # << >>,
         \A k \in 1..Len(ps) :
           ~t[ps[k]].star /\ Ending(t, ps, k, Len(ps) + 1) => t[ms[1]].level <= t[ps[k]].level,
         NEW k \in 1..Len(ps \o ms), ~t[(ps \o ms)[k]].star,
         Ending(t, ps \o ms, k, Len(ps \o ms) + 1)
  PROVE  \E i \in 1..Len(ms) : (ps \o ms)[k] = ms[i]
<1>1. PICK js, S : js = ps \o ms /\ S = 1..Len(t)
  BY Zenon
<1>2. PICK m \in Nat, n \in Nat \ {0} : m = Len(ps) /\ n = Len(ms)
  BY LenProperties, EmptySeq
<1>3. /\ Len(js) = m + n
      /\ \A i \in 1..m : js[i] = ps[i]
      /\ \A i \in 1..n : js[m + i] = ms[i]
  <2>1. ps \in Seq(S) /\ ms \in Seq(S)
    BY <1>1
  <2>2. /\ Len(ps \o ms) = Len(ps) + Len(ms)
        /\ \A i \in 1..Len(ps) : (ps \o ms)[i] = ps[i]
        /\ \A i \in 1..Len(ms) : (ps \o ms)[Len(ps) + i] = ms[i]
    BY <2>1, JoinFacts
  <2>3. QED BY <1>1, <1>2, <2>2
<1>4. k \in 1..m + n /\ ~t[js[k]].star /\ Ending(t, js, k, m + n + 1)
  BY <1>1, <1>3, Zenon
<1>5. CASE k > m
  <2>1. k - m \in 1..n /\ k = m + (k - m)
    BY <1>4, <1>5
  <2>2. js[m + (k - m)] = ms[k - m]
    BY <1>3, <2>1
  <2>3. QED BY <1>1, <1>2, <2>1, <2>2, Zenon
<1>6. CASE ~(k > m)
  <2>1. k \in 1..m /\ m + 1 \in k + 1..(m + n + 1) - 1 /\ 1 \in 1..n /\ m + 1 \in k + 1..m + 1
    BY <1>4, <1>6
  <2>2. js[m + 1] = ms[1] /\ js[k] = ps[k]
    BY <1>3, <2>1
  <2>3. t[ms[1]].level > t[ps[k]].level
    BY <1>4, <2>1, <2>2, Zenon DEF Ending
  <2>4. Ending(t, ps, k, m + 1)
    <3>1. \A j \in k + 1..m : t[ps[j]].level > t[ps[k]].level
      <4>1. TAKE j \in k + 1..m
      <4>2. j \in 1..m /\ j \in k + 1..(m + n + 1) - 1
        BY <2>1
      <4>3. QED BY <1>3, <1>4, <2>2, <4>2, Zenon DEF Ending
    <3>2. (m + 1) - 1 = m /\ ~(m + 1 <= m)
      OBVIOUS
    <3>3. QED BY <1>2, <2>1, <3>1, <3>2 DEF Ending
  <2>5. t[ms[1]].level <= t[ps[k]].level
    BY <1>2, <1>4, <2>1, <2>2, <2>4, Zenon
  <2>6. PICK a \in Nat, b \in Nat : a = t[ms[1]].level /\ b = t[ps[k]].level
    <3>1. ms[1] \in 1..Len(t) /\ ps[k] \in 1..Len(t)
      BY <1>2, <2>1, ElementOfSeq, Zenon
    <3>2. QED BY <3>1, Levels, Zenon
  <2>7. a > b /\ a <= b
    BY <2>3, <2>5, <2>6, Zenon
  <2>8. QED BY <2>7
<1>7. QED BY <1>5, <1>6

(* Printing.                                                               *)
LEMMA LaidPrint ==
  ASSUME LInv, IInv', PrintNode
  PROVE  LInv'
<1>1. /\ at = "returned" /\ good /\ UNCHANGED <<good, stuck, got, taken, invalid>>
      /\ frames # << >> => ~Definite(Last(frames).node) /\ got.level = Last(frames).level + 1
      /\ Put(got.node) /\ at' # "returned"
  BY DEF PrintNode, AtRoot, InIndefinite, IsChild, Top, Ends
<1>2. /\ frames \in Seq(Frame) /\ taken \in Seq(Lines) /\ printed \in Seq(1..Len(taken))
      /\ got \in Frame /\ out \in Seq(Octet) /\ refused \in BOOLEAN
      /\ \A i \in 1..Len(frames) : Sound(taken, frames[i])
      /\ Sound(taken, got)
      /\ Written(taken, printed, out, refused) /\ Inside(taken, frames, printed)
      /\ Loops(frames, taken, printed) /\ Prints(at, frames, taken, printed)
      /\ Follows(got, frames, taken, printed)
  BY <1>1, LaidFacts, Invariant
<1>3. PICK ms, qs : ms = got.node.lines /\ qs = printed \o ms
  BY Zenon
<1>4. /\ Layout(taken, ms, Octets(got.node)) /\ ms # << >> /\ taken[ms[1]].level = got.level
      /\ ms \in Seq(1..Len(taken)) /\ printed' = qs
  <2>1. Layout(taken, ms, Octets(got.node)) /\ ms # << >> /\ taken[ms[1]].level = got.level
    BY <1>2, <1>3, NodeLaid
  <2>2. ms \in Seq(1..Len(taken))
    BY <2>1 DEF Layout, Placed
  <2>3. QED BY <1>1, <1>3, <2>1, <2>2 DEF Put
<1>5. ASSUME NEW k \in 1..Len(printed), ~taken[printed[k]].star,
             Ending(taken, printed, k, Len(printed) + 1)
      PROVE  got.level <= taken[printed[k]].level
  <2>1. printed # << >>
    BY <1>2
  <2>2. frames # << >>
    BY <1>1, <1>2, <2>1 DEF Prints
  <2>3. PICK n \in Nat \ {0} : n = Len(frames) /\ Last(frames) = frames[n] /\ frames[n] \in Frame
    BY <1>2, <2>2, FrontFacts, ZenonT(40)
  <2>4. n \in 1..n
    OBVIOUS
  <2>5. frames[n].level < taken[printed[k]].level
    BY <1>1, <1>2, <1>5, <2>2, <2>3, <2>4, Zenon DEF Inside
  <2>6. PICK a \in Nat, b \in Nat : a = frames[n].level /\ b = taken[printed[k]].level
    <3>1. printed[k] \in 1..Len(taken)
      BY <1>2, ElementOfSeq
    <3>2. taken[printed[k]].level \in Nat
      BY <1>2, <3>1, Levels
    <3>3. QED BY <2>3, <3>2 DEF Frame
  <2>7. got.level = a + 1 /\ a < b
    BY <1>1, <2>2, <2>3, <2>5, <2>6
  <2>8. QED BY <2>6, <2>7
<1>6. Written(taken, printed', out', refused')
  BY <1>1, <1>2, <1>3, <1>4, <1>5, PutWritten, Zenon
<1>7. ASSUME NEW k \in 1..Len(qs), ~taken[qs[k]].star, Ending(taken, qs, k, Len(qs) + 1)
      PROVE  \E i \in 1..Len(ms) : qs[k] = ms[i]
  BY <1>2, <1>3, <1>4, <1>5, <1>7, OpenBehind, Zenon
<1>8. \A i \in 1..Len(frames) : ~Definite(frames[i].node)
  BY <1>1, <1>2, AllIndefinite
<1>9. \A i \in 1..Len(frames) : frames[i].level < got.level
  <2>1. /\ printed # << >> => Nest(taken, printed, taken[printed[1]].level)
        /\ frames = << >> => printed = << >>
    BY <1>1, <1>2 DEF Prints
  <2>2. QED BY <1>1, <1>2, <1>8, <2>1, LoopsPrint, Zenon
<1>10. Inside(taken, frames, qs)
  <2>1. SUFFICES ASSUME NEW k \in 1..Len(qs), ~taken[qs[k]].star, Ending(taken, qs, k, Len(qs) + 1),
                        NEW i \in 1..Len(frames)
                 PROVE  frames[i].level < taken[qs[k]].level
    BY DEF Inside
  <2>2. PICK j \in 1..Len(ms) : qs[k] = ms[j]
    BY <1>7, <2>1
  <2>3. Nest(taken, ms, got.level)
    BY <1>2, <1>3 DEF Follows
  <2>4. got.level \in Nat /\ taken[ms[j]].level \in Nat /\ got.level <= taken[ms[j]].level
    BY <1>2, <2>3, NestFacts, Zenon
  <2>5. frames[i].level \in Nat /\ frames[i].level < got.level
    <3>1. frames[i] \in Frame
      BY <1>2, ElementOfSeq
    <3>2. QED BY <1>9, <3>1 DEF Frame
  <2>6. QED BY <2>2, <2>4, <2>5
<1>11. CASE got.node.th.shape = "constructed_indefinite"
  <2>1. frames' = Append(frames, got)
    BY <1>11 DEF PrintNode
  <2>2. PICK i, l, us, c : IsTag(taken, got, i, l, us, c)
    BY <1>2 DEF Sound
  <2>3. l.star
    <3>1. Shape(l) = "constructed_indefinite"
      BY <1>11, <2>2 DEF IsTag, HeaderOf
    <3>2. QED BY <3>1 DEF Shape
  <2>4. ms = <<i>> /\ taken[i].star
    <3>1. us = << >> /\ ms = <<i>> \o us /\ l = taken[i] /\ i \in 1..Len(taken)
      BY <1>3, <2>2, <2>3 DEF IsTag
    <3>2. <<i>> \in Seq(1..Len(taken))
      BY <3>1
    <3>3. <<i>> \o << >> = <<i>>
      BY <3>2, ConcatEmptySeq
    <3>4. QED BY <2>3, <3>1, <3>3
  <2>5. Inside(taken, frames', qs)
    <3>1. SUFFICES ASSUME NEW k \in 1..Len(qs), ~taken[qs[k]].star,
                          Ending(taken, qs, k, Len(qs) + 1)
                   PROVE  FALSE
      BY DEF Inside
    <3>2. PICK j \in 1..Len(ms) : qs[k] = ms[j]
      BY <1>7, <3>1
    <3>3. j = 1 /\ ms[1] = i
      BY <2>4, <3>2
    <3>4. QED BY <2>4, <3>1, <3>2, <3>3
  <2>6. \A j \in 1..Len(frames') : Sound(taken, frames'[j])
    <3>1. PICK n \in Nat : n = Len(frames) /\ Len(frames') = n + 1 /\ frames'[n + 1] = got
                           /\ \A j \in 1..n : frames'[j] = frames[j]
      <4>1. Len(frames) \in Nat
        BY <1>2, LenProperties
      <4>2. QED BY <1>2, <2>1, <4>1, AppendFacts
    <3>2. \A j \in 1..n + 1 : j = n + 1 \/ j \in 1..n
      OBVIOUS
    <3>3. QED BY <1>2, <3>1, <3>2
  <2>7. QED BY <1>1, <1>4, <1>6, <2>5, <2>6, LaidHolds
<1>12. CASE got.node.th.shape # "constructed_indefinite" /\ UNCHANGED frames
  BY <1>1, <1>2, <1>4, <1>6, <1>10, <1>12, LaidHolds
<1>13. CASE got.node.th.shape # "constructed_indefinite" /\ frames # << >> /\ Ends(frames)
  <2>1. UNCHANGED <<good, stuck, got, taken, invalid>>
    BY <1>1
  <2>2. QED BY <1>2, <1>4, <1>6, <1>10, <1>13, <2>1, LaidEnds
<1>14. \/ got.node.th.shape = "constructed_indefinite" \/ UNCHANGED frames
       \/ frames # << >> /\ Ends(frames)
  <2>1. AtRoot \/ frames # << >>
    BY DEF PrintNode, InIndefinite
  <2>2. QED BY <2>1, Zenon DEF PrintNode
<1>15. QED BY <1>11, <1>12, <1>13, <1>14

LEMMA LaidInductive ==
  ASSUME LInv, [Next]_vars
  PROVE  LInv'
<1>1. IInv'
  <2>1. IInv
    BY LaidFacts
  <2>2. QED BY <2>1, Inductive
<1>2. ASSUME ExtractFails PROVE LInv'
  BY <1>1, <1>2, LaidExtractionFails, Zenon DEF ExtractFails
<1>3. ASSUME NEW line \in Lines, ExtractBadLabel(line) PROVE LInv'
  BY <1>1, <1>3, LaidExtractionFails, Zenon DEF ExtractBadLabel, Takes
<1>4. ASSUME NEW line \in Lines, ExtractBadContent(line) PROVE LInv'
  BY <1>1, <1>4, LaidExtractionFails, Zenon DEF ExtractBadContent, Takes
<1>5. ASSUME NEW line \in Lines, ExtractPrimitive(line) PROVE LInv'
  <2>1. Shape(line) = "primitive" /\ Own(line) = Content(line)
    BY <1>5 DEF ExtractPrimitive, Shape, Own
  <2>2. QED BY <1>1, <1>5, <2>1, LaidExtraction DEF ExtractPrimitive, Takes
<1>6. ASSUME NEW line \in Lines, ExtractDefinite(line) PROVE LInv'
  BY <1>1, <1>6, LaidExtractDefinite
<1>7. ASSUME NEW line \in Lines, ExtractIndefinite(line) PROVE LInv'
  <2>1. Shape(line) = "constructed_indefinite" /\ Own(line) = << >> /\ line.form # "octets"
    BY <1>7 DEF ExtractIndefinite, HasContent, Shape, Own
  <2>2. QED BY <1>1, <1>7, <2>1, LaidExtraction DEF ExtractIndefinite, Takes
<1>8. ASSUME Push PROVE LInv'
  BY <1>1, <1>8, LaidPush
<1>9. ASSUME PushThrows PROVE LInv'
  BY <1>1, <1>9, LaidStop DEF PushThrows
<1>10. ASSUME SiblingEnds \/ Invalid \/ FailureEnds PROVE LInv'
  <2>1. InDefinite /\ \E isGood \in BOOLEAN : ReturnsNode(isGood)
    BY <1>10, Zenon DEF SiblingEnds, Invalid, FailureEnds
  <2>2. QED BY <1>1, <2>1, LaidReturn
<1>11. ASSUME PrintNode PROVE LInv'
  BY <1>1, <1>11, LaidPrint
<1>12. ASSUME PrintBreaks PROVE LInv'
  <2>1. InIndefinite /\ Ends(frames) /\ UNCHANGED <<good, stuck, got, sink, taken, invalid>>
    BY <1>12 DEF PrintBreaks
  <2>2. frames # << >>
    BY <2>1 DEF InIndefinite
  <2>3. Written(taken, printed', out', refused') /\ Inside(taken, frames, printed')
    BY <2>1, LaidFacts DEF sink
  <2>4. QED BY <1>1, <2>1, <2>2, <2>3, LaidFacts, LaidEnds
<1>13. ASSUME NothingToPrint PROVE LInv'
  BY <1>1, <1>13, LaidStop DEF NothingToPrint
<1>14. ASSUME UNCHANGED vars PROVE LInv'
  BY <1>1, <1>14, LaidStop DEF vars
<1>15. QED
  BY <1>2, <1>3, <1>4, <1>5, <1>6, <1>7, <1>8, <1>9, <1>10, <1>11, <1>12, <1>13, <1>14, Zenon
     DEF Next

(* The octets of the nodes of the loops and those put are always laid out  *)
(* as the tags of their lines, the length of each that of what is in it.   *)
THEOREM AlwaysLaid == Spec => []LInv
<1>1. Init => LInv
  BY LaidInitial
<1>2. LInv /\ [Next]_vars => LInv'
  BY LaidInductive
<1>3. QED BY <1>1, <1>2, PTL DEF Spec

-----------------------------------------------------------------------------
(* What is laid out is what EncodingOf computes.                           *)

\* What EncodingOf has for the lines from the kth on, out of what it has for later ones.
Body(ls, g, k) ==
  IF k = Len(ls) + 1 THEN << >>
  ELSE LET l == taken[ls[k]]
           length == Len(Own(l)) + (Len(g[k + 1]) - Len(g[After(ls, k)]))
           header == HeaderOf(l, Truncated(SizeMax, length))
       IN  Enc!EncodedHeader(header) \o Own(l) \o g[k + 1]

\* A tag ends where the first one behind it is that is not deeper.
LEMMA AfterEnding ==
  ASSUME taken \in Seq(Lines), NEW ls \in Seq(1..Len(taken)), NEW k \in 1..Len(ls),
         NEW e, Ending(taken, ls, k, e)
  PROVE  After(ls, k) = e
<1> DEFINE T == {j \in k + 1..Len(ls) + 1 :
                   j \in DOMAIN ls => taken[ls[j]].level <= taken[ls[k]].level}
<1>1. PICK n \in Nat : n = Len(ls) /\ DOMAIN ls = 1..n
  BY LenProperties
<1>2. e \in k + 1..n + 1 /\ e \in T
  BY <1>1 DEF Ending
<1>3. ASSUME NEW j \in T PROVE e <= j
  <2>1. SUFFICES ASSUME ~(e <= j) PROVE FALSE
    OBVIOUS
  <2>2. j \in k + 1..e - 1 /\ j \in 1..n /\ k \in 1..n
    BY <1>1, <1>2, <2>1
  <2>3. taken[ls[j]].level > taken[ls[k]].level
    BY <2>2 DEF Ending
  <2>4. taken[ls[j]].level <= taken[ls[k]].level
    BY <1>1, <2>2
  <2>5. PICK a \in Nat, b \in Nat : a = taken[ls[j]].level /\ b = taken[ls[k]].level
    <3>1. ls[j] \in 1..Len(taken) /\ ls[k] \in 1..Len(taken)
      BY <1>1, <2>2, ElementOfSeq
    <3>2. QED BY <3>1, Levels, Zenon
  <2>6. a > b /\ a <= b
    BY <2>3, <2>4, <2>5, Zenon
  <2>7. QED BY <2>6
<1>4. \A x \in T : (\A y \in T : x <= y) => x = e
  <2>1. T \subseteq Nat
    BY <1>1
  <2>2. QED BY <1>2, <1>3, <2>1
<1> HIDE DEF T
<1>5. Min(T) = e
  BY <1>2, <1>3, <1>4, Zenon DEF Min
<1>6. QED BY <1>5 DEF After, T

\* The header of an indefinite tag has no length.
LEMMA IndefiniteHeader ==
  ASSUME NEW l, l.star, NEW a, NEW b
  PROVE  Enc!EncodedHeader(HeaderOf(l, a)) = Enc!EncodedHeader(HeaderOf(l, b))
<1>1. Shape(l) = "constructed_indefinite"
  BY DEF Shape
<1>2. \A x : Enc!EncodedLength(HeaderOf(l, x)) = <<Enc!Indefinite>>
  BY <1>1 DEF HeaderOf, Enc!EncodedLength
<1>3. Enc!EncodedIdentifier(HeaderOf(l, a)) = Enc!EncodedIdentifier(HeaderOf(l, b))
  BY DEF HeaderOf, Enc!EncodedIdentifier
<1>4. QED BY <1>2, <1>3 DEF Enc!EncodedHeader

\* What stands in s is a part of it.
LEMMA StandsPart ==
  ASSUME NEW bs, NEW s \in Seq(Octet), NEW k, NEW g, Stands(bs, s, k, g),
         bs[k] \in Nat, bs[k + 1] <= Len(s)
  PROVE  g = SubSeq(s, bs[k] + 1, bs[k + 1])
<1>1. PICK a \in Nat, b \in Nat, n \in Nat : a = bs[k] /\ b = bs[k + 1] /\ n = Len(g) /\ b = a + n
  BY LenProperties DEF Stands
<1>2. b \in 0..Len(s) /\ a + 1 \in 1..b + 1 /\ b + 1 - (a + 1) = n
  BY <1>1, LenProperties
<1>3. PICK v : v = SubSeq(s, a + 1, b)
  BY Zenon
<1>4. v \in Seq(Octet) /\ Len(v) = n /\ \A i \in 1..n : v[i] = s[a + 1 + i - 1]
  BY <1>2, <1>3, SubSeqFacts
<1>5. \A i \in 1..n : g[i] = v[i]
  <2>1. TAKE i \in 1..n
  <2>2. a + 1 + i - 1 = a + i
    OBVIOUS
  <2>3. QED BY <1>1, <1>4, <2>2, Zenon DEF Stands
<1>6. g \in Seq(Octet)
  BY DEF Stands
<1>7. QED BY <1>1, <1>3, <1>4, <1>5, <1>6, SeqEqual, Zenon

\* What is laid out from the kth tag on satisfies the definition of EncodingOf.
LEMMA RestLaid ==
  ASSUME taken \in Seq(Lines), NEW ls, NEW bs, NEW ns, NEW s, Placed(taken, ls, bs, ns, s),
         Measured(taken, ls, bs, ns), NEW k \in 1..Len(ls),
         NEW g, \A j \in k + 1..Len(ls) + 1 : g[j] = SubSeq(s, bs[j] + 1, Len(s))
  PROVE  Body(ls, g, k) = SubSeq(s, bs[k] + 1, Len(s))
<1>1. PICK n \in Nat, q \in Nat : n = Len(ls) /\ q = Len(s)
  BY Rising
<1>2. ls \in Seq(1..Len(taken)) /\ s \in Seq(Octet)
  BY DEF Placed
<1>3. \A j \in k..n + 1 : bs[j] \in 0..q
  <2>1. \A j \in k..n + 1 : j \in 1..n + 1
    BY <1>1
  <2>2. QED BY <1>1, <2>1, Rising
<1>4. \A j \in k + 1..n + 1 : Len(g[j]) = q - bs[j]
  <2>1. TAKE j \in k + 1..n + 1
  <2>2. j \in k..n + 1
    OBVIOUS
  <2>3. PICK b \in 0..q : b = bs[j]
    BY <1>3, <2>2
  <2>4. q \in 0..Len(s) /\ b + 1 \in 1..q + 1 /\ q + 1 - (b + 1) = q - b
    BY <1>1
  <2>5. Len(SubSeq(s, b + 1, q)) = q - b
    BY <1>2, <2>4, SubSeqFacts
  <2>6. QED BY <1>1, <2>3, <2>5, Zenon
<1>5. PICK l, own, z : l = taken[ls[k]] /\ own = Own(l) /\ z = ns[k]
  OBVIOUS
<1>6. l \in Lines /\ Len(own) \in Nat
  <2>1. ls[k] \in 1..Len(taken)
    BY <1>2, ElementOfSeq
  <2>2. l \in Lines
    BY <1>5, <2>1, ElementOfSeq
  <2>3. QED BY <1>5, <2>2, OwnTyped
<1>7. PICK y : y = Len(own) + (Len(g[k + 1]) - Len(g[After(ls, k)]))
  BY Zenon
<1>8. Enc!EncodedHeader(HeaderOf(l, Truncated(SizeMax, y))) = Enc!EncodedHeader(HeaderOf(l, z))
  <2>1. CASE l.star
    BY <2>1, IndefiniteHeader
  <2>2. CASE ~l.star
    <3>1. PICK e \in k + 1..n + 1 : /\ Ending(taken, ls, k, e)
                                    /\ z = Truncated(SizeMax, Len(own) + (bs[e] - bs[k + 1]))
      BY <1>1, <1>5, <2>2 DEF Measured, MeasuredAt
    <3>2. After(ls, k) = e
      BY <1>2, <3>1, AfterEnding
    <3>3. k + 1 \in k + 1..n + 1 /\ k + 1 \in k..n + 1 /\ e \in k..n + 1
      BY <1>1
    <3>4. PICK a \in 0..q, b \in 0..q : a = bs[k + 1] /\ b = bs[e]
      BY <1>3, <3>3, Zenon
    <3>5. y = Len(own) + ((q - a) - (q - b))
      BY <1>4, <1>7, <3>2, <3>3, <3>4, Zenon
    <3>6. y = Len(own) + (b - a)
      BY <1>6, <3>5
    <3>7. QED BY <3>1, <3>4, <3>6
  <2>3. QED BY <2>1, <2>2
<1>9. PICK a \in 0..q, b \in 0..q : a = bs[k] /\ b = bs[k + 1]
  <2>1. k \in k..n + 1 /\ k + 1 \in k..n + 1
    BY <1>1
  <2>2. QED BY <1>3, <2>1, Zenon
<1>10. Stands(bs, s, k, TagOf(l, z)) /\ a <= b
  <2>1. Stands(bs, s, k, TagOf(l, z))
    BY <1>1, <1>5 DEF Placed
  <2>2. Len(TagOf(l, z)) \in Nat
    BY <2>1, LenProperties DEF Stands
  <2>3. QED BY <1>9, <2>1, <2>2 DEF Stands
<1>11. TagOf(l, z) = SubSeq(s, a + 1, b)
  <2>1. PICK u : u = TagOf(l, z)
    OBVIOUS
  <2>2. Stands(bs, s, k, u) /\ bs[k] \in Nat /\ bs[k + 1] <= Len(s)
    BY <1>1, <1>9, <1>10, <2>1
  <2>3. u = SubSeq(s, bs[k] + 1, bs[k + 1])
    BY <1>2, <2>2, StandsPart, Zenon
  <2>4. QED BY <1>9, <2>1, <2>3
<1>12. g[k + 1] = SubSeq(s, b + 1, q)
  <2>1. k + 1 \in k + 1..n + 1
    BY <1>1
  <2>2. QED BY <1>1, <1>9, <2>1, Zenon
<1>13. SubSeq(s, a + 1, b) \o SubSeq(s, b + 1, q) = SubSeq(s, a + 1, q)
  <2>1. a + 1 \in 1..Len(s) + 1 /\ b \in (a + 1) - 1..Len(s) /\ q \in b..Len(s)
    BY <1>1, <1>10
  <2>2. QED BY <1>2, <2>1, ConcatAdjacentSubSeq, Zenon
<1>14. k # Len(ls) + 1
  BY <1>1
<1>15. Body(ls, g, k) = TagOf(l, z) \o g[k + 1]
  BY <1>5, <1>7, <1>8, <1>14, Zenon DEF Body, TagOf
<1>16. QED BY <1>1, <1>9, <1>11, <1>12, <1>13, <1>15, Zenon

LEMMA EncodingLaid ==
  ASSUME taken \in Seq(Lines), NEW ls, NEW s, Layout(taken, ls, s)
  PROVE  EncodingOf(ls) = s
<1>1. PICK bs, ns : Placed(taken, ls, bs, ns, s) /\ Measured(taken, ls, bs, ns)
  BY DEF Layout
<1>2. PICK n \in Nat, q \in Nat : n = Len(ls) /\ q = Len(s)
  BY <1>1, Rising
<1> DEFINE r == [k \in 1..n + 1 |-> SubSeq(s, bs[k] + 1, q)]
<1>3. s \in Seq(Octet) /\ bs[1] = 0 /\ bs[n + 1] = q
  BY <1>1, <1>2 DEF Placed
<1>4. SubSeq(s, bs[n + 1] + 1, q) = << >>
  BY <1>3, SubSeqEmpty
<1>5. ASSUME NEW g, NEW k \in 1..n + 1, \A j \in k + 1..n + 1 : g[j] = SubSeq(s, bs[j] + 1, q)
      PROVE  Body(ls, g, k) = SubSeq(s, bs[k] + 1, q)
  <2>1. CASE k = n + 1
    BY <1>2, <1>4, <2>1, Zenon DEF Body
  <2>2. CASE k # n + 1
    <3>1. k \in 1..n
      BY <2>2
    <3>2. QED BY <1>1, <1>2, <1>5, <3>1, RestLaid
  <2>3. QED BY <2>1, <2>2
<1>6. r = [k \in 1..Len(ls) + 1 |-> Body(ls, r, k)]
  <2>1. ASSUME NEW k \in 1..n + 1 PROVE r[k] = Body(ls, r, k)
    <3>1. \A j \in k + 1..n + 1 : j \in 1..n + 1
      OBVIOUS
    <3>2. \A j \in k + 1..n + 1 : r[j] = SubSeq(s, bs[j] + 1, q)
      BY <3>1, Zenon
    <3>3. r[k] = SubSeq(s, bs[k] + 1, q)
      BY Zenon
    <3> HIDE DEF r
    <3>4. QED BY <1>5, <3>2, <3>3
  <2>2. r = [k \in 1..n + 1 |-> r[k]]
    BY Zenon
  <2> HIDE DEF r
  <2>3. QED BY <1>2, <2>1, <2>2
<1> DEFINE v == CHOOSE g : g = [k \in 1..Len(ls) + 1 |-> Body(ls, g, k)]
<1>7. v = [k \in 1..Len(ls) + 1 |-> Body(ls, v, k)]
  <2>1. \E g : g = [k \in 1..Len(ls) + 1 |-> Body(ls, g, k)]
    BY <1>6, Zenon
  <2>2. QED BY <2>1, Zenon
<1>8. EncodingOf(ls) = v[1]
  BY Zenon DEF EncodingOf, Body
<1> HIDE DEF v, r
<1>9. ASSUME NEW k \in 1..n + 1 PROVE v[k] = SubSeq(s, bs[k] + 1, q)
  <2> DEFINE T == {d \in 0..n : v[n + 1 - d] # SubSeq(s, bs[n + 1 - d] + 1, q)}
  <2>1. SUFFICES ASSUME T # {} PROVE FALSE
    <3>1. n + 1 - k \in 0..n /\ n + 1 - (n + 1 - k) = k
      OBVIOUS
    <3>2. QED BY <3>1, Zenon
  <2>2. PICK d \in T : \A x \in T : d <= x
    <3>1. T \subseteq Nat
      OBVIOUS
    <3> HIDE DEF T
    <3>2. QED BY <2>1, <3>1, LeastNatural, Zenon
  <2>3. PICK m \in 1..n + 1 : m = n + 1 - d
    OBVIOUS
  <2>4. \A j \in m + 1..n + 1 : v[j] = SubSeq(s, bs[j] + 1, q)
    <3>1. TAKE j \in m + 1..n + 1
    <3>2. n + 1 - j \in 0..n /\ n + 1 - (n + 1 - j) = j /\ ~(d <= n + 1 - j)
      BY <2>3
    <3>3. n + 1 - j \notin T
      BY <2>2, <3>2, Zenon
    <3>4. QED BY <3>2, <3>3
  <2>5. Body(ls, v, m) = SubSeq(s, bs[m] + 1, q)
    BY <1>5, <2>4
  <2>6. v[m] = Body(ls, v, m)
    BY <1>2, <1>7, Zenon
  <2>7. QED BY <2>3, <2>5, <2>6
<1>10. v[1] = s
  <2>1. 1 \in 1..n + 1 /\ 0 + 1 = 1
    OBVIOUS
  <2>2. v[1] = SubSeq(s, 1, q)
    BY <1>3, <1>9, <2>1, Zenon
  <2>3. QED BY <1>2, <1>3, <2>2, SubSeqFull
<1>11. QED BY <1>8, <1>10

\* What is put is the encoding of the lines printed, or begins it.
LEMMA EncodingPut ==
  ASSUME LInv
  PROVE  LET encoding == EncodingOf(printed)
         IN  IF refused THEN IsPrefix(out, encoding) /\ out # encoding ELSE out = encoding
<1>1. /\ taken \in Seq(Lines) /\ out \in Seq(Octet)
      /\ Written(taken, printed, out, refused)
  BY LaidFacts
<1>2. PICK s : Layout(taken, printed, s) /\ IF refused THEN Begun(out, s) ELSE out = s
  BY <1>1 DEF Written
<1>3. EncodingOf(printed) = s
  BY <1>1, <1>2, EncodingLaid
<1>4. ASSUME Begun(out, s) PROVE IsPrefix(out, s) /\ out # s
  <2>1. PICK r \in Seq(Octet) : r # << >> /\ s = out \o r
    BY <1>4 DEF Begun
  <2>2. /\ s \in Seq(Octet) /\ Len(out) \in Nat /\ Len(r) \in Nat /\ Len(s) = Len(out) + Len(r)
        /\ \A i \in 1..Len(out) : s[i] = out[i]
    BY <1>1, <2>1, JoinFacts
  <2>3. Len(r) # 0
    BY <2>1, EmptySeq
  <2>4. Len(out) <= Len(s) /\ Len(out) # Len(s)
    BY <2>2, <2>3
  <2>5. SubSeq(out, 1, Len(out)) = SubSeq(s, 1, Len(out))
    BY <1>1, <2>2, <2>4, PrefixByElements
  <2>6. QED BY <2>4, <2>5 DEF IsPrefix
<1>5. QED BY <1>2, <1>3, <1>4

-----------------------------------------------------------------------------
(* A text that is a tree the printer supports.                             *)

\* What such a text is line by line: the beginning of one is one, too.
RegularTo(t, n) ==
  /\ \A i \in 1..n :
       LabelRead(t[i]) /\ (t[i].form = "none" \/ (t[i].form = "octets" /\ ~t[i].star))
  /\ \A i \in 2..n :
       /\ t[i].level \in t[1].level + 1..t[i - 1].level + 1
       /\ t[i].level > t[i - 1].level => t[i - 1].form = "none"
  /\ \A i \in 1..n : t[i].form = "none" /\ ~t[i].star =>
       \A k \in i + 1..n : t[k].level > t[i].level /\ ~t[k].star
  /\ \A i \in 2..n : IsEndLine(t[i]) =>
       \E p \in 1..i - 1 :
         /\ t[p].star /\ t[p].level < t[i].level
         /\ \A k \in p + 1..i - 1 : t[k].level >= t[i].level
         /\ i + 1 <= n => t[i + 1].level <= t[p].level
  /\ \A i \in 1..n : \A m \in i..n - 1 :
       /\ t[i].star /\ t[m + 1].level <= t[i].level
       /\ \A k \in i + 1..m : t[k].level > t[i].level
       => m # i /\ IsEndLine(t[m]) /\ \A k \in i + 1..m - 1 : t[k].level >= t[m].level
Regular(t) == RegularTo(t, Len(t))

\* The greatest of some numbers.
LEMMA Greatest ==
  ASSUME NEW n \in Nat, NEW T, T \subseteq 1..n, T # {}
  PROVE  Max(T) \in T /\ \A x \in T : x <= Max(T)
<1>1. \E m \in T : \A x \in T : x <= m
  <2> DEFINE U == {n - x : x \in T}
  <2>1. PICK d \in U : \A y \in U : d <= y
    <3>0. \A x \in T : n - x \in Nat
      OBVIOUS
    <3>1. U \subseteq Nat /\ U # {}
      BY <3>0, Zenon
    <3> HIDE DEF U
    <3>2. QED BY <3>1, LeastNatural, Zenon
  <2>2. PICK m \in T : d = n - m
    OBVIOUS
  <2>3. \A x \in T : n - m <= n - x
    BY <2>1, <2>2
  <2>4. QED BY <2>3
<1>2. \E m \in T : \A x \in T : m >= x
  BY <1>1
<1>3. Max(T) \in T /\ \A x \in T : Max(T) >= x
  BY <1>2, Zenon DEF Max
<1>4. QED BY <1>3

LEMMA TreeRegular ==
  ASSUME taken \in Seq(Lines), Tree
  PROVE  Regular(taken)
<1>1. PICK n \in Nat : n = Len(taken) /\ DOMAIN taken = 1..n
  BY LenProperties
<1>2. \A i \in 1..n : taken[i].level \in Nat
  BY <1>1, Levels
<1>3. ASSUME NEW i \in 1..n
      PROVE  /\ LabelRead(taken[i])
             /\ taken[i].form = "none" \/ (taken[i].form = "octets" /\ ~taken[i].star)
  BY <1>1, <1>3 DEF Tree, IsTree
<1>4. ASSUME NEW i \in 2..n
      PROVE  /\ taken[i].level \in taken[1].level + 1..taken[i - 1].level + 1
             /\ taken[i].level > taken[i - 1].level => taken[i - 1].form = "none"
             /\ IsEndLine(taken[i]) => taken[Parent(i)].star /\ Max(Below(Parent(i))) = i
  <2>1. i \in 1..n /\ i > 1
    OBVIOUS
  <2>2. QED BY <1>1, <2>1 DEF Tree, IsTree
<1>5. ASSUME NEW i \in 1..n, taken[i].star
      PROVE  Unclosed(i) \/ (Below(i) # {} /\ IsEndLine(taken[Max(Below(i))])
                                           /\ Parent(Max(Below(i))) = i)
  BY <1>1, <1>5 DEF Tree, IsTree
<1>6. ASSUME NEW i \in 1..n, taken[i].form = "none", ~taken[i].star, NEW k \in i + 1..n
      PROVE  taken[k].level > taken[i].level /\ ~taken[k].star
  <2>1. Unclosed(i) /\ \A j \in Below(i) : ~taken[j].star
    BY <1>1, <1>6 DEF Tree, Supported
  <2>2. k \in Below(i)
    BY <1>1, <2>1 DEF Unclosed
  <2>3. k \in i + 1..k
    OBVIOUS
  <2>4. QED BY <2>1, <2>2, <2>3 DEF Below
<1>7. ASSUME NEW i \in 1..n
      PROVE  Below(i) \subseteq 1..n
  BY <1>1 DEF Below
<1>8. ASSUME NEW i \in 2..n, NEW p, p = Parent(i)
      PROVE  /\ p \in 1..i - 1 /\ taken[p].level < taken[i].level
             /\ \A k \in p + 1..i - 1 : taken[k].level >= taken[i].level
  <2> DEFINE P == {j \in 1..i - 1 : taken[j].level < taken[i].level}
  <2>1. i \in 1..n /\ 1 \in 1..i - 1 /\ i - 1 \in Nat /\ 1 \in 1..n
    OBVIOUS
  <2>2. 1 \in P
    BY <1>2, <1>4, <2>1
  <2>3. p \in P /\ \A j \in P : j <= p
    <3>1. P \subseteq 1..i - 1 /\ P # {} /\ p = Max(P)
      BY <1>8, <2>2 DEF Parent
    <3> HIDE DEF P
    <3>2. QED BY <2>1, <3>1, Greatest, Zenon
  <2>4. \A k \in p + 1..i - 1 : taken[k].level >= taken[i].level
    <3>1. TAKE k \in p + 1..i - 1
    <3>2. k \in 1..i - 1 /\ k \in 1..n /\ ~(k <= p)
      BY <2>3
    <3>3. k \notin P
      BY <2>3, <3>2
    <3>4. QED BY <1>2, <2>1, <3>2, <3>3
  <2>5. QED BY <2>3, <2>4
<1>9. ASSUME NEW i \in 2..n, IsEndLine(taken[i])
      PROVE  \E p \in 1..i - 1 :
               /\ taken[p].star /\ taken[p].level < taken[i].level
               /\ \A k \in p + 1..i - 1 : taken[k].level >= taken[i].level
               /\ i + 1 <= n => taken[i + 1].level <= taken[p].level
  <2>1. PICK p : p = Parent(i)
    OBVIOUS
  <2>2. /\ p \in 1..i - 1 /\ taken[p].level < taken[i].level
        /\ \A k \in p + 1..i - 1 : taken[k].level >= taken[i].level
    BY <1>8, <2>1, Zenon
  <2>3. taken[p].star /\ Max(Below(p)) = i
    BY <1>4, <1>9, <2>1
  <2>4. ASSUME i + 1 <= n, ~(taken[i + 1].level <= taken[p].level) PROVE FALSE
    <3>1. p \in 1..n /\ i + 1 \in 1..n /\ i \in 1..n /\ i + 1 \in p + 1..n
      BY <2>2, <2>4
    <3>2. \A k \in p + 1..i + 1 : taken[k].level > taken[p].level
      <4>1. TAKE k \in p + 1..i + 1
      <4>2. k \in 1..n /\ (k = i + 1 \/ k = i \/ k \in p + 1..i - 1)
        BY <2>2, <3>1
      <4>3. QED BY <1>2, <2>2, <2>4, <3>1, <4>2
    <3>3. i + 1 \in Below(p)
      BY <1>1, <3>1, <3>2 DEF Below
    <3>4. i + 1 <= Max(Below(p))
      <4>1. Below(p) \subseteq 1..n /\ Below(p) # {}
        BY <1>7, <3>1, <3>3
      <4>2. QED BY <3>3, <4>1, Greatest
    <3>5. QED BY <2>3, <3>4
  <2>5. QED BY <2>2, <2>3, <2>4
<1>10. ASSUME NEW i \in 1..n, NEW m \in i..n - 1, taken[i].star, taken[m + 1].level <= taken[i].level,
              \A k \in i + 1..m : taken[k].level > taken[i].level
       PROVE  m # i /\ IsEndLine(taken[m]) /\ \A k \in i + 1..m - 1 : taken[k].level >= taken[m].level
  <2>1. m + 1 \in i + 1..n /\ m + 1 \in 1..n /\ m \in 1..n
    OBVIOUS
  <2>2. ~(taken[m + 1].level > taken[i].level)
    BY <1>2, <1>10, <2>1
  <2>3. \A k \in Below(i) : k \in i + 1..m
    <3>1. TAKE k \in Below(i)
    <3>2. k \in i + 1..n /\ \A j \in i + 1..k : taken[j].level > taken[i].level
      BY <1>1 DEF Below
    <3>3. m + 1 \notin i + 1..k
      BY <2>2, <3>2
    <3>4. QED BY <2>1, <3>2, <3>3
  <2>4. m + 1 \notin Below(i)
    BY <2>3
  <2>5. ~Unclosed(i)
    BY <1>1, <2>1, <2>4 DEF Unclosed
  <2>6. Below(i) # {} /\ IsEndLine(taken[Max(Below(i))]) /\ Parent(Max(Below(i))) = i
    BY <1>5, <1>10, <2>5
  <2>7. m # i
    <3>1. PICK k : k \in Below(i)
      BY <2>6
    <3>2. k \in i + 1..m
      BY <2>3, <3>1
    <3>3. QED BY <3>2
  <2>8. Max(Below(i)) = m
    <3>1. m \in i + 1..n
      BY <2>7
    <3>2. m \in Below(i)
      BY <1>1, <1>10, <3>1 DEF Below
    <3>3. Max(Below(i)) \in Below(i) /\ m <= Max(Below(i))
      <4>1. Below(i) \subseteq 1..n
        BY <1>7
      <4>2. QED BY <2>6, <3>2, <4>1, Greatest
    <3>4. QED BY <2>3, <3>3
  <2>9. m \in 2..n /\ Parent(m) = i
    BY <2>6, <2>7, <2>8
  <2>10. \A k \in i + 1..m - 1 : taken[k].level >= taken[m].level
    BY <1>8, <2>9
  <2>11. QED BY <2>6, <2>7, <2>8, <2>10
<1>11. /\ \A i \in 1..n : \A m \in i..n - 1 :
            /\ taken[i].star /\ taken[m + 1].level <= taken[i].level
            /\ \A k \in i + 1..m : taken[k].level > taken[i].level
            => m # i /\ IsEndLine(taken[m]) /\ \A k \in i + 1..m - 1 : taken[k].level >= taken[m].level
       /\ \A i \in 2..n : IsEndLine(taken[i]) =>
            \E p \in 1..i - 1 :
              /\ taken[p].star /\ taken[p].level < taken[i].level
              /\ \A k \in p + 1..i - 1 : taken[k].level >= taken[i].level
              /\ i + 1 <= n => taken[i + 1].level <= taken[p].level
       /\ \A i \in 1..n : taken[i].form = "none" /\ ~taken[i].star =>
            \A k \in i + 1..n : taken[k].level > taken[i].level /\ ~taken[k].star
  BY <1>6, <1>9, <1>10
<1>12. QED BY <1>1, <1>3, <1>4, <1>11, Zenon DEF Regular, RegularTo


LEMMA RegularOfMore ==
  ASSUME NEW t \in Seq(Lines), NEW l \in Lines, Regular(Append(t, l))
  PROVE  Regular(t)
<1>0. PICK n \in Nat : n = Len(t)
  BY LenProperties
<1>1. PICK u : u = Append(t, l) /\ Len(u) = n + 1 /\ \A i \in 1..n : u[i] = t[i]
  <2>1. Len(Append(t, l)) = n + 1 /\ \A i \in 1..n : Append(t, l)[i] = t[i]
    BY <1>0, AppendFacts
  <2>2. QED BY <2>1, Zenon
<1>2. RegularTo(u, n + 1)
  <2>1. Regular(u)
    BY <1>1
  <2>2. QED BY <1>1, <2>1 DEF Regular
<1>3. \A i \in 1..n : i \in 1..n + 1
  OBVIOUS
<1>4. \A i \in 1..n :
        LabelRead(t[i]) /\ (t[i].form = "none" \/ (t[i].form = "octets" /\ ~t[i].star))
  <2>1. TAKE i \in 1..n
  <2>2. LabelRead(u[i]) /\ (u[i].form = "none" \/ (u[i].form = "octets" /\ ~u[i].star))
    BY <1>2, <1>3, Zenon DEF RegularTo
  <2>3. QED BY <1>1, <2>2
<1>5. \A i \in 2..n : /\ t[i].level \in t[1].level + 1..t[i - 1].level + 1
                      /\ t[i].level > t[i - 1].level => t[i - 1].form = "none"
  <2>1. TAKE i \in 2..n
  <2>2. i \in 2..n + 1 /\ i \in 1..n /\ i - 1 \in 1..n /\ 1 \in 1..n
    OBVIOUS
  <2>3. /\ u[i].level \in u[1].level + 1..u[i - 1].level + 1
        /\ u[i].level > u[i - 1].level => u[i - 1].form = "none"
    BY <1>1, <1>2, <2>2, Zenon DEF RegularTo
  <2>4. QED BY <1>1, <2>2, <2>3
<1>6. \A i \in 1..n : t[i].form = "none" /\ ~t[i].star =>
        \A k \in i + 1..n : t[k].level > t[i].level /\ ~t[k].star
  <2>1. TAKE i \in 1..n
  <2>2. HAVE t[i].form = "none" /\ ~t[i].star
  <2>3. TAKE k \in i + 1..n
  <2>4. i \in 1..n + 1 /\ k \in i + 1..n + 1 /\ k \in 1..n
    OBVIOUS
  <2>5. u[k].level > u[i].level /\ ~u[k].star
    BY <1>1, <1>2, <2>2, <2>4, Zenon DEF RegularTo
  <2>6. QED BY <1>1, <2>4, <2>5
<1>7. \A i \in 2..n : IsEndLine(t[i]) =>
        \E p \in 1..i - 1 :
          /\ t[p].star /\ t[p].level < t[i].level
          /\ \A k \in p + 1..i - 1 : t[k].level >= t[i].level
          /\ i + 1 <= n => t[i + 1].level <= t[p].level
  <2>1. TAKE i \in 2..n
  <2>2. HAVE IsEndLine(t[i])
  <2>3. i \in 2..n + 1 /\ i \in 1..n
    OBVIOUS
  <2>4. IsEndLine(u[i])
    BY <1>1, <2>2, <2>3
  <2>5. PICK p \in 1..i - 1 :
          /\ u[p].star /\ u[p].level < u[i].level
          /\ \A k \in p + 1..i - 1 : u[k].level >= u[i].level
          /\ i + 1 <= n + 1 => u[i + 1].level <= u[p].level
    BY <1>1, <1>2, <2>3, <2>4, Zenon DEF RegularTo
  <2>6. p \in 1..n /\ \A k \in p + 1..i - 1 : k \in 1..n
    OBVIOUS
  <2>7. i + 1 <= n => i + 1 <= n + 1 /\ i + 1 \in 1..n
    OBVIOUS
  <2>8. QED BY <1>1, <2>3, <2>5, <2>6, <2>7
<1>8. \A i \in 1..n : \A m \in i..n - 1 :
        /\ t[i].star /\ t[m + 1].level <= t[i].level
        /\ \A k \in i + 1..m : t[k].level > t[i].level
        => m # i /\ IsEndLine(t[m]) /\ \A k \in i + 1..m - 1 : t[k].level >= t[m].level
  <2>1. TAKE i \in 1..n
  <2>2. TAKE m \in i..n - 1
  <2>3. HAVE /\ t[i].star /\ t[m + 1].level <= t[i].level
             /\ \A k \in i + 1..m : t[k].level > t[i].level
  <2>4. /\ i \in 1..n + 1 /\ m \in i..(n + 1) - 1 /\ m + 1 \in 1..n /\ m \in 1..n
        /\ \A k \in i + 1..m : k \in 1..n
        /\ \A k \in i + 1..m - 1 : k \in 1..n
    OBVIOUS
  <2>5. /\ u[i].star /\ u[m + 1].level <= u[i].level
        /\ \A k \in i + 1..m : u[k].level > u[i].level
    BY <1>1, <2>3, <2>4
  <2>6. m # i /\ IsEndLine(u[m]) /\ \A k \in i + 1..m - 1 : u[k].level >= u[m].level
    BY <1>1, <1>2, <2>4, <2>5, Zenon DEF RegularTo
  <2>7. QED BY <1>1, <2>4, <2>6
<1>9. RegularTo(t, n)
  BY <1>4, <1>5, <1>6, <1>7, <1>8, Zenon DEF RegularTo
<1>10. QED BY <1>0, <1>9 DEF Regular

-----------------------------------------------------------------------------
(* The printer and such a text.                                            *)

\* Line i of t opens a tag at a level, which is definite or not, and that is still open.
Opens(t, i, level, definite) ==
  /\ i \in 1..Len(t) /\ t[i].level = level /\ t[i].form = "none" /\ (t[i].star <=> ~definite)
  /\ \A k \in i + 1..Len(t) : t[k].level > level

\* The last line of t is one behind which a child of a tag at this level comes next: it
\* opens that tag, or is a child of it, or ends a child of it.
Awaits(t, level) ==
  LET last == t[Len(t)] IN
  \/ last.form = "none" /\ last.level = level
  \/ last.form = "octets" /\ ~IsEndLine(last) /\ last.level = level + 1
  \/ last.form = "octets" /\ IsEndLine(last) /\ last.level = level + 2

LEMMA NextLevel ==
  ASSUME NEW t \in Seq(Lines), NEW l \in Lines, Regular(Append(t, l)),
         NEW i, NEW v, NEW definite, Opens(t, i, v, definite), Awaits(t, v)
  PROVE  l.level = v + 1
<1>0. PICK n \in Nat : n = Len(t)
  BY LenProperties
<1>1. PICK u : /\ n = Len(t) /\ u = Append(t, l) /\ Len(u) = n + 1 /\ u \in Seq(Lines)
               /\ u[n + 1] = l /\ \A k \in 1..n : u[k] = t[k]
  <2>1. /\ Len(Append(t, l)) = n + 1 /\ Append(t, l) \in Seq(Lines)
        /\ Append(t, l)[n + 1] = l /\ \A k \in 1..n : Append(t, l)[k] = t[k]
    BY <1>0, AppendFacts
  <2>2. QED BY <1>0, <2>1, Zenon
<1>2. RegularTo(u, n + 1) /\ i \in 1..n
  <2>1. Regular(u)
    BY <1>1
  <2>2. QED BY <1>1, <2>1 DEF Regular, Opens
<1>3. \A k \in 1..n + 1 : u[k].level \in Nat
  BY <1>1, Levels, Zenon
<1>4. PICK last : last = u[n] /\ n \in 1..n /\ n + 1 \in 2..n + 1 /\ n + 1 \in 1..n + 1 /\ n \in 1..n + 1
  BY <1>2
<1>5. PICK a \in Nat, b \in Nat : a = last.level /\ b = l.level
  BY <1>1, <1>3, <1>4
<1>6. b <= a + 1 /\ (b > a => last.form = "none")
  <2>1. /\ u[n + 1].level \in u[1].level + 1..u[(n + 1) - 1].level + 1
        /\ u[n + 1].level > u[(n + 1) - 1].level => u[(n + 1) - 1].form = "none"
    BY <1>1, <1>2, <1>4, Zenon DEF RegularTo
  <2>2. (n + 1) - 1 = n
    OBVIOUS
  <2>3. u[1].level \in Nat
    BY <1>2, <1>3
  <2>4. QED BY <1>1, <1>4, <1>5, <2>1, <2>2, <2>3
<1>7. v \in Nat /\ u[i].level = v /\ u[i].form = "none" /\ \A k \in i + 1..n : u[k].level > v
  <2>1. \A k \in i + 1..n : k \in 1..n
    BY <1>2
  <2>2. i \in 1..n + 1
    BY <1>2
  <2>3. QED BY <1>1, <1>2, <1>3, <2>1, <2>2 DEF Opens
<1>8. \/ last.form = "none" /\ a = v
      \/ last.form = "octets" /\ ~IsEndLine(last) /\ a = v + 1
      \/ last.form = "octets" /\ IsEndLine(last) /\ a = v + 2
  BY <1>1, <1>4, <1>5 DEF Awaits
<1>9. ASSUME NEW j \in 1..n, u[j].form = "none", b <= u[j].level,
             \A k \in j + 1..n : u[k].level > u[j].level
      PROVE  n # j /\ IsEndLine(last) /\ \A k \in j + 1..n - 1 : u[k].level >= a
  <2>0. j \in 1..n + 1 /\ n + 1 \in j + 1..n + 1 /\ n \in j..(n + 1) - 1
    BY <1>4
  <2>1. CASE ~u[j].star
    <3>1. u[n + 1].level > u[j].level
      BY <1>1, <1>2, <1>9, <2>0, <2>1, Zenon DEF RegularTo
    <3>2. b > u[j].level /\ u[j].level \in Nat
      BY <1>1, <1>3, <1>5, <2>0, <3>1
    <3>3. QED BY <1>9, <3>2
  <2>2. CASE u[j].star
    <3>1. u[n + 1].level <= u[j].level
      BY <1>1, <1>5, <1>9
    <3>2. n # j /\ IsEndLine(u[n]) /\ \A k \in j + 1..n - 1 : u[k].level >= u[n].level
      <4>1. \A m \in j..(n + 1) - 1 :
              /\ u[j].star /\ u[m + 1].level <= u[j].level
              /\ \A k \in j + 1..m : u[k].level > u[j].level
              => m # j /\ IsEndLine(u[m]) /\ \A k \in j + 1..m - 1 : u[k].level >= u[m].level
        BY <1>2, <2>0, Zenon DEF RegularTo
      <4>2. QED BY <1>9, <2>0, <2>2, <3>1, <4>1, Zenon
    <3>3. QED BY <1>4, <1>5, <3>2
  <2>3. QED BY <2>1, <2>2
<1>10. CASE last.form = "none" /\ a = v
  <2>1. SUFFICES ASSUME b <= a PROVE FALSE
    BY <1>5, <1>6, <1>10
  <2>2. \A k \in n + 1..n : u[k].level > u[n].level
    OBVIOUS
  <2>3. n # n
    BY <1>4, <1>5, <1>9, <1>10, <2>1, <2>2, Zenon
  <2>4. QED BY <2>3
<1>11. CASE last.form = "octets" /\ ~IsEndLine(last) /\ a = v + 1
  <2>1. b <= v + 1
    BY <1>6, <1>11
  <2>2. SUFFICES ASSUME b <= v PROVE FALSE
    BY <1>5, <1>7, <2>1
  <2>3. IsEndLine(last)
    BY <1>2, <1>7, <1>9, <2>2
  <2>4. QED BY <1>11, <2>3
<1>12. CASE last.form = "octets" /\ IsEndLine(last) /\ a = v + 2
  <2>1. i # n /\ i + 1 \in i + 1..n /\ i + 1 \in 1..n + 1 /\ i + 1 \in 2..n + 1 /\ i \in 1..n + 1
    <3>1. i # n
      BY <1>4, <1>5, <1>7, <1>12
    <3>2. QED BY <1>2, <3>1
  <2>2. u[i + 1].level <= v + 1
    <3>1. u[i + 1].level \in u[1].level + 1..u[(i + 1) - 1].level + 1
      BY <1>1, <1>2, <2>1, Zenon DEF RegularTo
    <3>2. (i + 1) - 1 = i /\ u[1].level \in Nat
      BY <1>2, <1>3
    <3>3. QED BY <1>7, <3>1, <3>2
  <2>3. PICK c \in Nat : c = u[i + 1].level /\ c <= v + 1
    BY <1>3, <2>1, <2>2
  <2>4. i + 1 # n
    <3>1. i + 1 = n => c = a
      BY <1>4, <1>5, <2>3
    <3>2. c # a
      BY <1>7, <1>12, <2>3
    <3>3. QED BY <3>1, <3>2
  <2>5. i + 1 \in i + 1..n - 1 /\ n \in 2..n + 1
    BY <2>1, <2>4
  <2>6. b <= v + 1
    <3>1. PICK p \in 1..n - 1 : /\ u[p].level < u[n].level
                                /\ n + 1 <= n + 1 => u[n + 1].level <= u[p].level
      BY <1>1, <1>2, <1>4, <1>12, <2>5, Zenon DEF RegularTo
    <3>2. PICK d \in Nat : d = u[p].level
      BY <1>3
    <3>3. d < a /\ b <= d
      BY <1>1, <1>4, <1>5, <3>1, <3>2
    <3>4. QED BY <1>7, <1>12, <3>3
  <2>7. SUFFICES ASSUME b <= v PROVE FALSE
    BY <1>5, <1>7, <2>6
  <2>8. \A k \in i + 1..n - 1 : u[k].level >= a
    BY <1>2, <1>7, <1>9, <2>7
  <2>9. c >= a
    BY <2>3, <2>5, <2>8
  <2>10. QED BY <1>7, <1>12, <2>3, <2>9
<1>13. QED BY <1>8, <1>10, <1>11, <1>12

\* No end-of-contents comes in a definite tag.
LEMMA NoEndInDefinite ==
  ASSUME NEW t \in Seq(Lines), Regular(t), NEW i, NEW v, Opens(t, i, v, TRUE),
         t[Len(t)].level = v + 1
  PROVE  ~IsEndLine(t[Len(t)])
<1>1. PICK n \in Nat : n = Len(t) /\ i \in 1..n /\ RegularTo(t, n)
  BY LenProperties DEF Opens, Regular
<1>2. \A k \in 1..n : t[k].level \in Nat
  BY <1>1, Levels
<1>3. t[i].level = v /\ v \in Nat /\ t[i].form = "none" /\ ~t[i].star
  BY <1>1, <1>2 DEF Opens
<1>4. i # n /\ n \in 2..n
  <2>1. i # n
    BY <1>1, <1>3
  <2>2. QED BY <1>1, <2>1
<1>5. SUFFICES ASSUME IsEndLine(t[n]) PROVE FALSE
  BY <1>1
<1>6. PICK p \in 1..n - 1 : /\ t[p].star
                            /\ \A k \in p + 1..n - 1 : t[k].level >= t[n].level
  BY <1>1, <1>4, <1>5, Zenon DEF RegularTo
<1>7. CASE p = i
  BY <1>3, <1>6, <1>7
<1>8. CASE p < i
  <2>1. i \in p + 1..n - 1
    BY <1>1, <1>4, <1>8
  <2>2. v >= v + 1
    BY <1>1, <1>3, <1>6, <2>1
  <2>3. QED BY <1>3, <2>2
<1>9. CASE p > i
  <2>1. p \in i + 1..n
    BY <1>1, <1>9
  <2>2. ~t[p].star
    BY <1>1, <1>3, <2>1, Zenon DEF RegularTo
  <2>3. QED BY <1>6, <2>2
<1>10. QED BY <1>1, <1>7, <1>8, <1>9

-----------------------------------------------------------------------------
(* No line is lost of such a text.                                         *)

\* The loops fs are those of tags of t that are still open, each one level below the one
\* before.
Stacked(fs, t) ==
  \A j \in 1..Len(fs) :
    /\ fs[j].level = t[1].level + j - 1
    /\ \E i : Opens(t, i, fs[j].level, Definite(fs[j].node))

\* The node of f is that of the last line of t, or that of a definite tag when the text
\* has ended.
Extracts(f, t, ended) ==
  LET last == t[Len(t)] IN
  \/ ended /\ f.node.th.shape = "constructed_definite"
  \/ /\ last.level = f.level /\ (IsEnd(f.node) <=> IsEndLine(last))
     /\ \/ f.node.th.shape = "constructed_indefinite" /\ last.form = "none" /\ last.star
        \/ f.node.th.shape = "primitive" /\ last.form = "octets"

\* Each line of t is one of ps, of ms, or of the node of a definite loop.
Has(ls, i) == \E k \in 1..Len(ls) : ls[k] = i
InLoops(fs, i) == \E j \in 1..Len(fs) : Definite(fs[j].node) /\ Has(fs[j].node.lines, i)
Covered(t, fs, ps, ms) == \A i \in 1..Len(t) : Has(ps, i) \/ Has(ms, i) \/ InLoops(fs, i)

InHand == IF at = "returned" /\ good THEN got.node.lines ELSE << >>

Kept ==
  /\ ~good => stuck
  /\ at = "done" => frames = << >>
  /\ frames = << >> /\ (at = "extract" \/ (at = "returned" /\ ~good)) => taken = << >>
  /\ Stacked(frames, taken)
  /\ at = "extract" /\ ~stuck /\ taken # << >> => Awaits(taken, Last(frames).level)
  /\ at = "returned" /\ good =>
       taken # << >> /\ Extracts(got, taken, stuck) /\ got.level = taken[1].level + Len(frames)
  /\ at # "terminated" => Covered(taken, frames, printed, InHand)

KInv == IInv /\ (Regular(taken) => Kept)

-----------------------------------------------------------------------------
LEMMA HasJoin ==
  ASSUME NEW S, NEW ls \in Seq(S), NEW ms \in Seq(S), NEW i, Has(ls, i) \/ Has(ms, i)
  PROVE  Has(ls \o ms, i)
<1>1. PICK m \in Nat, n \in Nat : m = Len(ls) /\ n = Len(ms)
  BY LenProperties
<1>2. PICK js : js = ls \o ms
  BY Zenon
<1>3. js \in Seq(S) /\ Len(js) = m + n
      /\ \A k \in 1..m + n : js[k] = IF k <= m THEN ls[k] ELSE ms[k - m]
  BY <1>1, <1>2, ConcatProperties, Zenon
<1>4. CASE Has(ls, i)
  <2>1. PICK k \in 1..m : ls[k] = i
    BY <1>1, <1>4 DEF Has
  <2>2. k \in 1..m + n /\ k <= m
    OBVIOUS
  <2>3. QED BY <1>2, <1>3, <2>1, <2>2, Zenon DEF Has
<1>5. CASE Has(ms, i)
  <2>1. PICK k \in 1..n : ms[k] = i
    BY <1>1, <1>5 DEF Has
  <2>2. m + k \in 1..m + n /\ ~(m + k <= m) /\ (m + k) - m = k
    OBVIOUS
  <2>3. js[m + k] = i
    BY <1>3, <2>1, <2>2
  <2>4. QED BY <1>2, <1>3, <2>2, <2>3 DEF Has
<1>6. QED BY <1>4, <1>5

LEMMA CoveredBy ==
  ASSUME NEW t, NEW fs, NEW gs, NEW ps, NEW qs, NEW ms, NEW ns, Covered(t, fs, ps, ms),
         \A i : Has(ps, i) => Has(qs, i),
         \A i : Has(ms, i) => Has(qs, i) \/ Has(ns, i) \/ InLoops(gs, i),
         \A i : InLoops(fs, i) => Has(ns, i) \/ InLoops(gs, i)
  PROVE  Covered(t, gs, qs, ns)
  BY Zenon DEF Covered

\* A line that is read.
LEMMA CoveredRead ==
  ASSUME NEW t \in Seq(Lines), NEW l \in Lines, NEW fs, NEW ps, Covered(t, fs, ps, << >>)
  PROVE  Covered(Append(t, l), fs, ps, <<Len(t) + 1>>)
<1>1. PICK n \in Nat : n = Len(t)
  BY LenProperties
<1>2. Len(Append(t, l)) = n + 1
  BY <1>1, AppendFacts
<1>3. Has(<<n + 1>>, n + 1)
  <2>1. Len(<<n + 1>>) = 1 /\ 1 \in 1..1 /\ <<n + 1>>[1] = n + 1
    OBVIOUS
  <2>2. QED BY <2>1 DEF Has
<1>4. \A i : ~Has(<< >>, i)
  BY DEF Has
<1>5. \A i \in 1..n + 1 : i = n + 1 \/ i \in 1..n
  OBVIOUS
<1>6. QED BY <1>1, <1>2, <1>3, <1>4, <1>5, Zenon DEF Covered

\* The lines in hand become those of a loop.
LEMMA CoveredLoop ==
  ASSUME NEW t, NEW fs \in Seq(Frame), NEW ps, NEW f \in Frame, Definite(f.node),
         Covered(t, fs, ps, f.node.lines)
  PROVE  Covered(t, Append(fs, f), ps, << >>)
<1>1. PICK gs : gs = Append(fs, f)
  BY Zenon
<1>2. PICK n \in Nat : n = Len(fs)
  BY LenProperties
<1>3. Len(gs) = n + 1 /\ gs[n + 1] = f /\ \A j \in 1..n : gs[j] = fs[j]
  BY <1>1, <1>2, AppendFacts
<1>4. n + 1 \in 1..n + 1 /\ \A j \in 1..n : j \in 1..n + 1
  OBVIOUS
<1>5. \A i : Has(f.node.lines, i) => InLoops(gs, i)
  BY <1>3, <1>4 DEF InLoops
<1>6. ASSUME NEW i, InLoops(fs, i) PROVE InLoops(gs, i)
  <2>1. PICK j \in 1..n : Definite(fs[j].node) /\ Has(fs[j].node.lines, i)
    BY <1>2, <1>6 DEF InLoops
  <2>2. j \in 1..n + 1 /\ gs[j] = fs[j]
    BY <1>3, <1>4
  <2>3. QED BY <1>3, <2>1, <2>2 DEF InLoops
<1>7. Covered(t, gs, ps, << >>)
  <2>1. PICK ls : ls = f.node.lines
    BY Zenon
  <2>2. Covered(t, fs, ps, ls) /\ \A i : Has(ls, i) => InLoops(gs, i)
    BY <1>5, <2>1
  <2>3. QED BY <1>6, <2>2, CoveredBy, Zenon
<1>8. QED BY <1>1, <1>7

\* A loop ends; its node, if it is definite, is then in hand.
LEMMA CoveredEnd ==
  ASSUME NEW t, NEW fs \in Seq(Frame), fs # << >>, NEW ps, NEW ms, Covered(t, fs, ps, ms)
  PROVE  /\ ms = << >> => Covered(t, Front(fs), ps, Last(fs).node.lines)
         /\ ~Definite(Last(fs).node) => Covered(t, Front(fs), ps, ms)
<1>1. PICK gs : gs = Front(fs)
  OBVIOUS
<1>2. PICK n \in Nat \ {0} : n = Len(fs)
  BY FrontFacts
<1>3. Len(gs) = n - 1 /\ Last(fs) = fs[n] /\ \A j \in 1..n - 1 : gs[j] = fs[j]
  BY <1>1, <1>2, FrontFacts
<1>4. \A j \in 1..n : j = n \/ j \in 1..n - 1
  OBVIOUS
<1>5. ASSUME NEW i, InLoops(fs, i)
      PROVE  \/ Definite(Last(fs).node) /\ Has(Last(fs).node.lines, i)
             \/ InLoops(gs, i)
  <2>1. PICK j \in 1..n : Definite(fs[j].node) /\ Has(fs[j].node.lines, i)
    BY <1>2, <1>5 DEF InLoops
  <2>2. CASE j = n
    BY <1>3, <2>1, <2>2
  <2>3. CASE j \in 1..n - 1
    BY <1>3, <2>1, <2>3 DEF InLoops
  <2>4. QED BY <1>4, <2>2, <2>3
<1>6. ASSUME ms = << >> PROVE Covered(t, gs, ps, Last(fs).node.lines)
  <2>1. \A i : ~Has(ms, i)
    BY <1>6 DEF Has
  <2>2. PICK ls : ls = Last(fs).node.lines
    BY Zenon
  <2>3. \A i : InLoops(fs, i) => Has(ls, i) \/ InLoops(gs, i)
    BY <1>5, <2>2, Zenon
  <2>4. Covered(t, gs, ps, ls)
    BY <2>1, <2>3, CoveredBy, Zenon
  <2>5. QED BY <2>2, <2>4
<1>7. ASSUME ~Definite(Last(fs).node) PROVE Covered(t, gs, ps, ms)
  BY <1>5, <1>7, CoveredBy, Zenon
<1>8. QED BY <1>1, <1>6, <1>7

\* The lines in hand are appended to those of the innermost loop.
LEMMA CoveredPush ==
  ASSUME NEW t, NEW fs \in Seq(Frame), NEW ps, NEW ms \in Seq(Nat), Covered(t, fs, ps, ms),
         NEW n \in Nat \ {0}, n = Len(fs), NEW h \in Frame, Definite(h.node),
         h.node.lines = fs[n].node.lines \o ms
  PROVE  Covered(t, [fs EXCEPT ![n] = h], ps, << >>)
<1>1. PICK gs : gs = [fs EXCEPT ![n] = h]
  BY Zenon
<1>2. n \in 1..n /\ Len(gs) = n /\ gs[n] = h /\ \A j \in 1..n : j # n => gs[j] = fs[j]
  BY <1>1
<1>3. fs[n].node.lines \in Seq(Nat)
  <2>1. fs[n] \in Frame
    BY <1>2, ElementOfSeq
  <2>2. QED BY <2>1 DEF Frame, Node
<1>4. \A i : Has(fs[n].node.lines, i) \/ Has(ms, i) => Has(gs[n].node.lines, i)
  <2>1. PICK ls \in Seq(Nat) : ls = fs[n].node.lines
    BY <1>3
  <2>2. \A i : Has(ls, i) \/ Has(ms, i) => Has(ls \o ms, i)
    BY HasJoin
  <2>3. QED BY <1>2, <2>1, <2>2, Zenon
<1>5. \A i : Has(ms, i) => InLoops(gs, i)
  BY <1>2, <1>4 DEF InLoops
<1>6. ASSUME NEW i, InLoops(fs, i) PROVE InLoops(gs, i)
  <2>1. PICK j \in 1..n : Definite(fs[j].node) /\ Has(fs[j].node.lines, i)
    BY <1>6 DEF InLoops
  <2>2. CASE j = n
    BY <1>2, <1>4, <2>1, <2>2 DEF InLoops
  <2>3. CASE j # n
    BY <1>2, <2>1, <2>3 DEF InLoops
  <2>4. QED BY <2>2, <2>3
<1>7. Covered(t, gs, ps, << >>)
  BY <1>5, <1>6, CoveredBy, Zenon
<1>8. QED BY <1>1, <1>7

\* The lines in hand are printed.
LEMMA CoveredPrint ==
  ASSUME NEW t, NEW fs, NEW ps \in Seq(Nat), NEW ms \in Seq(Nat), Covered(t, fs, ps, ms)
  PROVE  Covered(t, fs, ps \o ms, << >>)
<1>1. \A i : Has(ps, i) \/ Has(ms, i) => Has(ps \o ms, i)
  BY HasJoin
<1>2. PICK qs : qs = ps \o ms
  BY Zenon
<1>3. Covered(t, fs, qs, << >>)
  BY <1>1, <1>2, CoveredBy, Zenon
<1>4. QED BY <1>2, <1>3

\* An indefinite tag begins.
LEMMA CoveredBegin ==
  ASSUME NEW t, NEW fs \in Seq(Frame), NEW ps, NEW f \in Frame, Covered(t, fs, ps, << >>)
  PROVE  Covered(t, Append(fs, f), ps, << >>)
<1>1. PICK gs : gs = Append(fs, f)
  BY Zenon
<1>2. PICK n \in Nat : n = Len(fs)
  BY LenProperties
<1>3. Len(gs) = n + 1 /\ \A j \in 1..n : j \in 1..n + 1 /\ gs[j] = fs[j]
  BY <1>1, <1>2, AppendFacts
<1>4. ASSUME NEW i, InLoops(fs, i) PROVE InLoops(gs, i)
  <2>1. PICK j \in 1..n : Definite(fs[j].node) /\ Has(fs[j].node.lines, i)
    BY <1>2, <1>4 DEF InLoops
  <2>2. QED BY <1>3, <2>1 DEF InLoops
<1>5. \A i : ~Has(<< >>, i)
  BY DEF Has
<1>6. Covered(t, gs, ps, << >>)
  BY <1>4, <1>5, CoveredBy, Zenon
<1>7. QED BY <1>1, <1>6

-----------------------------------------------------------------------------
(* Each step keeps the lines.                                              *)

LEMMA KeptInitial ==
  ASSUME Init
  PROVE  Kept
<1>1. /\ at = "extract" /\ frames = << >> /\ good = TRUE /\ taken = << >> /\ printed = << >>
  BY DEF Init
<1>2. Len(frames) = 0 /\ Len(taken) = 0
  BY <1>1
<1>3. Stacked(frames, taken) /\ Covered(taken, frames, printed, InHand)
  BY <1>2 DEF Stacked, Covered, InLoops
<1>4. QED BY <1>1, <1>3 DEF Kept

LEMMA KeptFacts ==
  ASSUME KInv
  PROVE  /\ frames \in Seq(Frame) /\ taken \in Seq(Lines) /\ got \in Frame
         /\ printed \in Seq(1..Len(taken)) /\ printed \in Seq(Nat)
         /\ got.node.lines \in Seq(Nat) /\ Len(frames) \in Nat /\ Len(taken) \in Nat
         /\ taken # << >> => taken[1].level \in Nat
<1>1. /\ frames \in Seq(Frame) /\ taken \in Seq(Lines) /\ got \in Frame
      /\ printed \in Seq(1..Len(taken))
  BY Invariant DEF KInv
<1>2. Len(frames) \in Nat /\ Len(taken) \in Nat
  BY <1>1, LenProperties
<1>3. 1..Len(taken) \subseteq Nat
  OBVIOUS
<1>4. printed \in Seq(Nat)
  BY <1>1, <1>3, SeqMonotonic
<1>5. got.node.lines \in Seq(Nat)
  BY <1>1 DEF Frame, Node
<1>6. taken # << >> => taken[1].level \in Nat
  <2>1. SUFFICES ASSUME taken # << >> PROVE 1 \in 1..Len(taken)
    BY <1>1, Levels
  <2>2. Len(taken) \in Nat \ {0}
    BY <1>1, <2>1, EmptySeq
  <2>3. QED BY <2>2
<1>7. QED BY <1>1, <1>2, <1>4, <1>5, <1>6

\* The innermost loop.
LEMMA InnerLoop ==
  ASSUME KInv, Kept, frames # << >>
  PROVE  /\ Top = frames[Len(frames)] /\ Top \in Frame /\ Len(frames) \in Nat \ {0}
         /\ taken # << >> /\ Top.level = taken[1].level + Len(frames) - 1 /\ Top.level \in Nat
         /\ \E i : Opens(taken, i, Top.level, Definite(Top.node))
<1>1. frames \in Seq(Frame) /\ taken \in Seq(Lines) /\ Stacked(frames, taken)
  BY KeptFacts DEF Kept
<1>2. PICK n \in Nat \ {0} : n = Len(frames) /\ Top = frames[n] /\ Top \in Frame
  BY <1>1, FrontFacts DEF Top
<1>3. n \in 1..n
  OBVIOUS
<1>4. Top.level = taken[1].level + n - 1 /\ \E i : Opens(taken, i, Top.level, Definite(Top.node))
  BY <1>1, <1>2, <1>3, Zenon DEF Stacked
<1>5. taken # << >>
  <2>1. PICK i : i \in 1..Len(taken)
    BY <1>4 DEF Opens
  <2>2. QED BY <2>1
<1>6. Top.level \in Nat
  BY <1>2 DEF Frame
<1>7. QED BY <1>2, <1>4, <1>5, <1>6

\* A line is read: it is one level below the innermost loop.
LEMMA KeptRead ==
  ASSUME KInv, Regular(taken'), NEW line \in Lines, Takes(line)
  PROVE  /\ Kept /\ taken' \in Seq(Lines) /\ taken' # << >> /\ taken'[Len(taken')] = line
         /\ Len(taken') = Len(taken) + 1
         /\ LabelRead(line) /\ (line.form = "none" \/ (line.form = "octets" /\ ~line.star))
         /\ line.level = taken'[1].level + Len(frames) /\ line.level \in Nat
         /\ taken'[1].level \in Nat
         /\ Stacked(frames, taken')
         /\ Covered(taken', frames, printed', <<Len(taken')>>)
<1>1. /\ at = "extract" /\ good /\ ~stuck /\ taken' = Append(taken, line) /\ UNCHANGED printed
  BY DEF Takes, sink
<1>2. frames \in Seq(Frame) /\ taken \in Seq(Lines) /\ Len(frames) \in Nat
  BY KeptFacts
<1>3. Kept
  BY <1>1, <1>2, RegularOfMore DEF KInv
<1>4. PICK n \in Nat : n = Len(taken)
  BY <1>2, LenProperties
<1>5. /\ taken' \in Seq(Lines) /\ Len(taken') = n + 1 /\ taken'[n + 1] = line
      /\ \A i \in 1..n : taken'[i] = taken[i]
  BY <1>1, <1>2, <1>4, AppendFacts
<1>6. n + 1 \in 1..n + 1 /\ 1 \in 1..n + 1
  OBVIOUS
<1>7. /\ LabelRead(line) /\ (line.form = "none" \/ (line.form = "octets" /\ ~line.star))
      /\ line.level \in Nat /\ taken'[1].level \in Nat
  <2>1. RegularTo(taken', n + 1)
    BY <1>5 DEF Regular
  <2>2. LabelRead(taken'[n + 1])
        /\ (taken'[n + 1].form = "none" \/ (taken'[n + 1].form = "octets" /\ ~taken'[n + 1].star))
    BY <1>6, <2>1, Zenon DEF RegularTo
  <2>3. \A i \in 1..n + 1 : taken'[i].level \in Nat
    BY <1>5, Levels
  <2>4. QED BY <1>5, <1>6, <2>2, <2>3
<1>8. Covered(taken', frames, printed', <<n + 1>>)
  <2>1. Covered(taken, frames, printed, << >>)
    BY <1>1, <1>3 DEF Kept, InHand
  <2>2. QED BY <1>1, <1>2, <1>4, <2>1, CoveredRead
<1>9. CASE taken = << >>
  <2>1. n = 0
    BY <1>4, <1>9
  <2>2. frames = << >>
    BY <1>3, <1>9, InnerLoop
  <2>3. Len(frames) = 0
    BY <2>2
  <2>4. Stacked(frames, taken')
    BY <2>3 DEF Stacked
  <2>5. line.level = taken'[1].level + Len(frames)
    BY <1>5, <1>7, <2>1, <2>3
  <2>6. QED BY <1>3, <1>5, <1>7, <1>8, <2>4, <2>5, <1>4
<1>10. CASE taken # << >>
  <2>1. n \in Nat \ {0} /\ 1 \in 1..n
    BY <1>2, <1>4, <1>10, EmptySeq
  <2>2. frames # << >>
    BY <1>1, <1>3, <1>10 DEF Kept
  <2>3. PICK d \in Nat \ {0}, v \in Nat :
          /\ d = Len(frames) /\ v = taken[1].level
          /\ Top.level = v + d - 1 /\ Top = Last(frames)
          /\ \E i : Opens(taken, i, Top.level, Definite(Top.node))
    BY <1>3, <1>10, <2>2, InnerLoop, KeptFacts DEF Top
  <2>4. Awaits(taken, Top.level)
    BY <1>1, <1>3, <1>10, <2>3 DEF Kept
  <2>5. line.level = Top.level + 1
    BY <1>1, <1>2, <2>3, <2>4, NextLevel
  <2>6. line.level = v + d
    BY <2>3, <2>5
  <2>7. taken'[1].level = v
    BY <1>5, <2>1, <2>3
  <2>8. Stacked(frames, taken')
    <3>1. SUFFICES ASSUME NEW j \in 1..d
                   PROVE  /\ frames[j].level = v + j - 1
                          /\ \E i : Opens(taken', i, frames[j].level, Definite(frames[j].node))
      BY <2>3, <2>7 DEF Stacked
    <3>2. frames[j].level = v + j - 1
      BY <1>3, <2>3 DEF Kept, Stacked
    <3>3. PICK i : Opens(taken, i, frames[j].level, Definite(frames[j].node))
      BY <1>3, <2>3 DEF Kept, Stacked
    <3>4. i \in 1..n /\ i \in 1..n + 1 /\ taken'[i] = taken[i]
      BY <1>4, <1>5, <3>3 DEF Opens
    <3>5. \A k \in i + 1..n + 1 : taken'[k].level > frames[j].level
      <4>1. TAKE k \in i + 1..n + 1
      <4>2. CASE k = n + 1
        BY <1>5, <2>6, <3>2, <4>2
      <4>3. CASE k # n + 1
        <5>1. k \in i + 1..n /\ k \in 1..n
          BY <3>4, <4>3
        <5>2. QED BY <1>4, <1>5, <3>3, <5>1 DEF Opens
      <4>4. QED BY <4>2, <4>3
    <3>6. Opens(taken', i, frames[j].level, Definite(frames[j].node))
      BY <1>4, <1>5, <3>3, <3>4, <3>5 DEF Opens
    <3>7. QED BY <3>2, <3>6
  <2>9. QED BY <1>3, <1>4, <1>5, <1>7, <1>8, <2>3, <2>6, <2>7, <2>8, EmptySeq
<1>11. QED BY <1>9, <1>10

\* A loop more, or one less.
LEMMA StackedMore ==
  ASSUME NEW fs \in Seq(Frame), NEW f \in Frame, NEW t, Stacked(fs, t), t[1].level \in Nat,
         f.level = t[1].level + Len(fs), \E i : Opens(t, i, f.level, Definite(f.node))
  PROVE  Stacked(Append(fs, f), t) /\ Append(fs, f) # << >> /\ Last(Append(fs, f)) = f
<1>1. PICK gs : gs = Append(fs, f)
  BY Zenon
<1>2. PICK n \in Nat : n = Len(fs)
  BY LenProperties
<1>3. gs \in Seq(Frame) /\ Len(gs) = n + 1 /\ gs[n + 1] = f /\ \A j \in 1..n : gs[j] = fs[j]
  BY <1>1, <1>2, AppendFacts
<1>4. \A j \in 1..n + 1 : j = n + 1 \/ j \in 1..n
  OBVIOUS
<1>5. f.level = t[1].level + (n + 1) - 1
  BY <1>2
<1>6. Stacked(gs, t)
  BY <1>2, <1>3, <1>4, <1>5, Zenon DEF Stacked
<1>7. gs # << >> /\ Last(gs) = f
  BY <1>3, EmptySeq DEF Last
<1>8. QED BY <1>1, <1>6, <1>7

LEMMA StackedLess ==
  ASSUME NEW fs \in Seq(Frame), fs # << >>, NEW t, Stacked(fs, t), t[1].level \in Nat
  PROVE  /\ Stacked(Front(fs), t)
         /\ Last(fs).level = t[1].level + Len(Front(fs)) /\ Len(Front(fs)) \in Nat
         /\ Len(fs) = 1 => Front(fs) = << >>
         /\ Len(fs) # 1 => Front(fs) # << >> /\ Last(Front(fs)).level + 1 = Last(fs).level
<1>1. PICK gs : gs = Front(fs)
  OBVIOUS
<1>2. PICK n \in Nat \ {0} : n = Len(fs)
  BY FrontFacts
<1>3. gs \in Seq(Frame) /\ Len(gs) = n - 1 /\ Last(fs) = fs[n] /\ \A j \in 1..n - 1 : gs[j] = fs[j]
  BY <1>1, <1>2, FrontFacts, Zenon
<1>4. \A j \in 1..n - 1 : j \in 1..n
  OBVIOUS
<1>5. Stacked(gs, t)
  BY <1>2, <1>3, <1>4, Zenon DEF Stacked
<1>6. Last(fs).level = t[1].level + (n - 1) /\ n - 1 \in Nat
  <2>1. n \in 1..n
    OBVIOUS
  <2>2. QED BY <1>2, <1>3, <2>1 DEF Stacked
<1>7. ASSUME n = 1 PROVE gs = << >>
  BY <1>3, <1>7, EmptySeq
<1>8. ASSUME n # 1 PROVE gs # << >> /\ Last(gs).level + 1 = Last(fs).level
  <2>1. n - 1 \in 1..n - 1 /\ n - 1 \in Nat \ {0}
    BY <1>8
  <2>2. gs # << >> /\ Last(gs) = gs[n - 1]
    BY <1>3, <2>1, EmptySeq DEF Last
  <2>3. gs[n - 1].level = t[1].level + (n - 1) - 1
    BY <1>3, <1>5, <2>1 DEF Stacked
  <2>4. QED BY <1>6, <2>2, <2>3
<1>9. QED BY <1>1, <1>2, <1>3, <1>5, <1>6, <1>7, <1>8

LEMMA KeptExtractionFails ==
  ASSUME KInv, Regular(taken'), ExtractFails
  PROVE  Kept'
<1>1. /\ at = "extract" /\ at' = "returned" /\ good' = FALSE /\ stuck' = (stuck \/ good)
      /\ UNCHANGED <<frames, got, printed, taken>>
  BY DEF ExtractFails, sink
<1>2. Kept
  BY <1>1 DEF KInv
<1>3. Covered(taken, frames, printed, << >>)
  BY <1>1, <1>2 DEF Kept, InHand
<1>4. InHand' = << >>
  BY <1>1 DEF InHand
<1>5. QED BY <1>1, <1>2, <1>3, <1>4, Zenon DEF Kept

\* An end-of-contents is a node with no octets.
LEMMA EndRead ==
  ASSUME NEW line \in Lines, line.form = "octets"
  PROVE  IsEnd(NodeOf(line, "primitive", Content(line))) <=> IsEndLine(line)
<1>1. line.items \in Seq(Nat)
  BY BerPrintAssumption DEF Line
<1>2. CASE ~IsUniversal(line, univ.eoc)
  BY <1>2 DEF IsEnd, IsEocTag, NodeOf, IsEndLine, IsUniversal
<1>3. CASE IsUniversal(line, univ.eoc)
  <2>1. ~IsUniversal(line, univ.boolean)
    BY <1>3 DEF IsUniversal, univ
  <2>2. Content(line) = [i \in DOMAIN line.items |-> line.items[i] % 256]
    BY <2>1 DEF Content, OctetString
  <2>3. Len(Content(line)) = Len(line.items)
    <3>1. PICK n \in Nat : n = Len(line.items) /\ DOMAIN line.items = 1..n
      BY <1>1, LenProperties
    <3>2. QED BY <2>2, <3>1
  <2>4. Len(line.items) = 0 <=> line.items = << >>
    BY <1>1, EmptySeq
  <2>5. IsEnd(NodeOf(line, "primitive", Content(line))) <=> Len(Content(line)) = 0
    BY <1>3 DEF IsEnd, IsEocTag, NodeOf, IsUniversal
  <2>6. QED BY <1>3, <2>3, <2>4, <2>5 DEF IsEndLine
<1>4. QED BY <1>2, <1>3

LEMMA KeptExtraction ==
  ASSUME KInv, Regular(taken'), NEW line \in Lines, Takes(line), UNCHANGED <<frames, good>>,
         NEW shape, NEW content, Extracted(line.level, NodeOf(line, shape, content)),
         \/ shape = "primitive" /\ line.form = "octets" /\ content = Content(line)
         \/ shape = "constructed_indefinite" /\ line.star
  PROVE  Kept'
<1>1. /\ Kept /\ taken' \in Seq(Lines) /\ taken' # << >> /\ taken'[Len(taken')] = line
      /\ line.form = "none" \/ (line.form = "octets" /\ ~line.star)
      /\ line.level = taken'[1].level + Len(frames)
      /\ Stacked(frames, taken') /\ Covered(taken', frames, printed', <<Len(taken')>>)
  BY KeptRead
<1>2. /\ good /\ good' /\ at' = "returned" /\ frames' = frames
      /\ got' = [level |-> line.level, node |-> NodeOf(line, shape, content)]
  BY DEF Takes, Extracted
<1>3. PICK node : node = NodeOf(line, shape, content)
  OBVIOUS
<1>4. node.th.shape = shape /\ node.lines = <<Len(taken')>>
  BY <1>3 DEF NodeOf
<1>5. IsEnd(node) <=> IsEndLine(line)
  <2>1. CASE shape = "primitive" /\ line.form = "octets" /\ content = Content(line)
    BY <1>3, <2>1, EndRead
  <2>2. CASE shape = "constructed_indefinite" /\ line.star
    BY <1>1, <1>4, <2>2 DEF IsEnd, IsEocTag, IsEndLine
  <2>3. QED BY <2>1, <2>2
<1>6. got'.level = line.level /\ got'.node = node
  BY <1>2, <1>3
<1>7. Extracts(got', taken', stuck')
  BY <1>1, <1>4, <1>5, <1>6 DEF Extracts
<1>8. InHand' = <<Len(taken')>>
  BY <1>2, <1>4, <1>6 DEF InHand
<1>9. QED BY <1>1, <1>2, <1>6, <1>7, <1>8 DEF Kept

LEMMA KeptExtractDefinite ==
  ASSUME KInv, IInv', Regular(taken'), NEW line \in Lines, ExtractDefinite(line)
  PROVE  Kept'
<1>1. /\ Takes(line) /\ ~line.star /\ ~HasContent(line) /\ stuck' = (line.form = "unterminated")
      /\ UNCHANGED <<at, good, got>>
      /\ frames' = Append(frames, [level |-> line.level,
                                   node |-> NodeOf(line, "constructed_definite", << >>)])
  BY DEF ExtractDefinite
<1>2. /\ Kept /\ taken' \in Seq(Lines) /\ taken' # << >> /\ taken'[Len(taken')] = line
      /\ Len(taken') = Len(taken) + 1
      /\ line.form = "none" \/ (line.form = "octets" /\ ~line.star)
      /\ line.level = taken'[1].level + Len(frames) /\ line.level \in Nat
      /\ taken'[1].level \in Nat
      /\ Stacked(frames, taken') /\ Covered(taken', frames, printed', <<Len(taken')>>)
  BY <1>1, KeptRead
<1>3. line.form = "none" /\ ~stuck'
  BY <1>1, <1>2, Zenon DEF HasContent
<1>4. PICK f : f = [level |-> line.level, node |-> NodeOf(line, "constructed_definite", << >>)]
  BY Zenon
<1>5. frames' = Append(frames, f) /\ f.level = line.level /\ Definite(f.node)
      /\ f.node.lines = <<Len(taken')>>
  BY <1>1, <1>4 DEF NodeOf, Definite
<1>6. f \in Frame /\ frames \in Seq(Frame) /\ Len(taken) \in Nat
  <2>1. frames \in Seq(Frame) /\ Len(taken) \in Nat
    BY KeptFacts
  <2>2. 0 \in 0..SizeMax /\ << >> \in Seq(Octet) /\ Len(<< >>) = 0 /\ "constructed_definite" \in TagShape
    BY BerPrintAssumption DEF TagShape
  <2>3. LabelRead(line)
    BY <1>1, KeptRead
  <2>4. f \in Frame
    BY <1>2, <1>4, <2>2, <2>3, NodeTyped, Zenon
  <2>5. QED BY <2>1, <2>4
<1>7. Opens(taken', Len(taken'), f.level, Definite(f.node))
  <2>1. PICK n \in Nat : n = Len(taken) /\ Len(taken') = n + 1
    BY <1>2, <1>6
  <2>2. n + 1 \in 1..n + 1 /\ \A k \in n + 1 + 1..n + 1 : FALSE
    OBVIOUS
  <2>3. QED BY <1>1, <1>2, <1>3, <1>5, <2>1, <2>2 DEF Opens
<1>8. Stacked(frames', taken') /\ frames' # << >> /\ Last(frames') = f
  BY <1>2, <1>5, <1>6, <1>7, StackedMore, Zenon
<1>9. Awaits(taken', Last(frames').level)
  BY <1>2, <1>3, <1>5, <1>8 DEF Awaits
<1>10. Covered(taken', frames', printed', << >>)
  BY <1>2, <1>5, <1>6, CoveredLoop, Zenon
<1>11. at' = "extract" /\ good' /\ InHand' = << >>
  BY <1>1 DEF Takes, InHand
<1>12. QED BY <1>3, <1>8, <1>9, <1>10, <1>11 DEF Kept

LEMMA KeptPush ==
  ASSUME KInv, IInv', Regular(taken'), Push
  PROVE  Kept'
<1>1. /\ at = "returned" /\ good /\ frames # << >> /\ Definite(Top.node)
      /\ got.level = Top.level + 1 /\ at' = "extract"
      /\ ~IsEnd(got.node) /\ got.node.th.shape # "constructed_indefinite"
      /\ UNCHANGED <<good, stuck, got, printed, taken>>
      /\ frames' = [frames EXCEPT ![Len(frames)].node = PushBack(@, got.node)]
  BY DEF Push, InDefinite, IsChild, sink
<1>2. /\ Kept /\ frames \in Seq(Frame) /\ frames' \in Seq(Frame) /\ got \in Frame
      /\ got.node.lines \in Seq(Nat)
  <2>1. frames' \in Seq(Frame)
    BY DEF IInv, Typed
  <2>2. QED BY <1>1, <2>1, KeptFacts DEF KInv
<1>3. PICK n \in Nat \ {0} : /\ n = Len(frames) /\ Top = frames[n] /\ Top \in Frame
                             /\ Top.level = taken[1].level + n - 1 /\ taken # << >>
  BY <1>1, <1>2, InnerLoop
<1>4. PICK h : h = [Top EXCEPT !.node = PushBack(Top.node, got.node)]
  BY Zenon
<1>5. h.level = Top.level /\ h.node = PushBack(Top.node, got.node)
  BY <1>3, <1>4 DEF Frame
<1>6. h.node.lines = Top.node.lines \o got.node.lines /\ Definite(h.node) /\ h \in Frame
  <2>1. Top.node \in Node /\ got.node \in Node
    BY <1>2, <1>3 DEF Frame
  <2>2. /\ PushBack(Top.node, got.node) \in Node
        /\ PushBack(Top.node, got.node).th.shape = Top.node.th.shape
    BY <2>1, PushBackTyped, Zenon
  <2>3. PushBack(Top.node, got.node).lines = Top.node.lines \o got.node.lines
    BY Zenon DEF PushBack
  <2>4. Definite(h.node)
    BY <1>1, <1>5, <2>2 DEF Definite
  <2>5. h \in Frame
    BY <1>3, <1>4, <2>2 DEF Frame
  <2>6. QED BY <1>5, <2>3, <2>4, <2>5
<1>7. frames' = [frames EXCEPT ![n] = h]
  BY <1>1, <1>3, <1>4
<1>8. /\ Len(frames') = n /\ n \in 1..n /\ frames'[n] = h
      /\ \A j \in 1..n : j # n => frames'[j] = frames[j]
  BY <1>2, <1>3, <1>7
<1>9. Stacked(frames', taken)
  <2>1. SUFFICES ASSUME NEW j \in 1..n
                 PROVE  /\ frames'[j].level = taken[1].level + j - 1
                        /\ \E i : Opens(taken, i, frames'[j].level, Definite(frames'[j].node))
    BY <1>8 DEF Stacked
  <2>2. /\ frames[j].level = taken[1].level + j - 1
        /\ \E i : Opens(taken, i, frames[j].level, Definite(frames[j].node))
    BY <1>2, <1>3 DEF Kept, Stacked
  <2>3. frames'[j].level = frames[j].level
    BY <1>3, <1>5, <1>8
  <2>4. Definite(frames'[j].node) <=> Definite(frames[j].node)
    <3>1. CASE j = n
      BY <1>1, <1>3, <1>6, <1>8, <3>1, Zenon
    <3>2. CASE j # n
      BY <1>8, <3>2
    <3>3. QED BY <3>1, <3>2
  <2>5. PICK i : Opens(taken, i, frames[j].level, Definite(frames[j].node))
    BY <2>2
  <2>6. Opens(taken, i, frames'[j].level, Definite(frames'[j].node))
    BY <2>3, <2>4, <2>5 DEF Opens
  <2>7. QED BY <2>2, <2>3, <2>6
<1>10. frames' # << >> /\ Last(frames') = h
  BY <1>2, <1>8, EmptySeq DEF Last
<1>11. ASSUME ~stuck PROVE Awaits(taken, h.level)
  <2>1. Extracts(got, taken, stuck)
    BY <1>1, <1>2 DEF Kept
  <2>2. /\ taken[Len(taken)].level = got.level /\ ~IsEndLine(taken[Len(taken)])
        /\ taken[Len(taken)].form = "octets"
    BY <1>1, <1>11, <2>1 DEF Extracts
  <2>3. QED BY <1>1, <1>5, <2>2 DEF Awaits
<1>12. Covered(taken, frames', printed, << >>)
  <2>1. Covered(taken, frames, printed, got.node.lines)
    BY <1>1, <1>2 DEF Kept, InHand
  <2>2. QED BY <1>2, <1>3, <1>6, <1>7, <2>1, CoveredPush, Zenon
<1>13. InHand' = << >> /\ ~(at' = "returned") /\ ~(at' = "done")
  BY <1>1 DEF InHand
<1>14. QED BY <1>1, <1>9, <1>10, <1>11, <1>12, <1>13 DEF Kept

\* A tag that comes in the loop of a definite one is a child of it.
LEMMA KeptChild ==
  ASSUME KInv, Regular(taken), at = "returned", good, frames # << >>
  PROVE  /\ got.level = Top.level + 1
         /\ Definite(Top.node) => ~IsEnd(got.node)
<1>1. /\ got.level = taken[1].level + Len(frames) /\ taken # << >>
      /\ Extracts(got, taken, stuck) /\ Kept
  BY DEF KInv, Kept
<1>2. PICK n \in Nat \ {0}, v \in Nat :
        n = Len(frames) /\ v = taken[1].level /\ Top.level = v + n - 1
  BY <1>1, InnerLoop, KeptFacts
<1>3. got.level = Top.level + 1
  BY <1>1, <1>2
<1>4. ASSUME Definite(Top.node), IsEnd(got.node) PROVE FALSE
  <2>1. got.node.th.shape = "primitive"
    BY <1>4 DEF IsEnd, IsEocTag
  <2>2. taken[Len(taken)].level = Top.level + 1 /\ IsEndLine(taken[Len(taken)])
    BY <1>1, <1>3, <1>4, <2>1 DEF Extracts
  <2>3. PICK i : Opens(taken, i, Top.level, TRUE)
    <3>1. PICK i : Opens(taken, i, Top.level, Definite(Top.node))
      BY <1>1, InnerLoop
    <3>2. Opens(taken, i, Top.level, TRUE)
      BY <1>4, <3>1 DEF Opens
    <3>3. QED BY <3>2, Zenon
  <2>4. taken \in Seq(Lines)
    BY KeptFacts
  <2>5. ~IsEndLine(taken[Len(taken)])
    BY <2>2, <2>3, <2>4, NoEndInDefinite, Zenon
  <2>6. QED BY <2>2, <2>5
<1>5. QED BY <1>3, <1>4

LEMMA KeptFailureEnds ==
  ASSUME KInv, Regular(taken'), FailureEnds
  PROVE  Kept'
<1>1. /\ at = "returned" /\ frames # << >> /\ Definite(Top.node) /\ ~good
      /\ frames' = Front(frames) /\ at' = "returned" /\ good' = TRUE
      /\ got' = [level |-> Top.level, node |-> Top.node]
      /\ UNCHANGED <<stuck, printed, taken>>
  BY DEF FailureEnds, InDefinite, ReturnsNode, Extracted, sink
<1>2. Kept /\ frames \in Seq(Frame)
  BY <1>1, KeptFacts DEF KInv
<1>3. stuck /\ Stacked(frames, taken) /\ Covered(taken, frames, printed, << >>)
  BY <1>1, <1>2 DEF Kept, InHand
<1>4. Top = Last(frames) /\ taken # << >>
  BY <1>1, <1>2, InnerLoop DEF Top
<1>5. taken[1].level \in Nat
  BY <1>4, KeptFacts
<1>6. Stacked(frames', taken) /\ Top.level = taken[1].level + Len(frames')
  BY <1>1, <1>2, <1>3, <1>4, <1>5, StackedLess
<1>7. Covered(taken, frames', printed, Top.node.lines)
  BY <1>1, <1>2, <1>3, <1>4, CoveredEnd
<1>8. got'.level = Top.level /\ got'.node = Top.node /\ InHand' = Top.node.lines
  BY <1>1 DEF InHand
<1>9. Extracts(got', taken, stuck)
  BY <1>1, <1>3, <1>8 DEF Extracts, Definite
<1>10. QED BY <1>1, <1>4, <1>6, <1>7, <1>8, <1>9 DEF Kept

\* The loop of an indefinite tag ends.
LEMMA KeptEnds ==
  ASSUME KInv, Kept, frames # << >>, ~Definite(Top.node), Ends(frames), UNCHANGED <<good, stuck, taken>>,
         ~good => stuck, Covered(taken, frames, printed', << >>),
         ~stuck => /\ taken[Len(taken)].form = "octets" /\ IsEndLine(taken[Len(taken)])
                   /\ taken[Len(taken)].level = Top.level + 1
  PROVE  Kept'
<1>1. /\ frames' = Front(frames) /\ at' = IF Len(frames) = 1 THEN "done" ELSE "extract"
      /\ UNCHANGED <<good, stuck, taken>>
  BY DEF Ends
<1>2. /\ frames \in Seq(Frame) /\ Stacked(frames, taken) /\ Top = Last(frames) /\ taken # << >>
      /\ Top.level \in Nat
  BY InnerLoop, KeptFacts DEF Kept, Top
<1>3. taken[1].level \in Nat
  BY <1>2, KeptFacts
<1>4. /\ Stacked(frames', taken)
      /\ Len(frames) = 1 => frames' = << >>
      /\ Len(frames) # 1 => frames' # << >> /\ Last(frames').level + 1 = Top.level
  BY <1>1, <1>2, <1>3, StackedLess
<1>5. Covered(taken, frames', printed', << >>)
  BY <1>1, <1>2, CoveredEnd
<1>6. InHand' = << >>
  BY <1>1 DEF InHand
<1>7. ASSUME at' = "extract", ~stuck PROVE Awaits(taken, Last(frames').level)
  <2>1. frames' # << >> /\ Last(frames').level + 1 = Top.level
    BY <1>1, <1>4, <1>7
  <2>2. Last(frames').level \in Nat
    <3>1. frames' \in Seq(Frame)
      BY <1>1, <1>2, FrontFacts
    <3>2. Last(frames') \in Frame
      BY <2>1, <3>1, FrontFacts
    <3>3. QED BY <3>2 DEF Frame
  <2>3. taken[Len(taken)].level = Last(frames').level + 2
    BY <1>7, <2>1, <2>2
  <2>4. QED BY <1>7, <2>3 DEF Awaits
<1>8. QED BY <1>1, <1>4, <1>5, <1>6, <1>7 DEF Kept

LEMMA KeptPrint ==
  ASSUME KInv, Regular(taken'), PrintNode
  PROVE  Kept'
<1>1. /\ at = "returned" /\ good /\ UNCHANGED <<good, stuck, got, taken>>
      /\ frames # << >> => ~Definite(Top.node) /\ got.level = Top.level + 1
      /\ Put(got.node)
  BY DEF PrintNode, AtRoot, InIndefinite, IsChild
<1>2. Kept /\ frames \in Seq(Frame) /\ got \in Frame /\ printed \in Seq(Nat)
      /\ got.node.lines \in Seq(Nat) /\ taken \in Seq(Lines)
  BY <1>1, KeptFacts DEF KInv
<1>3. /\ taken # << >> /\ Extracts(got, taken, stuck) /\ got.level = taken[1].level + Len(frames)
      /\ Stacked(frames, taken) /\ Covered(taken, frames, printed, got.node.lines)
  BY <1>1, <1>2 DEF Kept, InHand
<1>4. Covered(taken, frames, printed', << >>)
  <2>1. printed' = printed \o got.node.lines
    BY <1>1 DEF Put
  <2>2. QED BY <1>2, <1>3, <2>1, CoveredPrint
<1>5. taken[1].level \in Nat
  BY <1>3, KeptFacts
<1>6. PICK last : last = taken[Len(taken)]
  OBVIOUS
<1>7. CASE got.node.th.shape = "constructed_indefinite"
  <2>1. frames' = Append(frames, got) /\ at' = "extract"
    BY <1>7 DEF PrintNode
  <2>2. last.level = got.level /\ last.form = "none" /\ last.star
    BY <1>3, <1>6, <1>7 DEF Extracts
  <2>3. Opens(taken, Len(taken), got.level, Definite(got.node))
    <3>1. PICK n \in Nat \ {0} : n = Len(taken)
      BY <1>2, <1>3, EmptySeq
    <3>2. n \in 1..n /\ \A k \in n + 1..n : FALSE
      OBVIOUS
    <3>3. ~Definite(got.node)
      BY <1>7 DEF Definite
    <3>4. QED BY <1>6, <2>2, <3>1, <3>2, <3>3 DEF Opens
  <2>4. Stacked(frames', taken) /\ frames' # << >> /\ Last(frames') = got
    BY <1>2, <1>3, <1>5, <2>1, <2>3, StackedMore, Zenon
  <2>5. Awaits(taken, Last(frames').level)
    BY <1>6, <2>2, <2>4 DEF Awaits
  <2>6. Covered(taken, frames', printed', << >>)
    BY <1>2, <1>4, <2>1, CoveredBegin
  <2>7. InHand' = << >>
    BY <2>1 DEF InHand
  <2>8. QED BY <1>1, <2>1, <2>4, <2>5, <2>6, <2>7 DEF Kept
<1>8. CASE frames = << >> /\ got.node.th.shape # "constructed_indefinite"
  <2>1. at' = "done" /\ UNCHANGED frames
    BY <1>1, <1>8 DEF PrintNode, AtRoot
  <2>2. InHand' = << >>
    BY <2>1 DEF InHand
  <2>3. QED BY <1>1, <1>3, <1>4, <1>8, <2>1, <2>2 DEF Kept
<1>9. CASE frames # << >> /\ got.node.th.shape # "constructed_indefinite" /\ IsEnd(got.node)
  <2>1. Ends(frames)
    BY <1>9 DEF PrintNode, AtRoot
  <2>2. ~stuck => last.form = "octets" /\ IsEndLine(last) /\ last.level = Top.level + 1
    BY <1>1, <1>3, <1>6, <1>9 DEF Extracts
  <2>3. QED BY <1>1, <1>2, <1>4, <1>6, <1>9, <2>1, <2>2, KeptEnds
<1>10. CASE frames # << >> /\ got.node.th.shape # "constructed_indefinite" /\ ~IsEnd(got.node)
  <2>1. at' = "extract" /\ UNCHANGED frames
    BY <1>10 DEF PrintNode, AtRoot
  <2>2. ~stuck => last.form = "octets" /\ ~IsEndLine(last) /\ last.level = Top.level + 1
    BY <1>1, <1>3, <1>6, <1>10 DEF Extracts
  <2>3. ~stuck => Awaits(taken, Last(frames).level)
    BY <1>6, <2>2 DEF Awaits, Top
  <2>4. InHand' = << >>
    BY <2>1 DEF InHand
  <2>5. QED BY <1>1, <1>3, <1>4, <1>10, <2>1, <2>3, <2>4 DEF Kept
<1>11. QED BY <1>7, <1>8, <1>9, <1>10

LEMMA KeptInductive ==
  ASSUME KInv, [Next]_vars
  PROVE  KInv'
<1>1. IInv'
  BY Inductive DEF KInv
<1>2. SUFFICES ASSUME Regular(taken') PROVE Kept'
  BY <1>1 DEF KInv
<1>3. ASSUME UNCHANGED taken PROVE Kept /\ Regular(taken)
  BY <1>2, <1>3 DEF KInv
<1>4. ASSUME ExtractFails PROVE Kept'
  BY <1>2, <1>4, KeptExtractionFails
<1>5. ASSUME NEW line \in Lines, ExtractBadLabel(line) \/ ExtractBadContent(line) PROVE Kept'
  <2>1. Takes(line)
    BY <1>5 DEF ExtractBadLabel, ExtractBadContent
  <2>2. LabelRead(line) /\ (line.form = "none" \/ (line.form = "octets" /\ ~line.star))
    BY <1>2, <2>1, KeptRead
  <2>3. QED BY <1>5, <2>2 DEF ExtractBadLabel, ExtractBadContent, HasContent
<1>6. ASSUME NEW line \in Lines, ExtractPrimitive(line) PROVE Kept'
  <2>1. /\ Takes(line) /\ UNCHANGED <<frames, good>> /\ line.form = "octets"
        /\ Extracted(line.level, NodeOf(line, "primitive", Content(line)))
    BY <1>6 DEF ExtractPrimitive
  <2>2. QED BY <1>2, <2>1, KeptExtraction
<1>7. ASSUME NEW line \in Lines, ExtractDefinite(line) PROVE Kept'
  BY <1>1, <1>2, <1>7, KeptExtractDefinite
<1>8. ASSUME NEW line \in Lines, ExtractIndefinite(line) PROVE Kept'
  <2>1. /\ Takes(line) /\ UNCHANGED <<frames, good>> /\ line.star
        /\ Extracted(line.level, NodeOf(line, "constructed_indefinite", << >>))
    BY <1>8 DEF ExtractIndefinite
  <2>2. QED BY <1>2, <2>1, KeptExtraction
<1>9. ASSUME Push PROVE Kept'
  BY <1>1, <1>2, <1>9, KeptPush
<1>10. ASSUME PushThrows PROVE Kept'
  <2>1. at' = "terminated" /\ UNCHANGED <<frames, good, stuck, taken>>
    BY <1>10 DEF PushThrows
  <2>2. QED BY <1>3, <2>1 DEF Kept
<1>11. ASSUME SiblingEnds \/ Invalid PROVE Kept'
  <2>1. /\ at = "returned" /\ good /\ frames # << >> /\ Definite(Top.node) /\ UNCHANGED taken
        /\ got.level = Top.level \/ IsEnd(got.node) \/ got.level \notin {Top.level, Top.level + 1}
    BY <1>11 DEF SiblingEnds, Invalid, InDefinite, ReturnsNode
  <2>2. Top.level \in Nat
    BY <1>3, <2>1, InnerLoop
  <2>3. got.level = Top.level + 1 /\ ~IsEnd(got.node)
    BY <1>3, <2>1, KeptChild
  <2>4. QED BY <2>1, <2>2, <2>3
<1>12. ASSUME FailureEnds PROVE Kept'
  BY <1>2, <1>12, KeptFailureEnds
<1>13. ASSUME PrintNode PROVE Kept'
  BY <1>2, <1>13, KeptPrint
<1>14. ASSUME PrintBreaks PROVE Kept'
  <2>1. /\ at = "returned" /\ frames # << >> /\ ~Definite(Top.node) /\ Ends(frames)
        /\ ~(good /\ got.level = Top.level + 1) /\ UNCHANGED <<good, stuck, printed, taken>>
    BY <1>14 DEF PrintBreaks, InIndefinite, IsChild, sink
  <2>2. ~good
    BY <1>3, <2>1, KeptChild
  <2>3. stuck /\ Covered(taken, frames, printed', << >>)
    BY <1>3, <2>1, <2>2 DEF Kept, InHand
  <2>4. QED BY <1>3, <2>1, <2>3, KeptEnds
<1>15. ASSUME NothingToPrint PROVE Kept'
  <2>1. /\ at = "returned" /\ frames = << >> /\ ~good /\ at' = "done"
        /\ UNCHANGED <<frames, good, stuck, printed, taken>>
    BY <1>15 DEF NothingToPrint, AtRoot, sink
  <2>2. InHand = << >> /\ InHand' = << >>
    BY <2>1 DEF InHand
  <2>3. QED BY <1>3, <2>1, <2>2 DEF Kept
<1>16. ASSUME UNCHANGED vars PROVE Kept'
  <2>1. UNCHANGED <<at, frames, good, stuck, got, printed, taken>>
    BY <1>16 DEF vars, sink
  <2>2. InHand' = InHand
    BY <2>1 DEF InHand
  <2>3. QED BY <1>3, <2>1, <2>2 DEF Kept
<1>17. QED
  BY <1>4, <1>5, <1>6, <1>7, <1>8, <1>9, <1>10, <1>11, <1>12, <1>13, <1>14, <1>15, <1>16, Zenon
     DEF Next

LEMMA AlwaysKept == Spec => []KInv
<1>1. Init => KInv
  BY Initial, KeptInitial DEF KInv
<1>2. KInv /\ [Next]_vars => KInv'
  BY KeptInductive
<1>3. QED BY <1>1, <1>2, PTL DEF Spec

\* Ascending lines of a text among which is each of its lines are all of them.
LEMMA AllOfThem ==
  ASSUME taken \in Seq(Lines), printed \in Seq(1..Len(taken)),
         printed # << >> => Nest(taken, printed, taken[printed[1]].level),
         \A i \in 1..Len(taken) : Has(printed, i)
  PROVE  printed = AllLines
<1>1. PICK n \in Nat, m \in Nat :
        n = Len(taken) /\ m = Len(printed) /\ DOMAIN taken = 1..n
  BY LenProperties
<1>2. \A k \in 1..m : printed[k] \in 1..n
  BY <1>1, ElementOfSeq
<1>3. \A k \in 2..m : printed[k - 1] < printed[k]
  <2>1. TAKE k \in 2..m
  <2>2. printed # << >>
    BY <1>1
  <2>3. QED BY <1>1, <2>2 DEF Nest
<1>4. ASSUME NEW k \in 1..m PROVE \A j \in k..m : j - k <= printed[j] - printed[k]
  <2> DEFINE T == {j \in k..m : ~(j - k <= printed[j] - printed[k])}
  <2>1. SUFFICES ASSUME T # {} PROVE FALSE
    OBVIOUS
  <2>2. PICK j \in T : \A x \in T : j <= x
    <3>1. T \subseteq Nat
      OBVIOUS
    <3> HIDE DEF T
    <3>2. QED BY <2>1, <3>1, LeastNatural, Zenon
  <2>3. j # k
    BY <1>2
  <2>4. j - 1 \in k..m /\ j - 1 \in 1..m /\ j \in 2..m /\ j \in 1..m /\ ~(j <= j - 1)
    BY <2>3
  <2>5. j - 1 \notin T
    BY <2>2, <2>4
  <2>6. PICK a \in Nat, b \in Nat, c \in Nat : a = printed[k] /\ b = printed[j - 1] /\ c = printed[j]
    BY <1>2, <2>4
  <2>7. (j - 1) - k <= b - a /\ b < c
    BY <1>3, <2>4, <2>5, <2>6
  <2>8. ~(j - k <= c - a)
    BY <2>6
  <2>9. QED BY <2>7, <2>8
<1>5. \A i \in 1..n : \E k \in 1..m : printed[k] = i
  BY <1>1 DEF Has
<1>6. ASSUME NEW k \in 1..m PROVE printed[k] >= k
  <2>1. 1 \in 1..m /\ k \in 1..m /\ k \in 1..m
    OBVIOUS
  <2>2. PICK a \in Nat, b \in Nat : a = printed[1] /\ b = printed[k] /\ a >= 1
    BY <1>2, <2>1
  <2>3. k - 1 <= b - a
    BY <1>4, <2>1, <2>2
  <2>4. QED BY <2>2, <2>3
<1>7. ASSUME NEW k \in 1..m, printed[k] # k PROVE FALSE
  <2> DEFINE T == {j \in 1..m : printed[j] # j}
  <2>1. PICK j \in T : \A x \in T : j <= x
    <3>1. T \subseteq Nat /\ T # {}
      BY <1>7
    <3> HIDE DEF T
    <3>2. QED BY <3>1, LeastNatural, Zenon
  <2>2. PICK a \in 1..n : a = printed[j] /\ a > j
    BY <1>2, <1>6
  <2>3. j \in 1..n
    BY <2>2
  <2>4. PICK i \in 1..m : printed[i] = j
    BY <1>5, <2>3
  <2>5. CASE i < j
    <3>1. i \notin T
      BY <2>1, <2>5
    <3>2. QED BY <2>4, <2>5, <3>1
  <2>6. CASE ~(i < j)
    <3>1. i \in j..m
      BY <2>6
    <3>2. i - j <= j - a
      BY <1>4, <2>2, <2>4, <3>1
    <3>3. QED BY <2>2, <2>6, <3>2
  <2>7. QED BY <2>5, <2>6
<1>8. m = n
  <2>1. ~(m > n)
    <3>1. m > n => m \in 1..m
      OBVIOUS
    <3>2. QED BY <1>2, <1>7, <3>1
  <2>2. ~(m < n)
    <3>1. m < n => m + 1 \in 1..n
      OBVIOUS
    <3>2. \A k \in 1..m : printed[k] # m + 1
      BY <1>7
    <3>3. QED BY <1>5, <3>1, <3>2, Zenon
  <2>3. QED BY <2>1, <2>2
<1>9. printed = [k \in 1..n |-> k]
  <2>1. printed = [k \in 1..m |-> printed[k]]
    BY <1>1
  <2>2. \A k \in 1..m : printed[k] = k
    BY <1>7
  <2>3. QED BY <1>8, <2>1, <2>2
<1>10. QED BY <1>1, <1>9 DEF AllLines

\* At the end all lines are printed, as they are when another one is read in the loops
\* of indefinite tags.
LEMMA AllPrinted ==
  ASSUME KInv, Tree,
         \/ at = "done"
         \/ at = "extract" /\ \A i \in DOMAIN taken : taken[i].star \/ taken[i].form = "octets"
  PROVE  printed = AllLines
<1>1. /\ frames \in Seq(Frame) /\ taken \in Seq(Lines) /\ printed \in Seq(1..Len(taken))
      /\ printed # << >> => Nest(taken, printed, taken[printed[1]].level)
  BY Invariant DEF KInv, Prints
<1>2. Kept
  BY <1>1, TreeRegular DEF KInv
<1>3. Covered(taken, frames, printed, << >>) /\ Stacked(frames, taken)
  BY <1>2 DEF Kept, InHand
<1>4. \A i : ~Has(<< >>, i)
  BY DEF Has
<1>5. \A j \in 1..Len(frames) : ~Definite(frames[j].node)
  <2>1. CASE at = "done"
    <3>1. frames = << >>
      BY <1>2, <2>1 DEF Kept
    <3>2. QED BY <3>1
  <2>2. CASE at = "extract" /\ \A i \in DOMAIN taken : taken[i].star \/ taken[i].form = "octets"
    <3>1. TAKE j \in 1..Len(frames)
    <3>2. PICK i : Opens(taken, i, frames[j].level, Definite(frames[j].node))
      BY <1>3 DEF Stacked
    <3>3. i \in DOMAIN taken /\ taken[i].form = "none" /\ (taken[i].star <=> ~Definite(frames[j].node))
      BY <1>1, <3>2, LenProperties DEF Opens
    <3>4. QED BY <2>2, <3>3
  <2>3. QED BY <2>1, <2>2
<1>6. \A i \in 1..Len(taken) : Has(printed, i)
  BY <1>3, <1>4, <1>5 DEF Covered, InLoops
<1>7. QED BY <1>1, <1>6, AllOfThem

-----------------------------------------------------------------------------
(* The octets put, read as tags.                                           *)

\* The identifier of a header, and its length octets, of which the first one tells how
\* many there are.
LEMMA IdentifierOctets ==
  ASSUME NEW h \in Header, NEW is, is = Enc!EncodedIdentifier(h)
  PROVE  is \in Seq(Octet) /\ Len(is) \in Nat \ {0} /\ IdentifierDenotes(is, h)
<1>1. IdentifierPut(is, h)
  BY HeadersEncodable, SameEncoder, IdentifierOfHeader, Zenon
<1>2. IdentifierDenotes(is, h)
  BY <1>1, Zenon DEF IdentifierPut,
     IdentifierDenotes, Encoder!IdentifierDenotes, Class, Encoder!Class, Constructed,
     Encoder!Constructed, LowNumber, Encoder!LowNumber, HighForm, Encoder!HighForm, More,
     Encoder!More, Groups, Encoder!Groups, Low7, Encoder!Low7, Value, Encoder!Value
<1>3. is \in Seq(Octet) /\ Len(is) \in Nat
  BY <1>1, LenProperties DEF IdentifierPut
<1>4. Len(is) = 1 \/ Len(is) > 1
  BY <1>2 DEF IdentifierDenotes
<1>5. QED BY <1>2, <1>3, <1>4

LEMMA LengthOctets ==
  ASSUME NEW h \in Header, NEW ls, ls = Enc!EncodedLength(h)
  PROVE  /\ ls \in Seq(Octet) /\ Len(ls) \in Nat \ {0} /\ ls[1] \in Octet
         /\ h.shape = "constructed_indefinite" => ls[1] = 128 /\ Len(ls) = 1
         /\ h.shape # "constructed_indefinite" =>
              /\ ls[1] # 128
              /\ ls[1] < 128 => Len(ls) = 1 /\ ls[1] = h.length
              /\ ls[1] > 128 => Len(ls) = 1 + (ls[1] - 128)
              /\ ls[1] = 129 => ls[2] = h.length
<1>1. Encodable(h) /\ ls = Encoder!EncodedLength(h)
  BY HeadersEncodable, SameEncoder, Zenon
<1>2. QED BY <1>1, LengthFirst

\* A header is read where it stands: behind its identifier are its length octets, and
\* behind these what it is the header of.
IdentifierStands(h, m, b) ==
  /\ m = Len(Enc!EncodedIdentifier(h)) /\ b + m < Len(out)
  /\ \A i \in 1..m : out[b + i] = Enc!EncodedIdentifier(h)[i]

LEMMA IdentifierRead ==
  ASSUME out \in Seq(Octet), NEW h \in Header, NEW m \in Nat \ {0}, NEW b \in Nat,
         IdentifierStands(h, m, b)
  PROVE  /\ IdentifierEnd(b + 1) = b + m + 1
         /\ SubSeq(out, b + 1, b + m) = Enc!EncodedIdentifier(h)
<1>1. PICK is :
        /\ is = Enc!EncodedIdentifier(h) /\ m = Len(is) /\ b + m < Len(out)
        /\ \A i \in 1..m : out[b + i] = is[i]
  BY DEF IdentifierStands
<1>2. is \in Seq(Octet) /\ IdentifierDenotes(is, h)
  BY <1>1, IdentifierOctets
<1>3. 1 \in 1..m /\ out[b + 1] = is[1]
  <2>1. 1 \in 1..m
    OBVIOUS
  <2>2. QED BY <1>1, <2>1
<1>4. PICK q \in Nat : q = Len(out)
  BY LenProperties
<1>5. IdentifierEnd(b + 1) = b + m + 1
  <2>1. CASE m = 1
    <3>1. LowNumber(out[b + 1]) = h.number /\ h.number < 31
      BY <1>1, <1>2, <1>3, <2>1 DEF IdentifierDenotes, HighForm
    <3>2. h.number \in Nat
      BY BerPrintAssumption DEF Header
    <3>3. LowNumber(out[b + 1]) # HighForm
      BY <3>1, <3>2 DEF HighForm
    <3>4. IdentifierEnd(b + 1) = (b + 1) + 1
      BY <3>3 DEF IdentifierEnd
    <3>5. QED BY <2>1, <3>4
  <2>2. CASE m # 1
    <3>1. LowNumber(out[b + 1]) = HighForm /\ \A i \in 2..m : More(is[i]) <=> i < m
      BY <1>1, <1>2, <1>3, <2>2 DEF IdentifierDenotes
    <3> DEFINE T == {x \in (b + 1) + 1..q : ~More(out[x])} \cup {q}
    <3>2. b + m \in T
      <4>1. m \in 2..m /\ m \in 1..m /\ ~(m < m) /\ b + m \in (b + 1) + 1..q
        BY <1>1, <1>4, <2>2
      <4>2. out[b + m] = is[m] /\ ~More(is[m])
        BY <1>1, <3>1, <4>1
      <4>3. QED BY <4>1, <4>2
    <3>3. ASSUME NEW x \in T PROVE x \in Nat /\ b + m <= x
      <4>1. CASE x = q
        BY <1>1, <1>4, <4>1
      <4>2. CASE x # q
        <5>1. x \in (b + 1) + 1..q /\ ~More(out[x])
          BY <4>2
        <5>2. SUFFICES ASSUME ~(b + m <= x) PROVE FALSE
          BY <5>1
        <5>3. PICK i \in Nat : i = x - b
          BY <5>1
        <5>4. i \in 2..m /\ i \in 1..m /\ i < m /\ x = b + i
          BY <5>1, <5>2, <5>3
        <5>5. out[x] = is[i] /\ More(is[i])
          BY <1>1, <3>1, <5>4
        <5>6. QED BY <5>1, <5>5
      <4>3. QED BY <4>1, <4>2
    <3>4. PICK a \in Nat : a = b + m
      OBVIOUS
    <3> HIDE DEF T
    <3>5. a \in T /\ \A x \in T : a <= x
      BY <3>2, <3>3, <3>4
    <3>6. \A x \in T : (\A y \in T : x <= y) => x = a
      BY <3>3, <3>5
    <3>7. Min(T) = a
      BY <3>5, <3>6, Zenon DEF Min
    <3>8. IdentifierEnd(b + 1) = Min(T) + 1
      BY <1>4, <3>1 DEF IdentifierEnd, T
    <3>9. QED BY <3>4, <3>7, <3>8
  <2>3. QED BY <2>1, <2>2
<1>6. SubSeq(out, b + 1, b + m) = is
  <2>1. PICK v : v = SubSeq(out, b + 1, b + m)
    BY Zenon
  <2>2. b + m \in 0..Len(out) /\ b + 1 \in 1..(b + m) + 1 /\ (b + m) + 1 - (b + 1) = m
    <3>1. b + m < q
      BY <1>1, <1>4, Zenon
    <3>2. b + m \in 0..q /\ b + 1 \in 1..(b + m) + 1 /\ (b + m) + 1 - (b + 1) = m
      BY <3>1
    <3>3. QED BY <1>4, <3>2, Zenon
  <2>3. v \in Seq(Octet) /\ Len(v) = m /\ \A i \in 1..m : v[i] = out[b + 1 + i - 1]
    BY <1>1, <2>1, <2>2, SubSeqFacts
  <2>4. \A i \in 1..m : v[i] = is[i]
    <3>1. TAKE i \in 1..m
    <3>2. b + 1 + i - 1 = b + i
      OBVIOUS
    <3>3. QED BY <1>1, <2>3, <3>2
  <2>5. QED BY <1>1, <1>2, <2>1, <2>3, <2>4, SeqEqual, Zenon
<1>7. QED BY <1>1, <1>5, <1>6, Zenon

HeaderStands(h, z, b) ==
  /\ z = Len(Enc!EncodedHeader(h)) /\ b + z <= Len(out)
  /\ \A i \in 1..z : out[b + i] = Enc!EncodedHeader(h)[i]

LEMMA HeadRead ==
  ASSUME out \in Seq(Octet), NEW h \in Header, NEW z \in Nat, NEW b \in Nat, HeaderStands(h, z, b)
  PROVE  /\ Complete(b + 1) /\ HeadEnd(b + 1) = b + z + 1
         /\ Constructed(out[b + 1]) <=> h.shape # "primitive"
         /\ IdentifierDenotes(SubSeq(out, b + 1, IdentifierEnd(b + 1) - 1), h)
         /\ h.shape = "constructed_indefinite" => out[b + z] = Indefinite
         /\ h.shape # "constructed_indefinite" /\ ~(out[IdentifierEnd(b + 1)] > Indefinite + 1) =>
              TagEnd(b + 1) = b + z + 1 + h.length
<1>1. PICK g : /\ g = Enc!EncodedHeader(h) /\ z = Len(g)
               /\ b + z <= Len(out) /\ \A i \in 1..z : out[b + i] = g[i]
  BY DEF HeaderStands
<1>2. PICK is, ls : is = Enc!EncodedIdentifier(h) /\ ls = Enc!EncodedLength(h)
  OBVIOUS
<1>3. /\ is \in Seq(Octet) /\ ls \in Seq(Octet) /\ g = is \o ls
      /\ IdentifierDenotes(is, h)
  BY <1>1, <1>2, IdentifierOctets, LengthOctets DEF Enc!EncodedHeader
<1>4. PICK m \in Nat \ {0}, c \in Nat \ {0} : m = Len(is) /\ c = Len(ls)
  BY <1>2, IdentifierOctets, LengthOctets
<1>5. z = m + c /\ (\A i \in 1..m : g[i] = is[i]) /\ (\A i \in 1..c : g[m + i] = ls[i])
  BY <1>1, <1>3, <1>4, JoinFacts
<1>6. PICK q \in Nat : q = Len(out) /\ DOMAIN out = 1..q
  BY LenProperties
<1>7. \A i \in 1..m : out[b + i] = is[i]
  <2>1. \A i \in 1..m : i \in 1..z
    BY <1>5
  <2>2. QED BY <1>1, <1>5, <2>1
<1>8. \A i \in 1..c : out[b + m + i] = ls[i]
  <2>1. TAKE i \in 1..c
  <2>2. m + i \in 1..z /\ b + (m + i) = b + m + i
    BY <1>5
  <2>3. out[b + (m + i)] = g[m + i]
    BY <1>1, <2>2
  <2>4. QED BY <1>5, <2>2, <2>3
<1>9. b + m < q
  BY <1>1, <1>5, <1>6
<1>10. /\ IdentifierEnd(b + 1) = b + m + 1
       /\ Constructed(out[b + 1]) <=> h.shape # "primitive"
       /\ SubSeq(out, b + 1, b + m) = is
  <2>1. b + m < Len(out) /\ m = Len(is) /\ is = Enc!EncodedIdentifier(h)
    BY <1>2, <1>4, <1>6, <1>9
  <2>2. IdentifierStands(h, m, b)
    BY <1>7, <2>1 DEF IdentifierStands
  <2>3. /\ IdentifierEnd(b + 1) = b + m + 1
        /\ SubSeq(out, b + 1, b + m) = Enc!EncodedIdentifier(h)
    BY <2>2, IdentifierRead, Zenon
  <2>4. Constructed(out[b + 1]) <=> h.shape # "primitive"
    <3>1. 1 \in 1..m
      OBVIOUS
    <3>2. out[b + 1] = is[1]
      BY <1>7, <3>1
    <3>3. QED BY <1>3, <3>2 DEF IdentifierDenotes
  <2>5. QED BY <2>1, <2>3, <2>4
<1>11. PICK f \in 0..255 : f = ls[1] /\ f = out[b + m + 1]
  <2>1. 1 \in 1..c
    OBVIOUS
  <2>2. out[b + m + 1] = ls[1]
    BY <1>8, <2>1
  <2>3. ls[1] \in Octet
    BY <1>2, LengthOctets
  <2>4. QED BY <2>2, <2>3, Zenon DEF Octet
<1>12. /\ h.shape = "constructed_indefinite" => f = 128 /\ c = 1
       /\ h.shape # "constructed_indefinite" =>
            /\ f # 128
            /\ f < 128 => c = 1 /\ f = h.length
            /\ f > 128 => c = 1 + (f - 128)
            /\ f = 129 => ls[2] = h.length
  <2>1. /\ h.shape = "constructed_indefinite" => ls[1] = 128 /\ Len(ls) = 1
        /\ h.shape # "constructed_indefinite" =>
             /\ ls[1] # 128
             /\ ls[1] < 128 => Len(ls) = 1 /\ ls[1] = h.length
             /\ ls[1] > 128 => Len(ls) = 1 + (ls[1] - 128)
             /\ ls[1] = 129 => ls[2] = h.length
    BY <1>2, LengthOctets
  <2>2. QED BY <1>4, <1>11, <2>1
<1>13. HeadEnd(b + 1) = b + z + 1
  <2>1. HeadEnd(b + 1) = (b + m + 1) + (IF f > 128 THEN f - 128 ELSE 0) + 1
    BY <1>10, <1>11 DEF HeadEnd, Indefinite
  <2>2. PICK e \in Nat : e = IF f > 128 THEN f - 128 ELSE 0
    OBVIOUS
  <2>3. c = 1 + e
    BY <1>12, <2>2
  <2>4. HeadEnd(b + 1) = (b + m + 1) + e + 1
    BY <2>1, <2>2
  <2>5. QED BY <1>5, <2>3, <2>4
<1>14. Complete(b + 1)
  <2>1. b + 1 \in 1..q /\ b + m + 1 \in 1..q /\ b + z + 1 <= q + 1
    BY <1>1, <1>5, <1>6
  <2>2. QED BY <1>6, <1>10, <1>13, <2>1 DEF Complete
<1>15. IdentifierDenotes(SubSeq(out, b + 1, IdentifierEnd(b + 1) - 1), h)
  <2>1. IdentifierEnd(b + 1) - 1 = b + m
    BY <1>10
  <2>2. QED BY <1>3, <1>10, <2>1, Zenon
<1>16. ASSUME h.shape = "constructed_indefinite" PROVE out[b + z] = Indefinite
  <2>1. b + z = b + m + 1 /\ f = 128
    BY <1>5, <1>12, <1>16
  <2>2. QED BY <1>11, <2>1, Zenon DEF Indefinite
<1>17. ASSUME h.shape # "constructed_indefinite", ~(out[IdentifierEnd(b + 1)] > Indefinite + 1)
       PROVE  TagEnd(b + 1) = b + z + 1 + h.length
  <2>1. f <= 129 /\ f # 128 /\ out[IdentifierEnd(b + 1)] = f
    BY <1>10, <1>11, <1>12, <1>17 DEF Indefinite
  <2>2. CASE f < 128
    <3>1. TagEnd(b + 1) = HeadEnd(b + 1) + f
      BY <2>1, <2>2 DEF TagEnd, Indefinite
    <3>2. QED BY <1>12, <1>13, <1>17, <2>2, <3>1
  <2>3. CASE f = 129
    <3>1. TagEnd(b + 1) = HeadEnd(b + 1)
            + Value(256, SubSeq(out, IdentifierEnd(b + 1) + 1, HeadEnd(b + 1) - 1))
      BY <2>1, <2>3 DEF TagEnd, Indefinite
    <3>2. c = 2 /\ ls[2] = h.length
      BY <1>12, <1>17, <2>3
    <3>3. PICK x \in Nat : x = b + m + 2
      OBVIOUS
    <3>4. IdentifierEnd(b + 1) + 1 = x /\ HeadEnd(b + 1) - 1 = x
      BY <1>5, <1>10, <1>13, <3>2, <3>3
    <3>5. x \in 1..q /\ 2 \in 1..c /\ out[x] = ls[2]
      <4>1. 2 \in 1..c
        BY <3>2
      <4>2. out[b + m + 2] = ls[2]
        BY <1>8, <4>1
      <4>3. x \in 1..q
        BY <1>1, <1>5, <1>6, <3>2, <3>3
      <4>4. QED BY <3>3, <4>1, <4>2, <4>3
    <3>6. SubSeq(out, x, x) = <<h.length>>
      <4>1. PICK v : v = SubSeq(out, x, x)
        BY Zenon
      <4>2. x \in 0..Len(out) /\ x \in 1..x + 1 /\ x + 1 - x = 1 /\ 1 \in 1..1 /\ x + 1 - 1 = x
        BY <1>6, <3>5
      <4>3. v \in Seq(Octet) /\ Len(v) = 1 /\ \A i \in 1..1 : v[i] = out[x + i - 1]
        BY <4>1, <4>2, SubSeqFacts
      <4>4. v[1] = h.length
        BY <3>2, <3>5, <4>2, <4>3
      <4>5. <<h.length>> \in Seq(Octet) /\ Len(<<h.length>>) = 1 /\ <<h.length>>[1] = h.length
        <5>1. v[1] \in Octet
          BY <4>2, <4>3, ElementOfSeq
        <5>2. QED BY <4>4, <5>1
      <4>6. \A i \in 1..1 : v[i] = <<h.length>>[i]
        BY <4>4, <4>5
      <4>7. QED BY <4>1, <4>3, <4>5, <4>6, SeqEqual, Zenon
    <3>7. h.length \in Nat
      BY BerPrintAssumption DEF Header
    <3>8. Value(256, <<h.length>>) = h.length
      BY <3>7, ValueSingle
    <3>9. QED BY <1>13, <3>1, <3>4, <3>6, <3>8, Zenon
  <2>4. QED BY <2>1, <2>2, <2>3
<1>18. QED BY <1>10, <1>13, <1>14, <1>15, <1>16, <1>17


\* From the kth tag the next one is reached, and from a tag that is not indefinite the
\* one it ends before.
LEMMA TagRead ==
  ASSUME taken \in Seq(Lines), NEW bs, NEW ns, Placed(taken, printed, bs, ns, out),
         Measured(taken, printed, bs, ns), NEW k \in 1..Len(printed),
         NEW l, l = taken[printed[k]], NEW p, p = bs[k] + 1
  PROVE  /\ Complete(p)
         /\ IdentifierDenotes(SubSeq(out, p, IdentifierEnd(p) - 1), HeaderOf(l, 0))
         /\ l.star => HeadEnd(p) = bs[k + 1] + 1 /\ out[HeadEnd(p) - 1] = Indefinite
         /\ Len(out) <= SizeMax /\ ~(out[IdentifierEnd(p)] > Indefinite + 1) =>
              /\ NextTag(p) = bs[k + 1] + 1
              /\ ~l.star => TagEnd(p) = bs[After(printed, k)] + 1
<1>1. PICK n \in Nat, q \in Nat : n = Len(printed) /\ q = Len(out)
  BY Rising
<1>2. /\ printed \in Seq(1..Len(taken)) /\ out \in Seq(Octet)
      /\ k \in 1..n /\ k \in 1..n + 1 /\ k + 1 \in 1..n + 1
  BY <1>1 DEF Placed
<1>3. PICK h, own : h = HeaderOf(l, ns[k]) /\ own = Own(l)
  OBVIOUS
<1>4. l \in Lines /\ own \in Seq(Octet) /\ Len(own) \in 0..SizeMax
  <2>1. printed[k] \in 1..Len(taken)
    BY <1>2, ElementOfSeq
  <2>2. l \in Lines
    BY <2>1, ElementOfSeq
  <2>3. QED BY <1>3, <2>2, OwnTyped
<1>5. h \in Header /\ Stands(bs, out, k, TagOf(l, ns[k])) /\ MeasuredAt(taken, printed, bs, ns, k)
  BY <1>1, <1>2, <1>3 DEF Placed, Measured
<1>6. PICK g \in Seq(Octet), z \in Nat, w \in Nat :
        /\ g = Enc!EncodedHeader(h) /\ z = Len(g) /\ w = Len(own) /\ TagOf(l, ns[k]) = g \o own
  <2>1. Enc!EncodedHeader(h) \in Seq(Octet)
    BY <1>5, HeaderPut
  <2>2. TagOf(l, ns[k]) = Enc!EncodedHeader(h) \o own
    BY <1>3 DEF TagOf
  <2>3. QED BY <1>4, <2>1, <2>2, LenProperties, Zenon
<1>7. /\ Len(g \o own) = z + w
      /\ \A i \in 1..z : (g \o own)[i] = g[i]
  BY <1>4, <1>6, JoinFacts
<1>8. PICK a \in Nat, b \in Nat : /\ a = bs[k] /\ b = bs[k + 1] /\ p = a + 1
                                  /\ b = a + (z + w) /\ b <= q
  <2>1. bs[k] \in Nat /\ bs[k + 1] \in Nat /\ bs[k + 1] <= q
    BY <1>1, <1>2, Rising, Zenon
  <2>2. bs[k + 1] = bs[k] + (z + w)
    BY <1>5, <1>6, <1>7 DEF Stands
  <2>3. QED BY <2>1, <2>2, Zenon
<1>9. \A i \in 1..z : out[a + i] = g[i]
  <2>1. TAKE i \in 1..z
  <2>2. i \in 1..z + w
    BY <1>6
  <2>3. out[a + i] = (g \o own)[i]
    BY <1>5, <1>6, <1>7, <1>8, <2>2, Zenon DEF Stands
  <2>4. QED BY <1>7, <2>3, Zenon
<1>10. a + z <= Len(out)
  BY <1>1, <1>8
<1>11. HeaderStands(h, z, a)
  BY <1>5, <1>6, <1>9, <1>10 DEF HeaderStands
<1>12. /\ Complete(a + 1) /\ HeadEnd(a + 1) = a + z + 1
       /\ Constructed(out[a + 1]) <=> h.shape # "primitive"
       /\ IdentifierDenotes(SubSeq(out, a + 1, IdentifierEnd(a + 1) - 1), h)
       /\ h.shape = "constructed_indefinite" => out[a + z] = Indefinite
       /\ h.shape # "constructed_indefinite" /\ ~(out[IdentifierEnd(a + 1)] > Indefinite + 1) =>
            TagEnd(a + 1) = a + z + 1 + h.length
  <2>1. out \in Seq(Octet) /\ h \in Header /\ z \in Nat /\ a \in Nat
    BY <1>2, <1>5, <1>6, <1>8
  <2>2. QED BY <1>11, <2>1, HeadRead, Zenon
<1>13. h.shape = Shape(l) /\ h.length = ns[k]
  BY <1>3 DEF HeaderOf
<1>14. IdentifierDenotes(SubSeq(out, p, IdentifierEnd(p) - 1), HeaderOf(l, 0))
  <2>1. IdentifierDenotes(SubSeq(out, p, IdentifierEnd(p) - 1), HeaderOf(l, ns[k]))
    BY <1>3, <1>8, <1>12
  <2>2. QED BY <2>1, Zenon DEF IdentifierDenotes, HeaderOf
<1>15. l.form # "octets" => own = << >> /\ w = 0
  BY <1>3, <1>6, EmptySeq DEF Own
<1>16. ASSUME l.star
       PROVE  /\ HeadEnd(p) = bs[k + 1] + 1 /\ out[HeadEnd(p) - 1] = Indefinite
              /\ NextTag(p) = bs[k + 1] + 1
  <2>1. h.shape = "constructed_indefinite"
    BY <1>13, <1>16 DEF Shape
  <2>2. w = 0
    BY <1>5, <1>15, <1>16 DEF MeasuredAt
  <2>3. HeadEnd(p) = b + 1 /\ HeadEnd(p) - 1 = a + z
    BY <1>8, <1>12, <2>2
  <2>4. NextTag(p) = HeadEnd(p)
    BY <1>8, <1>12, <2>1 DEF NextTag
  <2>5. QED BY <1>8, <1>12, <2>1, <2>3, <2>4, Zenon
<1>17. ASSUME ~l.star, Len(out) <= SizeMax, ~(out[IdentifierEnd(p)] > Indefinite + 1)
       PROVE  NextTag(p) = bs[k + 1] + 1 /\ TagEnd(p) = bs[After(printed, k)] + 1
  <2>1. PICK e \in k + 1..n + 1 :
          /\ Ending(taken, printed, k, e)
          /\ l.form = "octets" => e = k + 1
          /\ ns[k] = Truncated(SizeMax, w + (bs[e] - b))
    BY <1>1, <1>3, <1>5, <1>6, <1>8, <1>17 DEF MeasuredAt
  <2>2. After(printed, k) = e
    BY <1>1, <1>2, <2>1, AfterEnding
  <2>3. PICK f \in Nat : f = bs[e] /\ b <= f /\ f <= q
    <3>1. e \in 1..n + 1 /\ k + 1 \in 1..e
      BY <1>2, <2>1
    <3>2. QED BY <1>1, <1>8, <3>1, Rising, Zenon
  <2>4. w + (f - b) \in Nat /\ w + (f - b) <= SizeMax /\ SizeMax \in Nat
    <3>1. PICK max \in Nat : max = SizeMax
      BY BerPrintAssumption
    <3>2. f <= max
      BY <1>1, <1>17, <2>3, <3>1
    <3>3. b = a + (z + w) /\ b <= f
      BY <1>8, <2>3
    <3>4. w + (f - b) \in Nat /\ w + (f - b) <= f
      BY <3>3
    <3>5. QED BY <3>1, <3>2, <3>4
  <2>5. h.length = w + (f - b)
    BY <1>13, <2>1, <2>3, <2>4, TruncatedIsModulo, Zenon
  <2>6. h.shape # "constructed_indefinite"
    BY <1>13, <1>17 DEF Shape
  <2>7. TagEnd(p) = a + z + 1 + (w + (f - b))
    BY <1>8, <1>12, <1>17, <2>5, <2>6
  <2>8. TagEnd(p) = f + 1
    <3>1. b = a + (z + w)
      BY <1>8
    <3>2. a + z + 1 + (w + (f - b)) = f + 1
      BY <3>1
    <3>3. QED BY <2>7, <3>2
  <2>9. NextTag(p) = b + 1
    <3>1. CASE l.form = "octets"
      <4>1. h.shape = "primitive" /\ e = k + 1
        BY <1>13, <1>17, <2>1, <3>1 DEF Shape
      <4>2. f = b
        BY <1>8, <2>3, <4>1, Zenon
      <4>3. NextTag(p) = TagEnd(p)
        BY <1>8, <1>12, <4>1 DEF NextTag
      <4>4. QED BY <2>8, <4>2, <4>3
    <3>2. CASE l.form # "octets"
      <4>1. h.shape = "constructed_definite"
        BY <1>13, <1>17, <3>2 DEF Shape
      <4>2. NextTag(p) = HeadEnd(p)
        BY <1>8, <1>12, <4>1 DEF NextTag
      <4>3. QED BY <1>8, <1>12, <1>15, <3>2, <4>2
    <3>3. QED BY <3>1, <3>2
  <2>10. QED BY <1>8, <2>2, <2>3, <2>8, <2>9
<1>18. Complete(p)
  BY <1>8, <1>12
<1>19. QED BY <1>14, <1>16, <1>17, <1>18

\* TagBegins is what its recursive definition says.
LEMMA BeginsDefined ==
  ASSUME NEW n \in Nat
  PROVE  \E g : g = [k \in 1..n + 1 |-> IF k = 1 THEN 1 ELSE NextTag(g[k - 1])]
<1> DEFINE Def(g, k) == IF k = 1 THEN 1 ELSE NextTag(g[k - 1])
           Solves(g, m) == g = [k \in 1..m + 1 |-> Def(g, k)]
           T == {m \in 0..n : ~ \E g : Solves(g, m)}
<1>1. SUFFICES ASSUME T # {} PROVE FALSE
  <2>1. n \in 0..n
    OBVIOUS
  <2>2. QED BY <2>1, Zenon
<1>2. PICK m \in T : \A k \in T : m <= k
  <2>1. T \subseteq Nat
    OBVIOUS
  <2> HIDE DEF T
  <2>2. QED BY <1>1, <2>1, LeastNatural, Zenon
<1>3. m # 0
  <2>1. Solves([k \in 1..0 + 1 |-> 1], 0)
    OBVIOUS
  <2>2. QED BY <2>1, Zenon
<1>4. PICK g : Solves(g, m - 1)
  <2>1. m - 1 \in 0..n /\ ~(m <= m - 1)
    BY <1>3
  <2>2. m - 1 \notin T
    BY <1>2, <2>1
  <2>3. QED BY <2>1, <2>2, Zenon
<1> DEFINE h == [k \in 1..m + 1 |-> IF k = m + 1 THEN NextTag(g[m]) ELSE g[k]]
<1>5. Solves(h, m)
  <2>1. ASSUME NEW k \in 1..m + 1 PROVE h[k] = Def(h, k)
    <3>1. CASE k = m + 1
      <4>1. k # 1 /\ k - 1 = m /\ m \in 1..m + 1 /\ m # m + 1
        BY <1>3, <3>1
      <4>2. h[m] = g[m] /\ h[k] = NextTag(g[m])
        BY <3>1, <4>1
      <4> HIDE DEF h
      <4>3. QED BY <4>1, <4>2
    <3>2. CASE k # m + 1
      <4>1. k \in 1..(m - 1) + 1
        BY <1>3, <3>2
      <4>2. g[k] = Def(g, k)
        BY <1>4, <4>1
      <4>3. h[k] = g[k]
        BY <3>2
      <4>4. k # 1 => h[k - 1] = g[k - 1]
        <5>1. k # 1 => k - 1 \in 1..m + 1 /\ k - 1 # m + 1
          OBVIOUS
        <5>2. QED BY <5>1
      <4> HIDE DEF h
      <4>5. QED BY <4>2, <4>3, <4>4
    <3>3. QED BY <3>1, <3>2
  <2>2. h = [k \in 1..m + 1 |-> h[k]]
    OBVIOUS
  <2> HIDE DEF h
  <2>3. QED BY <2>1, <2>2, Zenon
<1>6. QED BY <1>5, <1>2, Zenon

LEMMA BeginsDef ==
  ASSUME printed \in Seq(1..Len(taken))
  PROVE  TagBegins = [k \in 1..Len(printed) + 1 |-> IF k = 1 THEN 1 ELSE NextTag(TagBegins[k - 1])]
<1>1. \E g : g = [k \in 1..Len(printed) + 1 |-> IF k = 1 THEN 1 ELSE NextTag(g[k - 1])]
  <2>1. Len(printed) \in Nat
    BY LenProperties
  <2>2. QED BY <2>1, BeginsDefined
<1> DEFINE v == CHOOSE g : g = [k \in 1..Len(printed) + 1 |-> IF k = 1 THEN 1 ELSE NextTag(g[k - 1])]
<1>2. v = [k \in 1..Len(printed) + 1 |-> IF k = 1 THEN 1 ELSE NextTag(v[k - 1])]
  BY <1>1, Zenon
<1>3. TagBegins = v
  BY DEF TagBegins
<1> HIDE DEF v
<1>4. QED BY <1>2, <1>3, Zenon


\* As long as no length is wrong, the tags read begin where those laid out do.
LEMMA BeginsLaid ==
  ASSUME taken \in Seq(Lines), NEW bs, NEW ns, Placed(taken, printed, bs, ns, out),
         Measured(taken, printed, bs, ns), Len(out) <= SizeMax,
         \A k \in 1..Len(printed) :
           Complete(TagBegins[k]) => ~(out[IdentifierEnd(TagBegins[k])] > Indefinite + 1)
  PROVE  \A k \in 1..Len(printed) + 1 : TagBegins[k] = bs[k] + 1
<1>1. PICK n \in Nat : n = Len(printed)
  BY Rising
<1>2. /\ printed \in Seq(1..Len(taken)) /\ bs[1] = 0
  BY <1>1 DEF Placed
<1>3. \A k \in 1..n + 1 : TagBegins[k] = IF k = 1 THEN 1 ELSE NextTag(TagBegins[k - 1])
  <2>1. TagBegins = [k \in 1..n + 1 |-> IF k = 1 THEN 1 ELSE NextTag(TagBegins[k - 1])]
    BY <1>1, <1>2, BeginsDef
  <2>2. QED BY <2>1, Zenon
<1> DEFINE T == {k \in 1..n + 1 : TagBegins[k] # bs[k] + 1}
<1>4. SUFFICES ASSUME T # {} PROVE FALSE
  BY <1>1
<1>5. PICK m \in T : \A k \in T : m <= k
  <2>1. T \subseteq Nat
    OBVIOUS
  <2> HIDE DEF T
  <2>2. QED BY <1>4, <2>1, LeastNatural, Zenon
<1>6. m # 1
  <2>1. 1 \in 1..n + 1 /\ bs[1] + 1 = 1
    BY <1>2
  <2>2. TagBegins[1] = 1
    BY <1>3, <2>1
  <2>3. QED BY <2>1, <2>2
<1>7. PICK j \in 1..n : j = m - 1 /\ j + 1 = m
  BY <1>6
<1>8. TagBegins[j] = bs[j] + 1
  <2>1. j \in 1..n + 1 /\ ~(m <= j)
    BY <1>7
  <2>2. j \notin T
    BY <1>5, <2>1
  <2>3. QED BY <2>1, <2>2
<1>9. PICK p, l : p = bs[j] + 1 /\ l = taken[printed[j]]
  OBVIOUS
<1>10. NextTag(p) = bs[j + 1] + 1
  <2>1. j \in 1..Len(printed)
    BY <1>1
  <2>2. Complete(p)
    BY <1>9, <2>1, TagRead
  <2>3. ~(out[IdentifierEnd(p)] > Indefinite + 1)
    BY <1>8, <1>9, <2>1, <2>2
  <2>4. QED BY <1>9, <2>1, <2>3, TagRead
<1>11. TagBegins[m] = NextTag(TagBegins[j])
  BY <1>3, <1>6, <1>7
<1>12. QED BY <1>7, <1>8, <1>9, <1>10, <1>11

(* The tags printed are read from the octets put, each with the identifier *)
(* of its line, and no length of theirs disagrees with what follows it.    *)
LEMMA TagsWhole ==
  ASSUME taken \in Seq(Lines), Layout(taken, printed, out), Len(out) <= SizeMax,
         \A k \in 1..Len(printed) :
           Complete(TagBegins[k]) => ~(out[IdentifierEnd(TagBegins[k])] > Indefinite + 1)
  PROVE  /\ TagBegins[Len(printed) + 1] = Len(out) + 1
         /\ \A k \in 1..Len(printed) : LET l == taken[printed[k]]
                                           p == TagBegins[k] IN
              /\ Complete(p)
              /\ IdentifierDenotes(SubSeq(out, p, IdentifierEnd(p) - 1), HeaderOf(l, 0))
              /\ l.star => HeadEnd(p) = TagBegins[k + 1] /\ out[HeadEnd(p) - 1] = Indefinite
              /\ ~l.star => TagEnd(p) = TagBegins[After(printed, k)]
<1>1. PICK bs, ns : Placed(taken, printed, bs, ns, out) /\ Measured(taken, printed, bs, ns)
  BY DEF Layout
<1>2. PICK n \in Nat : n = Len(printed)
  BY <1>1, Rising
<1>3. \A k \in 1..n + 1 : TagBegins[k] = bs[k] + 1
  BY <1>1, <1>2, BeginsLaid
<1>4. TagBegins[n + 1] = Len(out) + 1
  <2>1. n + 1 \in 1..n + 1 /\ bs[n + 1] = Len(out)
    BY <1>1, <1>2 DEF Placed
  <2>2. QED BY <1>3, <2>1
<1>5. ASSUME NEW k \in 1..n, NEW l, l = taken[printed[k]], NEW p, p = TagBegins[k]
      PROVE  /\ Complete(p)
             /\ IdentifierDenotes(SubSeq(out, p, IdentifierEnd(p) - 1), HeaderOf(l, 0))
             /\ l.star => HeadEnd(p) = TagBegins[k + 1] /\ out[HeadEnd(p) - 1] = Indefinite
             /\ ~l.star => TagEnd(p) = TagBegins[After(printed, k)]
  <2>1. k \in 1..Len(printed) /\ k \in 1..n + 1 /\ k + 1 \in 1..n + 1
    BY <1>2
  <2>2. p = bs[k] + 1 /\ TagBegins[k + 1] = bs[k + 1] + 1
    BY <1>3, <1>5, <2>1
  <2>3. /\ Complete(p)
        /\ IdentifierDenotes(SubSeq(out, p, IdentifierEnd(p) - 1), HeaderOf(l, 0))
    BY <1>1, <1>5, <2>1, <2>2, TagRead
  <2>4. l.star => HeadEnd(p) = bs[k + 1] + 1 /\ out[HeadEnd(p) - 1] = Indefinite
    BY <1>1, <1>5, <2>1, <2>2, TagRead
  <2>5. ~(out[IdentifierEnd(p)] > Indefinite + 1)
    BY <1>5, <2>1, <2>3
  <2>6. ~l.star => TagEnd(p) = bs[After(printed, k)] + 1
    BY <1>1, <1>5, <2>1, <2>2, <2>5, TagRead
  <2>7. ASSUME ~l.star PROVE TagBegins[After(printed, k)] = bs[After(printed, k)] + 1
    <3>1. PICK e \in k + 1..n + 1 : Ending(taken, printed, k, e)
      BY <1>1, <1>2, <1>5, <2>1, <2>7 DEF Measured, MeasuredAt
    <3>2. printed \in Seq(1..Len(taken))
      BY <1>1 DEF Placed
    <3>3. After(printed, k) = e /\ e \in 1..n + 1
      BY <2>1, <3>1, <3>2, AfterEnding
    <3>4. QED BY <1>3, <3>3
  <2>8. QED BY <2>2, <2>3, <2>4, <2>6, <2>7
<1>6. QED BY <1>2, <1>4, <1>5

(* Whatever the text is, and whichever of its lines are lost: while no     *)
(* length needs more than one octet behind the first, the octets put are   *)
(* read as the tags of the lines printed, and none of their lengths        *)
(* disagrees with the octets that follow it.                               *)
THEOREM AlwaysWholeTags == Spec => []WholeTags
<1>1. LInv => WholeTags
  <2> DEFINE long == \E k \in DOMAIN printed :
                       Complete(TagBegins[k]) /\ out[IdentifierEnd(TagBegins[k])] > Indefinite + 1
  <2>1. SUFFICES ASSUME LInv, ~refused, Len(out) <= SizeMax, ~long
                 PROVE  /\ TagBegins[Len(printed) + 1] = Len(out) + 1
                        /\ \A k \in DOMAIN printed : LET l == taken[printed[k]]
                                                         p == TagBegins[k] IN
                             /\ Complete(p)
                             /\ IdentifierDenotes(SubSeq(out, p, IdentifierEnd(p) - 1), HeaderOf(l, 0))
                             /\ l.star => HeadEnd(p) = TagBegins[k + 1]
                                          /\ out[HeadEnd(p) - 1] = Indefinite
                             /\ ~l.star => TagEnd(p) = TagBegins[After(printed, k)]
    BY DEF WholeTags
  <2>2. taken \in Seq(Lines) /\ Layout(taken, printed, out)
    BY <2>1, LaidFacts DEF Written
  <2>3. DOMAIN printed = 1..Len(printed)
    <3>1. printed \in Seq(1..Len(taken))
      BY <2>2 DEF Layout, Placed
    <3>2. QED BY <3>1, LenProperties
  <2>4. \A k \in 1..Len(printed) :
          Complete(TagBegins[k]) => ~(out[IdentifierEnd(TagBegins[k])] > Indefinite + 1)
    BY <2>1, <2>3
  <2>5. QED BY <2>1, <2>2, <2>3, <2>4, TagsWhole
<1>2. QED BY <1>1, AlwaysLaid, PTL

-----------------------------------------------------------------------------
(* What is printed of a text.                                              *)

(* Whatever the text is, what is put is the encoding of the lines printed, *)
(* or the part of it that the output took; and all lines are printed of a  *)
(* text that is a tree the printer supports.                               *)
THEOREM AlwaysPrintsTree == Spec => []PrintsTree
<1>1. LInv /\ KInv => PrintsTree
  BY EncodingPut, AllPrinted DEF PrintsTree
<1>2. QED BY <1>1, AlwaysLaid, AlwaysKept, PTL

(* Of such a text, the tags read are out when the next line is asked for,  *)
(* as long as no definite tag is open.                                     *)
THEOREM AlwaysPrintsAtOnce == Spec => []PrintsAtOnce
<1>1. LInv /\ KInv => PrintsAtOnce
  BY EncodingPut, AllPrinted DEF PrintsAtOnce
<1>2. QED BY <1>1, AlwaysLaid, AlwaysKept, PTL
=============================================================================
