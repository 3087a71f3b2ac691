------------------------ MODULE DelimitedInputProofs ------------------------
(***************************************************************************)
(* For every width of size_t, every depth of scopes and every number of    *)
(* exceptions: the type invariant of DelimitedInput, the nesting of its    *)
(* delimiters and, as long as the wrapped stream has not thrown, the       *)
(* containment of every scope and the refinement of ScopedStream.          *)
(***************************************************************************)
EXTENDS DelimitedInput, ProofFacts

(* As long as the wrapped stream has not thrown, __off is the position of  *)
(* the wrapped stream, and each delimiter, current or kept by a sentry, is *)
(* the limit that the history gives its scope.                             *)
InStep ==
  /\ Len(limits) = Len(sentries) + 1
  /\ throws = 0 =>
    /\ pos = off
    /\ limits[Len(limits)] = end
    /\ \A i \in 1..Len(sentries) :
         limits[i] = IF sentries[i].applied THEN sentries[i].prev_end ELSE limits[i + 1]
    /\ \A i \in 1..Len(limits) : \A j \in 1..i : limits[i] <= limits[j]

IInv == TypeOK /\ DelimitersNested /\ InStep

-----------------------------------------------------------------------------
(* size_t arithmetic does not wrap where the code uses it: __end - __off   *)
(* is exact when __off <= __end, and so is __off + n for any n up to it.   *)
LEMMA Exact ==
  ASSUME NEW a \in Size, NEW b \in Size, a <= b
  PROVE  /\ Minus(b, a) = b - a
         /\ \A n \in Nat : n <= b - a => Plus(a, n) = a + n
  BY DelimitedInputAssumption DEF Minus, Plus, Size

(* Under the invariant, the octets that remain are the exact difference.   *)
LEMMA RemainingExact ==
  ASSUME TypeOK, off <= end
  PROVE  /\ Remaining = end - off
         /\ Remaining \in Size
         /\ \A n \in Nat : n <= Remaining => Plus(off, n) = off + n
  BY Exact, DelimitedInputAssumption DEF TypeOK, Remaining, Size

(* The sequences of sentries and limits as they shrink.                    *)
LEMMA FrontFacts ==
  ASSUME NEW S, NEW s \in Seq(S), s # << >>
  PROVE  /\ Front(s) \in Seq(S)
         /\ Len(s) \in Nat \ {0} /\ Len(Front(s)) = Len(s) - 1
         /\ s[Len(s)] \in S
         /\ \A i \in 1..Len(s) - 1 : Front(s)[i] = s[i]
<1>1. Len(s) \in Nat \ {0} /\ s[Len(s)] \in S
  BY EmptySeq, LenProperties, ElementOfSeq
<1>2. \A i \in 1..Len(s) - 1 : s[i] \in S
  BY <1>1, ElementOfSeq
<1> DEFINE n == Len(s) - 1
           f == Front(s)
<1>3. /\ f \in Seq(S)
      /\ Len(f) = IF 1 <= n THEN n - 1 + 1 ELSE 0
      /\ \A i \in 1..n - 1 + 1 : f[i] = s[1 + i - 1]
  <2>1. n \in Int
    BY <1>1
  <2>2. QED BY <1>2, <2>1, SubSeqProperties DEF Front
<1>4. n \in Nat /\ n - 1 + 1 = n
  BY <1>1
<1> HIDE DEF f, n
<1>5. Len(f) = n
  <2>1. CASE 1 <= n
    BY <1>3, <1>4, <2>1
  <2>2. CASE ~(1 <= n)
    <3>1. n = 0
      BY <1>4, <2>2
    <3>2. Len(f) = 0
      BY <1>3, <2>2, Zenon
    <3>3. QED BY <3>1, <3>2
  <2>3. QED BY <2>1, <2>2
<1>6. ASSUME NEW i \in 1..n PROVE f[i] = s[i]
  <2>1. i \in 1..n - 1 + 1 /\ 1 + i - 1 = i
    BY <1>4
  <2>2. QED BY <1>3, <2>1
<1>7. QED BY <1>1, <1>3, <1>5, <1>6 DEF f, n

(* What the type invariant says of one sentry, and of one limit.           *)
LEMMA ElementTypes ==
  ASSUME TypeOK
  PROVE  /\ Len(sentries) \in Nat /\ Len(limits) \in Nat
         /\ \A i \in 1..Len(sentries) :
              sentries[i].applied \in BOOLEAN /\ sentries[i].prev_end \in Size
         /\ \A i \in 1..Len(limits) : limits[i] \in Nat
<1>1. \A i \in 1..Len(sentries) : sentries[i] \in NarrowResult
  BY ElementOfSeq DEF TypeOK
<1>2. QED BY <1>1, LenProperties, ElementOfSeq DEF TypeOK, NarrowResult

LEMMA Initially == Init => IInv
<1> SUFFICES ASSUME Init PROVE IInv
  OBVIOUS
<1>1. TypeOK
  <2>1. off \in Size /\ end \in Size /\ pos \in Size /\ throws \in 0..MaxThrows /\ pos \in Nat
    BY DelimitedInputAssumption DEF Init, Size
  <2>2. sentries \in Seq(NarrowResult)
    BY DEF Init
  <2>3. limits \in Seq(Nat)
    BY DelimitedInputAssumption DEF Init
  <2>4. dry \in BOOLEAN /\ terminated \in BOOLEAN
    BY DEF Init
  <2>5. QED BY <2>1, <2>2, <2>3, <2>4 DEF TypeOK
<1>2. DelimitersNested
  BY DelimitedInputAssumption DEF Init, DelimitersNested
<1>3. InStep
  BY DelimitedInputAssumption DEF Init, InStep
<1>4. QED BY <1>1, <1>2, <1>3 DEF IInv

(* What the wrapped stream's contract changes.                             *)
LEMMA SuppliesType ==
  ASSUME TypeOK, NEW n \in Size, NEW asked \in Size, Supplies(n, asked)
  PROVE  pos' = pos + n /\ dry' \in BOOLEAN /\ throws' = throws /\ n <= asked
  BY DEF TypeOK, Supplies

LEMMA ThrowsType ==
  ASSUME TypeOK, NEW n \in Size, NEW asked \in Size, Throws(n, asked)
  PROVE  pos' = pos + n /\ dry' \in BOOLEAN /\ throws' \in 0..MaxThrows /\ throws' # 0
  BY DelimitedInputAssumption DEF TypeOK, Throws

-----------------------------------------------------------------------------
LEMMA ConstructAppliedStep ==
  ASSUME IInv, NEW len \in Size, ConstructApplied(len)
  PROVE  IInv'
<1> DEFINE k == Len(sentries)
           m == Len(limits)
<1>1. /\ off \in Size /\ end \in Size /\ end' = off + len
      /\ off <= end' /\ end' <= end /\ end' \in Size
  BY RemainingExact, DelimitedInputAssumption
  DEF IInv, DelimitersNested, ConstructApplied, Fits, Size, TypeOK
<1>2. UNCHANGED <<off, pos, dry, throws, terminated>>
  BY DEF ConstructApplied, wrapped
<1>3. /\ sentries' \in Seq(NarrowResult)
      /\ k \in Nat /\ Len(sentries') = k + 1
      /\ sentries'[k + 1] = [applied |-> TRUE, prev_end |-> end]
      /\ \A i \in 1..k : sentries'[i] = sentries[i]
  <2>1. [applied |-> TRUE, prev_end |-> end] \in NarrowResult
    BY <1>1 DEF NarrowResult
  <2>2. QED BY <2>1, AppendFacts DEF IInv, TypeOK, ConstructApplied
<1>4. /\ limits' \in Seq(Nat)
      /\ m \in Nat /\ Len(limits') = m + 1
      /\ limits'[m + 1] = pos + len
      /\ \A i \in 1..m : limits'[i] = limits[i]
  <2>1. pos + len \in Nat
    BY DEF IInv, TypeOK, Size
  <2>2. QED BY <2>1, AppendFacts DEF IInv, TypeOK, ConstructApplied
<1>5. TypeOK'
  BY <1>1, <1>2, <1>3, <1>4 DEF IInv, TypeOK, Size
<1>6. DelimitersNested'
  <2>1. \A i \in 1..k : sentries[i].applied => end <= sentries[i].prev_end
    BY DEF IInv, DelimitersNested
  <2>2. \A i \in 1..k + 1 : sentries'[i].applied =>
          end' <= sentries'[i].prev_end /\ end <= sentries'[i].prev_end
    <3>1. SUFFICES ASSUME NEW i \in 1..k + 1, sentries'[i].applied
                   PROVE  end' <= sentries'[i].prev_end /\ end <= sentries'[i].prev_end
      OBVIOUS
    <3>2. CASE i = k + 1
      BY <1>1, <1>3, <3>2 DEF Size
    <3>3. CASE i # k + 1
      <4>1. i \in 1..k
        BY <1>3, <3>3
      <4>2. sentries[i].prev_end \in Size /\ end <= sentries[i].prev_end
        BY <1>3, <2>1, <3>1, <4>1, ElementTypes DEF IInv
      <4>3. QED BY <1>1, <1>3, <4>1, <4>2 DEF Size
    <3>4. QED BY <3>2, <3>3
  <2>3. \A i \in 1..k + 1 : \A j \in 1..i : sentries'[i].applied /\ sentries'[j].applied =>
          sentries'[i].prev_end <= sentries'[j].prev_end
    <3>1. SUFFICES ASSUME NEW i \in 1..k + 1, NEW j \in 1..i,
                          sentries'[i].applied, sentries'[j].applied
                   PROVE  sentries'[i].prev_end <= sentries'[j].prev_end
      OBVIOUS
    <3>2. CASE i = k + 1
      BY <1>3, <2>2, <3>1, <3>2
    <3>3. CASE i # k + 1
      <4>1. i \in 1..k /\ j \in 1..k
        BY <1>3, <3>3
      <4>2. QED BY <1>3, <3>1, <4>1 DEF IInv, DelimitersNested
    <3>4. QED BY <3>2, <3>3
  <2>4. QED BY <1>1, <1>2, <1>3, <2>2, <2>3 DEF DelimitersNested
<1>7. InStep'
  <2>1. SUFFICES ASSUME throws = 0 PROVE InStep'
    BY <1>2, <1>3, <1>4 DEF InStep, IInv
  <2>2. pos = off /\ m = k + 1 /\ limits[m] = end
    BY <2>1 DEF IInv, InStep
  <2>3. \A i \in 1..k + 1 :
          limits'[i] = IF sentries'[i].applied THEN sentries'[i].prev_end ELSE limits'[i + 1]
    <3>1. SUFFICES ASSUME NEW i \in 1..k + 1
                   PROVE  limits'[i] = IF sentries'[i].applied THEN sentries'[i].prev_end
                                                               ELSE limits'[i + 1]
      OBVIOUS
    <3>2. CASE i = k + 1
      BY <1>3, <1>4, <2>2, <3>2
    <3>3. CASE i # k + 1
      <4>1. i \in 1..k /\ i \in 1..m /\ i + 1 \in 1..m
        BY <1>3, <1>4, <2>2, <3>3
      <4>2. limits[i] = IF sentries[i].applied THEN sentries[i].prev_end ELSE limits[i + 1]
        BY <2>1, <4>1 DEF IInv, InStep
      <4>3. QED BY <1>3, <1>4, <4>1, <4>2
    <3>4. QED BY <3>2, <3>3
  <2>4. \A i \in 1..m + 1 : \A j \in 1..i : limits'[i] <= limits'[j]
    <3>1. \A i \in 1..m : \A j \in 1..i : limits[i] <= limits[j]
      BY <2>1 DEF IInv, InStep
    <3>2. ASSUME NEW j \in 1..m PROVE end' <= limits[j]
      <4>1. end <= limits[j] /\ limits[j] \in Nat
        BY <1>4, <2>2, <3>1, ElementTypes DEF IInv
      <4>2. QED BY <1>1, <4>1 DEF Size
    <3>3. limits'[m + 1] = end' /\ end' \in Int
      BY <1>1, <1>4, <2>2 DEF Size
    <3>4. SUFFICES ASSUME NEW i \in 1..m + 1, NEW j \in 1..i PROVE limits'[i] <= limits'[j]
      OBVIOUS
    <3>5. CASE i = m + 1
      <4>1. CASE j = m + 1
        BY <3>3, <3>5, <4>1
      <4>2. CASE j # m + 1
        <5>1. j \in 1..m
          BY <1>4, <3>5, <4>2
        <5>2. QED BY <1>4, <3>2, <3>3, <3>5, <5>1
      <4>3. QED BY <4>1, <4>2
    <3>6. CASE i # m + 1
      <4>1. i \in 1..m /\ j \in 1..m
        BY <1>4, <3>6
      <4>2. QED BY <1>4, <3>1, <4>1
    <3>7. QED BY <3>5, <3>6
  <2>5. QED BY <1>1, <1>2, <1>3, <1>4, <2>2, <2>3, <2>4 DEF InStep
<1>8. QED BY <1>5, <1>6, <1>7 DEF IInv

LEMMA ConstructUnappliedStep ==
  ASSUME IInv, NEW len \in Size, NEW delim \in BOOLEAN, ConstructUnapplied(len, delim)
  PROVE  IInv'
<1> DEFINE k == Len(sentries)
           m == Len(limits)
<1>1. UNCHANGED <<off, end, pos, dry, throws, terminated>>
  BY DEF ConstructUnapplied, wrapped
<1>2. /\ sentries' \in Seq(NarrowResult)
      /\ k \in Nat /\ Len(sentries') = k + 1
      /\ sentries'[k + 1] = [applied |-> FALSE, prev_end |-> 0]
      /\ \A i \in 1..k : sentries'[i] = sentries[i]
  <2>1. [applied |-> FALSE, prev_end |-> 0] \in NarrowResult
    BY DelimitedInputAssumption DEF NarrowResult, Size
  <2>2. QED BY <2>1, AppendFacts DEF IInv, TypeOK, ConstructUnapplied
<1>3. /\ limits' \in Seq(Nat)
      /\ m = k + 1 /\ Len(limits') = m + 1
      /\ limits'[m + 1] = limits[m] /\ limits[m] \in Nat
      /\ \A i \in 1..m : limits'[i] = limits[i]
  <2>1. m = k + 1 /\ limits[m] \in Nat
    BY <1>2, ElementTypes DEF IInv, InStep
  <2>2. QED BY <2>1, AppendFacts DEF IInv, TypeOK, ConstructUnapplied, Last
<1>4. TypeOK'
  BY <1>1, <1>2, <1>3 DEF IInv, TypeOK, Size
<1>5. DelimitersNested'
  <2>1. \A i \in 1..k + 1 : sentries'[i].applied => i \in 1..k
    BY <1>2
  <2>2. ASSUME NEW i \in 1..k + 1, sentries'[i].applied
        PROVE  /\ end' <= sentries'[i].prev_end
               /\ \A j \in 1..i : sentries'[j].applied =>
                    sentries'[i].prev_end <= sentries'[j].prev_end
    <3>1. i \in 1..k /\ \A j \in 1..i : j \in 1..k
      BY <1>2, <2>1, <2>2
    <3>2. QED BY <1>1, <1>2, <2>2, <3>1 DEF IInv, DelimitersNested
  <2>3. QED BY <1>1, <1>2, <2>2 DEF DelimitersNested, IInv
<1>6. InStep'
  <2>1. SUFFICES ASSUME throws = 0 PROVE InStep'
    BY <1>1, <1>2, <1>3 DEF InStep
  <2>2. pos = off /\ limits[m] = end
    BY <2>1 DEF IInv, InStep
  <2>3. ASSUME NEW i \in 1..k + 1
        PROVE  limits'[i] = IF sentries'[i].applied THEN sentries'[i].prev_end
                                                    ELSE limits'[i + 1]
    <3>1. CASE i = k + 1
      BY <1>2, <1>3, <3>1
    <3>2. CASE i # k + 1
      <4>1. i \in 1..k /\ i \in 1..m /\ i + 1 \in 1..m
        <5>1. k \in Nat /\ m = k + 1
          BY <1>2, <1>3
        <5> HIDE DEF k, m
        <5>2. QED BY <3>2, <5>1
      <4>2. limits[i] = IF sentries[i].applied THEN sentries[i].prev_end ELSE limits[i + 1]
        BY <2>1, <4>1 DEF IInv, InStep
      <4>3. QED BY <1>2, <1>3, <4>1, <4>2
    <3>3. QED BY <3>1, <3>2
  <2>4. ASSUME NEW i \in 1..m + 1, NEW j \in 1..i PROVE limits'[i] <= limits'[j]
    <3>1. \A p \in 1..m : \A q \in 1..p : limits[p] <= limits[q]
      BY <2>1 DEF IInv, InStep
    <3>2. m \in Nat \ {0}
      BY <1>2, <1>3
    <3>3. CASE i = m + 1 /\ j = m + 1
      BY <1>3, <3>3
    <3>4. CASE i = m + 1 /\ j # m + 1
      <4>1. j \in 1..m /\ m \in 1..m
        BY <3>2, <3>4
      <4>2. QED BY <1>3, <3>1, <3>4, <4>1
    <3>5. CASE i # m + 1
      <4>1. i \in 1..m /\ j \in 1..m
        BY <3>2, <3>5
      <4>2. QED BY <1>3, <3>1, <4>1
    <3>6. QED BY <3>3, <3>4, <3>5
  <2>5. QED BY <1>1, <1>2, <1>3, <2>2, <2>3, <2>4 DEF InStep
<1>7. QED BY <1>4, <1>5, <1>6 DEF IInv

(* Popping the last sentry and its limit, applied or not.                  *)
LEMMA Popped ==
  ASSUME IInv, sentries # << >>, sentries' = Front(sentries), limits' = Front(limits)
  PROVE  /\ Len(sentries) \in Nat \ {0}
         /\ sentries' \in Seq(NarrowResult) /\ Len(sentries') = Len(sentries) - 1
         /\ \A i \in 1..Len(sentries) - 1 : sentries'[i] = sentries[i]
         /\ limits' \in Seq(Nat) /\ Len(limits') = Len(sentries)
         /\ \A i \in 1..Len(sentries) : limits'[i] = limits[i]
<1>1. limits # << >>
  BY EmptySeq, LenProperties DEF IInv, TypeOK, InStep
<1>2. /\ Len(sentries) \in Nat \ {0}
      /\ sentries' \in Seq(NarrowResult) /\ Len(sentries') = Len(sentries) - 1
      /\ \A i \in 1..Len(sentries) - 1 : sentries'[i] = sentries[i]
  BY FrontFacts DEF IInv, TypeOK
<1>3. /\ limits' \in Seq(Nat) /\ Len(limits') = Len(limits) - 1
      /\ \A i \in 1..Len(limits) - 1 : limits'[i] = limits[i]
  BY <1>1, FrontFacts DEF IInv, TypeOK
<1>4. Len(limits) - 1 = Len(sentries)
  BY <1>2 DEF IInv, InStep
<1>5. QED BY <1>2, <1>3, <1>4

(* Whatever octets are skipped, the invariant is kept by popping a sentry  *)
(* and taking a delimiter that is the limit of the scope around it.        *)
LEMMA PopStep ==
  ASSUME IInv, sentries # << >>, sentries' = Front(sentries), limits' = Front(limits),
         NEW n \in Nat, off' = off + n, off' <= end, pos' = pos + n,
         end' \in Size, end <= end',
         \A i \in 1..Len(sentries) - 1 : sentries[i].applied => end' <= sentries[i].prev_end,
         throws = 0 => limits[Len(sentries)] = end',
         dry' \in BOOLEAN, terminated' \in BOOLEAN, throws' = throws
  PROVE  IInv'
<1> DEFINE k == Len(sentries)
<1>1. /\ k \in Nat \ {0}
      /\ sentries' \in Seq(NarrowResult) /\ Len(sentries') = k - 1
      /\ \A i \in 1..k - 1 : sentries'[i] = sentries[i]
      /\ limits' \in Seq(Nat) /\ Len(limits') = k
      /\ \A i \in 1..k : limits'[i] = limits[i]
  BY Popped
<1> HIDE DEF k
<1>2. off' \in Size /\ off' <= end'
  <2>1. off \in Size /\ end \in Size
    BY DEF IInv, TypeOK
  <2>2. off' \in Int /\ 0 <= off' /\ off' <= SizeMax /\ off' <= end'
    BY <2>1, DelimitedInputAssumption DEF Size
  <2>3. QED BY <2>2, DelimitedInputAssumption DEF Size
<1>3. TypeOK'
  <2>1. pos' \in Nat /\ (throws' = 0 => pos' = off')
    BY DEF IInv, TypeOK, InStep
  <2>2. QED BY <1>1, <1>2, <2>1 DEF IInv, TypeOK
<1>4. DelimitersNested'
  <2>1. ASSUME NEW i \in 1..k - 1, sentries'[i].applied
        PROVE  /\ end' <= sentries'[i].prev_end
               /\ \A j \in 1..i : sentries'[j].applied =>
                    sentries'[i].prev_end <= sentries'[j].prev_end
    <3>1. i \in 1..k /\ \A j \in 1..i : j \in 1..k - 1 /\ j \in 1..k
      BY <1>1
    <3>2. sentries[i].applied /\ end' <= sentries[i].prev_end
      BY <1>1, <2>1 DEF k
    <3>3. \A j \in 1..i : sentries[j].applied => sentries[i].prev_end <= sentries[j].prev_end
      BY <3>1, <3>2 DEF IInv, DelimitersNested, k
    <3>4. QED BY <1>1, <3>1, <3>2, <3>3
  <2>2. QED BY <1>1, <1>2, <2>1 DEF DelimitersNested
<1>5. InStep'
  <2>1. SUFFICES ASSUME throws = 0 PROVE InStep'
    BY <1>1 DEF InStep
  <2>2. pos' = off' /\ limits'[k] = end'
    BY <1>1, <2>1 DEF IInv, InStep, k
  <2>3. ASSUME NEW i \in 1..k - 1
        PROVE  limits'[i] = IF sentries'[i].applied THEN sentries'[i].prev_end
                                                    ELSE limits'[i + 1]
    <3>1. i \in 1..k /\ i + 1 \in 1..k
      BY <1>1
    <3>2. limits[i] = IF sentries[i].applied THEN sentries[i].prev_end ELSE limits[i + 1]
      BY <2>1, <3>1 DEF IInv, InStep, k
    <3>3. QED BY <1>1, <3>1, <3>2
  <2>4. ASSUME NEW i \in 1..k, NEW j \in 1..i PROVE limits'[i] <= limits'[j]
    <3>1. i \in 1..k + 1 /\ j \in 1..k
      BY <1>1
    <3>2. limits[i] <= limits[j]
      BY <2>1, <3>1 DEF IInv, InStep, k
    <3>3. QED BY <1>1, <3>1, <3>2
  <2>5. k - 1 + 1 = k
    BY <1>1
  <2>6. QED BY <1>1, <2>2, <2>3, <2>4, <2>5 DEF InStep
<1>6. QED BY <1>3, <1>4, <1>5 DEF IInv

LEMMA DestroyAppliedStep ==
  ASSUME IInv, NEW n \in Size, DestroyApplied(n)
  PROVE  IInv'
<1> DEFINE k == Len(sentries)
<1>1. /\ off' = off + n /\ off' <= end
      /\ pos' = pos + n /\ dry' \in BOOLEAN /\ throws' = throws /\ terminated' \in BOOLEAN
  BY RemainingExact, SuppliesType DEF IInv, DelimitersNested, DestroyApplied, ToSkip, TypeOK, Size
<1>2. sentries # << >> /\ sentries' = Front(sentries) /\ limits' = Front(limits)
  BY DEF DestroyApplied
<1>3. k \in Nat \ {0}
  BY <1>2, Popped
<1>4. sentries[k].applied /\ end' = sentries[k].prev_end
  BY DEF DestroyApplied, RestoredDelimiter, Top, Last
<1>5. end' \in Size /\ end <= end'
  BY <1>3, <1>4, ElementTypes DEF IInv, DelimitersNested
<1>6. \A i \in 1..k - 1 : sentries[i].applied => end' <= sentries[i].prev_end
  BY <1>3, <1>4 DEF IInv, DelimitersNested
<1>7. throws = 0 => limits[k] = end'
  BY <1>3, <1>4 DEF IInv, InStep
<1>8. n \in Nat
  BY DEF Size
<1>9. QED BY <1>1, <1>2, <1>5, <1>6, <1>7, <1>8, PopStep

LEMMA DestroyUnappliedStep ==
  ASSUME IInv, DestroyUnapplied
  PROVE  IInv'
<1> DEFINE k == Len(sentries)
<1>1. /\ off' = off + 0 /\ off' <= end
      /\ pos' = pos + 0 /\ dry' \in BOOLEAN /\ throws' = throws /\ terminated' \in BOOLEAN
      /\ end' = end /\ end' \in Size /\ end <= end'
  BY DEF DestroyUnapplied, wrapped, IInv, TypeOK, DelimitersNested, Size
<1>2. sentries # << >> /\ sentries' = Front(sentries) /\ limits' = Front(limits)
  BY DEF DestroyUnapplied
<1>3. k \in Nat \ {0}
  BY <1>2, Popped
<1>4. \A i \in 1..k - 1 : sentries[i].applied => end' <= sentries[i].prev_end
  BY <1>1, <1>3 DEF IInv, DelimitersNested
<1>5. throws = 0 => limits[k] = end'
  BY <1>1, <1>3 DEF IInv, InStep, DestroyUnapplied, Top, Last
<1>6. QED BY <1>1, <1>2, <1>4, <1>5, PopStep

LEMMA GetnStep ==
  ASSUME IInv, NEW len \in Size, NEW n \in Size, Getn(len, n)
  PROVE  IInv'
<1>1. Asked(len) \in Size /\ Asked(len) <= Remaining
  BY RemainingExact DEF IInv, DelimitersNested, Asked, SmallerOf, Size
<1>2. /\ off' = off + n /\ off' <= end
      /\ pos' = pos + n /\ dry' \in BOOLEAN /\ throws' = throws
  <2>1. Supplies(n, Asked(len)) /\ off' = Plus(off, n)
    BY DEF Getn
  <2>2. n <= Asked(len) /\ pos' = pos + n /\ dry' \in BOOLEAN /\ throws' = throws
    BY <1>1, <2>1, SuppliesType DEF IInv
  <2>3. n <= Remaining /\ n \in Nat
    BY <1>1, <2>2, RemainingExact DEF IInv, DelimitersNested, Size
  <2>4. off \in Size /\ end \in Size /\ off <= end
    BY DEF IInv, TypeOK, DelimitersNested
  <2>5. off' = off + n /\ Remaining = end - off
    BY <2>1, <2>3, <2>4, RemainingExact DEF IInv
  <2>6. QED BY <2>2, <2>3, <2>4, <2>5 DEF Size
<1>3. UNCHANGED <<end, sentries, limits, terminated>>
  BY DEF Getn
<1>4. TypeOK'
  <2>1. off' \in Size
    <3>1. off \in Size /\ end \in Size
      BY DEF IInv, TypeOK
    <3>2. off' \in Int /\ 0 <= off' /\ off' <= SizeMax
      BY <1>2, <3>1, DelimitedInputAssumption DEF Size
    <3>3. QED BY <3>2, DelimitedInputAssumption DEF Size
  <2>2. pos' \in Nat
    BY <1>2 DEF IInv, TypeOK, Size
  <2>3. throws' = 0 => pos' = off'
    BY <1>2 DEF IInv, InStep
  <2>4. QED BY <1>2, <1>3, <2>1, <2>2, <2>3 DEF IInv, TypeOK
<1>5. DelimitersNested'
  BY <1>2, <1>3 DEF IInv, DelimitersNested
<1>6. InStep'
  BY <1>2, <1>3 DEF IInv, InStep
<1>7. QED BY <1>4, <1>5, <1>6 DEF IInv

LEMMA ThrowsStep ==
  ASSUME IInv, NEW n \in Size, NEW asked \in Size, Throws(n, asked),
         terminated' \in BOOLEAN, UNCHANGED <<off, end, sentries, limits>>
  PROVE  IInv'
<1>1. pos' = pos + n /\ dry' \in BOOLEAN /\ throws' \in 0..MaxThrows /\ throws' # 0
  BY ThrowsType DEF IInv
<1>2. QED BY <1>1 DEF IInv, TypeOK, DelimitersNested, InStep, Size

(* The only states a Next step leaves out are those after std::terminate.  *)
LEMMA NextStep == IInv /\ [Next]_vars => IInv'
<1> SUFFICES ASSUME IInv, [Next]_vars PROVE IInv'
  OBVIOUS
<1>1. CASE \E len \in Size : ConstructApplied(len)
  BY <1>1, ConstructAppliedStep
<1>2. CASE \E len \in Size, delim \in BOOLEAN : ConstructUnapplied(len, delim)
  BY <1>2, ConstructUnappliedStep
<1>3. CASE \E n \in Size : DestroyApplied(n)
  BY <1>3, DestroyAppliedStep
<1>4. CASE DestroyUnapplied
  BY <1>4, DestroyUnappliedStep
<1>5. CASE \E n \in Size : DestroyThrows(n)
  BY <1>5, ThrowsStep, RemainingExact DEF DestroyThrows, ToSkip, IInv, DelimitersNested
<1>6. CASE \E len, n \in Size : Getn(len, n)
  BY <1>6, GetnStep
<1>7. CASE \E len, n \in Size : GetnThrows(len, n)
  <2>1. PICK len \in Size, n \in Size : GetnThrows(len, n)
    BY <1>7
  <2>2. Asked(len) \in Size
    BY RemainingExact DEF IInv, DelimitersNested, Asked, SmallerOf
  <2>3. terminated' \in BOOLEAN
    BY <2>1 DEF GetnThrows, IInv, TypeOK
  <2>4. QED BY <2>1, <2>2, <2>3, ThrowsStep DEF GetnThrows
<1>8. CASE UNCHANGED vars
  BY <1>8 DEF vars, IInv, TypeOK, DelimitersNested, InStep
<1>9. QED
  BY <1>1, <1>2, <1>3, <1>4, <1>5, <1>6, <1>7, <1>8 DEF Next

THEOREM Invariance == Spec => []IInv
  BY Initially, NextStep, PTL DEF Spec

-----------------------------------------------------------------------------
(* Offsets, delimiters and positions are values of size_t: none of the     *)
(* additions and subtractions of deliminput.cxx goes wrong by wrapping.    *)
THEOREM TypeCorrect == Spec => []TypeOK
<1>1. IInv => TypeOK
  BY DEF IInv
<1>2. QED BY <1>1, Invariance, PTL

(* __off <= __end, and every delimiter that a sentry will restore is at    *)
(* least the current one, whatever the wrapped stream throws.              *)
THEOREM AlwaysNested == Spec => []DelimitersNested
<1>1. IInv => DelimitersNested
  BY DEF IInv
<1>2. QED BY <1>1, Invariance, PTL

(* As long as the wrapped stream does not throw, no octet beyond the       *)
(* length of an open scope is taken from it.                               *)
THEOREM AlwaysContained == Spec => []ContainedUnlessThrown
<1>1. IInv => ContainedUnlessThrown
  <2>1. SUFFICES ASSUME IInv, throws = 0, NEW i \in 2..Len(limits) PROVE pos <= limits[i]
    BY DEF ContainedUnlessThrown, Contained
  <2>2. limits[Len(limits)] <= limits[i] /\ limits[Len(limits)] = end /\ pos <= end
    BY <2>1 DEF IInv, TypeOK, InStep, DelimitersNested
  <2>3. limits[i] \in Nat /\ end \in Nat /\ pos \in Nat
    BY <2>1, ElementTypes DEF IInv, TypeOK, Size
  <2>4. QED BY <2>2, <2>3
<1>2. QED BY <1>1, Invariance, PTL

(* As long as the wrapped stream does not throw, the delimiter is that of  *)
(* the innermost open scope.                                               *)
THEOREM AlwaysInnermost == Spec => []DelimiterOfInnermost
<1>1. IInv => DelimiterOfInnermost
  BY DEF IInv, InStep, DelimiterOfInnermost, Last
<1>2. QED BY <1>1, Invariance, PTL

(* Destroying a sentry that was applied consumes its scope.                *)
THEOREM AlwaysConsumed == Spec => ScopeIsConsumed
<1>1. IInv /\ [Next]_vars =>
        [throws' = 0 /\ Len(sentries') < Len(sentries) /\ Top.applied
           => pos' = Last(limits) \/ dry']_vars
  <2>1. SUFFICES ASSUME IInv, Next, throws' = 0, Len(sentries') < Len(sentries), Top.applied
                 PROVE  pos' = Last(limits) \/ dry'
    OBVIOUS
  <2>2. PICK n \in Size : DestroyApplied(n)
    BY <2>1 DEF Next, ConstructApplied, ConstructUnapplied, DestroyUnapplied, DestroyThrows,
                Getn, GetnThrows, IInv, TypeOK
  <2>3. off \in Size /\ end \in Size /\ Remaining = end - off /\ Remaining \in Size
    BY <2>1, RemainingExact DEF IInv, TypeOK, DelimitersNested
  <2>4. pos' = pos + n /\ n <= Remaining /\ throws = 0 /\ (n < Remaining => dry')
    BY <2>1, <2>2 DEF DestroyApplied, Supplies, ToSkip
  <2>5. pos = off /\ Last(limits) = end
    BY <2>1, <2>4 DEF IInv, InStep, Last
  <2>6. CASE n < Remaining
    BY <2>4, <2>6
  <2>7. CASE ~(n < Remaining)
    BY <2>3, <2>4, <2>5, <2>7 DEF Size
  <2>8. QED BY <2>6, <2>7
<1>2. QED BY <1>1, Invariance, PTL DEF Spec, ScopeIsConsumed

-----------------------------------------------------------------------------
(* The refinement of ScopedStream.                                         *)

(* Scopes without a budget of their own share the limit of the next one in *)
(* that has, or of the innermost.                                          *)
LEMMA LimitShared ==
  ASSUME IInv, throws = 0, NEW i \in 1..Len(sentries) + 1, NEW p \in i..Len(sentries) + 1,
         \A j \in i..p - 1 : ~sentries[j].applied
  PROVE  limits[p] = limits[i]
<1> DEFINE T == {q \in i..p : limits[q] # limits[i]}
<1>1. SUFFICES ASSUME T # {} PROVE FALSE
  <2>1. p \in i..p
    OBVIOUS
  <2>2. QED BY <2>1, Zenon
<1>2. PICK m \in T : \A q \in T : m <= q
  <2>1. T \subseteq Nat
    OBVIOUS
  <2> HIDE DEF T
  <2>2. QED BY <1>1, <2>1, LeastNatural
<1>3. m # i
  OBVIOUS
<1>4. /\ m - 1 \in i..p /\ m - 1 \in i..p - 1 /\ ~(m <= m - 1) /\ (m - 1) + 1 = m
      /\ m - 1 \in 1..Len(sentries)
  <2>1. Len(sentries) \in Nat
    BY ElementTypes DEF IInv
  <2>2. QED BY <1>3, <2>1
<1>5. limits[m - 1] = limits[i]
  BY <1>2, <1>4
<1>6. ~sentries[m - 1].applied
  BY <1>4
<1>7. limits[m - 1] = limits[m]
  <2>1. limits[m - 1] = IF sentries[m - 1].applied THEN sentries[m - 1].prev_end
                                                    ELSE limits[(m - 1) + 1]
    BY <1>4 DEF IInv, InStep
  <2>2. QED BY <1>4, <1>6, <2>1
<1>8. QED BY <1>5, <1>7

(* The delimiter that the class has kept of a scope is the scope's limit.  *)
LEMMA DelimiterIsLimit ==
  ASSUME IInv, throws = 0, NEW i \in 1..Len(sentries) + 1
  PROVE  DelimiterAt(i) = limits[i]
<1>1. Len(sentries) \in Nat /\ Len(limits) = Len(sentries) + 1
  BY ElementTypes DEF IInv, InStep
<1>2. CASE AppliedFrom(i) = {}
  <2>1. \A j \in i..Len(sentries) : ~sentries[j].applied
    BY <1>2 DEF AppliedFrom
  <2>2. Len(sentries) + 1 \in i..Len(sentries) + 1 /\ (Len(sentries) + 1) - 1 = Len(sentries)
    BY <1>1
  <2>3. limits[Len(sentries) + 1] = limits[i]
    BY <2>1, <2>2, LimitShared
  <2>4. limits[Len(sentries) + 1] = end
    BY <1>1 DEF IInv, InStep
  <2>5. QED BY <1>2, <2>3, <2>4 DEF DelimiterAt
<1>3. CASE AppliedFrom(i) # {}
  <2> DEFINE A == AppliedFrom(i)
             m == CHOOSE j \in A : \A k \in A : j <= k
  <2>1. A \subseteq Nat
    BY <1>1 DEF AppliedFrom
  <2>2. m \in A /\ \A k \in A : m <= k
    <3>1. \E j \in A : \A k \in A : j <= k
      <4> HIDE DEF A
      <4>1. QED BY <1>3, <2>1, LeastNatural DEF A
    <3>2. QED BY <3>1, Zenon
  <2>3. DelimiterAt(i) = sentries[m].prev_end
    BY <1>3, Zenon DEF DelimiterAt
  <2> HIDE DEF m
  <2>4. m \in i..Len(sentries) /\ sentries[m].applied /\ m \in 1..Len(sentries)
    BY <1>1, <2>2 DEF AppliedFrom
  <2>5. \A j \in i..m - 1 : ~sentries[j].applied
    <3>1. ASSUME NEW j \in i..m - 1 PROVE j \in i..Len(sentries) /\ ~(m <= j)
      BY <1>1, <2>4
    <3>2. QED BY <2>2, <3>1 DEF AppliedFrom
  <2>6. limits[m] = limits[i]
    <3>1. m \in i..Len(sentries) + 1
      BY <1>1, <2>4
    <3>2. QED BY <2>5, <3>1, LimitShared
  <2>7. limits[m] = sentries[m].prev_end
    BY <2>4 DEF IInv, InStep
  <2>8. QED BY <2>3, <2>6, <2>7
<1>4. QED BY <1>2, <1>3

ScopeType == [own : BOOLEAN, left : Int]

(* The scopes that the class stands for, by their limits.                  *)
ScopesByLimits ==
  /\ Scopes \in Seq(ScopeType) /\ Len(Scopes) = Len(sentries) + 1
  /\ \A i \in 1..Len(sentries) + 1 :
       Scopes[i] = [own |-> i = 1 \/ sentries[i - 1].applied, left |-> limits[i] - off]

LEMMA ScopesAre == IInv /\ throws = 0 => ScopesByLimits
<1> SUFFICES ASSUME IInv, throws = 0 PROVE ScopesByLimits
  OBVIOUS
<1> DEFINE k == Len(sentries)
<1>1. k \in Nat /\ Len(limits) = k + 1 /\ off \in Int
  BY ElementTypes DEF IInv, InStep, TypeOK, Size
<1>2. ASSUME NEW i \in 1..k + 1
      PROVE  /\ Scopes[i] = [own |-> i = 1 \/ sentries[i - 1].applied, left |-> limits[i] - off]
             /\ Scopes[i] \in ScopeType
  <2>1. Scopes[i] = [own |-> i = 1 \/ sentries[i - 1].applied, left |-> DelimiterAt(i) - off]
    BY DEF Scopes
  <2>2. DelimiterAt(i) = limits[i]
    BY DelimiterIsLimit
  <2>3. limits[i] - off \in Int
    <3>1. limits[i] \in Nat
      BY <1>1, ElementTypes DEF IInv
    <3>2. QED BY <1>1, <3>1
  <2>4. (i = 1 \/ sentries[i - 1].applied) \in BOOLEAN
    OBVIOUS
  <2>5. QED BY <2>1, <2>2, <2>3, <2>4 DEF ScopeType
<1>3. DOMAIN Scopes = 1..k + 1 /\ Scopes = [i \in 1..k + 1 |-> Scopes[i]]
  BY DEF Scopes
<1>4. Scopes \in Seq(ScopeType) /\ Len(Scopes) = k + 1
  <2>1. k + 1 \in Nat
    BY <1>1
  <2>2. QED BY <1>2, <1>3, <2>1
<1>5. QED BY <1>2, <1>4 DEF ScopesByLimits

LEMMA InnermostScope ==
  ASSUME IInv, throws = 0
  PROVE  /\ Len(sentries) \in Nat /\ Len(Scopes) = Len(sentries) + 1
         /\ Remaining \in Size /\ Scoped!Left = Remaining
<1>1. Len(sentries) \in Nat /\ Len(limits) = Len(sentries) + 1 /\ limits[Len(limits)] = end
  BY ElementTypes DEF IInv, InStep
<1>2. ScopesByLimits
  BY ScopesAre
<1>3. Remaining \in Size /\ Remaining = end - off
  BY RemainingExact DEF IInv, DelimitersNested
<1>4. Len(sentries) + 1 \in 1..Len(sentries) + 1
  BY <1>1
<1>5. Scopes[Len(Scopes)].left = end - off
  BY <1>1, <1>2, <1>4 DEF ScopesByLimits
<1>6. QED BY <1>1, <1>2, <1>3, <1>5 DEF ScopesByLimits, Scoped!Left

(* A scope is opened: its budget is the length, if that is asked for and   *)
(* fits, and what the scope around it has left otherwise.                  *)
LEMMA OpenStep ==
  ASSUME IInv, throws = 0, ScopesByLimits, ScopesByLimits', NEW x \in ScopeType,
         Len(sentries') = Len(sentries) + 1, off' = off,
         \A i \in 1..Len(sentries) : sentries'[i] = sentries[i],
         \A i \in 1..Len(sentries) + 1 : limits'[i] = limits[i],
         x = [own |-> sentries'[Len(sentries) + 1].applied,
              left |-> limits'[Len(sentries) + 2] - off]
  PROVE  Scopes' = Append(Scopes, x)
<1> DEFINE k == Len(sentries)
           s == Append(Scopes, x)
<1>1. k \in Nat
  BY InnermostScope
<1>2. /\ s \in Seq(ScopeType) /\ Len(s) = k + 2 /\ s[k + 2] = x
      /\ \A i \in 1..k + 1 : s[i] = Scopes[i]
  <2>1. /\ s \in Seq(ScopeType) /\ Len(s) = Len(Scopes) + 1 /\ s[Len(Scopes) + 1] = x
        /\ \A i \in 1..Len(Scopes) : s[i] = Scopes[i]
    BY AppendFacts DEF ScopesByLimits
  <2>2. Len(Scopes) = k + 1 /\ (k + 1) + 1 = k + 2
    BY <1>1 DEF ScopesByLimits
  <2> HIDE DEF s
  <2>3. QED BY <2>1, <2>2
<1> HIDE DEF s
<1>3. /\ Scopes' \in Seq(ScopeType) /\ Len(Scopes') = k + 2
      /\ \A i \in 1..k + 2 :
           Scopes'[i] = [own |-> i = 1 \/ sentries'[i - 1].applied, left |-> limits'[i] - off]
  BY <1>1 DEF ScopesByLimits
<1>4. ASSUME NEW i \in 1..k + 2 PROVE Scopes'[i] = s[i]
  <2>1. CASE i = k + 2
    <3>1. i - 1 = k + 1 /\ i # 1
      BY <1>1, <2>1
    <3>2. Scopes'[i] = [own |-> sentries'[k + 1].applied, left |-> limits'[k + 2] - off]
      <4>1. x.own = sentries'[k + 1].applied /\ x.own \in BOOLEAN
        BY DEF ScopeType
      <4>2. QED BY <1>3, <2>1, <3>1, <4>1
    <3>3. QED BY <1>2, <2>1, <3>2
  <2>2. CASE i # k + 2
    <3>1. i \in 1..k + 1 /\ (i = 1 \/ i - 1 \in 1..k)
      BY <1>1, <2>2
    <3>2. Scopes[i] = [own |-> i = 1 \/ sentries[i - 1].applied, left |-> limits[i] - off]
      BY <3>1 DEF ScopesByLimits
    <3>3. Scopes'[i] = [own |-> i = 1 \/ sentries[i - 1].applied, left |-> limits[i] - off]
      <4>1. CASE i = 1
        BY <1>3, <3>1, <4>1
      <4>2. CASE i # 1
        BY <1>3, <3>1, <4>2
      <4>3. QED BY <4>1, <4>2
    <3>4. QED BY <1>2, <3>1, <3>2, <3>3
  <2>3. QED BY <2>1, <2>2
<1>5. QED BY <1>2, <1>3, <1>4, SeqEqual DEF s

LEMMA ConstructAppliedOpens ==
  ASSUME IInv, throws = 0, IInv', ScopesByLimits, ScopesByLimits',
         NEW len \in Size, ConstructApplied(len)
  PROVE  Scoped!Open(len, TRUE)
<1> DEFINE k == Len(sentries)
           x == [own |-> TRUE, left |-> len]
<1>1. k \in Nat /\ Len(Scopes) = k + 1 /\ Scoped!Left = Remaining
  BY InnermostScope
<1>2. k + 1 <= MaxDepth /\ len <= Remaining
  BY <1>1, DelimitedInputAssumption DEF ConstructApplied, Fits
<1>3. /\ Len(sentries') = k + 1 /\ off' = off
      /\ sentries'[k + 1] = [applied |-> TRUE, prev_end |-> end]
      /\ \A i \in 1..k : sentries'[i] = sentries[i]
      /\ limits'[k + 2] = pos + len /\ \A i \in 1..k + 1 : limits'[i] = limits[i]
  <2>1. [applied |-> TRUE, prev_end |-> end] \in NarrowResult /\ sentries \in Seq(NarrowResult)
    BY DEF IInv, TypeOK, NarrowResult
  <2>2. pos + len \in Nat /\ limits \in Seq(Nat) /\ Len(limits) = k + 1
    BY DEF IInv, TypeOK, InStep, Size
  <2>3. /\ Len(sentries') = k + 1 /\ sentries'[k + 1] = [applied |-> TRUE, prev_end |-> end]
        /\ \A i \in 1..k : sentries'[i] = sentries[i]
    BY <2>1, AppendFacts DEF ConstructApplied
  <2>4. /\ limits'[(k + 1) + 1] = pos + len
        /\ \A i \in 1..k + 1 : limits'[i] = limits[i]
    BY <2>2, AppendFacts DEF ConstructApplied
  <2>5. (k + 1) + 1 = k + 2
    BY <1>1
  <2>6. QED BY <2>3, <2>4, <2>5 DEF ConstructApplied
<1>4. limits'[k + 2] - off = len
  <2>1. pos = off /\ off \in Int /\ len \in Int
    BY DEF IInv, InStep, TypeOK, Size
  <2>2. QED BY <1>3, <2>1
<1>5. x \in ScopeType /\ x = [own |-> sentries'[k + 1].applied, left |-> limits'[k + 2] - off]
  <2>1. sentries'[k + 1].applied = TRUE /\ len \in Int
    BY <1>3 DEF Size
  <2>2. x \in ScopeType
    BY <2>1 DEF ScopeType
  <2>3. QED BY <1>4, <2>1, <2>2
<1>6. Scopes' = Append(Scopes, x)
  BY <1>3, <1>5, OpenStep
<1>7. UNCHANGED <<pos, dry>>
  BY DEF ConstructApplied, wrapped
<1>8. QED BY <1>1, <1>2, <1>6, <1>7 DEF Scoped!Open

LEMMA ConstructUnappliedOpens ==
  ASSUME IInv, throws = 0, IInv', ScopesByLimits, ScopesByLimits',
         NEW len \in Size, NEW delim \in BOOLEAN, ConstructUnapplied(len, delim)
  PROVE  Scoped!Open(len, delim)
<1> DEFINE k == Len(sentries)
           x == [own |-> FALSE, left |-> Remaining]
<1>1. k \in Nat /\ Len(Scopes) = k + 1 /\ Scoped!Left = Remaining /\ Remaining \in Size
  BY InnermostScope
<1>2. k + 1 <= MaxDepth /\ ~(delim /\ len <= Remaining)
  BY <1>1, DelimitedInputAssumption DEF ConstructUnapplied, Fits
<1>3. /\ Len(sentries') = k + 1 /\ off' = off
      /\ sentries'[k + 1] = [applied |-> FALSE, prev_end |-> 0]
      /\ \A i \in 1..k : sentries'[i] = sentries[i]
      /\ limits'[k + 2] = end /\ \A i \in 1..k + 1 : limits'[i] = limits[i]
  <2>1. [applied |-> FALSE, prev_end |-> 0] \in NarrowResult /\ sentries \in Seq(NarrowResult)
    BY DelimitedInputAssumption DEF IInv, TypeOK, NarrowResult, Size
  <2>2. /\ Last(limits) = end /\ end \in Nat /\ limits \in Seq(Nat) /\ Len(limits) = k + 1
    BY DEF IInv, TypeOK, InStep, Size, Last
  <2>3. /\ Len(sentries') = k + 1 /\ sentries'[k + 1] = [applied |-> FALSE, prev_end |-> 0]
        /\ \A i \in 1..k : sentries'[i] = sentries[i]
    BY <2>1, AppendFacts DEF ConstructUnapplied
  <2>4. /\ limits'[(k + 1) + 1] = end
        /\ \A i \in 1..k + 1 : limits'[i] = limits[i]
    BY <2>2, AppendFacts DEF ConstructUnapplied
  <2>5. (k + 1) + 1 = k + 2
    BY <1>1
  <2>6. QED BY <2>3, <2>4, <2>5 DEF ConstructUnapplied
<1>4. limits'[k + 2] - off = Remaining
  BY <1>3, RemainingExact DEF IInv, DelimitersNested
<1>5. x \in ScopeType /\ x = [own |-> sentries'[k + 1].applied, left |-> limits'[k + 2] - off]
  <2>1. sentries'[k + 1].applied = FALSE /\ Remaining \in Int
    BY <1>1, <1>3 DEF Size
  <2>2. x \in ScopeType
    BY <2>1 DEF ScopeType
  <2>3. QED BY <1>4, <2>1, <2>2
<1>6. Scopes' = Append(Scopes, x)
  BY <1>3, <1>5, OpenStep
<1>7. UNCHANGED <<pos, dry>>
  BY DEF ConstructUnapplied, wrapped
<1>8. QED BY <1>1, <1>2, <1>6, <1>7 DEF Scoped!Open

(* Octets taken are charged to the first m scopes; the others are closed.  *)
LEMMA ChargeStep ==
  ASSUME IInv, throws = 0, ScopesByLimits, ScopesByLimits', NEW n \in Nat, off' = off + n,
         NEW m \in 1..Len(sentries) + 1, Len(sentries') = m - 1,
         \A i \in 1..m - 1 : sentries'[i] = sentries[i],
         \A i \in 1..m : limits'[i] = limits[i],
         NEW ss \in Seq(ScopeType), Len(ss) = m, \A i \in 1..m : ss[i] = Scopes[i]
  PROVE  Scopes' = Scoped!Charged(ss, n)
<1> DEFINE c == Scoped!Charged(ss, n)
<1>1. /\ c = [i \in 1..m |-> [ss[i] EXCEPT !.left = @ - n]]
      /\ m \in Nat
  <2>1. DOMAIN ss = 1..m
    BY LenProperties
  <2>2. m \in Nat
    BY InnermostScope
  <2>3. QED BY <2>1, <2>2 DEF Scoped!Charged
<1>2. \A i \in 1..m : ss[i] \in ScopeType
  BY ElementOfSeq
<1>3. /\ c \in Seq(ScopeType) /\ Len(c) = m
      /\ \A i \in 1..m : c[i] = [own |-> ss[i].own, left |-> ss[i].left - n]
  <2>1. \A i \in 1..m : /\ [ss[i] EXCEPT !.left = @ - n]
                             = [own |-> ss[i].own, left |-> ss[i].left - n]
                        /\ [own |-> ss[i].own, left |-> ss[i].left - n] \in ScopeType
    BY <1>2 DEF ScopeType
  <2> DEFINE e == [i \in 1..m |-> [own |-> ss[i].own, left |-> ss[i].left - n]]
  <2>2. c = e
    <3>1. \A i \in 1..m : [ss[i] EXCEPT !.left = @ - n] = [own |-> ss[i].own, left |-> ss[i].left - n]
      BY <2>1
    <3> HIDE DEF c
    <3>2. QED BY <1>1, <3>1, Zenon
  <2>3. e \in Seq(ScopeType) /\ Len(e) = m
    <3>1. \A i \in 1..m : [own |-> ss[i].own, left |-> ss[i].left - n] \in ScopeType
      BY <2>1
    <3>2. e \in [1..m -> ScopeType]
      BY <3>1, Zenon
    <3> HIDE DEF e
    <3>3. QED BY <1>1, <3>2
  <2>4. \A i \in 1..m : e[i] = [own |-> ss[i].own, left |-> ss[i].left - n]
    OBVIOUS
  <2> HIDE DEF c, e
  <2>5. QED BY <2>2, <2>3, <2>4
<1> HIDE DEF c
<1>4. /\ Scopes' \in Seq(ScopeType) /\ Len(Scopes') = m
      /\ \A i \in 1..m : Scopes'[i] = [own |-> i = 1 \/ sentries'[i - 1].applied,
                                       left |-> limits'[i] - off']
  <2>1. (m - 1) + 1 = m
    BY <1>1
  <2>2. QED BY <2>1 DEF ScopesByLimits
<1>5. ASSUME NEW i \in 1..m PROVE Scopes'[i] = c[i]
  <2>1. i \in 1..Len(sentries) + 1 /\ (i = 1 \/ i - 1 \in 1..m - 1)
    BY <1>1, InnermostScope
  <2>2. ss[i] = [own |-> i = 1 \/ sentries[i - 1].applied, left |-> limits[i] - off]
    BY <2>1 DEF ScopesByLimits
  <2>3. limits'[i] - off' = (limits[i] - off) - n
    <3>1. limits[i] \in Nat /\ off \in Nat /\ limits'[i] = limits[i]
      BY <2>1, ElementTypes DEF IInv, InStep, TypeOK, Size
    <3>2. QED BY <3>1
  <2>4. c[i] = [own |-> i = 1 \/ sentries[i - 1].applied, left |-> (limits[i] - off) - n]
    BY <1>3, <2>2
  <2>5. Scopes'[i] = [own |-> i = 1 \/ sentries[i - 1].applied, left |-> (limits[i] - off) - n]
    <3>1. CASE i = 1
      BY <1>4, <2>3, <3>1
    <3>2. CASE i # 1
      BY <1>4, <2>1, <2>3, <3>2
    <3>3. QED BY <3>1, <3>2
  <2>6. QED BY <2>4, <2>5
<1>6. QED BY <1>3, <1>4, <1>5, SeqEqual DEF c

LEMMA GetnReads ==
  ASSUME IInv, throws = 0, IInv', ScopesByLimits, ScopesByLimits',
         NEW len \in Size, NEW n \in Size, Getn(len, n)
  PROVE  Scoped!Read(n, Asked(len)) /\ Asked(len) \in Size
<1>1. Asked(len) \in Size /\ Asked(len) <= Remaining /\ n <= Asked(len)
      /\ Supplies(n, Asked(len)) /\ off' = Plus(off, n)
  BY RemainingExact DEF IInv, DelimitersNested, Asked, SmallerOf, Size, Getn, Supplies
<1>2. off' = off + n /\ n \in Nat
  <2>1. n \in Nat /\ n <= Remaining
    BY <1>1, RemainingExact DEF IInv, DelimitersNested, Size
  <2>2. QED BY <1>1, <2>1, RemainingExact DEF IInv, DelimitersNested
<1>3. UNCHANGED <<sentries, limits>> /\ Scoped!Left = Remaining /\ Len(sentries) \in Nat
  BY InnermostScope DEF Getn
<1>4. Scopes' = Scoped!Charged(Scopes, n)
  <2>1. Len(sentries) + 1 \in 1..Len(sentries) + 1 /\ (Len(sentries) + 1) - 1 = Len(sentries)
        /\ Scopes \in Seq(ScopeType) /\ Len(Scopes) = Len(sentries) + 1
    BY <1>3 DEF ScopesByLimits
  <2>2. QED BY <1>2, <1>3, <2>1, ChargeStep
<1>5. Scoped!Supplies(n, Asked(len))
  BY <1>1 DEF Supplies, Scoped!Supplies
<1>6. QED BY <1>1, <1>3, <1>4, <1>5 DEF Scoped!Read

(* The scopes around the innermost one.                                    *)
LEMMA OuterIs ==
  ASSUME IInv, throws = 0, ScopesByLimits, sentries # << >>
  PROVE  /\ Len(sentries) \in Nat \ {0}
         /\ Len(Scopes) > 1 /\ Scopes[Len(Scopes)].own = Top.applied
         /\ Scoped!Outer \in Seq(ScopeType) /\ Len(Scoped!Outer) = Len(sentries)
         /\ \A i \in 1..Len(sentries) : Scoped!Outer[i] = Scopes[i]
<1> DEFINE k == Len(sentries)
<1>1. k \in Nat \ {0} /\ Len(Scopes) = k + 1 /\ Scopes \in Seq(ScopeType)
  BY EmptySeq, LenProperties DEF IInv, TypeOK, ScopesByLimits
<1>2. Scopes[k + 1] = [own |-> k + 1 = 1 \/ sentries[(k + 1) - 1].applied, left |-> limits[k + 1] - off]
  BY <1>1 DEF ScopesByLimits
<1>3. Scopes[k + 1].own = sentries[k].applied
  <2>1. k + 1 # 1 /\ (k + 1) - 1 = k /\ sentries[k].applied \in BOOLEAN
    BY <1>1, ElementTypes DEF IInv
  <2>2. QED BY <1>2, <2>1
<1>4. Scopes # << >>
  BY <1>1, EmptySeq
<1>5. Scoped!Outer = Front(Scopes)
  BY DEF Scoped!Outer, Front
<1>6. /\ Scoped!Outer \in Seq(ScopeType) /\ Len(Scoped!Outer) = k
      /\ \A i \in 1..k : Scoped!Outer[i] = Scopes[i]
  <2>1. Len(Scopes) - 1 = k
    BY <1>1
  <2>2. QED BY <1>1, <1>4, <1>5, <2>1, FrontFacts
<1>7. QED BY <1>1, <1>3, <1>6 DEF Top, Last

LEMMA DestroyAppliedCloses ==
  ASSUME IInv, throws = 0, IInv', ScopesByLimits, ScopesByLimits',
         NEW n \in Size, DestroyApplied(n)
  PROVE  Scoped!CloseOwn(n)
<1>1. /\ sentries # << >> /\ sentries' = Front(sentries) /\ limits' = Front(limits)
      /\ Top.applied /\ Supplies(n, Remaining) /\ off' = Plus(off, n) /\ n <= Remaining
  BY DEF DestroyApplied, ToSkip, Supplies
<1>2. off' = off + n /\ n \in Nat
  <2>1. n \in Nat
    BY DEF Size
  <2>2. QED BY <1>1, <2>1, RemainingExact DEF IInv, DelimitersNested
<1>3. Scoped!Left = Remaining
  BY InnermostScope
<1>4. Scopes' = Scoped!Charged(Scoped!Outer, n)
  <2>1. /\ Len(sentries) \in Nat \ {0} /\ Len(sentries') = Len(sentries) - 1
        /\ \A i \in 1..Len(sentries) - 1 : sentries'[i] = sentries[i]
        /\ \A i \in 1..Len(sentries) : limits'[i] = limits[i]
    BY <1>1, Popped
  <2>2. Len(sentries) \in 1..Len(sentries) + 1
    BY <2>1
  <2>3. QED BY <1>1, <1>2, <2>1, <2>2, OuterIs, ChargeStep
<1>5. Scoped!Supplies(n, Scoped!Left)
  BY <1>1, <1>3 DEF Supplies, Scoped!Supplies
<1>6. QED BY <1>1, <1>3, <1>4, <1>5, OuterIs DEF Scoped!CloseOwn

LEMMA DestroyUnappliedCloses ==
  ASSUME IInv, throws = 0, IInv', ScopesByLimits, ScopesByLimits', DestroyUnapplied
  PROVE  Scoped!CloseShared
<1> DEFINE k == Len(sentries)
<1>1. /\ sentries # << >> /\ sentries' = Front(sentries) /\ limits' = Front(limits)
      /\ ~Top.applied /\ UNCHANGED <<off, pos, dry>>
  BY DEF DestroyUnapplied, wrapped
<1>2. /\ k \in Nat \ {0} /\ Len(sentries') = k - 1
      /\ \A i \in 1..k - 1 : sentries'[i] = sentries[i]
      /\ \A i \in 1..k : limits'[i] = limits[i]
  BY <1>1, Popped
<1>3. /\ Scoped!Outer \in Seq(ScopeType) /\ Len(Scoped!Outer) = k
      /\ \A i \in 1..k : Scoped!Outer[i] = Scopes[i]
  BY <1>1, OuterIs
<1>4. /\ Scopes' \in Seq(ScopeType) /\ Len(Scopes') = k
      /\ \A i \in 1..k : Scopes'[i] = [own |-> i = 1 \/ sentries'[i - 1].applied,
                                       left |-> limits'[i] - off]
  <2>1. (k - 1) + 1 = k
    BY <1>2
  <2>2. QED BY <1>1, <1>2, <2>1 DEF ScopesByLimits
<1>5. ASSUME NEW i \in 1..k PROVE Scopes'[i] = Scopes[i]
  <2>1. i \in 1..k + 1 /\ (i = 1 \/ i - 1 \in 1..k - 1)
    BY <1>2
  <2>2. Scopes[i] = [own |-> i = 1 \/ sentries[i - 1].applied, left |-> limits[i] - off]
    BY <2>1 DEF ScopesByLimits
  <2>3. CASE i = 1
    BY <1>2, <1>4, <2>2, <2>3
  <2>4. CASE i # 1
    BY <1>2, <1>4, <2>1, <2>2, <2>4
  <2>5. QED BY <2>3, <2>4
<1>6. Scopes' = Scoped!Outer
  BY <1>3, <1>4, <1>5, SeqEqual
<1>7. QED BY <1>1, <1>6, OuterIs DEF Scoped!CloseShared

LEMMA ScopedInitially == Init => Scoped!Init
<1> SUFFICES ASSUME Init PROVE Scoped!Init
  OBVIOUS
<1>1. ScopesByLimits
  BY Initially, ScopesAre DEF Init
<1>2. Len(sentries) = 0 /\ limits[1] = SizeMax /\ off = 0 /\ SizeMax \in Nat
  BY DelimitedInputAssumption DEF Init
<1>3. Len(Scopes) = 1 /\ Scopes[1] = [own |-> TRUE, left |-> SizeMax] /\ Scopes \in Seq(ScopeType)
  <2>1. 1 \in 1..Len(sentries) + 1 /\ Len(sentries) + 1 = 1
    BY <1>2
  <2>2. Scopes[1] = [own |-> 1 = 1 \/ sentries[1 - 1].applied, left |-> limits[1] - off]
    BY <1>1, <2>1, Zenon DEF ScopesByLimits
  <2>3. (1 = 1 \/ sentries[1 - 1].applied) = TRUE /\ limits[1] - off = SizeMax
    BY <1>2
  <2>4. Scopes[1] = [own |-> TRUE, left |-> SizeMax]
    BY <2>2, <2>3
  <2>5. QED BY <1>1, <2>1, <2>4 DEF ScopesByLimits
<1>4. Scopes = << [own |-> TRUE, left |-> SizeMax] >>
  BY <1>3
<1>5. QED BY <1>4 DEF Init, Scoped!Init

LEMMA ScopedStep ==
  ASSUME IInv, IInv', IInv => (throws = 0 => ScopesByLimits),
         (IInv => (throws = 0 => ScopesByLimits))', [Next]_vars
  PROVE  [throws' = 0 => Scoped!Next]_(Scoped!vars)
<1>1. CASE UNCHANGED vars
  BY <1>1 DEF vars, Scoped!vars, Scopes, DelimiterAt, AppliedFrom
<1>2. CASE Next /\ throws' = 0
  <2>1. throws = 0 /\ throws \in Nat
    BY <1>2, DelimitedInputAssumption
    DEF IInv, TypeOK, Next, ConstructApplied, ConstructUnapplied, DestroyApplied, DestroyUnapplied,
        DestroyThrows, Getn, GetnThrows, Supplies, Throws, wrapped
  <2>2. ScopesByLimits /\ ScopesByLimits'
    BY <1>2, <2>1
  <2>3. CASE \E len \in Size : ConstructApplied(len)
    BY <2>1, <2>2, <2>3, ConstructAppliedOpens DEF Scoped!Next, Size
  <2>4. CASE \E len \in Size, delim \in BOOLEAN : ConstructUnapplied(len, delim)
    BY <2>1, <2>2, <2>4, ConstructUnappliedOpens DEF Scoped!Next, Size
  <2>5. CASE \E n \in Size : DestroyApplied(n)
    BY <2>1, <2>2, <2>5, DestroyAppliedCloses DEF Scoped!Next, Size
  <2>6. CASE DestroyUnapplied
    BY <2>1, <2>2, <2>6, DestroyUnappliedCloses DEF Scoped!Next
  <2>7. CASE \E len, n \in Size : Getn(len, n)
    BY <2>1, <2>2, <2>7, GetnReads DEF Scoped!Next, Size
  <2>8. ~(\E n \in Size : DestroyThrows(n)) /\ ~(\E len, n \in Size : GetnThrows(len, n))
    BY <1>2, <2>1 DEF DestroyThrows, GetnThrows, Throws
  <2>9. QED BY <1>2, <2>3, <2>4, <2>5, <2>6, <2>7, <2>8 DEF Next
<1>3. QED BY <1>1, <1>2

(* As long as the wrapped stream does not throw, the class with its one    *)
(* delimiter, and the copies of it in the sentries, is scopes that each    *)
(* have a budget: opening, reading and closing them is what the code does. *)
THEOREM ImplementsScopes == Spec => ScopedSpec
<1>1. IInv /\ IInv' /\ [Next]_vars => [throws' = 0 => Scoped!Next]_(Scoped!vars)
  <2>1. IInv => (throws = 0 => ScopesByLimits)
    BY ScopesAre
  <2>2. (IInv => (throws = 0 => ScopesByLimits))'
    BY <2>1, PTL
  <2>3. QED BY <2>1, <2>2, ScopedStep
<1>2. QED BY <1>1, ScopedInitially, Invariance, PTL DEF Spec, ScopedSpec
=============================================================================
