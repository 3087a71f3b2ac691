--------------------------- MODULE BerScanProofs ---------------------------
(***************************************************************************)
(* For every finite stream, every width of the integers and every depth of *)
(* tags: the type invariant of BerScan, that the lines are levels of a     *)
(* tree in preorder, that the scan unwinds its sentries and consumes the   *)
(* first tag on every way out, and that no inner tag is passed over.  The  *)
(* invariants of the three components carry over from their own proofs.    *)
(***************************************************************************)
EXTENDS BerScan, ProofFacts

DelimP == INSTANCE DelimitedInputProofs WITH MaxThrows <- 0
DecP == INSTANCE TagDecodeProofs WITH Octets <- Octet, MaxOctets <- 0
TypesP == INSTANCE BerTypesProofs WITH Octets <- Octet, MaxOctets <- 0

(* What the proofs of the components assume of their constants.            *)
LEMMA Widths ==
  /\ SizeMax \in Nat \ {0} /\ SizeMax % 256 = 255
  /\ NumberMax \in Nat /\ NumberMax % 128 = 127
  /\ MaxDepth \in Nat /\ 0 \in Nat
  /\ IntSize \in Nat \ {0} /\ CompSize \in Nat \ {0}
  /\ Octet \subseteq DecP!Octet /\ Octet \subseteq TypesP!Octet
  BY BerScanAssumption DEF Octet, DecP!Octet, TypesP!Octet

-----------------------------------------------------------------------------
(* The delimited input over a sequence of octets.                          *)

Streamed ==
  /\ DelimP!IInv
  /\ input \in Seq(Octet)
  /\ pos \in 0..Len(input)
  /\ dry => pos = Len(input)

AtEnd == off = end \/ pos = Len(input)

(* What DelimitedInput's invariant says of the stream here, where it does  *)
(* not throw.                                                              *)
LEMMA StreamFacts ==
  ASSUME Streamed
  PROVE  /\ throws = 0 /\ off \in Nat /\ end \in Nat /\ off <= end /\ pos = off
         /\ DelimP!Remaining = end - off /\ end <= SizeMax
         /\ Len(input) \in Nat /\ Available \in Nat
         /\ sentries \in Seq(DelimP!NarrowResult) /\ limits \in Seq(Nat)
         /\ Len(limits) = Len(sentries) + 1 /\ limits[Len(limits)] = end
         /\ \A i \in 1..Len(sentries) :
              limits[i] = IF sentries[i].applied THEN sentries[i].prev_end ELSE limits[i + 1]
<1>1. DelimP!TypeOK /\ off <= end /\ DelimP!InStep
  BY DEF Streamed, DelimP!IInv, DelimP!DelimitersNested
<1>2. DelimP!Remaining = end - off
  BY <1>1, Widths, DelimP!RemainingExact
<1>3. throws = 0 /\ off \in Nat /\ end \in Nat /\ end <= SizeMax
  BY <1>1, Widths DEF DelimP!TypeOK, DelimP!Size
<1>4. Len(input) \in Nat /\ Available \in Nat
  BY LenProperties DEF Streamed, Available
<1>5. QED BY <1>1, <1>2, <1>3, <1>4 DEF DelimP!InStep, DelimP!TypeOK

LEMMA StreamNumbers ==
  ASSUME Streamed
  PROVE  /\ off \in Nat /\ end \in Nat /\ off <= end /\ pos = off /\ pos \in Nat
         /\ DelimP!Remaining = end - off /\ end - off \in Nat /\ end <= SizeMax
         /\ Len(input) \in Nat /\ Available = Len(input) - pos /\ Available \in Nat
  BY StreamFacts DEF Available

(* What the wrapped stream does when it is asked for some octets.          *)
LEMMA SuppliedFacts ==
  ASSUME Streamed, NEW asked \in Nat, NEW n, Supplied(n, asked)
  PROVE  /\ n \in Nat /\ n <= asked /\ n <= Available /\ (n = asked \/ n = Available)
         /\ pos + n \in 0..Len(input) /\ (n < asked => pos + n = Len(input))
<1>1. n = IF asked <= Available THEN asked ELSE Available
  BY DEF Supplied, Delim!SmallerOf
<1>2. QED BY <1>1, StreamNumbers, SMTT(30)

LEMMA ReadStep ==
  ASSUME Streamed, input' = input, NEW n \in {0, 1},
         Supplied(n, Delim!Asked(1)), Delim!Getn(1, n)
  PROVE  /\ Streamed' /\ UNCHANGED <<end, sentries, limits>>
         /\ n = 0 => AtEnd'
<1>1. DelimP!Getn(1, n) /\ UNCHANGED <<end, sentries, limits>>
  BY DEF Delim!Getn, DelimP!Getn, Delim!Supplies, DelimP!Supplies, Delim!Asked, DelimP!Asked,
         Delim!Plus, DelimP!Plus, Delim!Remaining, DelimP!Remaining, Delim!Minus, DelimP!Minus,
         Delim!SmallerOf, DelimP!SmallerOf
<1>2. DelimP!IInv'
  <2>1. n \in DelimP!Size /\ 1 \in DelimP!Size
    BY Widths DEF DelimP!Size
  <2>2. DelimP!IInv
    BY DEF Streamed
  <2>3. QED BY <1>1, <2>1, <2>2, Widths, DelimP!GetnStep
<1> DEFINE asked == Delim!Asked(1)
<1>3. /\ pos' = pos + n /\ (dry' => dry \/ n < asked)
      /\ asked \in Nat /\ (asked = 0 => off = end) /\ Supplied(n, asked)
  <2>1. Delim!Remaining = DelimP!Remaining
    BY DEF Delim!Remaining, DelimP!Remaining, Delim!Minus, DelimP!Minus
  <2>2. asked = IF 1 <= end - off THEN 1 ELSE end - off
    BY <2>1, StreamNumbers DEF Delim!Asked, Delim!SmallerOf
  <2>3. pos' = pos + n /\ (dry' => dry \/ n < asked)
    BY DEF Delim!Getn, Delim!Supplies
  <2>4. QED BY <2>2, <2>3, StreamNumbers
<1> HIDE DEF asked
<1>4. /\ pos' \in 0..Len(input) /\ (dry' => pos' = Len(input))
      /\ n = 0 => off = end \/ pos = Len(input)
  <2>1. /\ pos + n \in 0..Len(input) /\ (n < asked => pos + n = Len(input))
        /\ (n = asked \/ n = Available) /\ n <= Available
    BY <1>3, SuppliedFacts
  <2>2. dry => pos = Len(input)
    BY DEF Streamed
  <2>3. QED BY <1>3, <2>1, <2>2, StreamNumbers
<1>5. Streamed'
  BY <1>2, <1>4 DEF Streamed
<1>6. n = 0 => off' = off /\ pos' = pos
  <2>1. off' = DelimP!Plus(off, n)
    BY <1>1 DEF DelimP!Getn
  <2>2. QED BY <1>3, <2>1, StreamNumbers, Widths DEF DelimP!Plus
<1>7. QED BY <1>1, <1>4, <1>5, <1>6 DEF AtEnd

(* The destructor of the innermost sentry: when its narrowing was applied, *)
(* its scope is consumed as far as there are octets.                       *)
LEMMA DestroyStep ==
  ASSUME Streamed, input' = input, Destroy
  PROVE  /\ Streamed'
         /\ sentries # << >> /\ sentries' = Front(sentries) /\ limits' = Front(limits)
         /\ sentries[Len(sentries)].applied => pos' = Delim!SmallerOf(Last(limits), Len(input))
         /\ ~sentries[Len(sentries)].applied => pos' = pos
<1>1. ASSUME NEW n \in 0..Available, Supplied(n, Delim!ToSkip), Delim!DestroyApplied(n)
      PROVE  /\ Streamed' /\ sentries[Len(sentries)].applied
             /\ sentries # << >> /\ sentries' = Front(sentries) /\ limits' = Front(limits)
             /\ pos' = Delim!SmallerOf(Last(limits), Len(input))
  <2>1. DelimP!DestroyApplied(n)
    BY <1>1
    DEF Delim!DestroyApplied, DelimP!DestroyApplied, Delim!Top, DelimP!Top, Delim!ToSkip,
        DelimP!ToSkip, Delim!Remaining, DelimP!Remaining, Delim!Minus, DelimP!Minus,
        Delim!Last, DelimP!Last, Delim!Front, DelimP!Front, Delim!Supplies, DelimP!Supplies, Delim!Plus, DelimP!Plus,
        Delim!RestoredDelimiter, DelimP!RestoredDelimiter
  <2>2. /\ sentries # << >> /\ sentries[Len(sentries)].applied
        /\ sentries' = Front(sentries) /\ limits' = Front(limits)
    BY <2>1 DEF DelimP!DestroyApplied, DelimP!Top, DelimP!Last, DelimP!Front, Front
  <2>3. pos' = pos + n /\ (dry' => dry \/ n < end - off) /\ Supplied(n, end - off)
    <3>1. pos' = pos + n /\ (dry' => dry \/ n < DelimP!Remaining)
      BY <2>1 DEF DelimP!DestroyApplied, DelimP!Supplies, DelimP!ToSkip
    <3>2. Delim!ToSkip = DelimP!Remaining
      BY DEF Delim!ToSkip, Delim!Remaining, DelimP!Remaining, Delim!Minus, DelimP!Minus
    <3>3. QED BY <1>1, <3>1, <3>2, StreamNumbers
  <2>4. /\ n \in Nat /\ n <= end - off /\ n <= Available /\ (n = end - off \/ n = Available)
        /\ pos + n \in 0..Len(input) /\ (n < end - off => pos + n = Len(input))
    BY <2>3, StreamNumbers, SuppliedFacts
  <2>5. DelimP!IInv'
    <3>1. n \in DelimP!Size
      BY <2>4, StreamNumbers, Widths DEF DelimP!Size
    <3>2. QED BY <2>1, <3>1, Widths, DelimP!DestroyAppliedStep DEF Streamed
  <2>6. /\ pos' \in 0..Len(input) /\ (dry' => pos' = Len(input))
        /\ pos' = Delim!SmallerOf(Last(limits), Len(input))
    <3>1. Last(limits) = end
      BY StreamFacts DEF Last
    <3>2. dry => pos = Len(input)
      BY DEF Streamed
    <3>3. pos' = IF end <= Len(input) THEN end ELSE Len(input)
      BY <2>3, <2>4, StreamNumbers
    <3>4. pos' \in 0..Len(input) /\ (dry' => pos' = Len(input))
      BY <2>3, <2>4, <3>2, StreamNumbers
    <3>5. QED BY <3>1, <3>3, <3>4 DEF Delim!SmallerOf
  <2>7. QED BY <1>1, <2>2, <2>5, <2>6 DEF Streamed
<1>2. ASSUME Delim!DestroyUnapplied
      PROVE  /\ Streamed' /\ ~sentries[Len(sentries)].applied /\ pos' = pos
             /\ sentries # << >> /\ sentries' = Front(sentries) /\ limits' = Front(limits)
  <2>1. DelimP!DestroyUnapplied
    BY <1>2 DEF Delim!DestroyUnapplied, DelimP!DestroyUnapplied, Delim!Top, DelimP!Top,
                Delim!wrapped, DelimP!wrapped, Delim!Last, DelimP!Last,
                Delim!Front, DelimP!Front
  <2>2. DelimP!IInv'
    BY <2>1, Widths, DelimP!DestroyUnappliedStep DEF Streamed
  <2>3. QED BY <2>1, <2>2
        DEF Streamed, DelimP!DestroyUnapplied, DelimP!Top, DelimP!wrapped, DelimP!Last,
            DelimP!Front, Front
<1>3. QED BY <1>1, <1>2 DEF Destroy

(* The sentry of the tag that was decoded last.                            *)
LEMMA ConstructStep ==
  ASSUME Streamed, input' = input, th \in Header, Construct
  PROVE  /\ Streamed' /\ UNCHANGED <<pos, dry>>
         /\ \E s \in DelimP!NarrowResult, l \in Nat :
              /\ sentries' = Append(sentries, s) /\ limits' = Append(limits, l)
              /\ s.applied => l = pos + th.length
<1>1. th.length \in DelimP!Size /\ th.length \in Nat /\ Delimits \in BOOLEAN
  BY Widths DEF Header, DelimP!Size, Delimits
<1>2. ASSUME Delim!ConstructApplied(th.length)
      PROVE  /\ Streamed' /\ UNCHANGED <<pos, dry>>
             /\ \E s \in DelimP!NarrowResult, l \in Nat :
                  /\ sentries' = Append(sentries, s) /\ limits' = Append(limits, l)
                  /\ s.applied => l = pos + th.length
  <2>1. DelimP!ConstructApplied(th.length)
    BY <1>2 DEF Delim!ConstructApplied, DelimP!ConstructApplied, Delim!Fits, DelimP!Fits,
                Delim!Remaining, DelimP!Remaining, Delim!Minus, DelimP!Minus,
                Delim!Plus, DelimP!Plus, Delim!wrapped, DelimP!wrapped
  <2>2. DelimP!IInv'
    BY <1>1, <2>1, Widths, DelimP!ConstructAppliedStep DEF Streamed
  <2>3. /\ sentries' = Append(sentries, [applied |-> TRUE, prev_end |-> end])
        /\ limits' = Append(limits, pos + th.length) /\ UNCHANGED <<pos, dry>>
    BY <2>1 DEF DelimP!ConstructApplied, DelimP!wrapped
  <2>4. pos + th.length \in Nat /\ [applied |-> TRUE, prev_end |-> end] \in DelimP!NarrowResult
    BY <1>1, StreamFacts, Widths DEF DelimP!NarrowResult, DelimP!Size
  <2>5. Streamed'
    BY <2>2, <2>3 DEF Streamed
  <2>6. QED BY <2>3, <2>4, <2>5
<1>3. ASSUME Delim!ConstructUnapplied(th.length, Delimits)
      PROVE  /\ Streamed' /\ UNCHANGED <<pos, dry>>
             /\ \E s \in DelimP!NarrowResult, l \in Nat :
                  /\ sentries' = Append(sentries, s) /\ limits' = Append(limits, l)
                  /\ s.applied => l = pos + th.length
  <2>1. DelimP!ConstructUnapplied(th.length, Delimits)
    BY <1>3 DEF Delim!ConstructUnapplied, DelimP!ConstructUnapplied, Delim!Fits, DelimP!Fits,
                Delim!Remaining, DelimP!Remaining, Delim!Minus, DelimP!Minus,
                Delim!Last, DelimP!Last, Delim!wrapped, DelimP!wrapped
  <2>2. DelimP!IInv'
    BY <1>1, <2>1, Widths, DelimP!ConstructUnappliedStep DEF Streamed
  <2>3. /\ sentries' = Append(sentries, [applied |-> FALSE, prev_end |-> 0])
        /\ limits' = Append(limits, Last(limits)) /\ UNCHANGED <<pos, dry>>
    BY <2>1 DEF DelimP!ConstructUnapplied, DelimP!wrapped, DelimP!Last, Last
  <2>4. Last(limits) \in Nat /\ [applied |-> FALSE, prev_end |-> 0] \in DelimP!NarrowResult
    BY StreamFacts, Widths DEF DelimP!NarrowResult, DelimP!Size, Last
  <2>5. Streamed'
    BY <2>2, <2>3 DEF Streamed
  <2>6. QED BY <2>3, <2>4, <2>5
<1>4. QED BY <1>2, <1>3 DEF Construct

LEMMA StreamIdle ==
  ASSUME Streamed, input' = input, UNCHANGED stream PROVE Streamed'
<1>1. UNCHANGED DelimP!vars /\ UNCHANGED <<pos, dry>>
  BY DEF stream, DelimP!vars, DelimP!wrapped
<1>2. DelimP!IInv'
  BY <1>1, Widths, DelimP!NextStep DEF Streamed
<1>3. QED BY <1>1, <1>2 DEF Streamed

-----------------------------------------------------------------------------
(* The decoder of headers.                                                 *)

Decoder ==
  /\ DecP!IInv
  /\ result = "complete" => th \in Header
  /\ pc # "done" => result = "none"

(* What a get can do to the result.                                        *)
LEMMA GetResults ==
  ASSUME NEW o \in Octet, DecP!Get(o)
  PROVE  /\ pc # "done"
         /\ \/ pc' # "done" /\ result' = result
            \/ pc' = "done" /\ result' \notin {"complete", "empty"}
            \/ pc' = "done" /\ result' = "complete" /\ th'.shape # "none"
<1>1. ASSUME NEW r \in DecP!Results \ {"complete", "empty"}, DecP!Returns(r)
      PROVE  pc' = "done" /\ result' \notin {"complete", "empty"}
  BY <1>1 DEF DecP!Returns
<1>2. ASSUME NEW p \in {"number", "following", "length", "octets"}, DecP!Awaits(p)
      PROVE  pc' # "done" /\ result' = result
  BY <1>2 DEF DecP!Awaits
<1>3. ASSUME NEW s \in TagShape, NEW l, DecP!Completes(s, l)
      PROVE  pc' = "done" /\ result' = "complete" /\ th'.shape # "none"
  BY <1>3 DEF DecP!Completes, DecP!Decoded, TagShape
<1>4. ASSUME NEW n, DecP!NumberSoFar(o, n)
      PROVE  \/ pc' # "done" /\ result' = result
             \/ pc' = "done" /\ result' \notin {"complete", "empty"}
  BY <1>1, <1>2, <1>4 DEF DecP!NumberSoFar, DecP!Results
<1>5. CASE DecP!GotIdentifier(o)
  BY <1>2, <1>5 DEF DecP!GotIdentifier
<1>6. CASE DecP!GotNumberFirst(o)
  BY <1>1, <1>4, <1>6 DEF DecP!GotNumberFirst, DecP!Results
<1>7. CASE DecP!GotNumberFollowing(o)
  BY <1>4, <1>7 DEF DecP!GotNumberFollowing
<1>8. DecP!Shape \in TagShape /\ "constructed_indefinite" \in TagShape
  BY DEF DecP!Shape, TagShape
<1>9. CASE DecP!GotLength(o)
  BY <1>1, <1>2, <1>3, <1>8, <1>9 DEF DecP!GotLength, DecP!Results
<1>10. CASE DecP!GotLengthOctet(o)
  BY <1>1, <1>2, <1>3, <1>8, <1>10 DEF DecP!GotLengthOctet, DecP!Results
<1>11. QED BY <1>5, <1>6, <1>7, <1>9, <1>10 DEF DecP!Get

(* A header that was stored is one of the code's type.                     *)
LEMMA StoredIsHeader ==
  ASSUME NEW h \in DecP!Header \cup {DecP!NoHeader}, h.shape # "none"
  PROVE  h \in Header
  BY DEF DecP!Header, Header, DecP!NoHeader, DecP!TagClass, TagClass, DecP!TagShape, TagShape

LEMMA HeaderGets ==
  ASSUME Decoder, NEW o \in Octet, Dec!Get(o)
  PROVE  Decoder' /\ pc # "done" /\ result' # "empty"
<1>1. DecP!Get(o)
  BY DEF Dec!Get, DecP!Get, Dec!GotIdentifier, DecP!GotIdentifier,
         Dec!GotNumberFirst, DecP!GotNumberFirst, Dec!GotNumberFollowing, DecP!GotNumberFollowing,
         Dec!GotLength, DecP!GotLength, Dec!GotLengthOctet, DecP!GotLengthOctet,
         Dec!NumberSoFar, DecP!NumberSoFar, Dec!Returns, DecP!Returns, Dec!Awaits, DecP!Awaits,
         Dec!Completes, DecP!Completes, Dec!Decoded, DecP!Decoded, Dec!Shape, DecP!Shape,
         Dec!NumberFull, DecP!NumberFull, Dec!LengthFull, DecP!LengthFull,
         Dec!NumberShifted, DecP!NumberShifted, Dec!LengthShifted, DecP!LengthShifted,
         Dec!LowNumber, DecP!LowNumber, Dec!HighForm, DecP!HighForm, Dec!Low7, DecP!Low7,
         Dec!More, DecP!More, Dec!Reserved, DecP!Reserved, Dec!Indefinite, DecP!Indefinite,
         Dec!Constructed, DecP!Constructed, Dec!Class, DecP!Class,
         Dec!Truncated, DecP!Truncated
<1>2. DecP!IInv'
  <2>1. o \in DecP!Octet
    BY DEF Octet, DecP!Octet
  <2>2. QED BY <1>1, <2>1, Widths, DecP!GetStep DEF Decoder
<1>3. th' \in DecP!Header \cup {DecP!NoHeader}
  BY <1>2 DEF DecP!IInv, DecP!TypeOK
<1>4. QED BY <1>1, <1>2, <1>3, GetResults, StoredIsHeader DEF Decoder

LEMMA HeaderFails ==
  ASSUME Decoder, Dec!GetFails
  PROVE  Decoder' /\ pc' = "done" /\ result' # "complete"
<1>1. DecP!GetFails
  BY DEF Dec!GetFails, DecP!GetFails, Dec!Returns, DecP!Returns
<1>2. DecP!IInv'
  BY <1>1, Widths, DecP!GetFailsStep DEF Decoder
<1>3. pc' = "done" /\ result' # "complete"
  BY <1>1 DEF DecP!GetFails, DecP!Returns
<1>4. QED BY <1>2, <1>3 DEF Decoder

LEMMA HeaderBegins ==
  ASSUME Decoder, Dec!Call(TRUE)
  PROVE  Decoder' /\ result' = "none"
<1>1. /\ pc' = "identifier" /\ strict' = TRUE /\ ident' = 0 /\ tn' = 0 /\ len' = 0
      /\ left' = 0 /\ result' = "none" /\ read' = << >> /\ th' = th
  BY DEF Dec!Call
<1>2. DecP!IInv'
  BY <1>1, Widths DEF Decoder, DecP!IInv, DecP!TypeOK, DecP!Waiting, DecP!Octet
<1>3. QED BY <1>1, <1>2 DEF Decoder

LEMMA HeaderIdle ==
  ASSUME Decoder, UNCHANGED decoder PROVE Decoder'
<1>1. UNCHANGED DecP!vars /\ UNCHANGED <<pc, th, result>>
  BY DEF decoder, DecP!vars
<1>2. DecP!IInv'
  BY <1>1, Widths, DecP!NextStep DEF Decoder
<1>3. QED BY <1>1, <1>2 DEF Decoder

-----------------------------------------------------------------------------
(* The decoders of contents.                                               *)

LEMMA ContentGets ==
  ASSUME TypesP!IInv, NEW o \in Octet, Types!Get(o) PROVE TypesP!IInv'
<1>1. TypesP!Get(o)
  BY DEF Types!Get, TypesP!Get, Types!GotBoolean, TypesP!GotBoolean,
         Types!GotInteger, TypesP!GotInteger, Types!GotString, TypesP!GotString,
         Types!GotOid, TypesP!GotOid, Types!Returns, TypesP!Returns, Types!Awaits, TypesP!Awaits,
         Types!TooLong, TypesP!TooLong, Types!IntMax, TypesP!IntMax, Types!Bits, TypesP!Bits,
         Types!Shifted, TypesP!Shifted, Types!CompMax, TypesP!CompMax,
         Types!CompBsize, TypesP!CompBsize, Types!TwoFirst, TypesP!TwoFirst,
         Types!Pushes, TypesP!Pushes, Types!ComponentFull, TypesP!ComponentFull,
         Types!More, TypesP!More, Types!Low7, TypesP!Low7, Types!Truncated, TypesP!Truncated,
         Types!AllOnes, TypesP!AllOnes, Types!Value, TypesP!Value
<1>2. o \in TypesP!Octet
  BY DEF Octet, TypesP!Octet
<1>3. QED BY <1>1, <1>2, Widths, TypesP!BooleanStep, TypesP!IntegerStep, TypesP!StringStep,
             TypesP!OidStep DEF TypesP!Get

LEMMA ContentEnds ==
  ASSUME TypesP!IInv, Types!GetFails \/ Types!Unimplemented PROVE TypesP!IInv'
<1>1. TypesP!GetFails \/ TypesP!Unimplemented
  BY DEF Types!GetFails, TypesP!GetFails, Types!Unimplemented, TypesP!Unimplemented,
         Types!Returns, TypesP!Returns
<1>2. QED BY <1>1, Widths, TypesP!EndStep

LEMMA ContentBegins ==
  ASSUME NEW k \in TypesP!Kinds, Types!Called(k) PROVE TypesP!IInv'
<1>1. /\ kind' = k /\ waits' = "first" /\ value' = 0 /\ size' = 0 /\ pushed' = << >>
      /\ comp' = 0 /\ bsize' = 14 /\ outcome' = "none" /\ content' = << >>
  BY DEF Types!Called
<1>2. << >> \in Seq(Nat) /\ << >> \in Seq({0, 1}) /\ << >> \in Seq(TypesP!Octet)
  OBVIOUS
<1>3. QED BY <1>1, <1>2, Widths, TypesP!Widths DEF TypesP!IInv, TypesP!TypeOK, TypesP!Bounded

LEMMA ContentIdle ==
  ASSUME TypesP!IInv, UNCHANGED types PROVE TypesP!IInv'
<1>1. UNCHANGED TypesP!vars
  BY DEF types, TypesP!vars
<1>2. QED BY <1>1, Widths, TypesP!NextStep

LEMMA KindType == KindOf(th) \in TypesP!Kinds
  BY DEF KindOf, TypesP!Kinds

-----------------------------------------------------------------------------
(* The scan.                                                               *)

ScanTyped ==
  /\ at \in {"header", "enter", "content", "leave", "return", "done"}
  /\ bsr \in {"remaining", "finished", "failed"}
  /\ open \in Seq(Header)
  /\ Len(sentries) = Len(open) + IF at \in {"content", "leave"} THEN 1 ELSE 0
  /\ os_good \in BOOLEAN
  /\ lines \in Seq(Line)
  /\ at = "done" => open = << >>

(* The last line that was printed is that of the tag at hand, until a call *)
(* returns, and no loop is more than one level below it.  Only the first   *)
(* header is decoded outside of all loops.                                 *)
Levels ==
  /\ LevelsNest
  /\ lines = << >> => open = << >>
  /\ lines # << >> => Len(open) <= Last(lines).level + 1
  /\ at = "header" /\ lines # << >> => open # << >>
  /\ at \in {"enter", "content"} => th \in Header /\ lines # << >> /\ Last(lines) = LineOf(th)

(* The outermost scope is that of the first tag, and no other follows it.  *)
Rooted ==
  /\ limits[1] = SizeMax
  /\ top \in Nat \cup {-1}
  /\ at \in {"header", "enter"} /\ open = << >> => top = -1
  /\ top # -1 => IF sentries = << >> THEN pos = Delim!SmallerOf(top, Len(input))
                 ELSE sentries[1].applied /\ limits[2] = top

(* Why a call returns that there are no more tags.                         *)
EocBefore ==
  lines # << >> /\ IsUniversal(Last(lines), univ.eoc) /\ Last(lines).level = Len(open)
Ending ==
  /\ at = "header" /\ result = "empty" => AtEnd
  /\ at = "return" /\ bsr = "finished" => AtEnd \/ EocBefore
  /\ at = "leave" /\ bsr = "finished" => EocBefore

Scanned == ScanTyped /\ Levels /\ Rooted /\ Ending
IInv == Streamed /\ Decoder /\ TypesP!IInv /\ Scanned

LEMMA Initially == Init => IInv
<1> SUFFICES ASSUME Init PROVE IInv
  OBVIOUS
<1>1. Streamed
  <2>1. DelimP!Init
    BY DEF Init, Delim!Init, DelimP!Init
  <2>2. DelimP!IInv
    BY <2>1, Widths, DelimP!Initially
  <2>3. input \in Seq(Octet) /\ Len(input) \in Nat
    BY BerScanAssumption, LenProperties DEF Init
  <2>4. QED BY <2>2, <2>3 DEF Streamed, Init, Delim!Init
<1>2. Decoder
  <2>1. DecP!Init
    BY DEF Init, Dec!Init, DecP!Init, Dec!NoHeader, DecP!NoHeader
  <2>2. DecP!IInv
    BY <2>1, Widths, DecP!Initially
  <2>3. QED BY <2>2 DEF Decoder, Init, Dec!Init
<1>3. TypesP!IInv
  <2>1. TypesP!Start("boolean") /\ "boolean" \in TypesP!Kinds
    BY DEF Init, Types!Start, TypesP!Start, TypesP!Kinds
  <2>2. TypesP!Init
    BY <2>1 DEF TypesP!Init
  <2>3. QED BY <2>2, Widths, TypesP!Initially
<1>4. ScanTyped
  BY DEF Init, Delim!Init, ScanTyped
<1>5. Levels
  BY DEF Init, Levels, LevelsNest
<1>6. Rooted
  BY DEF Init, Delim!Init, Rooted
<1>7. Ending
  BY DEF Init, Dec!Init, Ending
<1>8. QED BY <1>1, <1>2, <1>3, <1>4, <1>5, <1>6, <1>7 DEF IInv, Scanned

-----------------------------------------------------------------------------
LEMMA DecodeHeaderStep ==
  ASSUME IInv, DecodeHeader PROVE IInv'
<1>1. /\ UNCHANGED <<input, at, bsr, open, os_good, lines, top>> /\ UNCHANGED types
      /\ at = "header" /\ Streamed /\ Decoder
  BY DEF DecodeHeader, scan, IInv
<1>2. Streamed' /\ Decoder' /\ UNCHANGED <<end, sentries, limits>> /\ (result' = "empty" => AtEnd')
  <2>1. CASE \E o \in Octet : Gets(o) /\ Dec!Get(o)
    <3>1. PICK o \in Octet : Gets(o) /\ Dec!Get(o)
      BY <2>1
    <3>2. Streamed' /\ UNCHANGED <<end, sentries, limits>>
      BY <1>1, <3>1, ReadStep DEF Gets
    <3>3. QED BY <1>1, <3>1, <3>2, HeaderGets
  <2>2. CASE GetsNone /\ Dec!GetFails
    <3>1. Streamed' /\ UNCHANGED <<end, sentries, limits>> /\ AtEnd'
      BY <1>1, <2>2, ReadStep DEF GetsNone
    <3>2. QED BY <1>1, <2>2, <3>1, HeaderFails
  <2>3. QED BY <2>1, <2>2 DEF DecodeHeader
<1>3. TypesP!IInv'
  BY <1>1, ContentIdle DEF IInv
<1>4. ScanTyped' /\ Levels'
  BY <1>1, <1>2 DEF IInv, Scanned, ScanTyped, Levels, LevelsNest
<1>5. Rooted'
  <2>1. sentries # << >> \/ open = << >>
    BY <1>1 DEF IInv, Scanned, ScanTyped
  <2>2. QED BY <1>1, <1>2, <2>1 DEF IInv, Scanned, Rooted
<1>6. Ending'
  BY <1>1, <1>2 DEF Ending
<1>7. QED BY <1>2, <1>3, <1>4, <1>5, <1>6 DEF IInv, Scanned

LEMMA NoHeaderStep ==
  ASSUME IInv, NoHeader PROVE IInv'
<1>1. /\ UNCHANGED <<input, open, lines, top>> /\ UNCHANGED stream
      /\ UNCHANGED decoder /\ UNCHANGED types
      /\ at = "header" /\ at' = "return" /\ os_good' \in BOOLEAN
      /\ bsr' \in {"finished", "failed"} /\ (bsr' = "finished" => result = "empty")
  BY DEF NoHeader, Empty, IInv, Scanned, ScanTyped
<1>2. Streamed' /\ Decoder' /\ TypesP!IInv'
  BY <1>1, StreamIdle, HeaderIdle, ContentIdle DEF IInv
<1>3. ScanTyped' /\ Levels' /\ Rooted'
  BY <1>1 DEF IInv, Scanned, ScanTyped, Levels, LevelsNest, Rooted, stream
<1>4. Ending'
  BY <1>1 DEF IInv, Scanned, Ending, AtEnd, stream
<1>5. QED BY <1>2, <1>3, <1>4 DEF IInv, Scanned

(* A line of the level of its tag is at most one below the line before it. *)
LEMMA PrintLabelStep ==
  ASSUME IInv, PrintLabel PROVE IInv'
<1>1. /\ UNCHANGED <<input, open, top>> /\ UNCHANGED stream
      /\ UNCHANGED decoder /\ UNCHANGED types
      /\ at = "header" /\ pc = "done" /\ result = "complete" /\ os_good' \in BOOLEAN
      /\ \/ at' = "enter" /\ lines' = Append(lines, LineOf(th)) /\ bsr' = bsr
         \/ at' = "return" /\ bsr' = "failed" /\ lines' = lines
  BY DEF PrintLabel, IInv, Scanned, ScanTyped
<1>2. Streamed' /\ Decoder' /\ TypesP!IInv'
  BY <1>1, StreamIdle, HeaderIdle, ContentIdle DEF IInv
<1>3. Rooted' /\ Ending'
  BY <1>1 DEF IInv, Scanned, Rooted, Ending, stream
<1>4. CASE at' = "return" /\ bsr' = "failed" /\ lines' = lines
  <2>1. ScanTyped' /\ Levels'
    BY <1>1, <1>4 DEF IInv, Scanned, ScanTyped, Levels, LevelsNest, stream
  <2>2. QED BY <1>2, <1>3, <2>1 DEF IInv, Scanned
<1>5. CASE at' = "enter" /\ lines' = Append(lines, LineOf(th)) /\ bsr' = bsr
  <2> DEFINE n == Len(lines)
             line == LineOf(th)
  <2>1. th \in Header /\ th' = th
    BY <1>1 DEF IInv, Decoder, decoder
  <2>2. line \in Line /\ line.level = Len(open) /\ Len(open) \in Nat
    <3>1. Len(open) \in Nat
      BY LenProperties DEF IInv, Scanned, ScanTyped
    <3>2. QED BY <2>1, <3>1 DEF LineOf, Level, Line, Header
  <2> HIDE DEF line
  <2>3. /\ n \in Nat /\ lines' \in Seq(Line) /\ Len(lines') = n + 1 /\ lines'[n + 1] = line
        /\ \A i \in 1..n : lines'[i] = lines[i] /\ lines[i] \in Line
        /\ lines' # << >> /\ Last(lines') = line
    <3>1. lines \in Seq(Line)
      BY DEF IInv, Scanned, ScanTyped
    <3>2. QED BY <1>5, <2>2, <3>1, AppendFacts, ElementOfSeq, EmptySeq DEF Last, line
  <2>4. ScanTyped'
    BY <1>1, <1>5, <2>3 DEF IInv, Scanned, ScanTyped, stream
  <2>5. n # 0 => /\ lines # << >> /\ Last(lines) = lines[n] /\ lines[n].level \in Nat
                 /\ line.level \in 1..lines[n].level + 1
    <3>1. SUFFICES ASSUME n # 0
                   PROVE  /\ lines # << >> /\ Last(lines) = lines[n] /\ lines[n].level \in Nat
                          /\ line.level \in 1..lines[n].level + 1
      OBVIOUS
    <3>2. lines # << >> /\ Last(lines) = lines[n] /\ lines[n] \in Line
      BY <2>3, <3>1, EmptySeq DEF Last
    <3>3. lines[n].level \in Nat
      BY <3>2 DEF Line
    <3>4. open # << >> /\ Len(open) <= lines[n].level + 1
      BY <1>1, <3>2 DEF IInv, Scanned, Levels
    <3>5. Len(open) # 0
      BY <3>4, EmptySeq DEF IInv, Scanned, ScanTyped
    <3>6. QED BY <2>2, <3>2, <3>3, <3>4, <3>5
  <2>6. n = 0 => line.level = 0
    <3>1. n = 0 => open = << >>
      BY EmptySeq DEF IInv, Scanned, ScanTyped, Levels
    <3>2. QED BY <2>2, <3>1
  <2>7. LevelsNest'
    <3>1. SUFFICES ASSUME NEW i \in 1..n + 1
                   PROVE  IF i = 1 THEN lines'[i].level = 0
                          ELSE lines'[i].level \in 1..lines'[i - 1].level + 1
      BY <2>3 DEF LevelsNest
    <3>2. CASE i = n + 1
      BY <2>3, <2>5, <2>6, <3>2
    <3>3. CASE i # n + 1
      <4>1. i \in 1..n /\ (i # 1 => i - 1 \in 1..n)
        BY <2>3, <3>3
      <4>2. IF i = 1 THEN lines[i].level = 0
            ELSE lines[i].level \in 1..lines[i - 1].level + 1
        <5>1. i \in DOMAIN lines
          BY <4>1 DEF IInv, Scanned, ScanTyped
        <5>2. QED BY <5>1 DEF IInv, Scanned, Levels, LevelsNest
      <4>3. QED BY <2>3, <4>1, <4>2
    <3>4. QED BY <3>2, <3>3
  <2>8. LineOf(th)' = line
    BY <1>1, <2>1 DEF line, LineOf, Level
  <2>9. Levels'
    BY <1>1, <1>5, <2>1, <2>2, <2>3, <2>7, <2>8 DEF Levels
  <2>10. QED BY <1>2, <1>3, <2>4, <2>9 DEF IInv, Scanned
<1>6. QED BY <1>1, <1>4, <1>5

LEMMA DecodeContentStep ==
  ASSUME IInv, DecodeContent PROVE IInv'
<1>1. /\ UNCHANGED <<input, at, bsr, open, os_good, lines, top>> /\ UNCHANGED decoder
      /\ at = "content" /\ Streamed
  BY DEF DecodeContent, scan, IInv
<1>2. Streamed' /\ TypesP!IInv' /\ UNCHANGED <<sentries, limits>>
  <2>1. CASE \E o \in Octet : Gets(o) /\ Types!Get(o)
    <3>1. PICK o \in Octet : Gets(o) /\ Types!Get(o)
      BY <2>1
    <3>2. Streamed' /\ UNCHANGED <<end, sentries, limits>>
      BY <1>1, <3>1, ReadStep DEF Gets
    <3>3. QED BY <3>1, <3>2, ContentGets DEF IInv
  <2>2. CASE GetsNone /\ Types!GetFails
    <3>1. Streamed' /\ UNCHANGED <<end, sentries, limits>>
      BY <1>1, <2>2, ReadStep DEF GetsNone
    <3>2. QED BY <2>2, <3>1, ContentEnds DEF IInv
  <2>3. CASE Types!Unimplemented /\ UNCHANGED stream
    <3>1. Streamed' /\ UNCHANGED <<sentries, limits>>
      BY <1>1, <2>3, StreamIdle DEF stream
    <3>2. QED BY <2>3, <3>1, ContentEnds DEF IInv
  <2>4. QED BY <2>1, <2>2, <2>3 DEF DecodeContent
<1>3. Decoder'
  BY <1>1, HeaderIdle DEF IInv
<1>4. ScanTyped' /\ Levels'
  BY <1>1, <1>2 DEF IInv, Scanned, ScanTyped, Levels, LevelsNest, LineOf, Level, decoder
<1>5. sentries # << >>
  BY <1>1, LenProperties, EmptySeq DEF IInv, Scanned, ScanTyped
<1>6. Rooted' /\ Ending'
  BY <1>1, <1>2, <1>5 DEF IInv, Scanned, Rooted, Ending
<1>7. QED BY <1>2, <1>3, <1>4, <1>6 DEF IInv, Scanned

LEMMA EndContentStep ==
  ASSUME IInv, EndContent PROVE IInv'
<1>1. /\ UNCHANGED <<input, open, lines, top>> /\ UNCHANGED stream
      /\ UNCHANGED decoder /\ UNCHANGED types
      /\ at = "content" /\ at' = "leave" /\ os_good' \in BOOLEAN
      /\ bsr' \in {"remaining", "finished", "failed"} /\ (bsr' = "finished" => IsEoc(th))
  BY DEF EndContent, IInv, Scanned, ScanTyped
<1>2. Streamed' /\ Decoder' /\ TypesP!IInv'
  BY <1>1, StreamIdle, HeaderIdle, ContentIdle DEF IInv
<1>3. ScanTyped' /\ Levels' /\ Rooted'
  BY <1>1 DEF IInv, Scanned, ScanTyped, Levels, LevelsNest, Rooted, stream
<1>4. IsEoc(th) => EocBefore
  <2>1. lines # << >> /\ Last(lines) = LineOf(th)
    BY <1>1 DEF IInv, Scanned, Levels
  <2>2. /\ LineOf(th).level = Len(open) /\ LineOf(th).tclass = th.tclass
        /\ LineOf(th).number = th.number
    BY DEF LineOf, Level
  <2>3. QED BY <2>1, <2>2 DEF EocBefore, IsEoc, IsUniversal
<1>5. Ending'
  BY <1>1, <1>4 DEF Ending, EocBefore
<1>6. QED BY <1>2, <1>3, <1>5 DEF IInv, Scanned

LEMMA AgainStep ==
  ASSUME IInv, Again PROVE IInv'
<1>1. /\ UNCHANGED <<input, bsr, open, os_good, lines, top>> /\ UNCHANGED stream
      /\ UNCHANGED types
      /\ at = "return" /\ at' = "header" /\ open # << >> /\ Dec!Call(TRUE)
  BY DEF Again
<1>2. Streamed' /\ Decoder' /\ TypesP!IInv' /\ result' = "none"
  BY <1>1, StreamIdle, HeaderBegins, ContentIdle DEF IInv
<1>3. ScanTyped' /\ Levels' /\ Rooted' /\ Ending'
  BY <1>1, <1>2 DEF IInv, Scanned, ScanTyped, Levels, LevelsNest, Rooted, Ending, stream
<1>4. QED BY <1>2, <1>3 DEF IInv, Scanned

LEMMA DoneStep ==
  ASSUME IInv, Done PROVE IInv'
<1>1. /\ UNCHANGED <<input, bsr, open, os_good, lines, top>> /\ UNCHANGED stream
      /\ UNCHANGED decoder /\ UNCHANGED types
      /\ at = "return" /\ at' = "done" /\ open = << >>
  BY DEF Done
<1>2. Streamed' /\ Decoder' /\ TypesP!IInv'
  BY <1>1, StreamIdle, HeaderIdle, ContentIdle DEF IInv
<1>3. ScanTyped' /\ Levels' /\ Rooted' /\ Ending'
  BY <1>1 DEF IInv, Scanned, ScanTyped, Levels, LevelsNest, Rooted, Ending, stream
<1>4. QED BY <1>2, <1>3 DEF IInv, Scanned

LEMMA FrontIs ==
  ASSUME NEW S, NEW s \in Seq(S), s # << >>
  PROVE  /\ Front(s) \in Seq(S)
         /\ Len(s) \in Nat \ {0} /\ Len(Front(s)) = Len(s) - 1
         /\ s[Len(s)] \in S
         /\ \A i \in 1..Len(s) - 1 : Front(s)[i] = s[i]
  BY DelimP!FrontFacts, Widths DEF Front, DelimP!Front

LEMMA LoopEndsStep ==
  ASSUME IInv, LoopEnds PROVE IInv'
<1>1. /\ UNCHANGED <<input, os_good, lines, top>> /\ UNCHANGED stream
      /\ UNCHANGED decoder /\ UNCHANGED types
      /\ at = "return" /\ at' = "leave" /\ open # << >> /\ open' = Front(open)
      /\ bsr' \in {"failed", "remaining"}
  BY DEF LoopEnds
<1>2. Streamed' /\ Decoder' /\ TypesP!IInv'
  BY <1>1, StreamIdle, HeaderIdle, ContentIdle DEF IInv
<1>3. open' \in Seq(Header) /\ Len(open) \in Nat \ {0} /\ Len(open') = Len(open) - 1
  BY <1>1, FrontIs DEF IInv, Scanned, ScanTyped
<1>4. ScanTyped'
  BY <1>1, <1>3 DEF IInv, Scanned, ScanTyped, stream
<1>5. Levels'
  <2>1. lines # << >> => Last(lines).level \in Nat
    <3>1. lines # << >> => Last(lines) \in Line
      BY EmptySeq, LenProperties, ElementOfSeq DEF IInv, Scanned, ScanTyped, Last
    <3>2. QED BY <3>1 DEF Line
  <2>2. lines # << >>
    BY <1>1 DEF IInv, Scanned, Levels
  <2>3. Len(open') <= Last(lines).level + 1
    BY <1>3, <2>1, <2>2 DEF IInv, Scanned, Levels
  <2>4. QED BY <1>1, <2>2, <2>3 DEF IInv, Scanned, Levels, LevelsNest
<1>6. Rooted' /\ Ending'
  BY <1>1 DEF IInv, Scanned, Rooted, Ending, stream
<1>7. QED BY <1>2, <1>4, <1>5, <1>6 DEF IInv, Scanned

(* Only the end of the first tag is looked at: no octet is taken behind it.*)
LEMMA LeaveStep ==
  ASSUME IInv, Leave PROVE IInv'
<1> DEFINE n == Len(sentries)
<1>1. /\ UNCHANGED <<input, bsr, open, os_good, lines, top>>
      /\ UNCHANGED decoder /\ UNCHANGED types
      /\ at = "leave" /\ at' = "return" /\ Destroy /\ Streamed
  BY DEF Leave, IInv
<1>2. Streamed' /\ Decoder' /\ TypesP!IInv'
  BY <1>1, DestroyStep, HeaderIdle, ContentIdle DEF IInv
<1>3. /\ sentries # << >> /\ n \in Nat \ {0} /\ Len(sentries') = n - 1
      /\ \A i \in 1..n - 1 : sentries'[i] = sentries[i]
      /\ Len(limits) = n + 1 /\ \A i \in 1..n : limits'[i] = limits[i]
  <2>1. sentries # << >> /\ sentries' = Front(sentries) /\ limits' = Front(limits)
    BY <1>1, DestroyStep
  <2>2. sentries \in Seq(DelimP!NarrowResult) /\ limits \in Seq(Nat) /\ Len(limits) = n + 1
    BY <1>1, StreamFacts
  <2>3. n \in Nat \ {0} /\ limits # << >>
    BY <2>1, <2>2, FrontIs, EmptySeq
  <2>4. Len(limits) - 1 = n
    BY <2>2, <2>3
  <2>5. QED BY <2>1, <2>2, <2>3, <2>4, FrontIs
<1>4. ScanTyped' /\ Levels'
  BY <1>1, <1>3, LenProperties DEF IInv, Scanned, ScanTyped, Levels, LevelsNest
<1>5. Rooted'
  <2>1. limits'[1] = SizeMax
    BY <1>3 DEF IInv, Scanned, Rooted
  <2>2. ASSUME top # -1, sentries' = << >>
        PROVE  pos' = Delim!SmallerOf(top, Len(input))
    <3>1. n = 1
      BY <1>3, <2>2, EmptySeq
    <3>2. sentries[n].applied /\ Last(limits) = top
      BY <1>3, <2>2, <3>1 DEF IInv, Scanned, Rooted, Last
    <3>3. QED BY <1>1, <3>2, DestroyStep
  <2>3. ASSUME top # -1, sentries' # << >>
        PROVE  sentries'[1].applied /\ limits'[2] = top
    <3>1. n - 1 # 0
      <4>1. sentries' \in Seq(DelimP!NarrowResult)
        BY <1>2 DEF Streamed, DelimP!IInv, DelimP!TypeOK
      <4>2. QED BY <1>3, <2>3, <4>1, EmptySeq
    <3>2. 1 \in 1..n - 1 /\ 2 \in 1..n
      BY <1>3, <3>1
    <3>3. sentries[1].applied /\ limits[2] = top
      BY <1>3, <2>3 DEF IInv, Scanned, Rooted
    <3>4. QED BY <1>3, <3>2, <3>3
  <2>4. top' = top /\ input' = input /\ at' = "return" /\ top \in Nat \cup {-1}
    BY <1>1 DEF IInv, Scanned, Rooted
  <2>5. top # -1 => IF sentries' = << >> THEN pos' = Delim!SmallerOf(top, Len(input))
                    ELSE sentries'[1].applied /\ limits'[2] = top
    BY <2>2, <2>3
  <2>6. QED BY <2>1, <2>4, <2>5 DEF Rooted, Delim!SmallerOf
<1>6. Ending'
  BY <1>1 DEF IInv, Scanned, Ending, EocBefore
<1>7. QED BY <1>2, <1>4, <1>5, <1>6 DEF IInv, Scanned

(* The sentry of the first tag is the first one.                           *)
LEMMA EnterStep ==
  ASSUME IInv, Enter PROVE IInv'
<1> DEFINE n == Len(sentries)
<1>1. /\ input' = input /\ lines' = lines /\ os_good' \in BOOLEAN
      /\ at = "enter" /\ Construct /\ Streamed /\ Decoder
      /\ top' = IF open = << >> /\ Last(sentries').applied THEN pos + th.length ELSE top
      /\ th \in Header /\ lines # << >> /\ Last(lines) = LineOf(th) /\ Len(open) = n
      /\ Len(open) \in Nat
  <2>1. /\ input' = input /\ lines' = lines /\ os_good' \in {os_good, FALSE}
        /\ at = "enter" /\ Construct
        /\ top' = IF open = << >> /\ Last(sentries').applied THEN pos + th.length ELSE top
    BY Zenon DEF Enter
  <2>2. Streamed /\ Decoder /\ ScanTyped /\ Levels
    BY DEF IInv, Scanned
  <2>3. Len(open) \in Nat /\ Len(open) = n /\ os_good \in BOOLEAN
    BY <2>1, <2>2, LenProperties DEF ScanTyped
  <2>4. th \in Header /\ lines # << >> /\ Last(lines) = LineOf(th)
    BY <2>1, <2>2 DEF Levels
  <2>5. os_good' \in BOOLEAN
    BY <2>1, <2>3
  <2>6. QED BY <2>1, <2>2, <2>3, <2>4, <2>5
<1>2. \/ at' = "content" /\ Types!Called(KindOf(th)) /\ UNCHANGED <<bsr, open>> /\ UNCHANGED decoder
      \/ at' = "leave" /\ bsr' = "failed" /\ UNCHANGED types /\ UNCHANGED open
           /\ UNCHANGED decoder
      \/ at' = "header" /\ open' = Append(open, th) /\ Dec!Call(TRUE) /\ UNCHANGED bsr
           /\ UNCHANGED types
  BY DEF Enter
<1>3. Streamed'
  BY <1>1, ConstructStep
<1>4. Decoder' /\ (at' = "header" => result' = "none")
  BY <1>1, <1>2, HeaderBegins, HeaderIdle
<1>5. TypesP!IInv'
  BY <1>2, KindType, ContentBegins, ContentIdle DEF IInv
<1>6. PICK s \in DelimP!NarrowResult, l \in Nat :
        /\ sentries' = Append(sentries, s) /\ limits' = Append(limits, l)
        /\ s.applied => l = pos + th.length
  BY <1>1, ConstructStep
<1>7. /\ n \in Nat /\ Len(sentries') = n + 1 /\ sentries'[n + 1] = s
      /\ \A i \in 1..n : sentries'[i] = sentries[i]
      /\ limits'[n + 2] = l /\ \A i \in 1..n + 1 : limits'[i] = limits[i]
  <2>1. sentries \in Seq(DelimP!NarrowResult) /\ limits \in Seq(Nat) /\ Len(limits) = n + 1
    BY <1>1, StreamFacts
  <2>2. n \in Nat /\ (n + 1) + 1 = n + 2
    BY <1>1
  <2>3. QED BY <1>6, <2>1, <2>2, AppendFacts
<1>8. ASSUME at' \in {"content", "leave"} PROVE ScanTyped' /\ Levels'
  <2>1. open' = open /\ bsr' \in {bsr, "failed"} /\ UNCHANGED decoder
    BY <1>2, <1>8
  <2>2. ScanTyped'
    BY <1>1, <1>7, <1>8, <2>1 DEF IInv, Scanned, ScanTyped
  <2>3. Levels'
    <3>1. LineOf(th)' = LineOf(th) /\ th' = th
      BY <2>1 DEF LineOf, Level, decoder
    <3>2. QED BY <1>1, <1>8, <2>1, <3>1 DEF IInv, Scanned, Levels, LevelsNest
  <2>4. QED BY <2>2, <2>3
<1>9. ASSUME at' = "header" PROVE ScanTyped' /\ Levels'
  <2>1. open' \in Seq(Header) /\ Len(open') = Len(open) + 1 /\ open' # << >> /\ bsr' = bsr
    <3>1. open \in Seq(Header)
      BY DEF IInv, Scanned, ScanTyped
    <3>2. open' = Append(open, th) /\ bsr' = bsr
      BY <1>2, <1>9
    <3>3. QED BY <1>1, <3>1, <3>2, AppendFacts, EmptySeq
  <2>2. ScanTyped'
    BY <1>1, <1>7, <1>9, <2>1 DEF IInv, Scanned, ScanTyped
  <2>3. Levels'
    <3>1. Last(lines).level = Len(open)
      BY <1>1 DEF LineOf, Level
    <3>2. QED BY <1>1, <1>9, <2>1, <3>1 DEF IInv, Scanned, Levels, LevelsNest
  <2>4. QED BY <2>2, <2>3
<1>10. ScanTyped' /\ Levels'
  BY <1>2, <1>8, <1>9
<1>11. Rooted'
  <2>1. limits'[1] = SizeMax /\ sentries' # << >>
    <3>1. 1 \in 1..n + 1
      BY <1>7
    <3>2. QED BY <1>6, <1>7, <3>1, EmptySeq DEF IInv, Scanned, Rooted
  <2>2. top' \in Nat \cup {-1}
    BY <1>1, Widths, StreamNumbers, SMTT(30) DEF IInv, Scanned, Rooted, Header
  <2>3. ~(at' \in {"header", "enter"} /\ open' = << >>)
    <3>1. CASE at' = "header"
      <4>1. open' = Append(open, th) /\ open \in Seq(Header)
        BY <1>2, <3>1 DEF IInv, Scanned, ScanTyped
      <4>2. QED BY <1>1, <4>1, AppendFacts, EmptySeq
    <3>2. CASE at' # "header"
      BY <1>2, <3>2
    <3>3. QED BY <3>1, <3>2
  <2>4. ASSUME top' # -1 PROVE sentries'[1].applied /\ limits'[2] = top'
    <3>1. CASE open = << >>
      <4>1. n = 0 /\ top = -1 /\ Last(sentries') = s
        BY <1>1, <1>7, <3>1 DEF IInv, Scanned, Rooted, Last
      <4>2. s.applied /\ top' = pos + th.length
        BY <1>1, <2>4, <3>1, <4>1
      <4>3. sentries'[1] = s /\ limits'[2] = l
        BY <1>7, <4>1
      <4>4. QED BY <1>6, <4>2, <4>3
    <3>2. CASE open # << >>
      <4>1. n # 0 /\ sentries # << >> /\ top' = top
        BY <1>1, <3>2, EmptySeq DEF IInv, Scanned, ScanTyped
      <4>2. sentries[1].applied /\ limits[2] = top
        BY <2>4, <4>1 DEF IInv, Scanned, Rooted
      <4>3. 1 \in 1..n /\ 2 \in 1..n + 1
        BY <1>7, <4>1
      <4>4. QED BY <1>7, <4>1, <4>2, <4>3
    <3>3. QED BY <3>1, <3>2
  <2>5. QED BY <2>1, <2>2, <2>3, <2>4 DEF Rooted
<1>12. Ending'
  BY <1>2, <1>4 DEF Ending
<1>13. QED BY <1>3, <1>4, <1>5, <1>10, <1>11, <1>12 DEF IInv, Scanned

LEMMA NextStep == IInv /\ [Next]_vars => IInv'
<1> SUFFICES ASSUME IInv, [Next]_vars PROVE IInv'
  OBVIOUS
<1>1. CASE Next
  BY <1>1, DecodeHeaderStep, NoHeaderStep, PrintLabelStep, EnterStep, DecodeContentStep,
     EndContentStep, LeaveStep, AgainStep, LoopEndsStep, DoneStep DEF Next
<1>2. CASE UNCHANGED vars
  <2>1. /\ UNCHANGED <<input, at, bsr, open, os_good, lines, top>> /\ UNCHANGED stream
        /\ UNCHANGED decoder /\ UNCHANGED types
    BY <1>2 DEF vars, scan
  <2>2. Streamed' /\ Decoder' /\ TypesP!IInv'
    BY <2>1, StreamIdle, HeaderIdle, ContentIdle DEF IInv
  <2>3. ScanTyped' /\ Levels' /\ Rooted' /\ Ending'
    BY <2>1 DEF IInv, Scanned, ScanTyped, Levels, LevelsNest, Rooted, Ending, stream, decoder,
                LineOf, Level, AtEnd, EocBefore
  <2>4. QED BY <2>2, <2>3 DEF IInv, Scanned
<1>3. QED BY <1>1, <1>2

THEOREM Invariance == Spec => []IInv
  BY Initially, NextStep, PTL DEF Spec

-----------------------------------------------------------------------------
(* Everything the scan holds is of its type, and there is one sentry for   *)
(* each call in its loop and one more while a content is read or a call is *)
(* left: no call forgets its sentry or leaves one behind.                  *)
THEOREM TypeCorrect == Spec => []TypeOK
<1>1. IInv => TypeOK
  <2>1. SUFFICES ASSUME IInv PROVE TypeOK
    OBVIOUS
  <2>2. DelimP!TypeOK /\ DecP!TypeOK /\ TypesP!TypeOK
    BY <2>1 DEF IInv, Streamed, Decoder, DelimP!IInv, DecP!IInv, TypesP!IInv
  <2>3. Delim!TypeOK
    BY <2>2 DEF Delim!TypeOK, DelimP!TypeOK, Delim!Size, DelimP!Size,
                Delim!NarrowResult, DelimP!NarrowResult
  <2>4. Dec!TypeOK
    BY <2>2 DEF Dec!TypeOK, DecP!TypeOK, Dec!Header, DecP!Header, Dec!NoHeader, DecP!NoHeader,
                Dec!Results, DecP!Results, Dec!Octet, DecP!Octet, Dec!TagClass, DecP!TagClass,
                Dec!TagShape, DecP!TagShape
  <2>5. Types!TypeOK
    BY <2>2 DEF Types!TypeOK, TypesP!TypeOK, Types!Kinds, TypesP!Kinds, Types!IntMax,
                TypesP!IntMax, Types!CompMax, TypesP!CompMax, Types!CompBsize, TypesP!CompBsize,
                Types!AllOnes, TypesP!AllOnes, Types!Value, TypesP!Value,
                Types!Octet, TypesP!Octet
  <2>6. QED BY <2>1, <2>3, <2>4, <2>5 DEF TypeOK, IInv, Scanned, ScanTyped, Streamed
<1>2. QED BY <1>1, Invariance, PTL

(* The lines are the levels of a tree in preorder, of any depth.           *)
THEOREM AlwaysNests == Spec => []LevelsNest
<1>1. IInv => LevelsNest
  BY DEF IInv, Scanned, Levels
<1>2. QED BY <1>1, Invariance, PTL

(* On every way out of the scan the sentries are gone, the first delimiter *)
(* is back, and the first tag is consumed up to its end or the stream's.   *)
THEOREM AlwaysUnwound == Spec => []Unwound
<1>1. IInv => Unwound
  <2>1. SUFFICES ASSUME IInv, at = "done"
                 PROVE  /\ sentries = << >> /\ end = SizeMax
                        /\ top # -1 => pos = Delim!SmallerOf(top, Len(input))
    BY DEF Unwound
  <2>2. Len(sentries) = 0 /\ Streamed
    BY <2>1 DEF IInv, Scanned, ScanTyped
  <2>3. sentries = << >> /\ limits[1] = end
    <3>1. /\ sentries \in Seq(DelimP!NarrowResult)
          /\ Len(limits) = Len(sentries) + 1 /\ limits[Len(limits)] = end
      BY <2>2, StreamFacts
    <3>2. Len(limits) = 1
      BY <2>2, <3>1
    <3>3. QED BY <2>2, <3>1, <3>2, EmptySeq
  <2>4. QED BY <2>1, <2>3 DEF IInv, Scanned, Rooted
<1>2. QED BY <1>1, Invariance, PTL

(* No call stops its loop over inner tags, but for a failure, except where *)
(* its scope or the stream ends or behind an end-of-contents.              *)
THEOREM LoopAlwaysEndsAtEnd == Spec => LoopEndsAtEnd
<1> DEFINE Ended ==
      open' # open /\ Len(open') < Len(open) /\ bsr = "finished" =>
        \/ off = end \/ pos = Len(input)
        \/ LET eoc == Last(lines) IN
             IsUniversal(eoc, univ.eoc) /\ eoc.level = Len(open)
<1>1. IInv /\ [Next]_vars => [Ended]_vars
  <2>1. SUFFICES ASSUME IInv, Next PROVE Ended
    OBVIOUS
  <2>2. CASE LoopEnds
    BY <2>1, <2>2 DEF LoopEnds, IInv, Scanned, Ending, AtEnd, EocBefore
  <2>3. CASE Enter
    <3>1. open' = open \/ open' = Append(open, th)
      BY <2>3 DEF Enter
    <3>2. at = "enter" /\ open \in Seq(Header) /\ th \in Header
      BY <2>1, <2>3 DEF Enter, IInv, Scanned, ScanTyped, Levels
    <3>3. open' = open \/ (Len(open') = Len(open) + 1 /\ Len(open) \in Nat)
      BY <3>1, <3>2, AppendFacts
    <3>4. QED BY <3>3
  <2>4. CASE ~LoopEnds /\ ~Enter
    <3>1. UNCHANGED scan => open' = open
      BY DEF scan
    <3>2. CASE DecodeHeader
      BY <3>1, <3>2, Zenon DEF DecodeHeader
    <3>3. CASE NoHeader \/ PrintLabel
      BY <3>3 DEF NoHeader, PrintLabel
    <3>4. CASE DecodeContent
      BY <3>1, <3>4, Zenon DEF DecodeContent
    <3>5. CASE EndContent \/ Leave \/ Again \/ Done
      BY <3>5 DEF EndContent, Leave, Again, Done
    <3>6. QED BY <2>1, <2>4, <3>2, <3>3, <3>4, <3>5 DEF Next
  <2>5. QED BY <2>2, <2>3, <2>4
<1>2. QED BY <1>1, Invariance, PTL DEF Spec, LoopEndsAtEnd
=============================================================================
