--------------------------- MODULE DelimitedInput ---------------------------
(***************************************************************************)
(* ber::delimited_input (include/berio/deliminput.h, src/deliminput.cxx):  *)
(* an input stream that counts the octets it takes from a wrapped stream   *)
(* in __off and never goes past a delimiter __end.  The scoped sentries    *)
(* narrow the delimiter when they are constructed and restore it, skipping *)
(* what is left, when they are destroyed.  Sentries are objects of C++     *)
(* scopes: the last one constructed is the first one destroyed.            *)
(*                                                                         *)
(* The wrapped stream (delimited_input::skippable, octet_input) is what    *)
(* its interface says: it hands out or skips what is asked of it, or fewer *)
(* octets when there are no more (io.h:57-59, deliminput.h:169-171), and   *)
(* "implementations are free to define whether exceptions are thrown".     *)
(***************************************************************************)
EXTENDS Integers, Sequences, SequencesExt

CONSTANTS SizeMax,   \* numeric_limits<size_t>::max()
          MaxDepth,  \* bound: sentries alive at the same time
          MaxThrows  \* bound: exceptions of the wrapped stream (0: it never throws)

ASSUME DelimitedInputAssumption ==
  SizeMax \in Nat \ {0} /\ MaxDepth \in Nat /\ MaxThrows \in Nat

VARIABLES
  off, end,    \* __off, __end
  sentries,    \* the narrow_result __nr of each sentry alive, outermost first
  pos,         \* octets taken from the wrapped stream, by reading or skipping
  dry,         \* the wrapped stream has no more octets
  throws,      \* exceptions the wrapped stream has thrown
  terminated,  \* an exception left ~sentry: std::terminate
  limits       \* history: the pos that the stream, then each sentry, must not pass

wrapped == <<pos, dry, throws>>
vars == <<off, end, sentries, pos, dry, throws, terminated, limits>>

Size == 0..SizeMax
NarrowResult == [applied : BOOLEAN, prev_end : Size]

TypeOK ==
  /\ off \in Size /\ end \in Size
  /\ sentries \in Seq(NarrowResult)
  /\ pos \in Nat /\ throws \in 0..MaxThrows
  /\ dry \in BOOLEAN /\ terminated \in BOOLEAN
  /\ limits \in Seq(Nat)
  /\ throws = 0 => pos \in Size

-----------------------------------------------------------------------------
(* size_t arithmetic: the result of + and - is reduced modulo SizeMax + 1. *)

Plus(a, b) == IF a + b > SizeMax THEN a + b - (SizeMax + 1) ELSE a + b
Minus(a, b) == IF a < b THEN a - b + (SizeMax + 1) ELSE a - b

SmallerOf(a, b) == IF a <= b THEN a ELSE b  \* std::min

Remaining == Minus(end, off)

\* delimited_input::narrow refuses a length beyond the current delimiter.
FitsBySum(len) == Plus(off, len) <= end
Fits(len) == len <= Remaining

\* What delimited_input::getn asks of the wrapped stream.
AskedUnlimited(len) == len
Asked(len) == SmallerOf(len, Remaining)

\* What delimited_input::restore skips.
ToSkipNothing == 0
ToSkip == Remaining

Top == Last(sentries)

\* The delimiter delimited_input::restore leaves.
KeptDelimiter == end
RestoredDelimiter == Top.prev_end

-----------------------------------------------------------------------------
(* The wrapped stream.                                                     *)

\* It hands out or skips n of the octets asked of it.
Supplies(n, asked) ==
  /\ n <= asked
  /\ dry => n = 0
  /\ pos' = pos + n
  /\ dry' = (dry \/ n < asked)
  /\ UNCHANGED throws

\* It throws when it has already taken n of them.
Throws(n, asked) ==
  /\ throws < MaxThrows
  /\ n <= asked
  /\ dry => n = 0
  /\ pos' = pos + n
  /\ dry' \in BOOLEAN
  /\ dry => dry'
  /\ throws' = throws + 1

-----------------------------------------------------------------------------
Init ==
  /\ off = 0 /\ end = SizeMax
  /\ sentries = << >>
  /\ pos = 0 /\ dry = FALSE /\ throws = 0
  /\ terminated = FALSE
  /\ limits = <<SizeMax>>

\* sentry::sentry: narrow(len) when delim, otherwise nothing is applied.
ConstructApplied(len) ==
  /\ Len(sentries) < MaxDepth
  /\ Fits(len)
  /\ sentries' = Append(sentries, [applied |-> TRUE, prev_end |-> end])
  /\ end' = Plus(off, len)
  /\ limits' = Append(limits, pos + len)
  /\ UNCHANGED <<off, wrapped, terminated>>

ConstructUnapplied(len, delim) ==
  /\ Len(sentries) < MaxDepth
  /\ delim => ~Fits(len)
  /\ sentries' = Append(sentries, [applied |-> FALSE, prev_end |-> 0])
  /\ limits' = Append(limits, Last(limits))
  /\ UNCHANGED <<off, end, wrapped, terminated>>

\* sentry::~sentry: restore(prev_end) if the narrowing was applied.
DestroyApplied(n) ==
  /\ sentries # << >> /\ Top.applied
  /\ Supplies(n, ToSkip)
  /\ off' = Plus(off, n)
  /\ end' = RestoredDelimiter
  /\ sentries' = Front(sentries)
  /\ limits' = Front(limits)
  /\ UNCHANGED terminated

DestroyUnapplied ==
  /\ sentries # << >> /\ ~Top.applied
  /\ sentries' = Front(sentries)
  /\ limits' = Front(limits)
  /\ UNCHANGED <<off, end, wrapped, terminated>>

\* An exception of skip leaves a destructor, which is noexcept.
DestroyThrows(n) ==
  /\ sentries # << >> /\ Top.applied
  /\ Throws(n, ToSkip)
  /\ terminated' = TRUE
  /\ UNCHANGED <<off, end, sentries, limits>>

\* delimited_input::getn(optr, len) that returns n.
Getn(len, n) ==
  /\ Supplies(n, Asked(len))
  /\ off' = Plus(off, n)
  /\ UNCHANGED <<end, sentries, limits, terminated>>

\* The exception passes through getn before __off += n.
GetnThrows(len, n) ==
  /\ Throws(n, Asked(len))
  /\ UNCHANGED <<off, end, sentries, limits, terminated>>

Next ==
  /\ ~terminated
  /\ \/ \E len \in Size : ConstructApplied(len)
     \/ \E len \in Size, delim \in BOOLEAN : ConstructUnapplied(len, delim)
     \/ \E n \in Size : DestroyApplied(n)
     \/ DestroyUnapplied
     \/ \E n \in Size : DestroyThrows(n)
     \/ \E len, n \in Size : Getn(len, n)
     \/ \E len, n \in Size : GetnThrows(len, n)

Spec == Init /\ [][Next]_vars

-----------------------------------------------------------------------------
(* The delimiters that are or will be restored: the current one and those  *)
(* kept by the applied sentries never decrease from the innermost scope    *)
(* out, and the offset is within all of them.  This extends the invariant  *)
(* __off <= __end of the class (deliminput.h:269) to every value __end     *)
(* will take, and holds whatever the wrapped stream throws.                *)
DelimitersNested ==
  /\ off <= end
  /\ \A i \in 1..Len(sentries) : sentries[i].applied =>
       /\ end <= sentries[i].prev_end
       /\ \A j \in 1..i : sentries[j].applied =>
            sentries[i].prev_end <= sentries[j].prev_end

(* No octet beyond the length of any open sentry is taken from the wrapped *)
(* stream, by getn or by the skip of a restore: "the availability of       *)
(* octets is also subject to the delimiter" (deliminput.h:20-21).          *)
Contained == \A i \in 2..Len(limits) : pos <= limits[i]

(* The same, as long as the wrapped stream has not thrown.                 *)
ContainedUnlessThrown == throws = 0 => Contained

(* After any nest of scopes the delimiter is that of the innermost open    *)
(* one: restore brings back what narrow replaced (deliminput.h:222).       *)
DelimiterOfInnermost == throws = 0 => end = Last(limits)

(* Destroying a sentry whose narrowing was applied leaves the wrapped      *)
(* stream right after the scope, however little of it was read, unless the *)
(* stream ran dry (deliminput.h:30-31, 222).                               *)
ScopeIsConsumed ==
  [][throws' = 0 /\ Len(sentries') < Len(sentries) /\ Top.applied
       => pos' = Last(limits) \/ dry']_vars

(* As long as the wrapped stream has not thrown, the class implements      *)
(* scopes with budgets (ScopedStream).  The delimiter of the scope a       *)
(* sentry opened is kept by the next applied sentry inside it, or is the   *)
(* current one.                                                            *)
AppliedFrom(i) == {j \in i..Len(sentries) : sentries[j].applied}
DelimiterAt(i) ==
  IF AppliedFrom(i) = {} THEN end
  ELSE sentries[CHOOSE j \in AppliedFrom(i) : \A k \in AppliedFrom(i) : j <= k].prev_end

Scopes == [i \in 1..Len(sentries) + 1 |->
            [own  |-> i = 1 \/ sentries[i - 1].applied,
             left |-> DelimiterAt(i) - off]]

Scoped == INSTANCE ScopedStream WITH
  Capacity <- SizeMax, scopes <- Scopes, taken <- pos
ScopedSpec == Scoped!Init /\ [][throws' = 0 => Scoped!Next]_(Scoped!vars)
=============================================================================
