---------------------------- MODULE ScopedStream ----------------------------
(***************************************************************************)
(* What a delimited input stream promises to the code that opens nested    *)
(* scopes over it (include/berio/deliminput.h:16-42), stated without       *)
(* offsets or delimiters: every open scope has a budget of octets.  An     *)
(* octet taken from the stream is charged to every open scope, no scope    *)
(* gets more than the scope around it has left, and closing a scope of its *)
(* own takes what is left of it, unless the stream runs dry.               *)
(***************************************************************************)
EXTENDS Integers, Sequences

CONSTANTS Capacity,  \* a natural number: the budget of the stream outside every scope
          MaxDepth   \* bound: scopes open at the same time

VARIABLES scopes,  \* <<outermost, ..., innermost>>: own budget? octets left
          taken,   \* octets the wrapped stream has handed out or discarded
          dry      \* the wrapped stream has no more octets

vars == <<scopes, taken, dry>>

Scope == [own : BOOLEAN, left : 0..Capacity]

TypeOK ==
  /\ scopes \in Seq(Scope)
  /\ taken \in Nat
  /\ dry \in BOOLEAN

Left == scopes[Len(scopes)].left
Outer == SubSeq(scopes, 1, Len(scopes) - 1)

\* n octets of the wrapped stream are charged to the scopes ss.
Charged(ss, n) == [i \in DOMAIN ss |-> [ss[i] EXCEPT !.left = @ - n]]

\* The wrapped stream hands out n of the octets asked of it: fewer than asked
\* only when it has no more.
Supplies(n, asked) ==
  /\ dry => n = 0
  /\ dry' = (dry \/ n < asked)
  /\ taken' = taken + n

Init == /\ scopes = << [own |-> TRUE, left |-> Capacity] >>
        /\ taken = 0
        /\ dry = FALSE

\* A scope has a budget of its own if it asks for one and it fits.
Open(len, delim) ==
  /\ Len(scopes) <= MaxDepth
  /\ scopes' = Append(scopes, IF delim /\ len <= Left
                              THEN [own |-> TRUE,  left |-> len]
                              ELSE [own |-> FALSE, left |-> Left])
  /\ UNCHANGED <<taken, dry>>

Read(n, asked) ==
  /\ n <= asked /\ asked <= Left
  /\ Supplies(n, asked)
  /\ scopes' = Charged(scopes, n)

CloseShared ==
  /\ Len(scopes) > 1
  /\ ~scopes[Len(scopes)].own
  /\ scopes' = Outer
  /\ UNCHANGED <<taken, dry>>

CloseOwn(n) ==
  /\ Len(scopes) > 1
  /\ scopes[Len(scopes)].own
  /\ n <= Left
  /\ Supplies(n, Left)
  /\ scopes' = Charged(Outer, n)

Next ==
  \/ \E len \in 0..Capacity, delim \in BOOLEAN : Open(len, delim)
  \/ \E n, asked \in 0..Capacity : Read(n, asked)
  \/ CloseShared
  \/ \E n \in 0..Capacity : CloseOwn(n)

Spec == Init /\ [][Next]_vars
=============================================================================
