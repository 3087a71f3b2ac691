----------------------------- MODULE B64Output -----------------------------
(***************************************************************************)
(* ber::b64_output (include/berio/b64.h:275-438): octets are put into a    *)
(* sink of characters in Base-64, in lines of a limited length.  The state *)
(* of the conversion is the function that puts the next octet, __put_fn.   *)
(* One octet makes one or two characters; one step is one __sink_put, with *)
(* the line separator it may have to put first.  A sink that has refused a *)
(* character refuses the ones after it, as a standard stream does          *)
(* (b64ostream.h:69-71).                                                   *)
(***************************************************************************)
EXTENDS Base64

CONSTANTS Octets,   \* bound: the octets that may be put, in any order
          MaxPuts,  \* bound: how many of them
          Script,   \* bound: a longer sequence of octets that may be put
          Formats   \* the limits of a line, 0 for none, with their separators

\* The type char.
Char == -128..127

ASSUME B64OutputAssumption ==
  /\ Octets \subseteq Octet /\ MaxPuts \in Nat /\ Script \in Seq(Octet)
  /\ Formats \subseteq [len : Nat, sep : Seq(Char)]

VARIABLES
  line,     \* __line.len and __line.sep
  sink,     \* the characters in the sink
  put_fn,   \* __put_fn and __conclude_fn, which change together
  last_o,   \* __last_o
  index,    \* __index
  call,     \* the call under way: "none", "put" or "conclude"
  octet,    \* the octet being put
  todo,     \* the characters the call has still to put
  broken,   \* the sink has refused a character
  accepted, \* history: the octets whose put succeeded
  closed    \* the writer is done: it concluded, or found the sink broken

vars == <<line, sink, put_fn, last_o, index, call, octet, todo, broken, accepted, closed>>

TypeOK ==
  /\ line \in Formats
  /\ sink \in Seq(Char)
  /\ put_fn \in {"first", "second", "third"}
  /\ last_o \in Octet /\ octet \in Octet
  /\ index \in 0..line.len
  /\ call \in {"none", "put", "conclude"}
  /\ todo \in Seq(Char)
  /\ broken \in BOOLEAN /\ closed \in BOOLEAN
  /\ accepted \in Seq(Octet)

-----------------------------------------------------------------------------
\* The sextets that an octet completes, after those before it in its quartet.
SecondSextet(o) == (last_o % 4) * 16 + o \div 16
ThirdSextetOfLast(o) == (last_o % 16) * 4
ThirdSextet(o) == (last_o % 16) * 4 + o \div 64

Chars(o) ==
  CASE put_fn = "first"  -> <<CharOf(o \div 4)>>
    [] put_fn = "second" -> <<CharOf(SecondSextet(o))>>
    [] put_fn = "third"  -> <<CharOf(ThirdSextet(o)), CharOf(o % 64)>>

\* What conclude puts: the sextet begun, and the padding of its quartet.
UnpaddedRest ==
  CASE put_fn = "first"  -> << >>
    [] put_fn = "second" -> <<CharOf(SecondSextet(0))>>
    [] put_fn = "third"  -> <<CharOf(ThirdSextet(0))>>
RestOfPadding ==
  CASE put_fn = "first"  -> << >>
    [] put_fn = "second" -> <<Pad, Pad>>
    [] put_fn = "third"  -> <<Pad>>
Rest ==
  CASE put_fn = "first"  -> << >>
    [] put_fn = "second" -> <<CharOf(SecondSextet(0)), Pad, Pad>>
    [] put_fn = "third"  -> <<CharOf(ThirdSextet(0)), Pad>>

Following == [first |-> "second", second |-> "third", third |-> "first"]

-----------------------------------------------------------------------------
Ready ==
  /\ line \in Formats
  /\ sink = << >> /\ put_fn = "first" /\ last_o = 0 /\ index = 0
  /\ call = "none" /\ octet = 0 /\ todo = << >>
  /\ broken = FALSE /\ accepted = << >>

Init == Ready /\ closed = FALSE

\* putn of one octet.
Put(o) ==
  /\ call = "none" /\ ~closed
  /\ (o \in Octets /\ Len(accepted) < MaxPuts) \/ IsPrefix(Append(accepted, o), Script)
  /\ call' = "put" /\ octet' = o /\ todo' = Chars(o)
  /\ UNCHANGED <<line, sink, put_fn, last_o, index, broken, accepted, closed>>

\* conclude() puts nothing when no quartet has been begun.
Conclude ==
  /\ call = "none" /\ ~closed /\ Rest # << >>
  /\ call' = "conclude" /\ todo' = Rest
  /\ UNCHANGED <<line, sink, put_fn, last_o, index, octet, broken, accepted, closed>>

\* __sink_put begins a new line.
NewLineLate == line.len > 0 /\ index > line.len
NewLine == line.len > 0 /\ index + 1 > line.len
IndexUnreset == IF line.len = 0 THEN index ELSE index + 1
Index == IF line.len = 0 THEN index ELSE IF NewLine THEN 1 ELSE index + 1

\* What the last character of a call changes.
Finished ==
  /\ call' = "none"
  /\ IF call = "put"
     THEN /\ put_fn' = Following[put_fn]
          /\ last_o' = octet
          /\ accepted' = Append(accepted, octet)
     ELSE put_fn' = "first" /\ UNCHANGED <<last_o, accepted>>

SinkPut ==
  /\ todo # << >> /\ ~broken
  /\ sink' = sink \o (IF NewLine THEN line.sep ELSE << >>) \o <<Head(todo)>>
  /\ index' = Index
  /\ todo' = Tail(todo)
  /\ IF todo' = << >> THEN Finished ELSE UNCHANGED <<call, put_fn, last_o, accepted>>
  /\ UNCHANGED <<line, octet, broken, closed>>

\* The sink refuses the character, or one of the separator before it: the call
\* fails in the state it began in, but for the index.
SinkRefuses ==
  /\ todo # << >>
  /\ \E n \in 0..(IF NewLine /\ ~broken THEN Len(line.sep) ELSE 0) :
       sink' = sink \o SubSeq(line.sep, 1, n)
  /\ index' = Index
  /\ broken' = TRUE
  /\ call' = "none" /\ todo' = << >>
  /\ UNCHANGED <<line, put_fn, last_o, octet, accepted, closed>>

\* The writer has put and concluded what it wanted to.
Close ==
  /\ call = "none" /\ ~closed
  /\ broken \/ put_fn = "first"
  /\ closed' = TRUE
  /\ UNCHANGED <<line, sink, put_fn, last_o, index, call, octet, todo, broken, accepted>>

Next ==
  \/ \E o \in Octets \cup Range(Script) : Put(o)
  \/ Conclude
  \/ SinkPut
  \/ SinkRefuses
  \/ Close

Spec == Init /\ [][Next]_vars

-----------------------------------------------------------------------------
(* The places in the sink where a whole separator starts.                  *)
Separators ==
  {i \in 1..Len(sink) - Len(line.sep) + 1 : SubSeq(sink, i, i + Len(line.sep) - 1) = line.sep}

(* Lines are full before they are separated, and a separator is put only   *)
(* when a character follows it: "added when the character that exceeds the *)
(* line limit is about to be written, never before" (b64.h:265-267).       *)
LinesFull ==
  line.len > 0 /\ ~broken =>
    LET period == line.len + Len(line.sep)
    IN  /\ \A i \in 1..Len(sink) :
             sink[i] = line.sep[1] <=> i % period = (line.len + 1) % period
        /\ Separators # {} => \A i \in Separators : i + Len(line.sep) <= Len(sink)

(* What a sink holds between calls is whole quartets and the characters of *)
(* the octets since, unless it refused one of them.                        *)
VisiblePlaces == {i \in DOMAIN sink : ~IsSpace(sink[i])}
QuartetsWhole ==
  call = "none" /\ ~broken =>
    Cardinality(VisiblePlaces) % 4 = CASE put_fn = "first" -> 0 [] put_fn = "second" -> 1
                                       [] put_fn = "third" -> 2
=============================================================================
