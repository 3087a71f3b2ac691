----------------------------- MODULE MCBerScan -----------------------------
(* Streams of well-formed tags, whole, cut anywhere or followed by other   *)
(* octets, and arbitrary streams.                                          *)
EXTENDS BerScan

CONSTANT MaxInput  \* bound: octets of an arbitrary stream

\* A tag with the lines it should be printed as and, for each line, the number
\* of octets up to the end of its header.
Prim(id, os) ==
  [octets |-> <<id, Len(os)>> \o os,
   lines  |-> << [level |-> 0, tclass |-> Class(id), number |-> LowNumber(id), definite |-> TRUE] >>,
   heads  |-> <<2>>]
Eoc == Prim(0, << >>)

Octets(ts) == FlattenSeq([i \in DOMAIN ts |-> ts[i].octets])
InnerLines(ts) ==
  FlattenSeq([i \in DOMAIN ts |->
    [j \in DOMAIN ts[i].lines |-> [ts[i].lines[j] EXCEPT !.level = @ + 1]]])
InnerHeads(ts) ==
  FlattenSeq([i \in DOMAIN ts |->
    [j \in DOMAIN ts[i].heads |-> ts[i].heads[j] + 2 + Len(Octets(SubSeq(ts, 1, i - 1)))]])
Constr(id, definite, ts) ==
  LET inner == IF definite THEN ts ELSE Append(ts, Eoc)
  IN  [octets |-> <<id, IF definite THEN Len(Octets(inner)) ELSE Indefinite>> \o Octets(inner),
       lines  |-> << [level |-> 0, tclass |-> Class(id), number |-> LowNumber(id),
                      definite |-> definite] >> \o InnerLines(inner),
       heads  |-> <<2>> \o InnerHeads(inner)]

\* A boolean too long, an integer that overflows, a string, an object identifier
\* that is cut, a string that is not decoded, a tag whose number is that of an
\* end-of-contents.
Leaves == { Prim(1, <<0, 0>>), Prim(2, <<1, 2, 48, 0>>), Prim(4, <<0, 0>>), Prim(4, << >>),
            Prim(6, <<42, 129>>), Prim(12, <<48, 1>>), Prim(128, << >>) }
Few == { Prim(1, <<0, 0>>), Prim(128, << >>) }
Nested(id, ls, n) == {Constr(id, d, ts) : d \in BOOLEAN, ts \in BoundedSeq(ls, n)}
Inner == Nested(48, Few, 1)
Tags == Leaves \cup Nested(48, Leaves, 2) \cup Nested(160, Few \cup Inner, 2)
          \cup Nested(48, Nested(49, Inner, 1), 1)

Trailing == <<4, 1, 0>>
Streams(t) == {SubSeq(t.octets, 1, k) : k \in 0..Len(t.octets)} \cup {t.octets \o Trailing}
TagStreams == UNION {Streams(t) : t \in Tags}

AnyOctets == {0, 1, 48, 128, 130}
AnyStreams == UNION {[1..n -> AnyOctets] : n \in 0..MaxInput}

AllStreams == TagStreams \cup AnyStreams

-----------------------------------------------------------------------------
(* As long as the output is good, exactly the tags whose header arrived    *)
(* are printed, in preorder, whatever their contents decode to, and a      *)
(* whole first tag is consumed up to its end and no further.               *)
PrintsWhatArrived ==
  at = "done" /\ os_good =>
    \A t \in Tags : input \in Streams(t) =>
      LET n == Cardinality({i \in DOMAIN t.heads : t.heads[i] <= Len(input)})
      IN  /\ lines = SubSeq(t.lines, 1, n)
          /\ pos = Delim!SmallerOf(Len(t.octets), Len(input))
=============================================================================
