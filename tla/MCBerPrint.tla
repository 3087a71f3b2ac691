----------------------------- MODULE MCBerPrint -----------------------------
(* Every order of lines of a few tags at a few levels, and of lines that   *)
(* cannot be read or have content that cannot, with one that almost is.    *)
EXTENDS BerPrint

CONSTANTS MaxLevel,  \* bound: the deepest level
          BadLevels  \* bound: the levels of lines that cannot be read

\* Universal numbers have their token for a label, except in lines that are Spelled out.
At(level, tclass, number, star, form, items) ==
  [level |-> level, tclass |-> tclass, number |-> number, token |-> tclass = 0,
   star |-> star, form |-> form, items |-> items]
Spelled(line) == [line EXCEPT !.token = FALSE]

Definites(v) == { At(v, 0, 16, FALSE, "none", << >>) }
Endings(v) == { At(v, 0, 0, FALSE, "octets", << >>) }
ReadableLines(v) ==
  Definites(v) \cup Endings(v) \cup
  { At(v, 0, 16, TRUE, "none", << >>), At(v, 0, 1, FALSE, "octets", <<1>>),
    At(v, 1, 40, FALSE, "octets", <<2, 511>>) }
BadLines(v) ==
  { At(v, 0, 14, FALSE, "octets", << >>),            \* TIME
    Spelled(At(v, 0, 14, FALSE, "octets", << >>)),   \* UNIVERSAL 14: this one is read
    At(v, 2, NumberMax + 1, FALSE, "none", << >>),
    At(v, 0, 0, FALSE, "octets", <<1>>),             \* EOC <01>
    At(v, 0, 16, TRUE, "octets", <<1>>),
    At(v, 0, 4, FALSE, "malformed", << >>),
    At(v, 2, 1, FALSE, "unterminated", << >>) }

MCLines == UNION {ReadableLines(v) : v \in 0..MaxLevel} \cup UNION {BadLines(v) : v \in BadLevels}
FewLines == UNION {Definites(v) \cup Endings(v) : v \in 0..MaxLevel}
=============================================================================
