----------------------------- MODULE MCB64Pipe -----------------------------
(* Octets with all bits clear, all bits set, and either end set; texts     *)
(* over two characters of the alphabet, the padding, a line feed and a     *)
(* character that is none of these; and the octets, the lines and the      *)
(* texts of the unit tests.                                                *)
EXTENDS B64Tests

CONSTANT MaxText  \* bound: characters of a text from elsewhere

MCOctets == {0, 255, 129, 1}
MCScript == OneToSix
MCFormats == {[len |-> 3, sep |-> <<Return, Newline>>], ByTwo, Unlimited}

Characters == {65, 57, Pad, 10, 33}
AllTexts == UNION {[1..n -> Characters] : n \in 1..MaxText}
MCFound == (AllTexts \cup {t.text : t \in FirstTests \cup LaterTests}) \ {<< >>}
=============================================================================
