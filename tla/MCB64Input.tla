---------------------------- MODULE MCB64Input ----------------------------
(* Texts over two characters of the alphabet, the padding, a line feed and *)
(* a character that is none of these.                                      *)
EXTENDS B64Input

CONSTANT MaxText  \* bound: characters of a text

Characters == {65, 57, Pad, 10, 33}
AllTexts == UNION {[1..n -> Characters] : n \in 0..MaxText}
=============================================================================
