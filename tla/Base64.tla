------------------------------- MODULE Base64 -------------------------------
(***************************************************************************)
(* The characters of a Base-64 text (include/berio/b64.h).  A character is *)
(* its ASCII code, a sextet a number in 0..63, and the shifts and masks of *)
(* the code are quotients and remainders.                                  *)
(***************************************************************************)
EXTENDS OctetGroups, SequencesExt

Sextet == 0..63

Pad == 61  \* '='
IsSpace(c) == c \in 9..13 \cup {32}

\* alphabet_sextet_table: the sextet of a character, or invalid_sextet.
InvalidSextet == 192
SextetOf(c) ==
  CASE c \in 65..90  -> c - 65
    [] c \in 97..122 -> c - 97 + 26
    [] c \in 48..57  -> c - 48 + 52
    [] c = 43 -> 62
    [] c = 47 -> 63
    [] OTHER  -> InvalidSextet
InAlphabet(c) == SextetOf(c) # InvalidSextet

\* sextet_alphabet_table: the character of a sextet.
CharOf(s) ==
  CASE s \in 0..25  -> s + 65
    [] s \in 26..51 -> s - 26 + 97
    [] s \in 52..61 -> s - 52 + 48
    [] s = 62 -> 43
    [] OTHER  -> 47

=============================================================================
