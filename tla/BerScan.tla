------------------------------ MODULE BerScan ------------------------------
(***************************************************************************)
(* ber_scan (testsuite/lib/bertree/berscan.h), the recursive scan of a     *)
(* stream of tags with all of the library's input side under it: each call *)
(* decodes a header (TagDecode), opens a sentry over its length on the     *)
(* delimited input (DelimitedInput), and either decodes content (BerTypes) *)
(* or calls itself until a call says that it is finished.  What a call     *)
(* prints of its tag is a line of the level and the label.  The wrapped    *)
(* stream holds a fixed sequence of octets and does not throw.             *)
(***************************************************************************)
EXTENDS TagHeader, UnivNumbers, SequencesExt

CONSTANTS Inputs,    \* the sequences of octets the wrapped stream may hold
          MaxDepth,  \* bound: sentries alive at the same time
          IntSize, CompSize  \* see BerTypes

ASSUME BerScanAssumption ==
  /\ NumberMax \in Nat /\ NumberMax % 128 = 127
  /\ SizeMax \in Nat /\ SizeMax % 256 = 255
  /\ Inputs \subseteq Seq(Octet)
  /\ MaxDepth \in Nat
  /\ IntSize \in Nat \ {0} /\ CompSize \in Nat \ {0}

VARIABLES
  input,   \* the octets of the wrapped stream
  at,      \* what the innermost call does: "header", "enter", "content", "leave",
           \* "return"; "done" when the first call has returned
  bsr,     \* the value it returns
  open,    \* the calls in their loop: the th of each one, outermost first
  os_good, \* os has not failed
  lines,   \* history: the lines printed
  top,     \* history: where the first tag ends, if its length is delimited, or -1
  \* see DelimitedInput, TagDecode, BerTypes
  off, end, sentries, pos, dry, throws, terminated, limits,
  pc, strict, ident, tn, len, left, th, result, read,
  kind, waits, value, size, pushed, comp, bsize, outcome, content

Delim == INSTANCE DelimitedInput WITH MaxThrows <- 0
Dec == INSTANCE TagDecode WITH Octets <- Octet, MaxOctets <- 0
Types == INSTANCE BerTypes WITH Octets <- Octet, MaxOctets <- 0

stream == <<off, end, sentries, pos, dry, throws, terminated, limits>>
decoder == <<pc, strict, ident, tn, len, left, th, result, read>>
types == <<kind, waits, value, size, pushed, comp, bsize, outcome, content>>
scan == <<at, bsr, open, os_good, lines, top>>
vars == <<input, scan, stream, decoder, types>>

Line == [level : Nat, tclass : TagClass, number : 0..NumberMax, definite : BOOLEAN]

TypeOK ==
  /\ at \in {"header", "enter", "content", "leave", "return", "done"}
  /\ bsr \in {"remaining", "finished", "failed"}
  /\ open \in Seq(Header)
  /\ Len(sentries) = Len(open) + IF at \in {"content", "leave"} THEN 1 ELSE 0
  /\ os_good \in BOOLEAN
  /\ lines \in Seq(Line)
  /\ pos \in 0..Len(input) /\ dry => pos = Len(input)
  /\ Delim!TypeOK /\ Dec!TypeOK /\ Types!TypeOK

-----------------------------------------------------------------------------
(* The wrapped stream supplies what it is asked for, or all it has left.   *)

Available == Len(input) - pos
Supplied(n, asked) == n = Delim!SmallerOf(asked, Available)

\* in.get(o) on the delimited input: with the next octet, or with none.
Gets(o) == Available > 0 /\ o = input[pos + 1] /\ Supplied(1, Delim!Asked(1)) /\ Delim!Getn(1, 1)
GetsNone == Supplied(0, Delim!Asked(1)) /\ Delim!Getn(1, 0)

\* The destructor of the innermost sentry.
Destroy ==
  \/ \E n \in 0..Available : Supplied(n, Delim!ToSkip) /\ Delim!DestroyApplied(n)
  \/ Delim!DestroyUnapplied

DelimitsPrimitives == th.shape = "primitive"
Delimits == th.shape # "constructed_indefinite"
Construct ==
  \/ Delimits /\ Delim!ConstructApplied(th.length)
  \/ Delim!ConstructUnapplied(th.length, Delimits)

-----------------------------------------------------------------------------
\* The decoder called for the content of a primitive tag.
KindOf(h) ==
  IF h.tclass # 0 THEN "octet_string"
  ELSE CASE h.number = univ.boolean      -> "boolean"
         [] h.number = univ.integer      -> "integer"
         [] h.number = univ.bit_string   -> "bit_string"
         [] h.number = univ.utf8_string  -> "utf8_string"
         [] h.number = univ.object_ident -> "oid"
         [] h.number \in {univ.print_string, univ.ia5_string, univ.utc_time, univ.gen_time} ->
              "print_string"
         [] OTHER -> "octet_string"

IsEocOfAnyClass(h) == h.number = univ.eoc
IsEoc(h) == IsUniversal(h, univ.eoc)

FlatLevel == 0
Level == Len(open)
LineOf(h) ==
  [level |-> Level, tclass |-> h.tclass, number |-> h.number,
   definite |-> h.shape # "constructed_indefinite"]

\* The value returned when the stream has no more tags.
EmptyRemains == "remaining"
Empty == "finished"

-----------------------------------------------------------------------------
Init ==
  /\ input \in Inputs
  /\ at = "header" /\ bsr = "remaining" /\ open = << >>
  /\ os_good = TRUE /\ lines = << >> /\ top = -1
  /\ Delim!Init
  /\ Dec!Init /\ strict = TRUE
  /\ Types!Start("boolean")

\* tag_decode(th, in)
DecodeHeader ==
  /\ at = "header" /\ pc # "done"
  /\ \/ \E o \in Octet : Gets(o) /\ Dec!Get(o)
     \/ GetsNone /\ Dec!GetFails
  /\ UNCHANGED <<input, scan, types>>

\* tag_decode did not decode a header; what is printed then is no line.
NoHeader ==
  /\ at = "header" /\ pc = "done" /\ result # "complete"
  /\ at' = "return"
  /\ bsr' = IF result = "empty" THEN Empty ELSE "failed"
  /\ os_good' \in IF result = "empty" THEN {os_good} ELSE {os_good, FALSE}
  /\ UNCHANGED <<input, open, lines, top, stream, decoder, types>>

\* os << level << ' ' << ber_label(...)
PrintLabel ==
  /\ at = "header" /\ pc = "done" /\ result = "complete"
  /\ os_good' \in {os_good, FALSE}
  /\ IF os_good'
     THEN at' = "enter" /\ lines' = Append(lines, LineOf(th)) /\ UNCHANGED bsr
     ELSE at' = "return" /\ bsr' = "failed" /\ UNCHANGED lines
  /\ UNCHANGED <<input, open, top, stream, decoder, types>>

\* The sentry is constructed; the content begins, or the loop and its first call.
Enter ==
  /\ at = "enter"
  /\ Construct
  /\ top' = IF open = << >> /\ Last(sentries').applied THEN pos + th.length ELSE top
  /\ os_good' \in {os_good, FALSE}
  /\ IF th.shape = "primitive"
     THEN /\ IF os_good'
             THEN at' = "content" /\ Types!Called(KindOf(th)) /\ UNCHANGED bsr
             ELSE at' = "leave" /\ bsr' = "failed" /\ UNCHANGED types
          /\ UNCHANGED <<open, decoder>>
     ELSE /\ at' = "header"
          /\ open' = Append(open, th)
          /\ Dec!Call(TRUE)
          /\ UNCHANGED <<bsr, types>>
  /\ UNCHANGED <<input, lines>>

\* A tag_decode_... of the content.
DecodeContent ==
  /\ at = "content" /\ waits # "done"
  /\ \/ \E o \in Octet : Gets(o) /\ Types!Get(o)
     \/ GetsNone /\ Types!GetFails
     \/ Types!Unimplemented /\ UNCHANGED stream
  /\ UNCHANGED <<input, scan, decoder>>

\* The content, or why there is none, is printed; the call returns.
EndContent ==
  /\ at = "content" /\ waits = "done"
  /\ os_good' \in {os_good, FALSE}
  /\ at' = "leave"
  /\ bsr' = IF ~os_good' THEN "failed" ELSE IF IsEoc(th) THEN "finished" ELSE "remaining"
  /\ UNCHANGED <<input, open, lines, top, stream, decoder, types>>

\* The sentry is destroyed on the way out of a call.
Leave ==
  /\ at = "leave"
  /\ Destroy
  /\ at' = "return"
  /\ UNCHANGED <<input, bsr, open, os_good, lines, top, decoder, types>>

\* The value arrives in the loop of the calling ber_scan: another call, or the
\* end of this one too.
Again ==
  /\ at = "return" /\ open # << >> /\ bsr = "remaining"
  /\ at' = "header"
  /\ Dec!Call(TRUE)
  /\ UNCHANGED <<input, bsr, open, os_good, lines, top, stream, types>>

LoopEnds ==
  /\ at = "return" /\ open # << >> /\ bsr # "remaining"
  /\ at' = "leave"
  /\ bsr' = IF bsr = "failed" THEN "failed" ELSE "remaining"
  /\ open' = Front(open)
  /\ UNCHANGED <<input, os_good, lines, top, stream, decoder, types>>

Done ==
  /\ at = "return" /\ open = << >>
  /\ at' = "done"
  /\ UNCHANGED <<input, bsr, open, os_good, lines, top, stream, decoder, types>>

Next ==
  \/ DecodeHeader \/ NoHeader \/ PrintLabel \/ Enter
  \/ DecodeContent \/ EndContent \/ Leave
  \/ Again \/ LoopEnds \/ Done

\* One thread runs the scan, and nothing else runs.
Spec == Init /\ [][Next]_vars /\ WF_vars(Next)

-----------------------------------------------------------------------------
(* The levels of the lines are those of a tree in preorder: one root, and  *)
(* each tag at most one level below the tag before it.                     *)
LevelsNest ==
  \A i \in DOMAIN lines :
    IF i = 1 THEN lines[i].level = 0
    ELSE lines[i].level \in 1..lines[i - 1].level + 1

(* However the scan ends, even when a tag cannot be decoded or the output  *)
(* fails, all sentries are gone, the delimiter is the first one, and the   *)
(* octets of a delimited first tag are consumed: all of them if they       *)
(* arrived, and never more.                                                *)
Unwound ==
  at = "done" =>
    /\ sentries = << >> /\ end = SizeMax
    /\ top # -1 => pos = Delim!SmallerOf(top, Len(input))

(* The loop over the inner tags of a tag is left without a failure only    *)
(* where its scope or the stream has no more octets, or behind an          *)
(* end-of-contents: no inner tag is passed over in any other way.          *)
LoopEndsAtEnd ==
  [][open' # open /\ Len(open') < Len(open) /\ bsr = "finished" =>
       \/ off = end \/ pos = Len(input)
       \/ LET eoc == Last(lines) IN
            IsUniversal(eoc, univ.eoc) /\ eoc.level = Len(open)]_vars

(* The scan comes to an end on every finite stream.                        *)
Terminates == <>(at = "done")
=============================================================================
