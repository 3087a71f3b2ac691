------------------------------ MODULE BerPrint ------------------------------
(***************************************************************************)
(* ber_print (testsuite/lib/bertree/berprint.h): the tag that a text of    *)
(* levels and labels stands for is encoded into an octet output.  The      *)
(* nodes of a definite tag are all read before it is printed, by a loop in *)
(* do_extract; those of an indefinite tag are read one at a time while it  *)
(* is printed, by a loop in content_print.  Both loops share one input     *)
(* stream, whose state the first one clears and the second one does not.   *)
(*                                                                         *)
(* The text is given line by line as it is read.  A line is a level, a     *)
(* label and what is between angle brackets; its end, and anything that is *)
(* not a line, is where nothing more can be extracted (stuck).             *)
(***************************************************************************)
EXTENDS TagHeader, UnivNumbers, SequencesExt

CONSTANTS Lines,    \* bound: the lines the text may hold
          MaxLines  \* bound: how many of them

VARIABLES
  at,       \* "extract": is >> printer; "returned": it has; "done"; or
            \* "terminated" by an exception that nothing catches
  frames,   \* the loops, outermost first, each with the level and the node of its tag
  good,     \* not is.fail()
  stuck,    \* nothing more can be extracted from is, whatever its state
  got,      \* __level and __node of the printer that was extracted
  out,      \* the octets put
  refused,  \* out has refused an octet, and refuses those that follow
  taken,    \* history: the lines read
  printed,  \* history: which of them were printed
  invalid   \* history: the first loop has found the text invalid

sink == <<out, refused, printed>>
vars == <<at, frames, good, stuck, got, sink, taken, invalid>>

Enc == INSTANCE TagEncode WITH Headers <- {}, call <- "idle", header <- got.node.th,
                               pending <- << >>

Forms == {"none", "octets", "malformed", "unterminated"}
\* A label is a class and a number (UNIVERSAL 14), or the token of a universal number (TIME).
Line == [level : Nat, tclass : TagClass, number : 0..NumberMax + 1, token : BOOLEAN,
         star : BOOLEAN, form : Forms, items : Seq(Nat)]
Node == [th : Header, content : Seq(Octet), lines : Seq(Nat)]

\* Header octets are as in TagCodec; a content is in memory.
ASSUME BerPrintAssumption ==
  /\ NumberMax \in Nat /\ NumberMax % 128 = 127
  /\ SizeMax \in Nat /\ SizeMax % 256 = 255
  /\ Enc!SizeofExt(SizeMax, 256) < 127
  /\ Lines \subseteq Line
  /\ \A line \in Lines : Len(line.items) <= SizeMax /\ (line.token => line.tclass = 0)
  /\ MaxLines \in Nat

\* Indefinite tags are not loops of do_extract, and definite ones not of content_print.
Definite(n) == n.th.shape = "constructed_definite"
Indefinites(fs) == {i \in DOMAIN fs : ~Definite(fs[i].node)}

TypeOK ==
  /\ at \in {"extract", "returned", "done", "terminated"}
  /\ frames \in Seq([level : Nat, node : Node])
  /\ Indefinites(frames) = 1..Cardinality(Indefinites(frames))
  /\ good \in BOOLEAN /\ stuck \in BOOLEAN /\ refused \in BOOLEAN /\ invalid \in BOOLEAN
  /\ got \in [level : Nat, node : Node]
  /\ out \in Seq(Octet)
  /\ taken \in Seq(Lines) /\ Len(taken) <= MaxLines
  /\ printed \in Seq(DOMAIN taken)

-----------------------------------------------------------------------------
(* Nodes.                                                                  *)

NodeOf(line, shape, content) ==
  [th      |-> [tclass |-> line.tclass, number |-> line.number, shape |-> shape,
                length |-> Len(content)],
   content |-> content,
   lines   |-> <<Len(taken')>>]

\* What print puts: the header, and content_print.
OctetsContentFirst(n) == n.content \o Enc!EncodedHeader(n.th)
Octets(n) == Enc!EncodedHeader(n.th) \o n.content

\* ber_printer_node::length, as push_back adds it up; both sums are a size_t, and
\* truncating the outer one is truncating both.
LengthOfContent(n) == n.th.length
Length(n) == Enc!Sizeof(n.th) + n.th.length

PushBack(n, child) ==
  [th      |-> [n.th EXCEPT !.length = Truncated(SizeMax, @ + Length(child))],
   content |-> n.content \o Octets(child),
   lines   |-> n.lines \o child.lines]

IsEndAnyLength(n) == IsEocTag(n.th, FALSE)
IsEnd(n) == IsEocTag(n.th, TRUE)

\* The content of a primitive: a boolean that is not "true" (here: 1) is false; the
\* numbers of an octet string are kept as unsigned char.
EncodedBoolean(b) == <<IF b THEN 255 ELSE 0>>
OctetStringUntruncated(line) == line.items
OctetString(line) == [i \in DOMAIN line.items |-> line.items[i] % 256]
Content(line) ==
  IF IsUniversal(line, univ.boolean) THEN EncodedBoolean(line.items = <<1>>) ELSE OctetString(line)

-----------------------------------------------------------------------------
(* Lines.  A token of a universal number is matched when it is the only    *)
(* one left at its last character: one that another token goes on from     *)
(* (RELATIVE-OID, TIME, DATE) is never matched.  Its number can be read    *)
(* behind the class.                                                       *)

PrefixTokens == {univ.reloid, univ.time, univ.date}
Unreadable(line) == line.token /\ line.number \in PrefixTokens
NumberOverflows(line) == ~Unreadable(line) /\ line.number > NumberMax
LabelRead(line) == ~Unreadable(line) /\ line.number <= NumberMax

HasContent(line) == line.form \in {"octets", "malformed"}

Top == Last(frames)

Init ==
  /\ at = "extract" /\ frames = << >>
  /\ good = TRUE /\ stuck = FALSE
  /\ got = [level |-> 0, node |-> [th |-> [tclass |-> 0, number |-> 0,
              shape |-> "primitive", length |-> 0], content |-> << >>, lines |-> << >>]]
  /\ out = << >> /\ refused = FALSE
  /\ taken = << >> /\ printed = << >> /\ invalid = FALSE

Takes(line) ==
  /\ at = "extract" /\ good /\ ~stuck
  /\ taken' = Append(taken, line)
  /\ UNCHANGED <<sink, invalid>>

Extracted(level, node) ==
  /\ at' = "returned"
  /\ got' = [level |-> level, node |-> node]

\* The stream has failed, or has no line to extract.
ExtractFails ==
  /\ at = "extract"
  /\ at' = "returned"
  /\ good' = FALSE
  /\ stuck' = (stuck \/ good)
  /\ UNCHANGED <<frames, got, sink, taken, invalid>>

\* The label cannot be read.  A number that overflows is consumed; the token of
\* another label, or anything after the number, is in the way of what follows.
ExtractBadLabel(line) ==
  /\ ~LabelRead(line)
  /\ Takes(line)
  /\ at' = "returned" /\ good' = FALSE
  /\ stuck' = ~(NumberOverflows(line) /\ line.form = "none" /\ ~line.star)
  /\ UNCHANGED <<frames, got>>

\* Content of an indefinite tag, or that is not read up to its end: the stream is
\* left with the buffer of the content.
ExtractBadContent(line) ==
  /\ LabelRead(line) /\ HasContent(line)
  /\ line.star \/ line.form = "malformed"
  /\ Takes(line)
  /\ at' = "returned" /\ good' = FALSE /\ stuck' = TRUE
  /\ UNCHANGED <<frames, got>>

ExtractPrimitive(line) ==
  /\ LabelRead(line) /\ line.form = "octets" /\ ~line.star
  /\ Takes(line)
  /\ Extracted(line.level, NodeOf(line, "primitive", Content(line)))
  /\ UNCHANGED <<frames, good, stuck>>

\* No content, or the text ended in it, which is.clear() forgets: a constructed tag.
ExtractDefinite(line) ==
  /\ LabelRead(line) /\ ~HasContent(line) /\ ~line.star
  /\ Takes(line)
  /\ frames' = Append(frames, [level |-> line.level,
                               node  |-> NodeOf(line, "constructed_definite", << >>)])
  /\ stuck' = (line.form = "unterminated")
  /\ UNCHANGED <<at, good, got>>

ExtractIndefinite(line) ==
  /\ LabelRead(line) /\ ~HasContent(line) /\ line.star
  /\ Takes(line)
  /\ Extracted(line.level, NodeOf(line, "constructed_indefinite", << >>))
  /\ stuck' = (line.form = "unterminated")
  /\ UNCHANGED <<frames, good>>

-----------------------------------------------------------------------------
(* The loop of do_extract.                                                 *)

InDefinite == at = "returned" /\ frames # << >> /\ Definite(Top.node)
IsAnyBelow == good /\ got.level > Top.level
IsChild == good /\ got.level = Top.level + 1

\* node->push_back(printer.detach())
Push ==
  /\ InDefinite /\ IsChild
  /\ ~IsEnd(got.node) /\ got.node.th.shape # "constructed_indefinite"
  /\ at' = "extract"
  /\ frames' = [frames EXCEPT ![Len(frames)].node = PushBack(@, got.node)]
  /\ UNCHANGED <<good, stuck, got, sink, taken, invalid>>

\* push_back takes the length of an indefinite tag: std::logic_error.
PushThrows ==
  /\ InDefinite /\ IsChild
  /\ got.node.th.shape = "constructed_indefinite"
  /\ at' = "terminated"
  /\ UNCHANGED <<frames, good, stuck, got, sink, taken, invalid>>

\* The call returns, with its own node in the printer.
ReturnsNode(isGood) ==
  /\ frames' = Front(frames)
  /\ Extracted(Top.level, Top.node)
  /\ good' = isGood
  /\ UNCHANGED <<stuck, sink, taken>>

\* A tag of the same level ends this one, and is lost.
SiblingEnds ==
  /\ InDefinite /\ good /\ got.level = Top.level
  /\ ReturnsNode(TRUE)
  /\ UNCHANGED invalid

\* An end-of-contents, or a tag of any other level.
Invalid ==
  /\ InDefinite /\ good
  /\ \/ IsChild /\ IsEnd(got.node)
     \/ got.level \notin {Top.level, Top.level + 1}
  /\ ReturnsNode(FALSE)
  /\ invalid' = TRUE

\* Nothing was extracted: the loop ends, and the stream is cleared.
FailureEndsUncleared ==
  /\ InDefinite /\ ~good
  /\ ReturnsNode(FALSE)
  /\ UNCHANGED invalid
FailureEnds ==
  /\ InDefinite /\ ~good
  /\ ReturnsNode(TRUE)
  /\ UNCHANGED invalid

-----------------------------------------------------------------------------
(* print, and the loop of content_print.  No result of out.put is looked   *)
(* at.                                                                     *)

InIndefinite == at = "returned" /\ frames # << >> /\ ~Definite(Top.node)
AtRoot == at = "returned" /\ frames = << >>

\* out takes all the octets of a node, or refuses one of them and the rest.
Put(n) ==
  /\ IF refused THEN UNCHANGED <<out, refused>>
     ELSE \/ out' = out \o Octets(n) /\ UNCHANGED refused
          \/ \E k \in 0..Len(Octets(n)) - 1 :
               out' = out \o SubSeq(Octets(n), 1, k) /\ refused' = TRUE
  /\ printed' = printed \o n.lines

\* A loop of content_print ends, the innermost of fs, and with it the call of
\* print: the loop around it goes on.
Ends(fs) ==
  /\ frames' = Front(fs)
  /\ at' = IF Len(fs) = 1 THEN "done" ELSE "extract"

\* The tag is printed, and then what its content_print reads, if it is indefinite.
PrintNode ==
  /\ good
  /\ AtRoot \/ (InIndefinite /\ IsChild)
  /\ Put(got.node)
  /\ IF got.node.th.shape = "constructed_indefinite"
     THEN frames' = Append(frames, got) /\ at' = "extract"
     ELSE IF AtRoot THEN at' = "done" /\ UNCHANGED frames
     ELSE IF IsEnd(got.node) THEN Ends(frames)
     ELSE at' = "extract" /\ UNCHANGED frames
  /\ UNCHANGED <<good, stuck, got, taken, invalid>>

\* The text ended, or went on with a tag that is not a child: it is lost.
PrintGoesOn ==
  /\ InIndefinite /\ ~IsChild
  /\ at' = "extract"
  /\ UNCHANGED <<frames, good, stuck, got, sink, taken, invalid>>
PrintBreaks ==
  /\ InIndefinite /\ ~IsChild
  /\ Ends(frames)
  /\ UNCHANGED <<good, stuck, got, sink, taken, invalid>>

\* ber_print prints nothing.
NothingToPrint ==
  /\ AtRoot /\ ~good
  /\ at' = "done"
  /\ UNCHANGED <<frames, good, stuck, got, sink, taken, invalid>>

Next ==
  \/ ExtractFails
  \/ Len(taken) < MaxLines /\ \E line \in Lines :
       \/ ExtractBadLabel(line) \/ ExtractBadContent(line)
       \/ ExtractPrimitive(line) \/ ExtractDefinite(line) \/ ExtractIndefinite(line)
  \/ Push \/ PushThrows \/ SiblingEnds \/ Invalid \/ FailureEnds
  \/ PrintNode \/ PrintBreaks \/ NothingToPrint

\* One thread prints; the text ends.
Spec == Init /\ [][Next]_vars /\ WF_vars(Next)

-----------------------------------------------------------------------------
(* The text as a tree, without the loops of the printer: every tag is in   *)
(* the nearest tag before it of a lower level; an end-of-contents, and     *)
(* nothing else, is the last one in an indefinite tag, unless the text     *)
(* ends first.                                                             *)

IsEndLine(l) == IsUniversal(l, univ.eoc) /\ l.form = "octets" /\ l.items = << >>
Below(i) == {j \in i + 1..Len(taken) : \A k \in i + 1..j : taken[k].level > taken[i].level}
Parent(i) == Max({j \in 1..i - 1 : taken[j].level < taken[i].level})
Unclosed(i) == Below(i) = i + 1..Len(taken)

IsTree ==
  /\ taken # << >>
  /\ \A i \in DOMAIN taken : LET l == taken[i] IN
       /\ LabelRead(l)
       /\ l.form = "none" \/ (l.form = "octets" /\ ~l.star)
       /\ i > 1 => /\ l.level \in taken[1].level + 1..taken[i - 1].level + 1
                   /\ l.level > taken[i - 1].level => taken[i - 1].form = "none"
       /\ i > 1 /\ IsEndLine(l) => taken[Parent(i)].star /\ Max(Below(Parent(i))) = i
       /\ l.star => Unclosed(i) \/ (Below(i) # {} /\ IsEndLine(taken[Max(Below(i))])
                                     /\ Parent(Max(Below(i))) = i)

\* What the printer supports: nothing behind a definite tag that is constructed, and
\* no indefinite tag in it.
Supported ==
  \A i \in DOMAIN taken : taken[i].form = "none" /\ ~taken[i].star =>
    Unclosed(i) /\ \A j \in Below(i) : ~taken[j].star
Tree == IsTree /\ Supported

-----------------------------------------------------------------------------
(* The encoding of lines ls of the text, without the loops of the printer: *)
(* the tags in this order, each with its header (tag_encode) and its own   *)
(* content.  The length of a tag is that of its content and of the tags    *)
(* behind it, up to one that is not deeper, as far as a size_t holds it.   *)

Shape(l) ==
  CASE l.star -> "constructed_indefinite"
    [] ~l.star /\ l.form = "octets" -> "primitive"
    [] OTHER -> "constructed_definite"
Own(l) == IF l.form = "octets" THEN Content(l) ELSE << >>
HeaderOf(l, length) ==
  [tclass |-> l.tclass, number |-> l.number, shape |-> Shape(l), length |-> length]

After(ls, k) ==
  Min({j \in k + 1..Len(ls) + 1 : j \in DOMAIN ls => taken[ls[j]].level <= taken[ls[k]].level})
EncodingOf(ls) ==
  LET from[k \in 1..Len(ls) + 1] ==
        IF k = Len(ls) + 1 THEN << >>
        ELSE LET l == taken[ls[k]]
                 length == Len(Own(l)) + (Len(from[k + 1]) - Len(from[After(ls, k)]))
                 header == HeaderOf(l, Truncated(SizeMax, length))
             IN  Enc!EncodedHeader(header) \o Own(l) \o from[k + 1]
  IN  from[1]
AllLines == [i \in DOMAIN taken |-> i]

(* What is printed is the encoding of the lines printed, whatever the text *)
(* is and whichever of its lines are lost: the header of a definite tag    *)
(* has the length of the octets that follow it, which is added up before   *)
(* any of them is put.  If the output refuses an octet, what it has is the *)
(* beginning of the encoding (berprint.cxx:47-74).  And no line is lost of *)
(* a text that is a tree the printer supports.                             *)
PrintsTree ==
  LET encoding == EncodingOf(printed)
  IN  /\ IF refused THEN IsPrefix(out, encoding) /\ out # encoding ELSE out = encoding
      /\ at = "done" /\ Tree => printed = AllLines

(* A tag in an indefinite one is printed before the next line is asked     *)
(* for, as the dialogue of bertree.tests/constr-indef.exp needs it.        *)
PrintsAtOnce ==
  at = "extract" /\ ~refused /\ Tree /\ (\A i \in DOMAIN taken : taken[i].star \/ taken[i].form = "octets")
    => out = EncodingOf(AllLines)

\* The octets put, read as X.690 8.1 has them: where the identifier, the header and
\* the content end of the tag that begins at p.
IdentifierEnd(p) ==
  IF LowNumber(out[p]) = HighForm
  THEN Min({q \in p + 1..Len(out) : ~More(out[q])} \cup {Len(out)}) + 1
  ELSE p + 1
HeadEnd(p) ==
  LET first == out[IdentifierEnd(p)]
  IN  IdentifierEnd(p) + (IF first > Indefinite THEN first - Indefinite ELSE 0) + 1
TagEnd(p) ==
  LET first == out[IdentifierEnd(p)]
  IN  HeadEnd(p) + CASE first < Indefinite -> first
                     [] first = Indefinite -> 0
                     [] OTHER -> Value(256, SubSeq(out, IdentifierEnd(p) + 1, HeadEnd(p) - 1))
Complete(p) ==
  /\ p \in DOMAIN out /\ IdentifierEnd(p) \in DOMAIN out
  /\ HeadEnd(p) <= Len(out) + 1

\* The tags of the lines printed, each behind the header of the one before it, and
\* behind its content as well if that one is primitive.
NextTag(p) ==
  IF ~Complete(p) THEN p ELSE IF Constructed(out[p]) THEN HeadEnd(p) ELSE TagEnd(p)
TagBegins ==
  LET begin[k \in 1..Len(printed) + 1] == IF k = 1 THEN 1 ELSE NextTag(begin[k - 1])
  IN  begin

(* The octets put are read as the tags of the lines printed, each with the *)
(* class and the number of its line, and the content of a tag that is not  *)
(* indefinite ends where the next one begins that is not deeper: no length *)
(* disagrees with the octets that follow it, whatever the text is and      *)
(* whichever of its lines are lost.  This is as long as no length needs    *)
(* more than one octet behind the first: tag_encode has those wrong        *)
(* (tagencode.cxx:59).                                                     *)
WholeTags ==
  LET begin == TagBegins
      long == \E k \in DOMAIN printed :
                Complete(begin[k]) /\ out[IdentifierEnd(begin[k])] > Indefinite + 1
  IN  ~refused /\ Len(out) <= SizeMax /\ ~long =>
        /\ begin[Len(printed) + 1] = Len(out) + 1
        /\ \A k \in DOMAIN printed : LET l == taken[printed[k]]
                                         p == begin[k] IN
             /\ Complete(p)
             /\ IdentifierDenotes(SubSeq(out, p, IdentifierEnd(p) - 1), HeaderOf(l, 0))
             /\ l.star => HeadEnd(p) = begin[k + 1] /\ out[HeadEnd(p) - 1] = Indefinite
             /\ ~l.star => TagEnd(p) = begin[After(printed, k)]

(* Whatever the text is, the tags that are printed are in the order of the *)
(* text, each of them once, and nest: the first is the outermost, and each *)
(* of the others at most one level below the one printed before it.        *)
PrintedNest ==
  \A k \in DOMAIN printed \ {1} :
    /\ printed[k - 1] < printed[k]
    /\ taken[printed[k]].level \in
         taken[printed[1]].level + 1..taken[printed[k - 1]].level + 1

(* The printer comes to an end with every text.                            *)
Terminates == <>(at \in {"done", "terminated"})

(* A definite tag whose text was found "Invalid", where the printer sets   *)
(* badbit (berprint.h:251, 259), is not printed.                           *)
InvalidIsRefused == at = "done" /\ invalid /\ ~taken[1].star => out = << >>
=============================================================================
