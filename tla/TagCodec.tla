------------------------------ MODULE TagCodec ------------------------------
(***************************************************************************)
(* A writer that encodes headers into a stream with tag_encode and a       *)
(* reader that decodes them from it with tag_decode while they are being   *)
(* written.  The stream ends when the writer has no more headers or when   *)
(* its output refuses an octet, in the middle of a header too; a get on an *)
(* empty stream waits until then (io.h:57-59, 113-115).                    *)
(***************************************************************************)
EXTENDS TagHeader, SequencesExt

CONSTANTS Headers,  \* the headers the writer may encode
          MaxCalls  \* bound: how many headers it encodes

VARIABLES
  \* the writer's call of tag_encode: see TagEncode
  call, header, pending, out,
  sent,     \* the headers whose tag_encode returned true
  started,  \* headers whose encoding has started
  closed,   \* the writer's end of the stream is closed
  got,      \* octets the reader has taken from out
  decoded,  \* the headers the reader has decoded
  \* the reader's call of tag_decode: see TagDecode
  pc, strict, ident, tn, len, left, th, result, read

Enc == INSTANCE TagEncode
Dec == INSTANCE TagDecode WITH Octets <- Octet, MaxOctets <- 0

\* tag_number and size_t are unsigned integers of at least 7 and 8 bits, and the
\* octets of a size_t can be counted in seven bits that are not all ones.
ASSUME TagCodecAssumption ==
  /\ NumberMax \in Nat /\ NumberMax % 128 = 127
  /\ SizeMax \in Nat /\ SizeMax % 256 = 255
  /\ Enc!SizeofExt(SizeMax, 256) < 127
  /\ Headers \subseteq Header
  /\ MaxCalls \in Nat

encoder == <<call, header, pending, out>>
decoder == <<pc, strict, ident, tn, len, left, th, result, read>>
vars == <<encoder, sent, started, closed, got, decoded, decoder>>

-----------------------------------------------------------------------------
Init ==
  /\ Enc!Init
  /\ sent = << >> /\ started = 0 /\ closed = FALSE
  /\ got = 0 /\ decoded = << >>
  /\ Dec!Init

StartEncode(h) ==
  /\ ~closed /\ started < MaxCalls
  /\ Enc!Encode(h)
  /\ started' = started + 1
  /\ UNCHANGED <<sent, closed, got, decoded, decoder>>

PutOctet ==
  /\ Enc!Put
  /\ sent' = IF call' = "true" THEN Append(sent, header) ELSE sent
  /\ UNCHANGED <<started, closed, got, decoded, decoder>>

Refuse ==
  /\ Enc!PutRefused
  /\ closed' = TRUE
  /\ UNCHANGED <<sent, started, got, decoded, decoder>>

Close ==
  /\ ~closed /\ call # "putting"
  /\ closed' = TRUE
  /\ UNCHANGED <<encoder, sent, started, got, decoded, decoder>>

GetOctet ==
  /\ got < Len(out)
  /\ Dec!Get(out[got + 1])
  /\ got' = got + 1
  /\ decoded' = IF result' = "complete" THEN Append(decoded, th') ELSE decoded
  /\ UNCHANGED <<encoder, sent, started, closed>>

GetEnds ==
  /\ got = Len(out) /\ closed
  /\ Dec!GetFails
  /\ UNCHANGED <<encoder, sent, started, closed, got, decoded>>

NextTag ==
  /\ result = "complete"
  /\ Dec!Call(strict)
  /\ UNCHANGED <<encoder, sent, started, closed, got, decoded>>

Reader == GetOctet \/ GetEnds \/ NextTag
Next ==
  \/ \E h \in Headers : StartEncode(h)
  \/ PutOctet \/ Refuse \/ Close
  \/ Reader

\* The reader goes on as long as it can; nothing makes the writer go on.
Spec == Init /\ [][Next]_vars /\ WF_vars(Reader)

-----------------------------------------------------------------------------
\* What the reader should find in place of h: an indefinite tag has no length.
Read(h) == IF h.shape = "constructed_indefinite" THEN [h EXCEPT !.length = 0] ELSE h
SentAsRead == [i \in DOMAIN sent |-> Read(sent[i])]

(* Every tag_encode that returned true has put exactly tag_sizeof octets:  *)
(* "this operation is consistent with tag_sizeof" (tag.h:289, 319).        *)
SizesAddUp ==
  LET size[i \in 0..Len(sent)] == IF i = 0 THEN 0 ELSE size[i - 1] + Enc!Sizeof(sent[i])
  IN  call # "putting" /\ call # "false" => Len(out) = size[Len(sent)]

(* What was decoded is what was encoded, in order: the reader stays on the *)
(* boundaries of the headers, whatever it is strict about, and decodes     *)
(* nothing from a header the writer did not complete.                      *)
DecodedIsPrefix == IsPrefix(decoded, SentAsRead)

(* A reader that fails says so where the writer was interrupted: the only  *)
(* results besides tdr_complete are those for octets that are missing, and *)
(* tdr_empty is only for a stream that ends between headers.               *)
FailsOnlyWhereInterrupted ==
  /\ result \in {"none", "complete", "empty", "number_incomplete", "length_undefined",
                 "length_incomplete"}
  /\ result \in {"number_incomplete", "length_undefined", "length_incomplete"} => call = "false"
  /\ result = "empty" => Len(decoded) = Len(sent)

(* Every header completely encoded is decoded in the end.                  *)
AllDecoded == \A n \in 1..MaxCalls : Len(sent) = n ~> Len(decoded) >= n

(* A header encoded with return value true is decoded as that header.      *)
RoundTrip ==
  \A i \in 1..Len(decoded) : i <= Len(sent) => decoded[i] = Read(sent[i])
=============================================================================
