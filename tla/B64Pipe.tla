------------------------------ MODULE B64Pipe ------------------------------
(***************************************************************************)
(* The octets that a b64_output put into a text, read back from the text   *)
(* by a b64_input once the writer is done, in calls of any length, until   *)
(* one comes back short; or a text from elsewhere, which is only read.     *)
(***************************************************************************)
EXTENDS B64Output

CONSTANTS Found,  \* bound: the texts from elsewhere
          MaxAsk  \* bound: octets asked for in one call

ASSUME B64PipeAssumption == Found \subseteq Seq(Int) /\ MaxAsk \in Nat

VARIABLES src, get_fn, last_s, want, got, ended, text  \* see B64Input

reader == <<src, get_fn, last_s, want, got, ended, text>>
pipe == <<vars, reader>>

In == INSTANCE B64Input WITH Texts <- Found \cup {<< >>}, MaxGot <- 0

PipeTypeOK == TypeOK /\ In!TypeOK

PipeInit ==
  /\ Ready /\ In!Init
  /\ closed = (text # << >>)
  /\ closed => line = CHOOSE l \in Formats : TRUE

\* The reader opens the text when it is closed.
Write ==
  /\ ~closed
  /\ Next
  /\ src' = IF closed' THEN sink ELSE src
  /\ text' = IF closed' THEN sink ELSE text
  /\ UNCHANGED <<get_fn, last_s, want, got, ended>>

Read ==
  /\ closed /\ ended = -1
  /\ \/ \E len \in 1..MaxAsk :
          /\ want = 0
          /\ want' = len
          /\ UNCHANGED <<src, get_fn, last_s, got, ended, text>>
     \/ In!Get
  /\ UNCHANGED vars

PipeNext == Write \/ Read
PipeSpec == PipeInit /\ [][PipeNext]_pipe /\ WF_pipe(Read)

-----------------------------------------------------------------------------
(* What is read is what was put, in order, and nothing else, wherever the  *)
(* sink broke and whatever the length of the lines.                        *)
ReadIsPrefixOfPut == text = sink => IsPrefix(got, accepted)

(* The octets of any text, as Base-64 has them, are read from it.          *)
DecodesText == closed => In!DecodesText

(* A sink that broke costs at most the last octet whose put succeeded: its *)
(* low bits were to be put with the next octet or by conclude.  What was   *)
(* put after the padding of a conclude is not read.                        *)
ConcludedOnce == \A i, j, k \in VisiblePlaces : i < j /\ j < k => sink[i] # Pad
AtMostLastLost ==
  ended # -1 /\ text = sink /\ ConcludedOnce =>
    Len(got) >= IF broken THEN Len(accepted) - 1 ELSE Len(accepted)

(* The reader comes to the end of the text.                                *)
ReaderEnds == closed ~> ended # -1
=============================================================================
