------------------------------ MODULE B64Tests ------------------------------
(***************************************************************************)
(* What the unit tests of the conversion expect                            *)
(* (testsuite/lib/unit/test-b64.cxx), held against B64Pipe in any division *)
(* of the calls: the tests make one call each.                             *)
(***************************************************************************)
EXTENDS B64Pipe

\* Characters of the tests.
A == 65
B == 66
D == 68
G == 71
I == 73
Q == 81
U == 85
At == 64
Tab == 9
Newline == 10
Return == 13
Space == 32

Whole == <<A, Space, Q, I, Return, D, B, Tab, A, U, Newline, G>>
OneToSix == <<1, 2, 3, 4, 5, 6>>

Expects(cs, os) == [text |-> cs, octets |-> os]

\* test_input_getn_available to test_input_getn_invalid_first_two
FirstTests ==
  { Expects(Whole, OneToSix), Expects(<< >>, << >>), Expects(<<Pad>>, << >>),
    Expects(<<A>>, << >>), Expects(<<A, Pad>>, << >>) }

\* test_input_getn_incomplete_second to test_input_getn_invalid_third
LaterTests ==
  { Expects(<<A, Q>>, <<1>>), Expects(<<A, Q, Pad, Pad>>, <<1>>), Expects(<<A, Q, At>>, <<1>>),
    Expects(<<A, Q, I>>, <<1, 2>>), Expects(<<A, Q, I, Pad>>, <<1, 2>>),
    Expects(<<A, Q, I, At>>, <<1, 2>>) }

\* The same texts in the tests of skip, which expect its count.
Counts(cs, n) == [text |-> cs, count |-> n]
SkipFirstTests ==
  { Counts(Whole, 6), Counts(<< >>, 0), Counts(<<Pad>>, 0), Counts(<<A>>, 0), Counts(<<A, Pad>>, 0) }
SkipLaterTests ==
  { Counts(<<A, Q>>, 1), Counts(<<A, Q, Pad, Pad>>, 1), Counts(<<A, Q, At>>, 1),
    Counts(<<A, Q, I>>, 2), Counts(<<A, Q, I, Pad>>, 2), Counts(<<A, Q, I, At>>, 2) }

\* test_source: a string and an index into it, which ignore advances.
SourceIsSuffix == src = SubSeq(text, Len(text) - Len(src) + 1, Len(text))

\* test_sink holds a number of characters and refuses the next one.
Refused(room) == ~broken /\ broken' /\ Len(sink') = room

\* test_output_putn_available to test_output_putn_incomplete_third_two: of the
\* octets put into a sink with some room, how many are and what it then holds.
Puts(l, os, room, n, cs) == [line |-> l, octets |-> os, room |-> room, count |-> n, text |-> cs]
ByTwo == [len |-> 2, sep |-> <<Tab>>]
Unlimited == [len |-> 0, sep |-> <<Return, Newline>>]
Unrefused == 12
PutTests ==
  { Puts(ByTwo, OneToSix, 8, 5, <<A, Q, Tab, I, D, Tab, B, A>>),
    Puts(ByTwo, OneToSix, Unrefused, 6, <<A, Q, Tab, I, D, Tab, B, A, Tab, U, G>>),
    Puts(Unlimited, <<1, 2, 3>>, 0, 0, << >>), Puts(Unlimited, <<1, 2, 3>>, 1, 1, <<A>>),
    Puts(Unlimited, <<1, 2, 3>>, 2, 2, <<A, Q>>), Puts(Unlimited, <<1, 2, 3>>, 3, 2, <<A, Q, I>>) }

\* acceptance_test_output_conclude_first, _second and _third: octets are put,
\* concluded, and the first one is put again.
ConcludeTests ==
  { Expects(<<A>>, <<1>>), Expects(<<A, Q, Pad, Pad, A>>, <<1, 1>>),
    Expects(<<A, Q, I, Pad, A>>, <<1, 2, 1>>) }

-----------------------------------------------------------------------------
InputTestsPass ==
  closed =>
    /\ SourceIsSuffix
    /\ \A t \in FirstTests \cup LaterTests :
         text = t.text => IsPrefix(got, t.octets) /\ (ended # -1 => got = t.octets)
    /\ \A t \in SkipFirstTests \cup SkipLaterTests :
         text = t.text => Len(got) <= t.count /\ (ended # -1 => Len(got) = t.count)

PutTestPasses(t) ==
  line = t.line /\ Pad \notin Range(sink') =>
    /\ Refused(t.room) /\ call = "put" /\ IsPrefix(Append(accepted, octet), t.octets) =>
         sink' = t.text /\ Len(accepted) = t.count
    /\ t.room = Unrefused /\ accepted # accepted' /\ accepted' = t.octets =>
         sink' = t.text

\* The last octet begins a quartet, and with no more conclusions than the one of
\* the test the sink is no longer than its text.
ConcludeTestPasses(t) ==
  /\ line = Unlimited /\ accepted # accepted' /\ accepted' = t.octets
  /\ put_fn' = "second" /\ Len(sink') <= Len(t.text)
  => sink' = t.text

(* Whatever the lengths of the calls, what is got of a text of the tests   *)
(* begins like what they expect, and the call that comes back short comes  *)
(* with all of it got: the count and the octets of getn, the count of skip *)
(* (test-b64.cxx:92-494).  The sink of a test holds the text it expects    *)
(* when it first refuses a character, or when all octets are put, with as  *)
(* many of them accepted; and a text that is concluded and put to again    *)
(* goes on behind the padding with a first character (:496-649).           *)
TestsPass ==
  [][/\ InputTestsPass'
     /\ \A t \in PutTests : PutTestPasses(t)
     /\ \A t \in ConcludeTests : ConcludeTestPasses(t)]_pipe
=============================================================================
