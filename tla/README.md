# Berio in TLA+

Berio is a C++ library that reads and writes the tags of the Basic Encoding Rules (X.690) over
octet streams. This directory holds TLA+ models of its code, the TLC configurations that check
them on small instances, and proofs, checked by TLAPS, of what holds for every width of its
integers and every stream. Paths below are relative to the root of the repository.

## The system and its hard parts

The library has no threads. Its difficulty is in long sequences of legal calls: nested scopes over
one stream, conversions that keep a state between calls, streams that end, refuse or throw in the
middle of a call, and integers of a fixed width that come from the outside.

| component | code | state | operations | who uses it | what makes it correct |
| --- | --- | --- | --- | --- | --- |
| octet streams | `include/berio/io.h`, `src/octet.cxx` | none | `get`, `getn`, `put`, `putn` | everything | a short count means that nothing more will come |
| delimited input | `include/berio/deliminput.h`, `src/deliminput.cxx` | `__off`, `__end`, and the `narrow_result` of each sentry on the C++ stack | constructor, `narrow`, `restore`, `getn`, `sentry` | programs that read nested tags; wraps any skippable stream | nothing is taken beyond any open scope; a closed scope is wholly consumed; the outer delimiter comes back |
| tag decoding | `include/berio/tag.h`, `src/tagdecode.cxx` | locals of one call: number, length, octets to go | `tag_decode` | reads from any octet input, usually a delimited one | exactly the header that the octets denote, or the right error; no bit lost |
| tag encoding | `include/berio/tag.h`, `src/tagencode.cxx` | none but the position in the header | `tag_encode`, `tag_sizeof` | writes to any octet output | what it writes decodes to the same header and has the announced size |
| Base-64 input | `include/berio/b64.h:93-250`, `b64istream.h` | `__get_fn`, `__last_s`, the source | `getn`, `skip` | wrapped by a delimited input | the octets of the text in order, from any sequence of calls |
| Base-64 output | `include/berio/b64.h:275-438`, `b64ostream.h` | `__put_fn`, `__conclude_fn`, `__last_o`, `__index`, the sink | `putn`, `conclude` | programs that print tags | a text that reads back; lines of the length asked for |
| content types | `include/berio/types.h` | locals of one call | `tag_decode_boolean`, `_integer`, `_bit_string`, `_octet_string`, `_print_string`, `_oid`; `tag_sizeof_` and `tag_encode_boolean`, `_octet_string` | decoders read from a delimited input to its end; the printer encodes | the value denoted, or overflow; the announced size |
| universal types | `include/berio/univ.h` | none | constants, `is_eoc` | | |
| bertree scanner | `testsuite/lib/bertree/berscan.h`, `main.cxx` | the C++ stack: one sentry and one loop per open tag | `ber_scan` | composes Base-64 input, delimited input, `tag_decode`, content types | every tag is scanned once, inside its parent; the scan ends |
| bertree printer | `testsuite/lib/bertree/berprint.h` and the label, level and content parsers | the printers and nodes of the extractions and printings under way, the state of the text's stream | `ber_print` | composes text parsing, `tag_sizeof`, `tag_encode`, Base-64 output | a text that is a tree prints as its encoding; any other ends, and never as half a tag |
| unit tests | `testsuite/lib/unit/test-tag.cxx`, `test-b64.cxx`, `arrayio.h` | none | one call each, over an array or a string | | what they expect holds of the models |

Interactions are calls. A delimited input calls `getn` and `skip` of what it wraps; `tag_decode`
calls `get`, which is `getn` of one octet; `tag_encode` calls `put`, which is `putn` of one octet;
the Base-64 classes call the `peek`, `ignore` and `put` of their traits. The only callbacks are the
destructors of sentries, which run `restore` when a scope is left.

The printer is the one part whose calls share a state behind each other's back: loops of definite
tags, which run while text is extracted, and loops of indefinite ones, which run while tags are
printed, use one stream, whose failure the first kind clears.

`PROJECT.json` lists the hazards at their lines. The ones that shaped the models: exceptions of a
wrapped stream (`deliminput.cxx:49`, `:14`), overflow of sums and shifts (`deliminput.cxx:36`,
`tagdecode.cxx:32`, `:65`), headers cut by a refused put (`tagencode.cxx:37`), a conversion state
that outlives padding (`b64.h:211`), failures that an outer loop of the printer clears
(`berprint.h:262`), and two characters for one octet of which the sink takes only
one (`b64.h:406`).

## The modules

**`DelimitedInput`** is the class and its sentries over the most general wrapped stream that the
interfaces allow: it hands out fewer octets than asked only when it is dry, and it may throw
having taken any of them. `off`, `end` are the members; `sentries` is the stack of
`narrow_result`s that C++ scopes keep; `pos` counts what was really taken from the wrapped stream.
Actions are the constructor of a sentry (with `narrow` applied or not), its destructor (with
`restore` or not), `getn`, and the two ways an exception passes: through `getn` to the caller, and
out of the destructor, which terminates the program. `size_t` arithmetic wraps at `SizeMax`.
`limits` is a history: the position which each open scope must not let pass. A sentry whose length
did not fit has the limit of the scope around it, because the code then leaves the delimiter alone.

**`ScopedStream`** says the same without offsets and delimiters: every open scope has a budget of
octets that each octet taken is charged to, opening a scope takes no more than the scope around it
has left, and closing it takes what is left of it. `DelimitedInput!ScopedSpec` is that specification
under the refinement mapping in which a scope has left what lies between `off` and its delimiter,
the one kept by the next applied sentry inside it.

**`TagHeader`** has the header type and the parts of an octet, and `Denotes`, the relation of X.690
8.1 between octets and headers: quantified over the octets of a header, without the loops of the
code, it is what the decoder is held to.

**`TagDecode`** is `tag_decode`, one step from one `get` to the next; `pc` names the `get` it waits
in. Every result of `tag_decode_result` is reached. `read` is a history of the call's octets.

**`TagEncode`** is `tag_encode`, one step per `put`, and `tag_sizeof`. **`TagCodec`** composes it
with `TagDecode` through a stream: the writer encodes headers, may be refused an octet anywhere,
and closes; the reader decodes at the same time. `Call` of `TagDecode` starts the next call.
`OctetGroups` has what the codecs of headers and contents share: the groups of an octet, the number that
sequences of digits stand for, and shifts by bits.

**`BerTypes`** is the content decoders of `types.h`, each a loop of `get`s to the end of the stream
(booleans take one octet), with the checks of sizes before the shifts. `pushed` is what
`push_back` was given.

**`BerScan`** is `ber_scan` of the bertree tool, which uses the whole input side: it composes
`DelimitedInput`, `TagDecode` and `BerTypes` as instances. A `get` of `tag_decode` or of a content
decoder is a `getn` of one octet on the delimited input and a step of the decoder in one. `open` is
the recursion (one entry for each call in its loop), `sentries` the sentries on the same C++ stack, and
`at` says how far the innermost call is. The output stream may fail at every line. What is printed is
reduced to one line of level and label per tag; contents and error texts are left out.

**`UnivNumbers`** has the numbers of the universal types and `is_eoc`.

**`BerPrint`** is `ber_print` of the bertree tool. The text comes line by line, as it is read: a level,
a label, and what stands in angle brackets, each of which may be what the parsers refuse. A universal
number is labelled by its `token` (`TIME`) or by its class (`UNIVERSAL 14`, `berlabel.h:45-49`).
`frames` is the stack of loops, those of definite tags (`do_extract`) above those of indefinite ones
(`content_print`); `got` is the printer that the loop on top looks at. `good` is the state of the stream
that the loops set and clear, and `stuck` what clearing does not help against: the end of the text,
a token that was put back, the buffer of a content left behind. A node is its header with the length
added up so far (in a `size_t`, which may wrap), and the octets that its content will put; the octets of an extracted tag are put in one
step or cut anywhere by an output that refuses one. The lines read and the lines printed are
histories. What is put is held to two references without loops or levels of calls. `EncodingOf` goes
over lines of the text and puts the header and the own content of each, its length being that of
its content and of the octets behind it up to the first tag that is not deeper. `WholeTags` does not
use the encoder: it reads the octets put from the front, identifier, length, and content if it is
primitive (`TagBegins`), as X.690 has them.

**`TagDecodeTests`**, **`TagCodecTests`**, **`B64Tests`** are the tables of the unit tests: the octets
or text of each test and what it looks at afterwards, with the arithmetic of the tests on the widths of
the types. A test makes one call; the properties say what it says of every division into calls.

**`Base64`**, **`B64Input`**, **`B64Output`** are the tables and the two state machines. A step of
`B64Input` is one call of `__get_fn` in the loop of `getn` or `skip` (both loops are the same; `skip`
drops the octet). A step of `B64Output` is one `__sink_put`, with the separator that it may put first;
the octet's own effects come with its last character. The sink may refuse at any character, and then
refuses all that follow, as a standard stream does. **`B64Pipe`** writes a text with `B64Output` and
reads it with `B64Input`, or reads a text from elsewhere. The format of the lines is chosen with
the initial state; `Octets` may be put in any order, and `Script` is one longer sequence.

Abstractions: an octet is a number, shifts and masks are quotients and remainders, and what `getn`
stores is kept as a history. Formatting and locale are left out (the `widen` and `narrow` of the
stream traits are the identity on the Base-64 characters). Wherever the code returns early, the
action does too.

## The runs

| run | instance | what it shows |
| --- | --- | --- |
| `delimited` | `SizeMax` 5, three sentries, two exceptions | `DelimitersNested`: `__off` is within `__end` and every delimiter that will be restored, whatever is thrown; and until something is thrown: `ContainedUnlessThrown`: nothing is taken beyond an open scope; `DelimiterOfInnermost`: after any nest, `__end` is the delimiter of the innermost open scope; `ScopeIsConsumed`: leaving an applied scope leaves the wrapped stream right behind it or dry; `ScopedSpec`: refinement of `ScopedStream` |
| `delimited_skips_too_much` | two sentries, one exception | `Contained` is violated, see below |
| `tag_decode` | 16-bit number and length, calls of up to 7 octets out of ten, and the streams of the unit tests | `DecodesExactly`: a header comes only from octets that denote it; `OverflowIsReal`: overflow only where the number or length does not fit; `NoBitLost`: no shift drops a bit; `DecodeTestsPass`: results and headers over the octets of the unit tests |
| `tag_decode_strict` | three octets | `StrictNumberHasNoLeadingZero` is violated |
| `tag_codec` | two headers out of some twenty, at the edges of the forms and those of the unit tests, any refusal | `SizesAddUp`: the octets put by successful encodings are the sum of `tag_sizeof`; `DecodedIsPrefix`: headers are decoded in order, and none that was cut; `FailsOnlyWhereInterrupted`; `AllDecoded`: every header completed is decoded in the end; `EncodeTestsPass`: sizes and octets of the unit tests |
| `tag_codec_long` | lengths 256 and 300 | `RoundTrip` is violated |
| `b64_input_short` | texts of up to 5 characters | `NoneAfterShort` is violated |
| `b64_pipe` | up to 3 octets of four patterns and up to 6 octets in sequence, lines of 3, of 2 or of any number of characters, a sink that breaks anywhere; and every text of up to 6 characters over five kinds; calls of one or two octets | `ReadIsPrefixOfPut`; `AtMostLastLost`: a sink that broke costs one octet at most; `LinesFull`: separators exactly between full lines, none at the end; `QuartetsWhole`: between calls the text has as many characters beyond whole quartets as the state says; `DecodesText`: up to the first short count the octets are those of the text, whatever it is, and the count is short only when the text has no more; `TestsPass`: the unit tests; `ReaderEnds`: the reader comes to the end of a finished text |
| `ber_types` | integers and components of 16 bits, up to 4 octets out of ten | `IntegerIsContentModulo`: an integer is complete with the low octets of its content, which is at most one octet longer than the type; `OidIsContent`: at every moment, failures included, the object identifier holds the components whose last octet was got, exactly; `OidOverflowIsReal`: an overflow is reported only when the seven-bit groups of a component have more bits than its type |
| `ber_scan` | about 300 well-formed tags, nested up to three deep, cut at every octet or followed by others, and every stream of up to 5 octets over five; the output fails anywhere or not at all | `PrintsWhatArrived`: the tags whose header arrived are printed in preorder whatever the contents decode to, and the stream stands behind the first tag; `LevelsNest`: lines are the preorder of a tree; `Unwound`: on every way out all sentries are gone, the first delimiter is back and the first tag is consumed; `LoopEndsAtEnd`: a loop is left only where no octets are left or behind an end-of-contents; `Terminates` |
| `ber_print` | every text of up to 5 lines at levels 0 to 2: definite and indefinite tags, an end-of-contents, two kinds of primitives, and at level 1 lines with a label or a content that is refused, in six ways, and one whose label, refused as a token, is read as a class and a number; an output that refuses any octet | `PrintsTree`: of any text, what is put is the encoding of the lines printed, or the beginning of it that the output took, and no line is lost of a text that is a tree; `PrintsAtOnce`: while the printer waits for a line, the tags of an indefinite one are out; `WholeTags`: of any text, the octets put are read as the tags of the lines printed, and their lengths end them where the next tag begins that is not deeper; `PrintedNest`: of any text, tags are printed in order, once, and at most one level below the one before; `Terminates` |
| `ber_print_invalid` | definite tags and end-of-contents | `InvalidIsRefused` is violated |

Why the bounds are enough. With `SizeMax` 5 every length from zero to one beyond what fits occurs
against every offset, and sums wrap; three sentries give an applied one inside and outside an
unapplied one. In `TagDecode`, seven octets are one more than the longest number, three groups, and
the longest useful length, two octets, with their heads, so both overflows happen with room for
leading zeros; octets are the forms' boundaries, groups of all zeros and all ones, and the
counts 2, 3 and 4. A width of 16 bits has the same limit tests as any other; the proofs are for all.
Six octets of Base-64 cross a quartet, and so do three that are followed by a conclusion and put again;
lines of three make a separator fall inside a quartet and inside the two characters of one octet; six characters hold a quartet with white space, or
padding and characters after it. The streams of `BerScan` have contents that end every decoder
early, a private tag with the number of an end-of-contents, definite and indefinite tags in each
other, lengths beyond what the parent has left, and end-of-contents in definite tags; five sentries
are more than six octets of nested headers or the nested tags need, so that bound never holds a step
back. Five lines of `BerPrint` hold an indefinite tag in another with its end, or a failure three
loops deep with a line behind it; a sixth adds no new nesting at three levels. Every property is violated by a small fault in the code's model
(dropped test, off by one, missing reset), listed under `mutants` in `PROJECT.json`.

Deadlock is not checked where the system may stop: a program that terminated, a call bounded
by the constants, a finished reader, scanner or printer.

Fairness. Only the readers are assumed to go on (`WF_vars(Reader)`, `WF_pipe(Read)`, and the
scanner and the printer, a single thread over a stream that ends, `WF_vars(Next)`): they are loops
that call `get` or `getn` until it fails, and a call that can return does. Nothing makes a
writer go on: `AllDecoded` speaks of the headers whose encoding returned and `ReaderEnds` of texts
that were finished. A `get` on an empty stream waits for the writer, as `io.h:57` says.

## What the runs found

* `deliminput.cxx:49`: when the wrapped `getn` throws after it took octets, `__off` does not count
  them. A later `getn` reads, and the sentry's `restore` skips, as many octets past the scope
  (`Contained`). Up to the first exception scopes contain what is read (`ContainedUnlessThrown`), and
  the class invariant `__off <= __end` survives (`DelimitersNested`).
* `tagdecode.cxx:27`: a strict call looks for a leading zero in the whole octet, so it accepts a
  number that begins with the group `0x80`, and refuses `0x00`, which is the last octet; `tag.h:191`
  says the opposite.
* `tagencode.cxx:59`: the octets of a length that takes more than one are shifted by bits instead of
  octets: 300 becomes `82 96 2c`. Lengths of up to 255 are not affected, which is why `tag_codec`
  is about them. The unit test of the longest length does not find it, because all octets of the
  greatest `size_t` are `ff` under either shift (`EncodeTestsPass` holds).
* `b64.h:211`, `:229`: a call that came back short for padding leaves the state as it was; characters
  behind the padding are decoded by the next call, against `io.h:58-59`.

* `berprint.h:262`: a definite tag whose text is wrong sets `badbit` (`// Invalid`, `:251`, `:259`) to
  fail, but the loop of a definite tag around it takes any failure for the end of the text, clears
  the stream and succeeds: `InvalidIsRefused` fails with two definite tags and a line that skips a level.
  What is printed is then still whole (`WholeTags`), without the tag that failed.

Modelled as they are, without a statement of the repository that they contradict: an integer may have
one octet more than its type, whose first octet is lost (`types.h:97`, stated by
`IntegerIsContentModulo`), and has no sign; a bit string repeats the first bit of each octet
(`types.h:138`); a component of an object identifier is refused by the bits of its groups, so one of 64
bits in ten groups is an overflow although it fits (`types.h:350`, stated by `OidOverflowIsReal`);
`ber_scan` leaves a definite tag at an end-of-contents inside it (`LoopEndsAtEnd`).
The printer loses the line that ends a definite tag: the loop of that tag has extracted it (`:255`), so
in a text of the levels 0, 1, 2, 1 whose second line is a constructed definite tag the fourth is not
printed, and tags below it may come out in another one; `Supported` names the trees without this. An
indefinite tag in a definite one ends the program (`:118`): `Supported` excludes it, and `Terminates`
counts it as an end. No property forbids either, nor the lost octet of an integer; what the properties show of
the printer there is that the tags that do come out are whole and nested. The scanner prints labels that
the printer does not match: `TIME`, `DATE` and `RELATIVE-OID`, each the beginning of another
(`tokenmatch.h:32`); their numbers can be written behind the class.

## The proofs

TLC checks small instances; what follows is proved for every value of the constants that the
modules' assumptions allow: any width of the integers, any octets, contents, texts and streams of
any length, any depth of nesting. `PROJECT.json` lists the theorems under `theorems`.

| module | theorems | of |
| --- | --- | --- |
| `DelimitedInputProofs` | `TypeCorrect`, `AlwaysNested`, `AlwaysContained`, `AlwaysInnermost`, `AlwaysConsumed`, `ImplementsScopes` | `DelimitedInput` |
| `TagDecodeProofs` | `TypeCorrect`, `AlwaysExact`, `AlwaysDecodesExactly`, `OverflowAlwaysReal` | `TagDecode` |
| `TagCodecProofs` | `AlwaysSizesAddUp`, `ShortLengthsDenoted`, `AlwaysDecodedIsPrefix`, `FailsAlwaysWhereInterrupted` | `TagEncode`, `TagCodec` |
| `BerTypesProofs` | `TypeCorrect`, `AlwaysContentModulo`, `AlwaysOidOfContent`, `OidOverflowAlwaysReal` | `BerTypes` |
| `B64PipeProofs` | `PipeTypeCorrect`, `AlwaysDecodesText`, `RoundTrip`, `AlwaysAtMostLastLost`, `AlwaysQuartetsWhole`, `LinesAlwaysFull` | `Base64`, `B64Output`, `B64Input`, `B64Pipe` |
| `BerScanProofs` | `TypeCorrect`, `AlwaysNests`, `AlwaysUnwound`, `LoopAlwaysEndsAtEnd` | `BerScan` and its components |
| `BerPrintProofs` | `TypeCorrect`, `AlwaysPrintedNest`, `AlwaysPrintsTree`, `AlwaysPrintsAtOnce`, `AlwaysWholeTags` | `BerPrint` |
| `ProofFacts` | lemmas only | `OctetGroups`, `TagEncode`: what the others share |

**Induction over data.** The library's induction theorems take an operator as a parameter, which the
provers cannot instantiate. `ProofFacts` does without: a set of natural numbers that is not empty has
a least element (`LeastNatural`, from the well-foundedness of the order), so a statement about all
lengths holds when the set of lengths where it fails is empty, and that set can have no least
element. From it come the solutions of recursive functions (`DescendingRecursion` for those that
call themselves with less, `DigitsDefined` for the digits of a number), which TLA+ writes with
`CHOOSE`, and what `Value`, `ShiftedRight` and `AllOnes` do when a digit or a bit is added.

**`DelimitedInputProofs`.** None of the invariants is inductive: that the delimiter is the
innermost limit says nothing of the one that a destructor brings back. `IInv` adds, for each
sentry, that what it kept is the limit of the scope around it and that limits do not grow
inwards while nothing was thrown, and for applied sentries that kept delimiters are ordered, thrown or
not. With `off <= end` in hand the modular sums and differences of `size_t` are exact (`Exact`,
`RemainingExact`), which is why the test of `narrow` cannot wrap. There is a lemma for each action;
pushing and popping of the two stacks are lemmas of their own. The refinement `ImplementsScopes`
first shows that under `IInv` what the mapping says a scope has left is its limit less the offset
(`ScopesAre`); then each action is a step of `ScopedStream`: a constructor pushes a budget, a
destructor takes what is left of one, `getn` charges all of them. It claims nothing from the first
exception on, like `ScopedSpec`.

**`TagDecodeProofs`.** For types and shifts the invariant adds that the loop over the number is entered
only with room for seven more bits, which `TypeCorrect` states with the types (`RoomForNext`): the
accumulators are truncated, so that they are of their types says nothing of a bit lost; `AlwaysExact`
does. `AlwaysDecodesExactly` needs to say what the octets read so far
stand for: an identifier, the groups of the number with the accumulator their value, the octets of
the length with `left` of them to come; from the last step follows `Denotes`, which is stated
without the loops. The accumulators are compared with `Value` one digit at a time. That a full
accumulator means an overflow follows from `Value` growing with its digits. The module also has
the converse that the codec needs, `HeaderAdvances`: over octets that denote a header of the type, the
decoder goes on to the end and returns that header.

**`TagCodecProofs`.** The writer's invariant names the places in the stream where headers begin; each
is a header's encoding behind the one before (`Codec` quantifies over these places, which the code
does not keep). `AlwaysSizesAddUp` follows for all headers: the recursions of `tag_sizeof_ext` and
of `tag_encode_ltn` count the same groups. What the octets of one header are does not depend on a
stream: it is shown in `ProofFacts` (`NumberEncoded`, `IdentifierOfHeader`, `LengthOfHeader`,
`OctetsOfHeader`), where the printer has it from, too. For the reader, the octets of each header
denote it, and it is in the middle of exactly one. `AlwaysDecodedIsPrefix` and
`FailsAlwaysWhereInterrupted` assume `LengthsDenoted`, that `tag_encode` puts the lengths of the
headers in question as X.690 has them. The code does not in general (`tagencode.cxx:59`, see above), so the
assumption cannot be dropped; `ShortLengthsDenoted` proves it for indefinite lengths and all of up to
255. The decoder's invariant and `HeaderAdvances` come from an instance of `TagDecodeProofs`.

**`BerTypesProofs`.** Widths are counted in octets, so the greatest integer is a number of so many ones.
The invariant holds the accumulators to `Value` of the content: modulo the width for integers,
exactly for the groups of the component under way of an object identifier; for components that have
ended it says that they are pushed in order and the first as two (`OidInv`).

**`B64PipeProofs`.** The writer's invariant (`Written`) says of the sink that its characters but for
spaces are those of a sequence of sextets, and of the sextets that they are the accepted octets,
with at most one begun; padding ends them. The reader's (`ReadInv`) is about any text: for the places of
its characters that are no spaces, the sextets of those before the first that is none, and
any octets that those sextets encode (`Told`, `Encodes`), it says which of these characters the
next one is and that what was read are the first of these octets, so that `getn` with any division into
calls gives the same (`Follows`). Nothing needs to be known about the text for that:
`AlwaysDecodesText`, which has no hypothesis, follows because every text has such places and sextets
(`EveryTextShown`, `EveryTextTold`), which are those of the reference, `SextetsOf` and `OctetsOf`
(`SextetsTold`, `OctetsEncoded`). What a call after the first short count does is not part of it: the
reader of `B64Pipe` has ended then, and `b64_input_short` is about that call.
With the writer's invariant the octets of the text are those that were put, hence `RoundTrip`. It assumes `SeparatorsAreSpaces`: `b64.h` takes any string as a separator, but a reader
skips only spaces, so with a separator of Base-64 characters the text would not be the octets'.
`AlwaysAtMostLastLost` is from the same invariant, which therefore also counts: how many sextets there
are for the accepted octets, between calls and within one, and how far a sink that broke may be behind
them (`Kept`), and how many octets the reader has made of the sextets it read (`AllRead`).
`AlwaysQuartetsWhole` has an invariant of its own, `CountInv`: the characters but for spaces, with those
that the call has still to put, fill the quartet as far as the state after the call says; it also
assumes `SeparatorsAreSpaces`. `LinesAlwaysFull` assumes `SeparatorsBegin` instead, that a separator is
not empty and begins with a space that it has nowhere else, like the default of `b64.h` or a single
character; with any other the first character of a separator would not show where one begins.
Its invariant (`LineInv`) says that `__index` is the place in the line, of a line that has been begun.

**`BerScanProofs`.** The module does not prove anything about the components again: it instantiates their
modules of proofs and cites the lemmas of their steps, after showing that their assumptions hold
(`Widths`). Its own invariant ties the three stacks, those of the sentries, of the
calls in their loops and of the limits, to each other and to where the innermost call is; that a
failing call leaves through every destructor is then a matter of lengths.

**`BerPrintProofs`.** What is printed nests only because of what the loops hold back: a definite tag
carries lines that are printed much later, if at all. The invariant says of every such list of lines, in
the node of a loop, in the extracted node and in what is printed, that it nests by itself (`Nest`),
and that the lists of the loops of definite tags lie behind what is printed and each behind that of the
loop around it (`Loops`, `Follows`). Lines that were lost are in none of them, so nothing needs to
be known about which are lost. The loops of indefinite tags have been printed: for them it says that
their levels grow inwards and lie between the first level printed and the last one, which lets the
next tag go on from there (`LoopsPrint`). That they are outside the loops of definite tags, as
`TypeOK` has it, is in the same invariant (`IInv`).

The octets need a second invariant, `LInv`. Octets are laid out as the tags of some lines (`Layout`)
when there are places one behind the other, the tag of each line between its own place and the next,
with the length of its own content and of the octets up to the place of the first tag that is not
deeper; the length of an indefinite tag is not looked at. That holds of the node of every loop, of
the extracted node and of `out`. Two layouts joined are a layout if the tags of
the first that nothing ends yet are indefinite or not below the level of the second (`LayoutJoin`);
`push_back` joins a child to a node that is still open and adds the child's octets to the node's
length, and adding modulo the range of `size_t` step by step is truncating the sum once
(`PushSound`, `TruncatedSum`), so nothing is assumed of how long a text is. An output that refuses an
octet leaves a proper beginning of a layout (`Begun`), and nothing is put behind it. The octets laid out for the lines printed are what the recursive function of
`EncodingOf` computes (`EncodingLaid`), and where they are laid out is where they are read
(`TagRead`, `BeginsLaid`): the identifier by what `ProofFacts` shows of every header that is
encoded, and the length by its first octet (`LengthFirst`). `WholeTags` needs that no length takes more than
one octet behind the first, and that the octets put are not more than a `size_t` holds: the
encoder and the sum are wrong beyond.

That no line is lost of a tree is a third invariant, `KInv`. `Regular` is what a tree that the
printer supports is line by line, so that it holds of the lines read so far, too; the loops are then
the tags still open, each one level below the one outside it (`Stacked`, `Opens`), and every line
read is in what is printed, in the node of a loop, or in the node at hand (`Covered`). The lines that
end a definite tag, which the printer loses, are the ones that a regular text does not have.

**Only model-checked.** Liveness (`AllDecoded`, `ReaderEnds`, both `Terminates`), which the provers
do not do; the tables of the unit tests, which are about given octets;
and `PrintsWhatArrived`, which is about the trees that the instance generates.

## Not modelled, and the plan

Done, in this order: `DelimitedInput` with `ScopedStream`, then `TagDecode`, `TagEncode`, `TagCodec`,
the Base-64 modules, `BerTypes`, `BerScan`, `BerPrint`, the tables of the unit tests, and the proofs
above. Left:

1. A scan over a wrapped stream that throws: the destructors then run while an exception passes.
2. A pipe of scanner and printer. Each is held to its own reference (`PrintsWhatArrived`,
   `PrintsTree`), and contents, which the scanner's lines leave out, would have to be added to it.

Not to be modelled: the text of labels and contents character by character (what a parser refuses,
consumes and puts back is modelled for a line), contents that only the scanner knows, the build, the
documentation, and the unit tests of the delimited input and of `io.h`, which exercise stubs of the
functions that the models have as they are. `get` and `put` of `src/octet.cxx` are one line each and part
of the steps that call them.
