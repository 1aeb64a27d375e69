# Verification of ajson

ajson is a JSON parser and writer in C that does no I/O of its own: a program
feeds it chunks and takes tokens, and every call may stop in the middle of
anything and be resumed later. Nothing runs concurrently (a parser belongs to one
thread). What is hard is the *resuming*: a call of `ajson_next_token()`
leaves at any byte, loses its local variables, and has to continue from a stack of
labels and a union after the program has fed, retried or reset in an order of its
own. A test feeds a few files in chunks of a few sizes; the models here feed all
files of some families, cut in all ways, with every call order and failing
allocations in between.

## Inventory

| component | source | state | operations | modules |
|---|---|---|---|---|
| parser engine | `src/parser.c` (macros, buffer), `src/ajson.h` | stack of labels, string buffer, value union, chunk and position | `READ_NEXT`, `RECURSE`, `RETURN`, `EMIT`, `RAISE_ERROR`, `DONE`, `_ajson_push`, `ajson_buffer_*` | `ParserEngine`, `Bytes` |
| document, literal, array, object scanners | `src/parser.c` | the label, the stack | `ajson_next_token` | `Parser` |
| string scanner | `src/parser.c` | `value.utf8`, `value.utf16`, buffer | UTF-8, Latin-1, escapes, surrogate pairs | `ParserString` |
| number scanner | `src/parser.c` | `value.components` | integers, doubles, components, text | `ParserNumber` |
| parser life cycle, getters | `src/ajson.c` | the parser structure | `ajson_init`, `ajson_feed`, `ajson_reset`; alloc, destroy and getters are left out | `Parser` |
| token loop | `test/tokens.c` | stream, result | `tokenize`, loop over files | `Tokenize` |
| callback parser | `src/callback_parser.c` | the functions that are set | `ajson_cb_dispatch`, `ajson_cb_parse_fd/_file/_buf` | `CallbackParser` |
| writer | `src/writer.c` | the bytes put and those left to put, function and label, stack of frames, the value being written | `ajson_write_*`, `ajson_write_continue`, init, reset | `Writer`, `WriterCalls`, `JsonText` |
| UTF-8 decoder | `src/ajson.c` | none | `ajson_decode_utf8` | `Utf8Decoder` |
| pretty printer | `examples/prettyprint.c` | a parser, a writer, two buffers | the loop over chunks, tokens and full buffers | `PrettyPrint` |
| Python bindings | `ajson.py` | buffers handed to the library | `Parser`, `Writer`, `parse_stream` | not modelled |
| snprintf, configuration, build, benchmarks, test data | `src/snprintf.c`, `perf/`, `CMakeLists.txt` | none | | not modelled |

(Paths are below the repository's root; the library itself is in its `src/`.)

How they interact: a program calls `ajson_feed()` and `ajson_next_token()` on a
parser; the answer `NEED_DATA` asks for another chunk, and a chunk of length zero
signals the end. Values are handed out in a union whose live member the answer and
the flags determine, and strings in a buffer the next call reuses. `Tokenize` and
`CallbackParser` are two such programs; they *share* the parser structure with the
parser and are composed with it by extending its module. The callback drivers also
share their chunk: a local array the parser keeps pointing to after they return.

A program writes by one call per token, with a buffer; a result as large as the buffer
asks for `ajson_write_continue()` with another one, any number of times. A write
function starts with a prelude (comma, colon, line break) that looks at the frame of the
open container and changes it, and then calls the function proper; both leave when the
buffer is full and are resumed at a label, as the parser is. `PrettyPrint` is the
program that has both: tokens of its parser are the calls of its writer, and each of
the two keeps a stack of what is open.

### What is hard, and what makes it correct

| component | hard behaviour | correct when |
|---|---|---|
| engine | pausing at every label; growing the stack or the buffer in between; a failing `realloc`; feeding after the end or an error | no label is lost (`NoInternalError`), no byte is read that is not there (`ReadsStayInChunk`), errors stay (`ErrorIsFinal`), asked-for chunks are taken (`FeedAccepted`), each call answers (`CallsReturn`) |
| containers | one stack for the scanners that run and those that wait | answers are tokens of nested values (`ImplementsGrammar`) |
| strings | sequences, escapes and pairs cut by a pause, in a union others store in | `ScratchKept`, `StringsAreTerminated`, the library's own decoder reads them (`StringsAreDecodable`), and exactly the strings of the grammar |
| numbers | 64-bit limits, digits beyond them, exponents out of range | exactly the numerals, read as their numbers |
| life cycle | a reset of a parser that stopped anywhere | a file is parsed as if by a fresh parser (`AcceptsOnlyJson` over two files) |
| token loop | reads that fail, empty reads | no broken file is accepted, no chunk is refused (`NeverRefused`) |
| callbacks | several drivers, retried calls, failures in each place | documents are delivered whole and once, failures are heard |
| writer | any byte may fill the buffer; a frame changed before the token is written; tokens refused, failed half way or given up | the bytes do not depend on the buffers (`DeliversText`, `ShortCountMeansDone`), the stack says what is open (`StackIsNest`), only what JSON forbids is refused (`FailsForAReason`), a token ends (`TokensEnd`) |
| pretty printer | two stacks that must agree; writes that fail; a buffer filled exactly | a text is printed whole, in layout (`PrintsTheText`), no token is refused (`WriterTakesTokens`), the program ends (`Ends`) |

`PROJECT.json` lists the hazards line by line, with the properties that cover each.

## Modules

```
Bytes            byte classes, UTF-8 encoding, surrogates
ParserEngine     the parser structure and the macros       EXTENDS Bytes
ParserString     strings                                    EXTENDS ParserEngine
ParserNumber     numbers                                    EXTENDS ParserEngine
Parser           scanners, calls, Init, Next, Spec          EXTENDS the two, Utf8Decoder
TokenGrammar     abstract: the answers are nested tokens
ParserRefinement Parser implements TokenGrammar             EXTENDS Parser
Tokenize         tokenize() and main() of test/tokens.c     EXTENDS Parser
CallbackParser   dispatch and the three drivers             EXTENDS Parser
JsonGrammar      abstract: JSON texts and their tokens
NumberGrammar    abstract: numerals and what they denote    EXTENDS Tokenize

Utf8Decoder      ajson_decode_utf8()                        EXTENDS Bytes
Writer           write functions, continuation, reset       EXTENDS Utf8Decoder
JsonText         abstract: the text promised for a token    EXTENDS Bytes
WriterCalls      a program that writes any tokens           EXTENDS Writer
PrettyPrint      main() of prettyprint.c                    EXTENDS Parser, INSTANCE Writer

ParserProof                                                 theorems about Parser
ParserGrammar                                               Parser implements TokenGrammar; strings
NumeralProof                                                facts about numerals and their scanners
TokenizeProof                                               theorems about Tokenize
CallbackProof                                               theorems about CallbackParser
WriterProof                                                 theorems about WriterCalls: structure, nesting
WriterText                                                  theorems about WriterCalls: the text put
PrettyProof                                                 theorems about PrettyPrint
MCParser, MCTokenize, MCNumber, MCCallback, MCWriter, MCPrettyPrint    instances for TLC
```

**State.** The variables of `ParserEngine` are the members of `struct
ajson_parser_s` (with `buffer_used` as the length of `buffer`, `input_size` as that
of `input`), the local `index` and the program counter `pc` of the running call,
and the answer `tok` of the last call. `value` is the union: the member stored last
and what it holds. `ScratchKept` and `ArgumentsAreLive` say that the member that is read
is that one.

**Steps.** A label is a place `ajson_next_token()` can leave and be resumed at;
the names are the module's (the code's are made of line numbers). One step goes from
a label to the next: it takes the byte, decides, stores, and either advances
(`Read`, `Advance`), calls a scanner (`Recurse`) or answers. The check in front of a
label is part of it: `At(label)` when it passes, `NeedData` and `UnexpectedEof` when
it does not. `NextToken` is the dispatch. A step that pushes, grows a buffer, stores
a byte *and* answers is one action, as in the code, with its failing `realloc`.

**Calls.** `NextToken`, `Feed`, `Reset` come only between calls; `Next` allows them in
any order, so all programs are covered.

**Data.** Bytes are numbers, chunks sequences of them; the families of the
instances choose few. The counters of a numeral have the width `MaxU` (its maximum),
with the wrapping arithmetic of `uint64_t` and `int64_t`. A double is not computed:
it is the tuple of integers it is computed from, or the class (zero, infinity, NaN)
that `pow()` forces on it beyond `MaxPow10` and `MinPow10`. `errno`, messages and the
file, line and function of an error are left out. A read of a byte outside the chunk
or of a stack cell never written is a choice over all bytes, or the label `"uninit"`.

**Writer.** The variables are the members of `struct ajson_writer_s`; `out` is the
program's buffer with `index` its length, and `pending` the bytes of the `WRITE_CHAR` or
`WRITE_STR` at which the last buffer was full. A frame is the function the code stores in
the stack: `"A"` and `"a"` an empty array and one with elements, `"O"`, `"o"` and `"k"` an
object that is empty, expects a key, expects a value. One step goes from one place
where bytes are put to the next (`Put`), or between two tests of a loop; the first step of
a call that continues is `Resume`, which puts `pending` and may leave again. `value` is
the union with the argument; loops keep their counters in it as in the code. A `double` is
the text `snprintf()` has for it, `NULL` if it is not finite. `CharIsSigned` says what
`char` is in the build. Calls are refused with nothing changed (`Refuse`) or enter.

`WriterCalls` adds a program that takes any token at any time, looks at the result, goes
on while the buffer was full, and resets when it likes. Beside the writer it keeps what
`JsonText` promises: `nest`, what is open by the tokens JSON allows, and `due`, the bytes
promised and not yet received.

**Abstract specifications.** `TokenGrammar` is what the answers promise at any time:
its state is what each open container expects next, read off the labels of the stack
by `ParserRefinement`. `JsonGrammar` is what a whole file promises: the set of texts
up to a length, with their tokens, computed from the productions of RFC 8259.
`NumberGrammar` is what the answers promise of numbers: the numeral that ends where the
parser is, taken apart by the productions, and the number its digits denote; and of a file
that is refused: that no numeral is one, nor goes on with the byte it is refused at.
`JsonText` is what the writer promises of each token, computed from code points and
counts, without labels, frames or buffers.

`Tokenize` reads a file by `Fread`: every continuation the instance allows, or the
end, and a failure with `Ferror`; so one run covers every file of a family in every
way of cutting it, and `NextFile` resets. `CallbackParser` adds the functions that
are set, the three drivers and `ajson_cb_dispatch()` called alone, in any order, for
one document. A failed `read()` takes nothing and may be retried; the bytes of a
failed `fread()` are dropped, as in the code, and the error indicator stays.

Definitions whose comment begins with `Mutant:` are plausible bugs of the definition
they are an alternative to; no specification uses them. Every property
of a passing run fails under one of them.

## Runs

| run | instance | shows |
|---|---|---|
| `parser_structure` | any order of calls with brackets, comma, quote, key piece and space | `NoInternalError`, `ReadsStayInChunk`, `FeedAccepted`, `ErrorIsFinal`, `ImplementsGrammar` |
| `parser_scalars` | any order of calls with pieces of multi-byte, surrogate and numeral text | `TypeOK`, `ScratchKept`, `StringsAreTerminated`, `StringsAreDecodable`, `CallsReturn` |
| `tokenize_texts` | all files of four families, then a second file, with reads that fail | `AcceptsOnlyJson`, `RefusesOnlyOthers`, `NeverRefused` |
| `numbers` | all texts of numeral bytes, all flags | `AcceptsOnlyNumerals`, `RefusesOnlyOthers`, `ComponentsAreTheNumerals`, `IntegersInRange`, `DoublesAreTheNumerals`, `TextIsKept` |
| `callback_drivers` | two calls of the drivers on one document, reads that fail | `DeliversDocument`, `BuffersAllButLast`, `FailuresAreReported`, `ArgumentsAreLive`, `StaleInputUnread`, `DriversReturn` |
| `writer_calls` | any tokens in any order, buffers of changing sizes, resets, a stack that fails to grow | `TypeOK`, `StackIsNest`, `DeliversText`, `FailsForAReason`, `ShortCountMeansDone`, `TokensEnd` |
| `pretty_print` | every start of a family of texts, with failing allocations and writes | `PrintsTheText`, `WriterTakesTokens`, `Ends` |
| `tokenize_surrogates`, `number_integers`, `number_nan`, `callback_buffers`, `writer_controls` | small instances | violations, see Findings |

**Bounds.** `parser_structure`: `STACK_SIZE` 2 and `MaxStackSize` 4, so two open
containers fill a stack, it grows once, and fails both by `realloc` and by its
limit; `BUFSIZ` and `MaxBufferSize` 1, so a string's zero byte fills the buffer.
Depth is bounded by that failure, not by a guard: all behaviours that a parser of
that size can have are there, the chunks are unbounded in number. `parser_scalars`:
`BUFSIZ` 3 and `MaxBufferSize` 6, so a sequence fits, straddles and overflows a growth
step; `MaxU` 9 makes each counter overflow at the second digit.

`tokenize_texts`: files of up to 8 bytes of nested values over `[ ] { } : , " 1` and
space (8 is an object in an array, or two members); strings of up to 7 bytes, quotes
included, over the bytes at each boundary of the UTF-8 table (a 4-byte sequence and a byte
more); Latin-1 strings of up to 4; one or two escapes with digits at the boundaries of the
surrogate ranges. Each read brings one or two bytes, so every cut between two bytes is
made or not made. The second file has 2 bytes, since only what the first file
leaves behind matters, and its reads may fail. `numbers`: all texts of up to 6 bytes over
the digits 0 1 2 5, the signs, point and e, a space behind them, and of up to 26 over 1,
point and e, with `MaxU` 21: two digits fit or do not, 5 rounds and 2 does not, and the
counts of decimals and of dropped digits overflow themselves. `callback_drivers`:
documents of 4 bytes made of pieces, and two calls, so that the second one meets
everything the first can leave behind: the middle of a document, its end, an error with
or without bytes left in the chunk, a failed read.

`writer_calls`: five tokens that open, close, name and fill containers, or one scalar and
one token after it (`Weight`), with `STACK_SIZE` 2 and `MaxStackSize` 4: two containers
make the stack grow, and the fourth does not fit. Buffers of 0, 1, 2 and 6 bytes: refused,
one byte per call, a cut inside an escape or a literal, and room for most tokens at once;
the program changes the size at every call. Strings hold the code points on both sides of
everything that is escaped, multi-byte or a pair, and the ill-formed sequences of every
length and at every byte. `NUMBER_SIZE` 4 and a number of three bytes: as long as the
buffer of its own allows. `MaxDivisor` 100 with integers of one to three digits and the
two limits -128 and 127 stands for 10^19 with 64 bits. Indentation: none, empty, and two
bytes, so that an indentation is cut within a level and between two.

`pretty_print`: texts of up to 6 bytes of nested values, and strings of one letter in
every spelling (raw, short escape, escape, pair), alone and as a key and a value; chunks of
one or two bytes; an output buffer of 2, so that tokens fill it exactly, partly, and many
times; both stacks of 2 cells, with an allocation that may fail.

`MaxU` is small because TLC's integers are 32 bits wide and because an overflow has
to be reached in few digits; the arithmetic is the code's with the width as a
parameter, and `OverflowsExactly` in `ParserProof` proves for every width that the
code's two divisions decide exactly whether the digit still fits.

**Fairness.** `Spec`: `WF(Run)`, a call that has been entered keeps executing; the
program need not call at all. `CbSpec`: `WF(DriverStep)`, the same for the drivers, with
nothing assumed of the program. `CallsSpec`: `WF(Proceed)`, a call runs on and a program
that has begun a token takes its result and continues while the buffer was full (with
buffers that are not empty); it need not begin another. `PrettySpec`: `WF(PrettyNext)`, the
program is scheduled and its reads return; a file ends because the instance's texts do.
`TokenizeSpec` states none, as its properties are invariants. No strong fairness is used.
`Exit` is the stutter of a program that has ended, so deadlock is checked in every run.

**Exceptions in the properties.** `RefusesOnlyOthers` excludes `MEMORY`
(allocation) and, for numbers, `RANGE`. `ComponentsAreTheNumerals`, `IntegersInRange`
and `DoublesAreTheNumerals` exclude exactly the numerals that findings and observations
below are about, `DeliversDocument` a stream that failed before, whose bytes were dropped.
The writer's properties say nothing of a writer that is `broken`: a token failed half way
and no reset followed. `PrintsTheText` and `WriterTakesTokens` leave out the option that
prints numbers past the writer.

## Findings

Each has a run in which TLC exhibits it.

* `number_integers`: integers above `INT64_MAX` that fit a `uint64_t` are answered as
  `INTEGER` with a wrapped value (`src/parser.c:754`).
* `number_nan`: `0e999` is NaN, `0 * infinity`, where the comment promises infinity or
  zero (`src/parser.c:766`).
* `tokenize_surrogates`: encoded surrogates pass the UTF-8 validation
  (`src/parser.c:375`).
* `callback_buffers`: `ajson_cb_parse_buf()` never signals the end, so the last token
  of a document and its end are not delivered, though 0 is returned
  (`src/callback_parser.c:127`). `BuffersAllButLast` shows that no more is missing.

* `writer_controls`: a Latin-1 control character above 0x7F is written, where `char` is
  signed, as an escape with a byte that is no hexadecimal digit (`src/writer.c:491`).

Observed while modelling, with no run:

* Digits dropped from a long integer part are counted in `exponent`, and the exponent's own
  digits are then appended to that count (`src/parser.c:739`): `ComponentsAreTheNumerals`
  leaves these numerals out.
* With `AJSON_FLAG_ASCII` the bytes 0xA0 to 0xFF of a Latin-1 string are written as they are
  (`src/writer.c:499`), though the flag promises pure ASCII.
* An encoded surrogate the parser lets pass is written, with that flag, as a single
  `\u` escape of a surrogate, which the parser then refuses.
* `prettyprint -s` prints numbers past the writer: `[1,1]` becomes `[11]`, and a number as
  the value of a key makes the writer refuse what follows. Its option string lacks the `u` it
  handles, and `fread()` errors end the loop like the end of the file.
* `ajson.py`: `parse_stream` reads from an undefined name, so that it fails at once.

## Proofs

The parser first, then the text of its strings, the grammar of its answers, the token loop
with the numbers it answers, the callback parser, the writer, and the two composed.

The theorems of `ParserProof` are checked by tlapm for every stack and buffer size, every set of chunks over bytes, every order of
calls and every outcome of `realloc`. They assume `MemoryAssumption` (a stack of at
least two cells that grows by that, a buffer that grows by a positive amount),
`NumberAssumption` (`MaxU` is odd and at least 9, as for any width of 4 bits or more),
`PowAssumption` (the exponents `pow()` can take, 308 for a `double`, fit a counter) and
`ProgramAssumption` (chunks are byte sequences, flags and encodings those of the
header). No assumption bounds a run or a call.

The properties are not inductive: that `RETURN` does not find the stack empty
depends on what each open frame is, and that a string is terminated depends on what was
stored a step before. `IInv` adds:

* `Frames`: the first frame is the document's, all others are containers waiting at a
  return label, and the scanner at the top is the document's exactly in the first
  frame. Hence a `RETURN`, which only a value scanner makes, has a frame below it
  (`NoInternalError`), and no call resumes at an unwritten cell.
* `ByteAhead`: at a label without a check there is a byte or the end, *also between
  calls*, in terms of the position the next call will start at. `Feed` preserves it
  only because it refuses a chunk while bytes are left: `FeedAccepted` is its converse.
* `StringClosed`: at the label behind the closing quote the zero byte has been stored.
* `ErrorStays`: after the answer `ERROR` the cell the next call is dispatched to is
  `ERROR`.
* `TypeOK` and `ScratchKept`, which are needed for the values computed from the union
  to be values of their types, and for the first unit of a pair to be a surrogate.

As far as `IInv` is concerned the many steps of the scanners are seven *moves*:
`Goes`, `Calls`, `Fails`, `Returns`, `Emits`, `Ends` and `NeedData`. Each move, and
`NextToken`, `Feed` and `Reset`, preserves it; each step, scanner by scanner, is a move
(`RunMoves`). From both follow `Invariance` and, from it, `TypeCorrect`,
`NoInternalErrors`, `ReadsStay`, `ScratchIsKept`, `Termination`, `FeedIsAccepted` and, as an
action property, `ErrorsAreFinal`.

`ParserGrammar` proves the refinement, `GrammarIsImplemented`: `Spec => ImplementsGrammar`.
The moves forget which answer comes from which label, so the steps are looked at once
more as seven *shapes* (`Scans`, `Enters`, `Errs`, `Closes`, `Opens`, `Finishes`,
`NeedData`; `RunShapes`), which say what the container a label belongs to expects before and
behind it. `Expected` is then compared as a reading of the stack (`ReadAs`): with the same
number of frames and the same frames below, two readings are equal (`SameRead`), differ in
the innermost one (`TakenRead`), or one has a container more or less (`AppendRead`,
`DropRead`); each shape is one of these, which is the step of the grammar or none. Beside
`IInv` it needs `KeyInv`: what is scanned above a frame that waits at `obj.key` is a string,
so that keys are strings, and the cell the end is answered from is behind the value.

Its second half proves `StringsDecode`: what is handed out as a string is decoded by
`ajson_decode_utf8()` to its end, for every encoding. Scanner and decoder check bytes
in different ways, the one a byte at a time over pauses, the other a sequence at a time. The
text of a buffer is taken as cut into sequences (`WellFormed`: there are places to cut at,
each as far from the last as the decoder reads there), and a text stays that when a
sequence is appended. `TextInv` says at each label of the scanner what is well formed:
the whole buffer, or the buffer up to a sequence of which the first bytes are stored
and the rest is expected (`Begun`), with the unit a surrogate escape left in the union.

`TokenizeProof` proves `ChunksAreTaken`: the loop of `test/tokens.c` never gets `ENOBUFS`,
for files of any length and number, however they are read. `TInv` adds to the parser's
invariants that the loop comes back to `fread()` only when the chunk is used up. Its premise
`FreadBytes` says that `fread()` reads bytes; it is a premise, and not an assumption TLC
evaluates, because it ranges over all byte sequences.

It also proves what the run `numbers` checks of accepted numerals, for files of any length in
which numerals stand anywhere, cut into chunks anywhere, and for every width of the
counters: `NumbersAreNumerals`, `ComponentsAreRead`, `IntegersAreRead`,
`DoublesAreRead` and `TextIsRead`. The properties speak of the numeral in the file, and the
parser keeps none of it when it keeps components; so `NInv` says at *each label* of
the number scanners which shape the numeral read so far has (`Shaped`: the place of the mark,
of the point, and which parts have digits), and that the components are what that part of a
numeral denotes (`ReadSoFar`), or the buffer its text. It needs what seems to have nothing to do
with numbers: that where a value may begin the byte in front of it is none of a numeral
(`Fresh`), and that the chunk is the end of what was read of the file, the position inside
of it (`ChunkIsTail`, `Watched`), or a numeral would not be the one that ends where the parser
is. Each part of the components is in one of a few states: the integer and the exponent
as long as they fit and after (`IntHeld`, `ExpHeld`), the decimals exact or rounded
(`DecExact`, `DecDropped`), since a part that overflows is rounded at a digit the components do
not keep, and the further ones are dropped. `NumeralProof` holds what needs no state: how the parts of a text and the number
its digits denote change with one more byte, and that the counters follow. The first attempt
failed at `Double`, whose cases overlapped, which TLA+ leaves open to a choice; they are
disjoint now.

And it proves the converse, of a file refused: `RefusalsAreRight`, that a file which is a
numeral is never refused but for want of memory or of digits of the counter, and any other
only at the first byte with which it cannot become one. Here the property is about texts the
parser has not seen, all continuations of the bytes it has. So `NumeralProof` first says
which bytes those are: a text that a label of the number scanners has taken, with a byte behind
it the label does not take, is no numeral, and is none with one more digit (`Blocked`,
`Unfinished`), because the parts of the longer text are those of the shorter and the byte
belongs to none of them (`LongerCuts`, `NoBegin`). `RInv` adds to `NInv` that the
parser is where such a file puts it (`Fits`: nothing begun, in a numeral, behind one, in
the space behind it, or at a bracket it has answered), or the file has a byte no numeral has
and is lost whatever follows (`Lost`); each is closed under every step of a call, a pause and
the end of the file.

`CallbackProof` is about `CbSpec`: every document, every way reads cut it or fail, every
order of the drivers and every set of functions. It assumes `BytesOnly` (reads bring
bytes) as a premise of its theorems, since `More` is an operator over all byte sequences
which TLC could not enumerate. `CInv` adds to the parser's invariants that numerals are
scanned as text exactly with `NUMBER_AS_STRING` (`Numerals`) and that an answer leaves its
member in the union (`Suited`): hence `ArgumentsLive`. `NothingLeft` says that between two
dispatches no byte of a chunk is left unless the parser is in its error state, `Reported`
that such an error has been reported, and `FailsInError` that a driver returns -1 in one or
for a read: hence `StaleInputIsUnread` and `FailuresReported`. `FeedAccepted` of the
parser is what carries the first; the answer `END` needs `KeyInv`, without which the cell
it leaves behind could be the error state.

`WriterProof` is about `CallsSpec`: every order of
tokens, legal or not, with buffers of every size including zero, every indentation, resets
anywhere, every outcome of `realloc`. They assume `WriterAssumption` (`STACK_SIZE` above 1,
a buffer for numbers, a divisor above 0), `CallsAssumption`, `IndentAssumption` (no
indentation, or bytes) and `TokenAssumption` (each function is called with an
argument of its type; strings are any bytes, numbers any text).

* `SInv` is the structure: what is put fits the buffer and a short result leaves nothing
  `pending`; frames lie above one bottom; at each label the argument is what the code
  takes it for (a string is not empty at a label that reads its first byte, a sequence
  has as many bytes as are counted); a label belongs to its function; and the program looks
  at a result exactly once. Most steps are one move, `Stays`: they put bytes, go to a label
  and leave the stack alone. It gives `WriterTypeCorrect` and `ShortCountsMeanDone`.
* `Mirror` is what relates the stack to `nest`, which changes at once when a token is begun
  while the stack changes label by label. Until the prelude has passed its comma the
  stack is that of one token less (`StackMeansLess`); until the opening bracket it is that
  of what is around the new container (`Around`); until the frame is popped it has one more
  (`StackMeansMore`). A token JSON does not allow is in `Refusal`: refused by the guard
  with nothing changed, or about to fail at its first step. `StackMirrors` proves it
  invariant and `NestingIsKept` derives `StackIsNest`, for stacks of every depth: the
  `Refusal` part is what shows that the guards, with the check behind the pop, refuse
  exactly the ends JSON does not allow.

`WriterText` is about the same specification and says what is put: `TextIsDelivered`, that the
buffers put together are the promised text, each filled up to its end unless the text ends
in it, and `FailuresHaveReasons`, for tokens, nestings, indentations and buffer sizes
without bound.

* The promise is a text known from the start (`due`), the code forgets what it has put. So
  the invariant, `TextOK`, says at every label what is *still to come*: `due` is what is out,
  then what is pending, then `Left`. In front of a value that is the comma, the newline
  and as many indentations as are left (`AheadOfToken`); in an integer the digits below the
  divisor (`LastDigits`: the digit put is the first of them, and dividing the divisor by ten
  leaves the others); in a string the letters of the code points not yet read and, within one,
  the hexadecimal digits or the bytes left of it (`Within`). Each step takes from the front
  what it puts, and `Put` may put only part of it: that is the same for all of them.
* The promise of a string is per code point, the code reads bytes. What relates the two is a
  fact about `ajson_decode_utf8()`: in front of the bytes `Utf8(cp)` of any code point, with anything
  behind them, it reads that code point and that many bytes. A surrogate is one code point in the
  code's eyes and is escaped as one unit, any other above 65535 as two.
* `Reason` is what holds in the state `error`: the bytes at the place are none the decoder
  reads, and all that could be put has been put; or the stack was full at a bracket.

The premise `StringsAreSpelled` defines what a string argument is: the bytes of its code
points, and behind them nothing or bytes that are no UTF-8; a Latin-1 string is its code points,
which the promise has as far as the code escapes them at all where `char` is signed (the
run `writer_controls` shows what it does beyond). It is a premise because it has to be said with a
fold over the tokens; `SpellingAssumption` has TLC evaluate it for the tokens of `MCWriter`. `DivisorAssumption` (the divisor is a
power of ten) and `RangeAssumption` (an integer has at most one digit more than its zeros, and a
number fits the buffer `snprintf()` is given) are what the constants of `writer.c` are chosen
for. `JsonText!Before` had overlapping cases, which the proof did not get past; they are
nested now.

`PrettyProof` puts the two halves together: `TokensAreTaken`, `PrettySpec =>
[]WriterTakesTokens`, for every file, every size of either stack and of the output
buffer, and writes and allocations that fail. `PInv` relates the parser's stack to the
writer's through the abstract grammar: the frames of the writer are those that fit what
`TokenGrammar` expects of the answers (`Fits`), up to the token being written, which is half
done at each label of the write functions (`Counting`, `Pushing`, `Popping`). So
the writer takes a key exactly where the grammar has a key. A string it is given is one
`StringsDecode` speaks of, and the loop of the write function stays at a place where a
sequence begins; and the integers have the type of the call. The premises are
`FreadBytes` and `PrintfFits`, that a double takes `snprintf()` fewer bytes than the buffer
of the write function has (`"%.16g"` needs at most 23, the buffer holds 32); the assumption
`PrettyAssumption` has the options the program can be called with.

Induction over data. The library's induction theorems have an operator as a parameter,
which no installed prover can instantiate. Where a proof needs induction it uses
`NaturalInduction` of `NumeralProof`, with a set in place of the operator, proved from the
well-foundedness of the finite subsets of a set. That is enough for functions that are
recursive over a sequence, as `NumberOf`, and for the fold of the community modules that
`WriterText` needs: `FlattenSeq` of a sequence is its first element followed by that of the rest.
`RECURSIVE` operators cannot be reached at all.

Only model-checked: liveness (`CallsReturn`, `DriversReturn`, `TokensEnd`, `Ends`), which
is out of the prover's reach; that the texts accepted are those of `JsonGrammar`, whose
reference definition builds all texts up to a length, level by level (`AcceptsOnlyJson` and the
`RefusesOnlyOthers` of `MCTokenize`; that of the numbers is proved); that the callbacks are those of
the document (`DeliversDocument`, `BuffersAllButLast`), and what is printed of one
(`PrintsTheText`), which compare with the same definition.

## Not modelled

The getters and `ajson_error_str()` read and print. `ajson_alloc`, `ajson_destroy` and
`ajson_free`, and the same for writers, allocate and free; no property is about leaks. The
option parsers of `test/tokens.c` and `examples/prettyprint.c`, their messages, and the
choice between `fgets()` and `fread()` are left out (with `--fgets` a zero byte in a file
ends the chunk early: a listed hazard). `ajson.py` is a layer of ctypes calls; it keeps no
state but the buffers it hands to the library. What `snprintf()` prints of a
double, and `pow()`, are external; `snprintf.c` replaces the former on some platforms. The
build, the benchmarks and their documents hold no logic of the library.

## Order of the work

1. Parser: engine, scanners, calls; the grammar refinement; files, numbers, callbacks; the
   invariant and its theorems; the refinement and the callback drivers proved on top of it.
2. Writer: decoder, write functions, the program that calls them, the promised text; the
   structure and nesting theorems.
3. Parser and writer composed: the pretty printer.

4. More theorems: strings and the decoder, the token loop, the pretty printer, the numbers, the
   text the writer puts.

What would come next: `--fgets`; a definition of the document that is not bounded, by a
recursive function over its text, so that `AcceptsOnlyJson` could be proved by the induction above.
