----------------------------- MODULE PrettyPrint -----------------------------
(***************************************************************************)
(* examples/prettyprint.c: a parser and a writer composed.  A chunk of the *)
(* file is fed to the parser, each token goes to the writer, what the      *)
(* writer puts into a buffer goes to stdout, and while the buffer was full *)
(* the writer goes on.  Reads that fail look like the end of the file.     *)
(***************************************************************************)
EXTENDS Parser

CONSTANTS
  NULL, NUMBER_SIZE, MaxDivisor, CharIsSigned,   \* of the writer
  WriterFlagSets,  \* the options -a, -I and -u
  Indents,
  OUTBUF,          \* sizeof(outbuf)
  Fread(_, _),     \* for an encoding, the chunks that may follow the bytes read so far
  Fwrite,          \* whether writing may fail: {TRUE} or BOOLEAN
  Snprintf(_)      \* the text printf has for a double, NULL if it is not finite (external)

\* The program may be told to keep numbers as text or to read integers, no more.
ASSUME PrettyAssumption ==
  /\ FlagSets \subseteq SUBSET {"NUMBER_AS_STRING", "INTEGER"}
  /\ NUMBER_SIZE \in Nat
  /\ \A i \in Indents : i = NULL \/ i \in Seq(Byte)
  /\ WriterFlagSets \subseteq SUBSET {"ASCII"}
  /\ OUTBUF \in Nat \ {0}
  /\ Fwrite \in SUBSET BOOLEAN

VARIABLES
  wflags, indent, write_func, next_write_func, state, wstack, wstack_size, wstack_current,
  nesting_written, pending, wvalue, busy, size, out, written,    \* the writer
  phase,           \* "read", "tokens", "parse", "write" or "done"
  doc,             \* the bytes read of the file
  printed,         \* the bytes written to stdout
  status           \* the exit status

W == INSTANCE Writer WITH
       flags <- wflags, stack <- wstack, stack_size <- wstack_size,
       stack_current <- wstack_current, value <- wvalue

writerVars ==
  <<wflags, indent, write_func, next_write_func, state, wstack, wstack_size, wstack_current,
    nesting_written, pending, wvalue, busy, size, out, written>>
programVars == <<phase, doc, printed, status>>
allVars == <<vars, writerVars, programVars>>

PrettyInit ==
  /\ Init
  /\ W!WriterInit(WriterFlagSets, Indents)
  /\ phase = "read"
  /\ doc = <<>>
  /\ printed = <<>>
  /\ status = 0

ExitWith(result) == phase' = "done" /\ status' = result
GoTo(next) == phase' = next /\ UNCHANGED status

ReadChunk ==
  /\ phase = "read"
  /\ \E chunk \in Fread(encoding, doc) \cup {<<>>} : Feed(chunk) /\ doc' = doc \o chunk
  /\ IF tok' = "ENOBUFS" THEN ExitWith(1) ELSE GoTo("tokens")
  /\ UNCHANGED <<writerVars, printed>>

CallNextToken ==
  /\ phase = "tokens"
  /\ NextToken
  /\ GoTo("parse")
  /\ UNCHANGED <<writerVars, doc, printed>>

RunParser == phase = "parse" /\ Run /\ UNCHANGED <<writerVars, programVars>>

\* The function a token is given to, and its argument.
Function == [NULL |-> "null", BOOLEAN |-> "boolean", NUMBER |-> "number", INTEGER |-> "integer",
             STRING |-> "string", BEGIN_ARRAY |-> "begin_array", END_ARRAY |-> "end_array",
             BEGIN_OBJECT |-> "begin_object", END_OBJECT |-> "end_object"]

Argument ==
  CASE tok = "BOOLEAN" -> [boolean |-> Held]
    [] tok = "NUMBER"  -> [number |-> Snprintf(Held)]
    [] tok = "INTEGER" -> [integer |-> Held]
    [] tok = "STRING"  -> [string |-> SubSeq(buffer, 1, Held), encoding |-> "UTF8",
                           count |-> 0, utf16 |-> <<0, 0>>]
    [] OTHER           -> wvalue

RunWriter == phase = "write" /\ W!Run /\ UNCHANGED <<vars, programVars>>

\* Mutant: the rest of a token that fills the buffer is not fetched.
FlushOnce ==
  /\ phase = "write" /\ ~busy
  /\ printed' = IF written > 0 THEN printed \o SubSeq(out, 1, written) ELSE printed
  /\ IF written < 0 THEN ExitWith(1) ELSE GoTo("tokens")
  /\ UNCHANGED <<vars, writerVars, doc>>

\* Mutant: the loop ends only with an error.
FlushOn ==
  /\ phase = "write" /\ ~busy
  /\ printed' = IF written > 0 THEN printed \o SubSeq(out, 1, written) ELSE printed
  /\ IF written < 0 THEN ExitWith(1) /\ UNCHANGED writerVars ELSE GoTo("write") /\ W!Continue(OUTBUF)
  /\ UNCHANGED <<vars, doc>>

\* The loop over the buffers a token fills; a short fwrite() or a failed call ends it all.
Flush ==
  /\ phase = "write" /\ ~busy
  /\ \E ok \in Fwrite :
       /\ printed' = IF written > 0 /\ ok THEN printed \o SubSeq(out, 1, written) ELSE printed
       /\ IF written < 0 \/ (written > 0 /\ ~ok) THEN ExitWith(1) /\ UNCHANGED writerVars
          ELSE IF written < OUTBUF THEN GoTo("tokens") /\ UNCHANGED writerVars
          ELSE GoTo("write") /\ W!Continue(OUTBUF)
  /\ UNCHANGED <<vars, doc>>

\* The chunk is used up: read on, or leave the loop at the end of the file.
ChunkDone == IF AtEof THEN ExitWith(0) ELSE GoTo("read")

\* The switch over the tokens.  A number kept as text goes straight to stdout; whether
\* putchar() fails is not looked at.
HandleToken ==
  /\ phase = "parse" /\ pc = "idle"
  /\ LET text == tok = "NUMBER" /\ "NUMBER_AS_STRING" \in flags
     IN \/ tok = "ERROR" /\ ExitWith(1) /\ UNCHANGED <<writerVars, printed>>
        \/ tok = "NEED_DATA" /\ ChunkDone /\ UNCHANGED <<writerVars, printed>>
        \/ /\ tok = "END"
           /\ \E ok \in Fwrite : printed' = IF ok THEN Append(printed, 10) ELSE printed
           /\ ChunkDone /\ UNCHANGED writerVars
        \/ /\ text
           /\ \E ok \in Fwrite :
                /\ printed' = IF ok THEN printed \o SubSeq(buffer, 1, Held) ELSE printed
                /\ IF ok THEN GoTo("tokens") ELSE ExitWith(1)
           /\ UNCHANGED writerVars
        \/ /\ tok \in DOMAIN Function /\ ~text
           /\ IF tok \in {"END_ARRAY", "END_OBJECT"}
              THEN W!WriteEnd(Function[tok], OUTBUF)
              ELSE W!WriteValue(Function[tok], Argument, OUTBUF)
           /\ GoTo("write") /\ UNCHANGED printed
  /\ UNCHANGED <<vars, doc>>

\* The program exits.
Exit == phase = "done" /\ UNCHANGED allVars

PrettyNext ==
  ReadChunk \/ CallNextToken \/ RunParser \/ HandleToken \/ RunWriter \/ Flush \/ Exit

\* The program runs on.
PrettySpec == PrettyInit /\ [][PrettyNext]_allVars /\ WF_allVars(PrettyNext)

-----------------------------------------------------------------------------
(* Properties. *)

\* The writer takes every token of the parser: it has open what the parser has open and
\* expects a key where the parser reads one, so no call is refused or fails but for memory
\* (the answers of ajson_next_token(), the guards of ajson_write_*()).  With -s it does not.
WriterTakesTokens ==
  phase = "write" /\ ~busy /\ written < 0 /\ "NUMBER_AS_STRING" \notin flags =>
    write_func \in {"begin_array", "begin_object"} /\ wstack_current + 1 = wstack_size

\* The program comes to an end, for every file that ends.
Ends == <>[](phase = "done")
=============================================================================
