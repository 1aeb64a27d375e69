------------------------------- MODULE Parser -------------------------------
(***************************************************************************)
(* ajson_parser: the document, literal, array and object scanners of       *)
(* ajson_next_token(), and the calls ajson_next_token(), ajson_feed() and  *)
(* ajson_reset() a program may make on it, in any order.  The steps of a   *)
(* call are those between two labels; a call runs to its answer before the *)
(* next one starts (a parser belongs to one thread).                       *)
(***************************************************************************)
EXTENDS ParserString, ParserNumber, Utf8Decoder

CONSTANTS
  FlagSets,        \* the flags a program may ask for
  Encodings,       \* the encodings it may ask for
  Chunks           \* the chunks it may feed; <<>> signals the end

ASSUME ProgramAssumption ==
  /\ FlagSets \subseteq SUBSET {"NUMBER_AS_STRING", "NUMBER_COMPONENTS", "INTEGER"}
  /\ Encodings \subseteq {"LATIN1", "UTF8"}
  /\ Chunks \subseteq Seq(Byte) /\ <<>> \in Chunks

-----------------------------------------------------------------------------
(* The document: white space, one value, white space. *)

Start ==
  /\ At("START") \/ At("start.ws")
  /\ \E ch \in CurrCh :
       IF ch \in Space THEN Read("start.ws") ELSE Recurse("VALUE", "start.ret")

\* Mutant: the end is answered as soon as the value is complete.
TrailUnread == At("start.ret") /\ Done

Trail ==
  /\ At("start.ret") \/ At("start.trail")
  /\ \E ch \in CurrCh :
       \/ ch = EOF /\ Done
       \/ ch \in Space /\ Read("start.trail")
       \/ ch \notin Space \cup {EOF} /\ RaiseError("UNEXPECTED_CHAR")

Value ==
  /\ At("VALUE")
  /\ \E ch \in CurrCh :
       CASE ch = Ascii.t -> Read("t")
         [] ch = Ascii.f -> Read("f")
         [] ch = Ascii.n -> Read("n")
         [] ch = Ascii.quote -> BeginString
         [] ch \in Digit \cup {Ascii.minus} -> BeginNumber(ch)
         [] ch = Ascii.lbracket -> Emit("BEGIN_ARRAY", "arr.emit")
         [] ch = Ascii.lbrace -> Emit("BEGIN_OBJECT", "obj.emit")
         [] OTHER -> RaiseError("UNEXPECTED_CHAR")

-----------------------------------------------------------------------------
(* Literals: a label is the part of the word read so far. *)

\* The next letter of a word and the label behind it.
Letter == [t |-> Ascii.r, tr |-> Ascii.u, tru |-> Ascii.e,
           f |-> Ascii.a, fa |-> Ascii.l, fal |-> Ascii.s, fals |-> Ascii.e,
           n |-> Ascii.u, nu |-> Ascii.l, nul |-> Ascii.l]
Spelled == [t |-> "tr", tr |-> "tru", tru |-> "true",
            f |-> "fa", fa |-> "fal", fal |-> "fals", fals |-> "false",
            n |-> "nu", nu |-> "nul", nul |-> "null"]

LiteralLetter ==
  \E label \in LiteralLabels :
    /\ At(label)
    /\ \E ch \in CurrCh :
         IF ch = Letter[label] THEN Read(Spelled[label]) ELSE RaiseError("UNEXPECTED_CHAR")

LiteralEnd ==
  \E label \in LiteralEnds :
    /\ At(label)
    /\ \E ch \in CurrCh :
         IF ch \in Word THEN RaiseError("UNEXPECTED_CHAR")
         ELSE IF label = "null" THEN Return("NULL", value)
         ELSE Return("BOOLEAN", <<"boolean", label = "true">>)

-----------------------------------------------------------------------------
(* Arrays. *)

ArrayEmitted == At("arr.emit") /\ Read("arr.open")

ArrayFirst ==
  /\ At("arr.open")
  /\ \E ch \in CurrCh :
       \/ ch \in Space /\ Read("arr.open")
       \/ ch = Ascii.rbracket /\ Read("arr.close")
       \/ ch \notin Space \cup {Ascii.rbracket} /\ Recurse("VALUE", "arr.ret")

ArrayNext ==
  /\ At("arr.ret") \/ At("arr.ws")
  /\ \E ch \in CurrCh :
       CASE ch = EOF -> RaiseError("UNEXPECTED_EOF")
         [] ch \in Space -> Read("arr.ws")
         [] ch = Ascii.comma -> Read("arr.comma")
         [] ch = Ascii.rbracket -> Read("arr.close")
         [] OTHER -> RaiseError("EXPECTED_COMMA_OR_ARRAY_END")

ArrayMore ==
  /\ At("arr.comma")
  /\ \E ch \in CurrCh :
       IF ch \in Space THEN Read("arr.comma") ELSE Recurse("VALUE", "arr.ret")

ArrayClosed == At("arr.close") /\ Return("END_ARRAY", value)

-----------------------------------------------------------------------------
(* Objects. *)

ObjectEmitted == At("obj.emit") /\ Read("obj.open")

\* Mutant: any value is taken for a key.
ObjectKeyAny(ch) == Recurse("VALUE", "obj.key")

ObjectKey(ch) ==
  IF ch = Ascii.quote THEN Recurse("STRING", "obj.key") ELSE RaiseError("EXPECTED_STRING")

ObjectFirst ==
  /\ At("obj.open")
  /\ \E ch \in CurrCh :
       \/ ch \in Space /\ Read("obj.open")
       \/ ch = Ascii.rbrace /\ Read("obj.close")
       \/ ch \notin Space \cup {Ascii.rbrace} /\ ObjectKey(ch)

ObjectColon ==
  /\ At("obj.key") \/ At("obj.kws")
  /\ \E ch \in CurrCh :
       CASE ch = EOF -> RaiseError("UNEXPECTED_EOF")
         [] ch \in Space -> Read("obj.kws")
         [] ch = Ascii.colon -> Read("obj.colon")
         [] OTHER -> RaiseError("EXPECTED_COLON")

ObjectValue ==
  /\ At("obj.colon")
  /\ \E ch \in CurrCh :
       IF ch \in Space THEN Read("obj.colon") ELSE Recurse("VALUE", "obj.val")

ObjectNext ==
  /\ At("obj.val") \/ At("obj.ws")
  /\ \E ch \in CurrCh :
       CASE ch = EOF -> RaiseError("UNEXPECTED_EOF")
         [] ch \in Space -> Read("obj.ws")
         [] ch = Ascii.comma -> Read("obj.comma")
         [] ch = Ascii.rbrace -> Read("obj.close")
         [] OTHER -> RaiseError("EXPECTED_COMMA_OR_OBJECT_END")

ObjectMore ==
  /\ At("obj.comma")
  /\ \E ch \in CurrCh : IF ch \in Space THEN Read("obj.comma") ELSE ObjectKey(ch)

ObjectClosed == At("obj.close") /\ Return("END_OBJECT", value)

-----------------------------------------------------------------------------
(* Calls. *)

\* Mutant: a call in the error state goes on dispatching.
ErrorStateStuck == pc = "ERROR" /\ UNCHANGED vars

\* STATE(ERROR), and END_DISPATCH for a stack entry that is no label.
ErrorState ==
  /\ pc \notin Labels \ {"ERROR"} /\ pc # "idle"
  /\ RaiseError(IF pc = "ERROR" THEN "STATE" ELSE "JUMP")

\* The steps of ajson_next_token() behind its dispatch.
Run ==
  /\ \/ NeedData \/ UnexpectedEof \/ ErrorState
     \/ Start \/ Trail \/ Value \/ LiteralLetter \/ LiteralEnd
     \/ StringNext \/ NumberNext
     \/ ArrayEmitted \/ ArrayFirst \/ ArrayNext \/ ArrayMore \/ ArrayClosed
     \/ ObjectEmitted \/ ObjectFirst \/ ObjectColon \/ ObjectValue
     \/ ObjectNext \/ ObjectMore \/ ObjectClosed
  /\ UNCHANGED configVars

\* BEGIN_DISPATCH.
NextToken ==
  /\ pc = "idle"
  /\ pc' = stack[stack_current]
  /\ index' = input_current
  /\ UNCHANGED <<configVars, inputVars, stackVars, bufferVars, value, tok>>

Feed(chunk) ==
  /\ pc = "idle"
  /\ IF input_current < Size
     THEN tok' = "ENOBUFS" /\ UNCHANGED inputVars
     ELSE tok' = "FED" /\ input' = chunk /\ input_current' = 0
  /\ UNCHANGED <<configVars, stackVars, bufferVars, value, index, pc>>

\* Mutant: the parser goes on where it was.
ResetInput ==
  /\ pc = "idle"
  /\ input' = <<>>
  /\ input_current' = 0
  /\ buffer' = <<>>
  /\ tok' = "RESET"
  /\ UNCHANGED <<configVars, stackVars, buffer_size, value, index, pc>>

Reset ==
  /\ pc = "idle"
  /\ input' = <<>>
  /\ input_current' = 0
  /\ stack' = [stack EXCEPT ![0] = "START"]
  /\ stack_current' = 0
  /\ buffer' = <<>>
  /\ tok' = "RESET"
  /\ UNCHANGED <<configVars, stack_size, buffer_size, value, index, pc>>

\* ajson_init() refuses NUMBER_AS_STRING with another flag.
AcceptedFlags(set) == "NUMBER_AS_STRING" \in set => set = {"NUMBER_AS_STRING"}

\* ajson_init(): the stack is zeroed, and zero is the label START.
Init ==
  /\ flags \in {set \in FlagSets : AcceptedFlags(set)}
  /\ encoding \in Encodings
  /\ input = <<>>
  /\ input_current = 0
  /\ stack = [i \in 0 .. STACK_SIZE - 1 |-> "START"]
  /\ stack_size = STACK_SIZE
  /\ stack_current = 0
  /\ buffer = <<>>
  /\ buffer_size = 0
  /\ value = <<"none", 0>>
  /\ index = 0
  /\ pc = "idle"
  /\ tok = "INIT"

Next == Run \/ NextToken \/ Reset \/ \E chunk \in Chunks : Feed(chunk)

\* A call that has started runs on.
Spec == Init /\ [][Next]_vars /\ WF_vars(Run)

-----------------------------------------------------------------------------
(* Properties. *)

\* The place the parser is at: in a call its label, between calls the one to resume at.
Top == IF pc = "idle" THEN stack[stack_current] ELSE pc

Errors ==
  {"MEMORY", "EMPTY_SATCK", "JUMP", "STATE", "EXPECTED_DIGIT", "EXPECTED_HEX",
   "EXPECTED_COMMA_OR_ARRAY_END", "EXPECTED_COMMA_OR_OBJECT_END", "EXPECTED_STRING",
   "EXPECTED_COLON", "ILLEGAL_ESCAPE", "ILLEGAL_UNICODE", "RANGE", "UNEXPECTED_CHAR",
   "UNEXPECTED_EOF"}

Answers ==
  {"NEED_DATA", "NULL", "BOOLEAN", "NUMBER", "INTEGER", "STRING", "BEGIN_ARRAY",
   "END_ARRAY", "BEGIN_OBJECT", "END_OBJECT", "END", "ERROR"}
    \cup {"INIT", "FED", "ENOBUFS", "RESET"}

Units == [unit1 : 0 .. MaxUnit, unit2 : 0 .. MaxUnit]

\* What the member of the union that is live may hold.
ValueOK ==
  /\ value = <<Live, Held>>
  /\ Live \in {"none", "error", "utf8", "utf16", "string", "components", "integer",
                     "number", "boolean"}
  /\ Live = "error" => Held \in Errors
  /\ Live = "utf8" => Held \in Seq(Byte)
  /\ Live = "utf16" => Held \in Units
  /\ Live = "string" => Held \in Nat
  /\ Live = "components" => Held \in Components
  /\ Live = "integer" => Held \in Int
  /\ Live = "number" => Held \in Doubles
  /\ Live = "boolean" => Held \in BOOLEAN

\* The parser structure is well formed: the stack and the buffer have the
\* sizes recorded for them, the top of the stack lies in it and the bytes in
\* use lie in the buffer.
TypeOK ==
  /\ flags \in FlagSets /\ encoding \in Encodings
  /\ input \in Seq(Byte) /\ input_current \in Nat
  /\ stack_size \in Nat /\ stack_current \in 0 .. stack_size - 1
  /\ stack \in [0 .. stack_size - 1 -> Labels \cup {"uninit"}]
  /\ buffer \in Seq(Byte) /\ buffer_size \in Nat /\ Used <= buffer_size
  /\ ValueOK
  /\ index \in Nat
  /\ pc \in Labels \cup {"idle", "uninit"}
  /\ tok \in Answers

\* The internal errors never occur: RETURN never finds the stack empty and a
\* call never starts at a stack cell nothing was stored in, however tokens
\* are cut into chunks, the stack is moved by realloc, calls fail or the
\* parser is reset (parser.c RETURN and END_DISPATCH; ajson_error_str() asks
\* for a bug report when one occurs).
NoInternalError ==
  pc = "idle" /\ tok = "ERROR" => Held \notin {"EMPTY_SATCK", "JUMP"}

\* A place of the code that looks at a byte without asking whether there is
\* one (after EMIT and RECURSE) is only come to with a byte left in the chunk
\* or at the signalled end, also when a chunk was fed in between.
ReadsStayInChunk ==
  pc \in JumpLabels \ {"ERROR"} => AtEof \/ index < Size

\* What the union v holds while the parser is at a label inside of a scalar; the
\* bits of a unit whose digits were not read yet are zero.
ScratchOf(label, v) ==
  LET held == v[2]
  IN  /\ label \in {"u2.2", "u3.2", "u4.2"} => v[1] = "utf8" /\ Len(held) = 1
      /\ label \in {"u3.3", "u4.3"} => v[1] = "utf8" /\ Len(held) = 2
      /\ label = "u4.4" => v[1] = "utf8" /\ Len(held) = 3
      /\ label \in (HexLabels \ {"hex1"}) \cup {"sur.bs", "sur.u"} => v[1] = "utf16"
      /\ label = "hex2" => held.unit1 % 4096 = 0
      /\ label = "hex3" => held.unit1 % 256 = 0
      /\ label = "hex4" => held.unit1 % 16 = 0
      /\ label \in {"hex5", "hex6", "hex7", "hex8", "sur.bs", "sur.u"}
           => held.unit1 \in HighSurrogate
      /\ label = "hex6" => held.unit2 % 4096 = 0
      /\ label = "hex7" => held.unit2 % 256 = 0
      /\ label = "hex8" => held.unit2 % 16 = 0
      /\ label \in NumberLabels => v[1] = "components"

\* Between the bytes of a UTF-8 sequence, of a \u escape and of a numeral the
\* union keeps what was read of it, over all chunk boundaries: nothing stores
\* another member (parser.c value.utf8, value.utf16, value.components).
ScratchKept == ScratchOf(Top, value)

\* A string handed out, or a numeral kept as text, is the whole buffer and ends in
\* the zero byte its length does not count (ajson_get_string()).
StringsAreTerminated ==
  pc = "idle" /\ tok \in {"STRING", "NUMBER"} /\ Live = "string" =>
    Used = Held + 1 /\ buffer[Used] = 0

\* What is handed out as a string ajson_decode_utf8() decodes to its end, and so the
\* writer takes it: whatever the encoding of the input, however the bytes of a sequence,
\* the digits of an escape or the halves of a pair are cut (doc/parser.dox: "encoded as
\* UTF-8"; the decoder takes encoded surrogates, as the scanner does).
StringsAreDecodable ==
  pc = "idle" /\ tok = "STRING" => WellFormed(SubSeq(buffer, 1, Held))

\* What the caller is asked to feed is taken: after NEED_DATA and after END the
\* chunk is used up, so ajson_feed() does not answer ENOBUFS (doc/parser.dox).
FeedAccepted ==
  pc = "idle" /\ tok \in {"NEED_DATA", "END"} => input_current >= Size

\* After an error every call answers an error until the parser is reset,
\* whatever is fed in between (STATE(ERROR)).
ErrorIsFinal ==
  [][tok = "ERROR" \/ Top = "ERROR" => Top' = "ERROR" \/ tok' = "RESET"]_vars

\* Every call of ajson_next_token() returns.
CallsReturn == pc # "idle" ~> pc = "idle"
=============================================================================
