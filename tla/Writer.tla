------------------------------- MODULE Writer -------------------------------
(***************************************************************************)
(* ajson_writer: the calls that write a token into a buffer of the         *)
(* program, and ajson_write_continue(), which goes on where the last       *)
(* buffer was full.  A write function is resumed at a label, as the parser *)
(* is; what it still needs is in the writer structure.  The steps of a     *)
(* call are those between two places where bytes are put.                  *)
(***************************************************************************)
EXTENDS Utf8Decoder

CONSTANTS
  NULL,            \* no indentation string
  STACK_SIZE,      \* AJSON_STACK_SIZE
  MaxStackSize,    \* cells beyond which realloc never succeeds (bound of the model)
  Realloc,         \* the outcomes of realloc: {TRUE} or BOOLEAN
  NUMBER_SIZE,     \* sizeof(value.number.buffer)
  MaxDivisor,      \* the largest power of ten a uint64_t holds
  CharIsSigned     \* of the build: whether char is signed

ASSUME WriterAssumption ==
  /\ STACK_SIZE \in Nat /\ STACK_SIZE > 1
  /\ MaxStackSize \in Nat
  /\ Realloc \in SUBSET BOOLEAN /\ Realloc # {}
  /\ NUMBER_SIZE \in Nat
  /\ MaxDivisor \in Nat \ {0}
  /\ CharIsSigned \in BOOLEAN

VARIABLES
  flags, indent,   \* given to ajson_writer_init()
  write_func,      \* the function that is running, or that a continuation calls
  next_write_func, \* the function the prelude ends in
  state,           \* the label it is at
  stack,           \* what is open, a function on 0 .. stack_size - 1
  stack_size,
  stack_current,
  nesting_written, \* of an indentation, the levels written
  pending,         \* the bytes being put that the last buffer had no room for
  value,           \* the argument of the call
  busy,            \* whether a call is running
  size,            \* the size of its buffer
  out,             \* the bytes put there, index many
  written          \* the result of the last call

configVars == <<flags, indent>>
frameVars == <<stack, stack_size, stack_current>>
callVars == <<pending, busy, out, written>>
vars == <<configVars, write_func, next_write_func, state, frameVars, nesting_written, callVars,
          value, size>>

\* A frame: "A" and "O" an empty array and object; "a" an array with elements; "o" an
\* object that expects a key; "k" one that expects a value; "none" the bottom.
Frames == {"none", "A", "a", "O", "o", "k"}
Top == stack[stack_current]

Values == {"null", "boolean", "number", "integer", "string", "begin_array", "begin_object"}
Ends == {"end_array", "end_object"}

-----------------------------------------------------------------------------
(* Putting bytes and leaving the call. *)

Return(result) == busy' = FALSE /\ written' = result

\* Mutant: bytes are only put together.
PutWhole(bytes, label) ==
  /\ state' = label
  /\ IF Len(bytes) <= size - Len(out)
     THEN out' = out \o bytes /\ pending' = <<>> /\ UNCHANGED <<busy, written>>
     ELSE pending' = bytes /\ UNCHANGED out /\ Return(Len(out))

\* WRITE_CHAR and WRITE_STR: put bytes and go on at label, now or with the next buffer.
Put(bytes, label) ==
  LET nfree == size - Len(out)
  IN  /\ state' = label
      /\ IF Len(bytes) <= nfree
         THEN out' = out \o bytes /\ pending' = <<>> /\ UNCHANGED <<busy, written>>
         ELSE /\ out' = out \o SubSeq(bytes, 1, nfree)
              /\ pending' = SubSeq(bytes, nfree + 1, Len(bytes))
              /\ Return(size)

Goto(label) == state' = label /\ UNCHANGED callVars

\* END_DISPATCH, which a further continuation only repeats.
Done == state' = "done" /\ Return(Len(out)) /\ UNCHANGED <<pending, out>>

\* RAISE_ERROR: bytes already put are not counted.
RaiseError == state' = "error" /\ Return(-1) /\ UNCHANGED <<pending, out>>

\* The code of a function behind a label runs.
At(function, label) == busy /\ pending = <<>> /\ write_func = function /\ state = label

\* A continuation, or a call, comes to a label again with bytes left to put.
Resume ==
  /\ busy /\ pending # <<>>
  /\ Put(pending, state)
  /\ UNCHANGED <<configVars, write_func, next_write_func, frameVars, nesting_written, value, size>>

\* The label behind the last byte; _ajson_write_dummy(); the label of an error.
Finish ==
  /\ busy /\ pending = <<>>
  /\ \/ state = "done" /\ Done
     \/ write_func = "dummy" /\ Return(0) /\ UNCHANGED <<state, pending, out>>
     \/ state = "error" /\ RaiseError
  /\ UNCHANGED <<configVars, write_func, next_write_func, frameVars, nesting_written, value, size>>

-----------------------------------------------------------------------------
(* The prelude of a value: comma, line break and indentation, or colon. *)

SetTop(frame) ==
  /\ stack' = [stack EXCEPT ![stack_current] = frame]
  /\ UNCHANGED <<stack_size, stack_current>>

Prelude ==
  /\ At("prelude", "START")
  /\ \/ Top \in {"a", "o"} /\ Put(<<Ascii.comma>>, "comma") /\ UNCHANGED frameVars
     \/ Top \in {"A", "O"} /\ Goto("comma") /\ UNCHANGED frameVars
     \/ /\ Top = "k"
        /\ SetTop("o")
        /\ Put(IF indent = NULL THEN <<Ascii.colon>> ELSE <<Ascii.colon, 32>>, "tail")
     \/ Top = "none" /\ Goto("tail") /\ UNCHANGED frameVars
  /\ UNCHANGED <<configVars, write_func, next_write_func, nesting_written, value, size>>

\* Mutant: a container with elements is an array.
CommaFlat ==
  /\ At("prelude", "comma")
  /\ SetTop("a")
  /\ IF indent = NULL THEN Goto("tail") ELSE Put(<<10>>, "newline")
  /\ UNCHANGED <<configVars, write_func, next_write_func, nesting_written, value, size>>

Comma ==
  /\ At("prelude", "comma")
  /\ SetTop(IF Top \in {"O", "o"} THEN "k" ELSE "a")
  /\ IF indent = NULL THEN Goto("tail") ELSE Put(<<10>>, "newline")
  /\ UNCHANGED <<configVars, write_func, next_write_func, nesting_written, value, size>>

\* The loop over the levels, in the prelude and in front of a closing bracket.
Indent ==
  /\ \E function \in Ends \cup {"prelude"}, label \in {"newline", "more"} : At(function, label)
  /\ nesting_written' = IF state = "newline" THEN 0 ELSE nesting_written + 1
  /\ IF indent # <<>> /\ nesting_written' < stack_current THEN Put(indent, "more") ELSE Goto("tail")
  /\ UNCHANGED <<configVars, write_func, next_write_func, frameVars, value, size>>

\* The call of next_write_func, into the same buffer.
TailCall ==
  /\ At("prelude", "tail")
  /\ write_func' = next_write_func
  /\ Goto("START")
  /\ UNCHANGED <<configVars, next_write_func, frameVars, nesting_written, value, size>>

-----------------------------------------------------------------------------
(* Literals, numbers and integers. *)

Text ==
  LET a == Ascii
  IN  [null  |-> <<a.n, a.u, a.l, a.l>>,
       true  |-> <<a.t, a.r, a.u, a.e>>,
       false |-> <<a.f, a.a, a.l, a.s, a.e>>]

Literal ==
  /\ \/ At("null", "START") /\ Put(Text.null, "done")
     \/ At("boolean", "START") /\ Put(IF value.boolean THEN Text.true ELSE Text.false, "done")
  /\ UNCHANGED <<configVars, write_func, next_write_func, frameVars, nesting_written, value, size>>

\* What snprintf(..., n, "%.16g", ...) writes of the text of a number in front of the zero byte.
Printed(text, n) == IF Len(text) < n THEN text ELSE SubSeq(text, 1, n - 1)

\* Mutant: the buffer needs room for the text only.
PutNumberTight(text) ==
  LET nfree == size - Len(out)
  IN  IF text = NULL THEN Put(Text.null, "done")
      ELSE IF nfree >= Len(text)
      THEN Put(Printed(text, nfree) \o IF Len(text) = nfree THEN <<0>> ELSE <<>>, "done")
      ELSE Put(Printed(text, NUMBER_SIZE), "done")

\* Mutant: a number has to fit into what is left of the buffer of the program.
PutNumberHere(text) ==
  IF text = NULL THEN Put(Text.null, "done")
  ELSE IF Len(text) > size - Len(out) THEN RaiseError
  ELSE Put(text, "done")

\* The text of a number, NULL if it is not finite, goes into the buffer of the program if
\* there is room for that of value.number.buffer, or through the latter.
PutNumber(text) ==
  LET nfree == size - Len(out)
  IN  IF text = NULL THEN Put(Text.null, "done")
      ELSE IF Len(text) > (IF nfree >= NUMBER_SIZE THEN nfree ELSE NUMBER_SIZE) THEN RaiseError
      ELSE IF nfree >= NUMBER_SIZE
      THEN Put(Printed(text, nfree) \o IF Len(text) = nfree THEN <<0>> ELSE <<>>, "done")
      ELSE Put(Printed(text, NUMBER_SIZE), "done")

Number ==
  /\ At("number", "START")
  /\ PutNumber(value.number)
  /\ UNCHANGED <<configVars, write_func, next_write_func, frameVars, nesting_written, value, size>>

IntegerSign ==
  /\ At("integer", "START")
  /\ IF value.integer = 0 THEN Put(<<Ascii.zero>>, "done")
     ELSE IF value.integer < 0 THEN Put(<<Ascii.minus>>, "magnitude")
     ELSE Goto("magnitude")
  /\ UNCHANGED <<configVars, write_func, next_write_func, frameVars, nesting_written, value, size>>

\* The magnitude takes the place of the value; that of INT64_MIN is 2 ^ 63, a uint64_t.
IntegerMagnitude ==
  /\ At("integer", "magnitude")
  /\ value' = [integer |-> IF value.integer < 0 THEN -value.integer ELSE value.integer,
               div |-> MaxDivisor]
  /\ Goto("scale")
  /\ UNCHANGED <<configVars, write_func, next_write_func, frameVars, nesting_written, size>>

\* The loop that looks for the first digit.
IntegerScale ==
  /\ At("integer", "scale")
  /\ IF value.integer \div value.div = 0
     THEN value' = [value EXCEPT !.div = @ \div 10] /\ Goto("scale")
     ELSE Goto("digit") /\ UNCHANGED value
  /\ UNCHANGED <<configVars, write_func, next_write_func, frameVars, nesting_written, size>>

\* Mutant: the place of the next digit is not moved.
IntegerDigitStuck ==
  /\ At("integer", "digit")
  /\ IF value.div > 0
     THEN Put(<<Ascii.zero + ((value.integer \div value.div) % 10)>>, "digit")
     ELSE Goto("done")
  /\ UNCHANGED <<configVars, write_func, next_write_func, frameVars, nesting_written, value, size>>

IntegerDigit ==
  /\ At("integer", "digit")
  /\ IF value.div > 0
     THEN /\ Put(<<Ascii.zero + ((value.integer \div value.div) % 10)>>, "digit")
          /\ value' = [value EXCEPT !.div = @ \div 10]
     ELSE Goto("done") /\ UNCHANGED value
  /\ UNCHANGED <<configVars, write_func, next_write_func, frameVars, nesting_written, size>>

-----------------------------------------------------------------------------
(* Strings. *)

\* The bytes written as a backslash and one letter (the solidus is not).
ShortEscapes == Escapable \ {47}
HasShortEscape == {Unescape(letter) : letter \in ShortEscapes}
ShortEscape(ch) == CHOOSE letter \in ShortEscapes : Unescape(letter) = ch

\* TO_HEX, stored in a char.
ToHex(digit) == (IF digit > 9 THEN 97 + digit - 10 ELSE 48 + digit) % 256

\* *value >> 4, of a char, stored in an unsigned char.
HighNibble(ch) == (IF CharIsSigned /\ ch >= 128 THEN (ch - 256) \div 16 ELSE ch \div 16) % 256

\* The two units of a code point, unit2 zero if it needs but one (0xD7C0, 0xDC00).
Utf16(cp) ==
  IF cp < 65536 THEN <<cp, 0>> ELSE <<(cp \div 1024) + 55232, (cp % 1024) + 56320>>

HexLabel == <<"hex1", "hex2", "hex3", "hex4", "hex5", "hex6", "hex7", "hex8">>

\* The bytes from value.string.value to value.string.end.
Rest == value.string
Skip(n) == value' = [value EXCEPT !.string = SubSeq(@, n + 1, Len(@))]

StringStart ==
  /\ At("string", "START")
  /\ Put(<<Ascii.quote>>, "char")
  /\ UNCHANGED <<configVars, write_func, next_write_func, frameVars, nesting_written, value, size>>

\* A byte above 0x7F of a UTF-8 string: an escape, or its sequence is copied.
Multibyte ==
  LET count == DecodedCount(Rest)
      cp == DecodedCodepoint(Rest, count)
  IN  IF count <= 0 THEN RaiseError /\ UNCHANGED value
      ELSE IF "ASCII" \in flags \/ cp \in 128 .. 159
      THEN /\ value' = [value EXCEPT !.string = SubSeq(@, count + 1, Len(@)), !.utf16 = Utf16(cp)]
           /\ Put(<<92, Ascii.u>>, HexLabel[1])
      ELSE /\ value' = [value EXCEPT !.count = count]
           /\ Goto("copy")

\* The loop over the string.
StringChar ==
  /\ At("string", "char")
  /\ LET ch == Head(Rest)
         latin1 == value.encoding = "LATIN1"
     IN  IF Rest = <<>> THEN Put(<<Ascii.quote>>, "done") /\ UNCHANGED value
         ELSE IF ch \in HasShortEscape
         THEN Put(<<92, ShortEscape(ch)>>, "skip") /\ UNCHANGED value
         ELSE IF ch <= 31 \/ ch = 127 \/ (latin1 /\ ch \in 128 .. 159)
         THEN Put(<<92, Ascii.u, 48, 48>>, "high") /\ UNCHANGED value
         ELSE IF ch < 127 \/ latin1
         THEN Put(<<ch>>, "skip") /\ UNCHANGED value
         ELSE Multibyte
  /\ UNCHANGED <<configVars, write_func, next_write_func, frameVars, nesting_written, size>>

StringSkip ==
  /\ At("string", "skip")
  /\ Skip(1) /\ Goto("char")
  /\ UNCHANGED <<configVars, write_func, next_write_func, frameVars, nesting_written, size>>

ControlHigh ==
  /\ At("string", "high")
  /\ Put(<<ToHex(HighNibble(Head(Rest)))>>, "low")
  /\ UNCHANGED <<configVars, write_func, next_write_func, frameVars, nesting_written, value, size>>

ControlLow ==
  /\ At("string", "low")
  /\ Put(<<ToHex(Head(Rest) % 16)>>, "skip")
  /\ UNCHANGED <<configVars, write_func, next_write_func, frameVars, nesting_written, value, size>>

\* The loop that copies a sequence, with its count in the union.
StringCopy ==
  /\ \E label \in {"copy", "copied"} : At("string", label)
  /\ LET advance == state = "copied"
         rest == IF advance THEN Tail(Rest) ELSE Rest
         count == IF advance THEN value.count - 1 ELSE value.count
     IN  /\ value' = [value EXCEPT !.string = rest, !.count = count]
         /\ IF count > 0 THEN Put(<<Head(rest)>>, "copied") ELSE Goto("char")
  /\ UNCHANGED <<configVars, write_func, next_write_func, frameVars, nesting_written, size>>

\* What the digits of the two units count.
Place == <<4096, 256, 16, 1, 4096, 256, 16, 1>>

\* The four digits of a unit, and the second unit of a pair.
UnitDigit ==
  /\ \E i \in 1 .. 8 :
       /\ At("string", HexLabel[i])
       /\ LET unit == value.utf16[IF i <= 4 THEN 1 ELSE 2]
          IN  Put(<<ToHex((unit \div Place[i]) % 16)>>,
                  IF i \notin {4, 8} THEN HexLabel[i + 1]
                  ELSE IF i = 4 /\ value.utf16[2] # 0 THEN "pair" ELSE "char")
  /\ UNCHANGED <<configVars, write_func, next_write_func, frameVars, nesting_written, value, size>>

SecondUnit ==
  /\ At("string", "pair")
  /\ Put(<<92, Ascii.u>>, HexLabel[5])
  /\ UNCHANGED <<configVars, write_func, next_write_func, frameVars, nesting_written, value, size>>

-----------------------------------------------------------------------------
(* Arrays and objects. *)

\* Mutant: the stack is grown one frame late.
PushLate(frame, bracket) ==
  /\ stack' = [i \in 0 .. stack_size - 1 |-> IF i = stack_current + 1 THEN frame ELSE stack[i]]
  /\ stack_current' = stack_current + 1
  /\ UNCHANGED stack_size
  /\ Put(<<bracket>>, "done")

\* ajson_writer_push() and the opening bracket.
PushAndPut(frame, bracket) ==
  LET full == stack_size = stack_current + 1
      newsize == IF full THEN stack_size + STACK_SIZE ELSE stack_size
  IN \E ok \in Realloc :
       IF full /\ ~(ok /\ newsize <= MaxStackSize)
       THEN RaiseError /\ UNCHANGED frameVars
       ELSE /\ stack' = [i \in 0 .. newsize - 1 |->
                           IF i = stack_current + 1 THEN frame
                           ELSE IF i < stack_size THEN stack[i] ELSE "uninit"]
            /\ stack_size' = newsize
            /\ stack_current' = stack_current + 1
            /\ Put(<<bracket>>, "done")

Begin ==
  /\ \/ At("begin_array", "START") /\ PushAndPut("A", Ascii.lbracket)
     \/ At("begin_object", "START") /\ PushAndPut("O", Ascii.lbrace)
  /\ UNCHANGED <<configVars, write_func, next_write_func, nesting_written, value, size>>

\* ajson_writer_pop(), which takes the frame before it is looked at, and the line break.
PopAndBreak(empty, filled) ==
  /\ stack_current' = IF stack_current = 0 THEN 0 ELSE stack_current - 1
  /\ UNCHANGED <<stack, stack_size>>
  /\ IF stack_current = 0 \/ Top \notin {empty, filled} THEN RaiseError
     ELSE IF Top = filled /\ indent # NULL THEN Put(<<10>>, "newline")
     ELSE Goto("tail")

End ==
  /\ \/ At("end_array", "START") /\ PopAndBreak("A", "a")
     \/ At("end_object", "START") /\ PopAndBreak("O", "o")
  /\ UNCHANGED <<configVars, write_func, next_write_func, nesting_written, value, size>>

ClosingBracket ==
  /\ \/ At("end_array", "tail") /\ Put(<<Ascii.rbracket>>, "done")
     \/ At("end_object", "tail") /\ Put(<<Ascii.rbrace>>, "done")
  /\ UNCHANGED <<configVars, write_func, next_write_func, frameVars, nesting_written, value, size>>

\* The steps of a call.
Run ==
  \/ Resume \/ Finish \/ Prelude \/ Comma \/ Indent \/ TailCall
  \/ Literal \/ Number \/ IntegerSign \/ IntegerMagnitude \/ IntegerScale \/ IntegerDigit
  \/ StringStart \/ StringChar \/ StringSkip \/ ControlHigh \/ ControlLow
  \/ StringCopy \/ UnitDigit \/ SecondUnit
  \/ Begin \/ End \/ ClosingBracket

-----------------------------------------------------------------------------
(* Calls.  A buffer of n bytes is given; 0 is refused. *)

Enter(n) == busy' = TRUE /\ size' = n /\ out' = <<>> /\ UNCHANGED written

\* EINVAL, before anything of the writer is changed.
Refuse(n) ==
  /\ written' = -1 /\ size' = n /\ out' = <<>>
  /\ UNCHANGED <<configVars, write_func, next_write_func, state, frameVars, nesting_written,
                 pending, value, busy>>

\* Start a function; state = 0 also forgets what a token given up had still to put.
StartAt(function, next, n) ==
  /\ write_func' = function
  /\ next_write_func' = next
  /\ state' = "START"
  /\ pending' = <<>>
  /\ Enter(n)

\* ajson_write_null(), _boolean(), ..., _begin_object(): not where a key is expected; v is
\* the argument.
WriteValue(function, v, n) ==
  /\ ~busy
  /\ IF n = 0 \/ (function # "string" /\ Top \in {"O", "o"})
     THEN Refuse(n)
     ELSE /\ StartAt("prelude", function, n)
          /\ value' = v
          /\ UNCHANGED <<configVars, frameVars, nesting_written>>

RefusedEnd(function) ==
  IF function = "end_array" THEN Top \in {"O", "o"} ELSE Top = "k"

\* ajson_write_end_array() and ajson_write_end_object().
WriteEnd(function, n) ==
  /\ ~busy
  /\ IF n = 0 \/ RefusedEnd(function)
     THEN Refuse(n)
     ELSE /\ StartAt(function, "none", n)
          /\ UNCHANGED <<configVars, frameVars, nesting_written, value>>

\* ajson_write_continue().
Continue(n) ==
  /\ ~busy
  /\ IF n = 0 THEN Refuse(n)
     ELSE /\ Enter(n)
          /\ UNCHANGED <<configVars, write_func, next_write_func, state, frameVars,
                         nesting_written, pending, value>>

Reset ==
  /\ ~busy
  /\ nesting_written' = 0
  /\ write_func' = "dummy"
  /\ next_write_func' = "none"
  /\ state' = "START"
  /\ stack_current' = 0
  /\ stack' = [stack EXCEPT ![0] = "none"]
  /\ pending' = <<>>
  /\ UNCHANGED <<configVars, stack_size, value, busy, size, out, written>>

\* ajson_writer_init(), for an indentation string of white space.
WriterInit(flagSets, indents) ==
  /\ flags \in flagSets
  /\ indent \in indents
  /\ write_func = "dummy" /\ next_write_func = "none" /\ state = "START"
  /\ stack = [i \in 0 .. STACK_SIZE - 1 |-> "none"]
  /\ stack_size = STACK_SIZE
  /\ stack_current = 0
  /\ nesting_written = 0
  /\ pending = <<>>
  /\ value = [none |-> 0]
  /\ busy = FALSE
  /\ size = 0
  /\ out = <<>>
  /\ written = 0
=============================================================================
