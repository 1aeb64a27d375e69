---------------------------- MODULE WriterProof -----------------------------
(***************************************************************************)
(* The theorems about the writer and a program that calls it: the          *)
(* properties that hold whatever the buffers are, proved for every size of *)
(* the stack and the buffers, every indentation, every sequence of tokens  *)
(* and every outcome of realloc.  Most steps of a call are one move as far *)
(* as the inductive invariant is concerned: they put bytes and go on at a  *)
(* label, and leave the stack alone (Stays).                               *)
(***************************************************************************)
EXTENDS WriterCalls, SequenceTheorems, TLAPS

-----------------------------------------------------------------------------
(* The invariant of the structure. *)

Begins == {"begin_array", "begin_object"}
Leaf == Values \ Begins
PreludeLabels == {"START", "comma", "newline", "more", "tail"}
Containers == {"A", "a", "O", "o"}

\* The buffer of the call that runs, or that returned.
OutputOK ==
  /\ out \in Seq(Byte) /\ pending \in Seq(Byte)
  /\ size \in Nat /\ Len(out) <= size
  /\ busy \in BOOLEAN
  /\ written \in -1 .. size
  /\ busy => written = 0
  /\ ShortCountMeansDone

\* The stack has the size recorded for it, and frames above the bottom.
StackOK ==
  /\ stack_size \in Nat /\ stack_current \in 0 .. stack_size - 1
  /\ stack \in [0 .. stack_size - 1 -> Frames \cup {"uninit"}]
  /\ \A i \in 0 .. stack_current : (stack[i] = "none") = (i = 0) /\ stack[i] # "uninit"

\* The function that looks at the argument.
Running == IF write_func = "prelude" THEN next_write_func ELSE write_func

\* The argument is what the function, at its label, takes it for.
ValueOK ==
  /\ Running = "number" => value \in Numbers
  /\ Running = "string" => value \in Strings
  /\ write_func = "prelude" /\ next_write_func = "integer" => value \in Integers64
  /\ write_func = "integer" /\ state \in {"START", "magnitude"} => value \in Integers64
  /\ write_func = "integer" /\ state \in {"scale", "digit"} => value \in [integer : Int, div : Int]
  /\ write_func = "string" /\ state \in {"skip", "high", "low"} => value.string # <<>>
  /\ write_func = "string" /\ state \in {"copy", "copied"} => value.count \in 1 .. Len(value.string)

\* The labels of a function, and what is known at them.
LabelsOK ==
  /\ write_func = "dummy" => state = "START"
  /\ write_func = "prelude" => state \in PreludeLabels
  /\ write_func = "prelude" /\ state = "comma" => Top \in Containers
  /\ state \in {"newline", "more"} => indent \in Seq(Byte)
  /\ state = "error" => pending = <<>>

\* Where the program is while a call runs, and when it has looked at the result.
ProgramOK ==
  /\ phase \in {"free", "token", "more"} /\ broken \in BOOLEAN /\ accepted \in BOOLEAN
  /\ phase # "token" => ~busy /\ written = 0
  /\ made \in Nat

SInv ==
  /\ OutputOK /\ StackOK /\ ValueOK /\ LabelsOK /\ ProgramOK
  /\ nesting_written \in Nat
  /\ indent = NULL \/ indent \in Seq(Byte)

-----------------------------------------------------------------------------
(* Bytes that are put. *)

LEMMA BytesAreSeq ==
  /\ \A b \in Byte : <<b>> \in Seq(Byte)
  /\ \A b, c \in Byte : <<b, c>> \in Seq(Byte)
  /\ \A b, c, d, e \in Byte : <<b, c, d, e>> \in Seq(Byte)
OBVIOUS

LEMMA AsciiBytes ==
  /\ Ascii.quote \in Byte /\ Ascii.comma \in Byte /\ Ascii.minus \in Byte /\ Ascii.zero \in Byte
  /\ Ascii.colon \in Byte /\ Ascii.lbracket \in Byte /\ Ascii.rbracket \in Byte
  /\ Ascii.lbrace \in Byte /\ Ascii.rbrace \in Byte /\ Ascii.u \in Byte
  /\ {10, 32, 48, 92} \subseteq Byte
BY DEF Ascii, Byte

LEMMA TextBytes == Text.null \in Seq(Byte) /\ Text.true \in Seq(Byte) /\ Text.false \in Seq(Byte)
BY DEF Text, Ascii, Byte

-----------------------------------------------------------------------------
(* The move of a step that leaves the stack alone. *)

\* A step puts bytes, or fails, and the next one is at label.
Step(label) ==
  /\ state' = label /\ size' = size
  /\ OutputOK'
  /\ IF label = "error" THEN ~busy' /\ written' = -1 /\ pending' = <<>> ELSE busy' \/ written' >= 0

Stays ==
  /\ busy
  /\ \E label : /\ Step(label) /\ label \notin {"START", "comma"}
                /\ label \in {"newline", "more"} => indent \in Seq(Byte)
                /\ write_func = "prelude" => label \in PreludeLabels
  /\ UNCHANGED <<configVars, write_func, next_write_func, frameVars>>
  /\ nesting_written' \in Nat
  /\ ValueOK'
  /\ write_func # "dummy"
  /\ write_func \notin Leaf => state \notin {"START", "comma"}

LEMMA PutSteps ==
  ASSUME OutputOK, busy, NEW bytes \in Seq(Byte), NEW label, label # "error",
         Put(bytes, label), size' = size
  PROVE  Step(label)
<1> DEFINE nfree == size - Len(out)
<1>0. nfree \in Nat /\ Len(out) \in Nat /\ Len(bytes) \in Nat
  BY DEF OutputOK
<1>1. CASE Len(bytes) <= nfree
  <2>1. out' = out \o bytes /\ pending' = <<>> /\ busy' = busy /\ written' = written
    BY <1>1 DEF Put
  <2>2. out' \in Seq(Byte) /\ Len(out') = Len(out) + Len(bytes)
    BY <2>1 DEF OutputOK
  <2> QED BY <1>0, <1>1, <2>1, <2>2 DEF Step, OutputOK, Put, ShortCountMeansDone
<1>2. CASE ~(Len(bytes) <= nfree)
  <2>1. /\ out' = out \o SubSeq(bytes, 1, nfree)
        /\ pending' = SubSeq(bytes, nfree + 1, Len(bytes))
        /\ busy' = FALSE /\ written' = size
    BY <1>2 DEF Put, Return
  <2>2. SubSeq(bytes, 1, nfree) \in Seq(Byte) /\ Len(SubSeq(bytes, 1, nfree)) = nfree
    BY <1>0, <1>2
  <2>3. out' \in Seq(Byte) /\ Len(out') = size
    BY <1>0, <2>1, <2>2 DEF OutputOK
  <2>4. pending' \in Seq(Byte)
    BY <1>0, <1>2, <2>1
  <2>5. ~busy' /\ busy' \in BOOLEAN
    BY <2>1
  <2>6. written' \in -1 .. size /\ written' >= 0 /\ ~(written' < size')
    BY <2>1 DEF OutputOK
  <2> QED BY <2>3, <2>4, <2>5, <2>6 DEF Step, OutputOK, Put, ShortCountMeansDone
<1> QED BY <1>1, <1>2

LEMMA GotoSteps ==
  ASSUME OutputOK, busy, NEW label, label # "error", Goto(label), size' = size
  PROVE  Step(label)
BY DEF OutputOK, Goto, callVars, Step, ShortCountMeansDone

LEMMA RaiseErrorSteps ==
  ASSUME OutputOK, pending = <<>>, RaiseError, size' = size
  PROVE  Step("error")
<1>1. ~busy' /\ busy' \in BOOLEAN
  BY DEF RaiseError, Return
<1>2. written' = -1 /\ state' = "error" /\ pending' = pending /\ out' = out
  BY DEF RaiseError, Return
<1> QED BY <1>1, <1>2 DEF OutputOK, Step, ShortCountMeansDone

LEMMA DoneSteps ==
  ASSUME OutputOK, pending = <<>>, Done, size' = size
  PROVE  Step("done")
<1>1. ~busy' /\ busy' \in BOOLEAN
  BY DEF Done, Return
<1>2. written' = Len(out) /\ state' = "done" /\ pending' = pending /\ out' = out
  BY DEF Done, Return
<1>3. Len(out) \in 0 .. size
  BY DEF OutputOK
<1> QED BY <1>1, <1>2, <1>3 DEF OutputOK, Step, ShortCountMeansDone

LEMMA StaysSInv ==
  ASSUME SInv, Stays, UNCHANGED programVars
  PROVE  SInv'
<1> PICK label : /\ Step(label) /\ label \notin {"START", "comma"}
                 /\ label \in {"newline", "more"} => indent \in Seq(Byte)
                 /\ write_func = "prelude" => label \in PreludeLabels
  BY DEF Stays
<1>1. OutputOK' /\ state' = label
  BY DEF Step
<1>2. StackOK'
  BY DEF Stays, SInv, StackOK, frameVars
<1>3. LabelsOK'
  BY <1>1 DEF Stays, SInv, LabelsOK, configVars, Step
<1>4. ProgramOK'
  BY <1>1 DEF Stays, SInv, ProgramOK, programVars, OutputOK
<1> QED BY <1>1, <1>2, <1>3, <1>4 DEF Stays, SInv, configVars

\* The argument keeps its type at a label nothing more is known at.
LEMMA SameValue ==
  ASSUME ValueOK, UNCHANGED <<write_func, next_write_func, value>>,
         state' \notin {"START", "magnitude", "scale", "digit", "skip", "high", "low", "copy", "copied"}
  PROVE  ValueOK'
BY DEF ValueOK, Running

-----------------------------------------------------------------------------
(* Literals, numbers and integers. *)

LEMMA LiteralStays == SInv /\ Literal => Stays
<1> SUFFICES ASSUME SInv, Literal PROVE Stays
  OBVIOUS
<1>1. PICK bytes \in Seq(Byte) : Put(bytes, "done")
  <2>1. (IF value.boolean THEN Text.true ELSE Text.false) \in Seq(Byte)
    BY TextBytes
  <2> QED BY <2>1, TextBytes DEF Literal
<1>2. busy /\ state = "START" /\ write_func \in {"null", "boolean"}
  BY DEF Literal, At
<1>3. Step("done")
  BY <1>1, <1>2, PutSteps DEF SInv, Literal
<1>4. ValueOK'
  BY <1>3, SameValue DEF SInv, Literal, Step
<1> QED BY <1>2, <1>3, <1>4 DEF Stays, SInv, Literal, Leaf, Values, Begins

LEMMA PrintedBytes ==
  ASSUME NEW text \in Seq(Byte), NEW n \in Nat
  PROVE  Printed(text, n) \in Seq(Byte)
<1>1. CASE Len(text) < n
  BY <1>1 DEF Printed
<1>2. CASE ~(Len(text) < n)
  BY <1>2 DEF Printed
<1> QED BY <1>1, <1>2

LEMMA NumberStays == SInv /\ Number => Stays
<1> SUFFICES ASSUME SInv, Number PROVE Stays
  OBVIOUS
<1> DEFINE nfree == size - Len(out)
           text == value.number
<1>1. busy /\ pending = <<>> /\ state = "START" /\ write_func = "number"
  BY DEF Number, At
<1>2. text = NULL \/ text \in Seq(Byte)
  BY <1>1 DEF SInv, ValueOK, Running, Numbers
<1>3. nfree \in Nat /\ NUMBER_SIZE \in Nat
  BY WriterAssumption DEF SInv, OutputOK
<1>4. RaiseError \/ \E bytes \in Seq(Byte) : Put(bytes, "done")
  <2>1. CASE text = NULL
    BY <2>1, TextBytes DEF Number, PutNumber
  <2>2. CASE text # NULL
    <3>1. text \in Seq(Byte)
      BY <1>2, <2>2
    <3>2. /\ Printed(text, nfree) \in Seq(Byte)
          /\ Printed(text, nfree) \o <<0>> \in Seq(Byte)
          /\ Printed(text, nfree) \o <<>> \in Seq(Byte)
          /\ Printed(text, NUMBER_SIZE) \in Seq(Byte)
      <4>1. Printed(text, nfree) \in Seq(Byte) /\ Printed(text, NUMBER_SIZE) \in Seq(Byte)
        BY <1>3, <3>1, PrintedBytes
      <4>2. <<0>> \in Seq(Byte) /\ <<>> \in Seq(Byte)
        <5>1. 0 \in Byte
          BY DEF Byte
        <5> QED BY <5>1, BytesAreSeq
      <4> HIDE DEF text, nfree
      <4> QED BY <4>1, <4>2
    <3> QED BY <2>2, <3>2 DEF Number, PutNumber
  <2> QED BY <2>1, <2>2
<1>5. Step("done") \/ Step("error")
  BY <1>1, <1>4, PutSteps, RaiseErrorSteps DEF SInv, Number
<1>6. ValueOK'
  BY <1>5, SameValue DEF SInv, Number, Step
<1> QED BY <1>1, <1>5, <1>6 DEF Stays, SInv, Number, Leaf, Values, Begins

LEMMA IntegerSignStays == SInv /\ IntegerSign => Stays
<1> SUFFICES ASSUME SInv, IntegerSign PROVE Stays
  OBVIOUS
<1>1. busy /\ state = "START" /\ write_func = "integer"
  BY DEF IntegerSign, At
<1>2. Step("done") \/ Step("magnitude")
  BY <1>1, PutSteps, GotoSteps, BytesAreSeq, AsciiBytes DEF SInv, IntegerSign
<1>3. ValueOK'
  BY <1>1, <1>2 DEF SInv, ValueOK, Running, IntegerSign, Step
<1> QED BY <1>1, <1>2, <1>3 DEF Stays, SInv, IntegerSign, Leaf, Values, Begins

LEMMA IntegerMagnitudeStays == SInv /\ IntegerMagnitude => Stays
<1> SUFFICES ASSUME SInv, IntegerMagnitude PROVE Stays
  OBVIOUS
<1>1. busy /\ state = "magnitude" /\ write_func = "integer"
  BY DEF IntegerMagnitude, At
<1>2. Step("scale")
  BY <1>1, GotoSteps DEF SInv, IntegerMagnitude
<1>3. value.integer \in Int /\ MaxDivisor \in Int
  BY <1>1, WriterAssumption DEF SInv, ValueOK, Integers64
<1>4. value' \in [integer : Int, div : Int]
  BY <1>3 DEF IntegerMagnitude
<1>5. ValueOK'
  BY <1>1, <1>2, <1>4 DEF ValueOK, Running, IntegerMagnitude, Step
<1> QED BY <1>1, <1>2, <1>5 DEF Stays, SInv, IntegerMagnitude, Leaf, Values, Begins

LEMMA IntegerScaleStays == SInv /\ IntegerScale => Stays
<1> SUFFICES ASSUME SInv, IntegerScale PROVE Stays
  OBVIOUS
<1>1. busy /\ state = "scale" /\ write_func = "integer"
  BY DEF IntegerScale, At
<1>2. Step("scale") \/ Step("digit")
  BY <1>1, GotoSteps DEF SInv, IntegerScale
<1>3. value \in [integer : Int, div : Int]
  BY <1>1 DEF SInv, ValueOK
<1>4. value' \in [integer : Int, div : Int]
  <2>1. value.div \div 10 \in Int
    BY <1>3
  <2>2. value' = value \/ value' = [value EXCEPT !.div = value.div \div 10]
    BY DEF IntegerScale
  <2> QED BY <1>3, <2>1, <2>2
<1>5. ValueOK'
  BY <1>1, <1>2, <1>4 DEF ValueOK, Running, IntegerScale, Step
<1> QED BY <1>1, <1>2, <1>5 DEF Stays, SInv, IntegerScale, Leaf, Values, Begins

LEMMA IntegerDigitStays == SInv /\ IntegerDigit => Stays
<1> SUFFICES ASSUME SInv, IntegerDigit PROVE Stays
  OBVIOUS
<1>1. busy /\ state = "digit" /\ write_func = "integer"
  BY DEF IntegerDigit, At
<1>2. value \in [integer : Int, div : Int]
  BY <1>1 DEF SInv, ValueOK
<1>3. CASE value.div > 0
  <2> DEFINE digit == (value.integer \div value.div) % 10
  <2>1. digit \in 0 .. 9
    <3>1. value.integer \in Int /\ value.div \in Int
      BY <1>2
    <3>2. value.integer \div value.div \in Int
      BY <1>3, <3>1
    <3> QED BY <3>2
  <2>2. <<Ascii.zero + digit>> \in Seq(Byte)
    <3>1. Ascii.zero + digit \in Byte
      BY <2>1 DEF Ascii, Byte
    <3> QED BY <3>1, BytesAreSeq
  <2>3. Step("digit")
    BY <1>1, <1>3, <2>2, PutSteps DEF SInv, IntegerDigit
  <2>4. value' \in [integer : Int, div : Int]
    <3>1. value.div \div 10 \in Int
      BY <1>2
    <3>2. value' = [value EXCEPT !.div = value.div \div 10]
      BY <1>3 DEF IntegerDigit
    <3> QED BY <1>2, <3>1, <3>2
  <2>5. ValueOK'
    BY <1>1, <2>3, <2>4 DEF ValueOK, Running, IntegerDigit, Step
  <2> QED BY <1>1, <2>3, <2>5 DEF Stays, SInv, IntegerDigit, Leaf, Values, Begins
<1>4. CASE ~(value.div > 0)
  <2>1. Step("done")
    BY <1>1, <1>4, GotoSteps DEF SInv, IntegerDigit
  <2>2. ValueOK'
    BY <1>4, <2>1, SameValue DEF SInv, IntegerDigit, Step
  <2> QED BY <1>1, <2>1, <2>2 DEF Stays, SInv, IntegerDigit, Leaf, Values, Begins
<1> QED BY <1>3, <1>4

-----------------------------------------------------------------------------
(* Strings. *)

LEMMA HexBytes ==
  /\ \A byte \in Byte : byte \in Int
  /\ \A digit \in Int : ToHex(digit) \in Byte
  /\ \A ch \in Byte : HighNibble(ch) \in Int
BY DEF ToHex, HighNibble, Byte

LEMMA ShortEscapeByte == \A ch \in HasShortEscape : ShortEscape(ch) \in Byte
<1> SUFFICES ASSUME NEW ch \in HasShortEscape PROVE ShortEscape(ch) \in Byte
  OBVIOUS
<1>1. \E letter \in ShortEscapes : Unescape(letter) = ch
  BY DEF HasShortEscape
<1>2. ShortEscape(ch) \in ShortEscapes
  BY <1>1 DEF ShortEscape
<1> QED BY <1>2 DEF ShortEscapes, Escapable, Byte

\* ajson_decode_utf8() counts no bytes behind the end, and answers a number.
LEMMA DecoderStaysInBuffer ==
  ASSUME NEW bytes \in Seq(Byte), bytes # <<>>
  PROVE  /\ DecodedCount(bytes) \in Int
         /\ DecodedCount(bytes) <= Len(bytes)
         /\ DecodedCount(bytes) > 0 => DecodedCount(bytes) \in 1 .. 4
<1> DEFINE n == SequenceLength(bytes[1])
<1>1. n \in 0 .. 4
  <2>1. n \in {0, 1, 2, 3, 4}
    BY Zenon DEF SequenceLength
  <2> QED BY <2>1
<1>2. DecodedCount(bytes) \in {-1, -2, -3, -4, -n} \/ (DecodedCount(bytes) = n /\ Len(bytes) >= n)
  <2> HIDE DEF n
  <2> QED BY <1>1 DEF DecodedCount, n
<1>3. Len(bytes) \in Nat
  OBVIOUS
<1> HIDE DEF n
<1> QED BY <1>1, <1>2, <1>3

LEMMA DecoderAnswers ==
  ASSUME NEW bytes \in Seq(Byte), bytes # <<>>, DecodedCount(bytes) > 0
  PROVE  DecodedCodepoint(bytes, DecodedCount(bytes)) \in Int
<1> DEFINE n == DecodedCount(bytes)
<1>1. n \in 1 .. 4 /\ n <= Len(bytes)
  BY DecoderStaysInBuffer
<1> HIDE DEF n
<1>2. \A i \in 1 .. n : bytes[i] \in Int
  <2> SUFFICES ASSUME NEW i \in 1 .. n PROVE bytes[i] \in Int
    OBVIOUS
  <2>1. i \in 1 .. Len(bytes)
    <3>1. Len(bytes) \in Nat
      OBVIOUS
    <3> QED BY <1>1, <3>1
  <2>2. bytes[i] \in Byte
    BY <2>1
  <2> QED BY <2>2, HexBytes
<1>3. Marks[n] \in Int
  BY <1>1, SMT DEF Marks
<1>4. CASE n = 1
  BY <1>2, <1>3, <1>4, SMT DEF DecodedCodepoint, n
<1>5. CASE n = 2
  BY <1>2, <1>3, <1>5, SMT DEF DecodedCodepoint, n
<1>6. CASE n = 3
  <2>1. bytes[1] \in Int /\ bytes[2] \in Int /\ bytes[3] \in Int /\ Marks[3] \in Int
    BY <1>2, <1>3, <1>6
  <2>2. DecodedCodepoint(bytes, 3) = (((bytes[1] * 64) + bytes[2]) * 64 + bytes[3]) - Marks[3]
    BY DEF DecodedCodepoint
  <2> QED BY <1>6, <2>1, <2>2 DEF n
<1>7. CASE n = 4
  <2> DEFINE third == ((bytes[1] * 64) + bytes[2]) * 64 + bytes[3]
  <2>1. bytes[4] \in Int /\ Marks[4] \in Int
    BY <1>2, <1>3, <1>7
  <2>2. third \in Int
    BY <1>2, <1>7
  <2>3. DecodedCodepoint(bytes, 4) = (third * 64 + bytes[4]) - Marks[4]
    BY DEF DecodedCodepoint
  <2> HIDE DEF third
  <2> QED BY <1>7, <2>1, <2>2, <2>3 DEF n
<1> QED BY <1>1, <1>4, <1>5, <1>6, <1>7

\* What is left of a string, and its code points.
LEMMA SkipSeq ==
  ASSUME NEW bytes \in Seq(Byte), NEW n \in Nat, n <= Len(bytes)
  PROVE  SubSeq(bytes, n + 1, Len(bytes)) \in Seq(Byte)
OBVIOUS

LEMMA Utf16Units == \A cp \in Int : Utf16(cp) \in Int \X Int
BY DEF Utf16

LEMMA StringStartStays == SInv /\ StringStart => Stays
<1> SUFFICES ASSUME SInv, StringStart PROVE Stays
  OBVIOUS
<1>1. busy /\ state = "START" /\ write_func = "string"
  BY DEF StringStart, At
<1>2. Step("char")
  BY <1>1, PutSteps, BytesAreSeq, AsciiBytes DEF SInv, StringStart
<1>3. ValueOK'
  BY <1>2, SameValue DEF SInv, StringStart, Step
<1> QED BY <1>1, <1>2, <1>3 DEF Stays, SInv, StringStart, Leaf, Values, Begins

LEMMA MultibyteStays ==
  ASSUME SInv, StringChar, Multibyte, Rest # <<>>
  PROVE  Stays
<1> DEFINE count == DecodedCount(Rest)
           cp == DecodedCodepoint(Rest, count)
<1>1. busy /\ pending = <<>> /\ state = "char" /\ write_func = "string"
  BY DEF StringChar, At
<1>2. value \in Strings /\ Rest \in Seq(Byte)
  BY <1>1 DEF SInv, ValueOK, Running, Strings, Rest
<1>3. CASE count <= 0
  <2>1. RaiseError /\ value' = value
    BY <1>3 DEF Multibyte
  <2>2. Step("error")
    BY <1>1, <2>1, RaiseErrorSteps DEF SInv, StringChar
  <2>3. ValueOK'
    BY <2>1, <2>2, SameValue DEF SInv, StringChar, Step
  <2> QED BY <1>1, <2>2, <2>3 DEF Stays, SInv, StringChar, Leaf, Values, Begins
<1>4. CASE ~(count <= 0) /\ ("ASCII" \in flags \/ cp \in 128 .. 159)
  <2>1. /\ value' = [value EXCEPT !.string = SubSeq(Rest, count + 1, Len(Rest)), !.utf16 = Utf16(cp)]
        /\ Put(<<92, Ascii.u>>, "hex1")
    BY <1>4 DEF Multibyte, HexLabel, Rest
  <2>2. count \in Nat /\ count <= Len(Rest) /\ cp \in Int
    <3>1. count > 0
      BY <1>2, <1>4, DecoderStaysInBuffer
    <3> QED BY <1>2, <3>1, DecoderStaysInBuffer, DecoderAnswers
  <2>3. SubSeq(Rest, count + 1, Len(Rest)) \in Seq(Byte) /\ Utf16(cp) \in Int \X Int
    BY <1>2, <2>2, SkipSeq, Utf16Units
  <2>4. value' \in Strings
    <3> HIDE DEF count, cp
    <3> QED BY <1>2, <2>1, <2>3 DEF Strings
  <2>5. Step("hex1")
    BY <1>1, <2>1, PutSteps, BytesAreSeq, AsciiBytes DEF SInv, StringChar
  <2>6. ValueOK'
    BY <1>1, <2>4, <2>5 DEF ValueOK, Running, StringChar, Step
  <2> QED BY <1>1, <2>5, <2>6 DEF Stays, SInv, StringChar, Leaf, Values, Begins
<1>5. CASE ~(count <= 0) /\ ~("ASCII" \in flags \/ cp \in 128 .. 159)
  <2>1. value' = [value EXCEPT !.count = count] /\ Goto("copy")
    BY <1>5 DEF Multibyte
  <2>2. count \in 1 .. Len(Rest)
    <3>1. count \in Int /\ count <= Len(Rest)
      BY <1>2, DecoderStaysInBuffer
    <3>2. Len(Rest) \in Nat
      BY <1>2
    <3> HIDE DEF count, cp
    <3>3. count > 0
      BY <1>5, <3>1
    <3> QED BY <3>1, <3>2, <3>3
  <2>3. value' \in Strings /\ value'.count = count /\ value'.string = Rest
    <3> HIDE DEF count
    <3> QED BY <1>2, <2>1, <2>2 DEF Strings, Rest
  <2>4. Step("copy")
    BY <1>1, <2>1, GotoSteps DEF SInv, StringChar
  <2>5. ValueOK'
    BY <1>1, <2>2, <2>3, <2>4 DEF ValueOK, Running, StringChar, Step
  <2> QED BY <1>1, <2>4, <2>5 DEF Stays, SInv, StringChar, Leaf, Values, Begins
<1> QED BY <1>3, <1>4, <1>5

LEMMA StringCharStays == SInv /\ StringChar => Stays
<1> SUFFICES ASSUME SInv, StringChar PROVE Stays
  OBVIOUS
<1> DEFINE ch == Head(Rest)
<1>1. busy /\ pending = <<>> /\ state = "char" /\ write_func = "string"
  BY DEF StringChar, At
<1>2. value \in Strings /\ Rest \in Seq(Byte)
  BY <1>1 DEF SInv, ValueOK, Running, Strings, Rest
<1>3. CASE Rest = <<>>
  <2>1. Step("done") /\ value' = value
    BY <1>1, <1>3, PutSteps, BytesAreSeq, AsciiBytes DEF SInv, StringChar
  <2>2. ValueOK'
    BY <2>1, SameValue DEF SInv, StringChar, Step
  <2> QED BY <1>1, <2>1, <2>2 DEF Stays, SInv, StringChar, Leaf, Values, Begins
<1>4. CASE Rest # <<>> /\ ~Multibyte
  <2>1. ch \in Byte
    BY <1>2, <1>4
  <2>2. value' = value /\ (Step("skip") \/ Step("high"))
    <3> HIDE DEF ch
    <3>1. value' = value /\ \E bytes \in Seq(Byte), label \in {"skip", "high"} : Put(bytes, label)
      <4>1. CASE ch \in HasShortEscape
        <5>1. Put(<<92, ShortEscape(ch)>>, "skip") /\ value' = value
          BY <1>4, <4>1 DEF StringChar, ch
        <5>2. <<92, ShortEscape(ch)>> \in Seq(Byte)
          BY <4>1, ShortEscapeByte, BytesAreSeq, AsciiBytes
        <5> QED BY <5>1, <5>2
      <4>2. CASE ch \notin HasShortEscape
        <5>1. \/ Put(<<92, Ascii.u, 48, 48>>, "high") /\ value' = value
              \/ Put(<<ch>>, "skip") /\ value' = value
          BY <1>4, <4>2 DEF StringChar, ch
        <5>2. <<92, Ascii.u, 48, 48>> \in Seq(Byte) /\ <<ch>> \in Seq(Byte)
          BY <2>1, BytesAreSeq, AsciiBytes
        <5> QED BY <5>1, <5>2
      <4> QED BY <4>1, <4>2
    <3> QED BY <1>1, <3>1, PutSteps DEF SInv, StringChar
  <2>3. ValueOK'
    BY <1>1, <1>2, <1>4, <2>2 DEF ValueOK, Running, StringChar, Step, Rest
  <2> QED BY <1>1, <2>2, <2>3 DEF Stays, SInv, StringChar, Leaf, Values, Begins
<1>5. CASE Rest # <<>> /\ Multibyte
  BY <1>5, MultibyteStays
<1> QED BY <1>3, <1>4, <1>5

LEMMA StringSkipStays == SInv /\ StringSkip => Stays
<1> SUFFICES ASSUME SInv, StringSkip PROVE Stays
  OBVIOUS
<1>1. busy /\ state = "skip" /\ write_func = "string"
  BY DEF StringSkip, At
<1>2. value \in Strings /\ Rest \in Seq(Byte) /\ Rest # <<>>
  BY <1>1 DEF SInv, ValueOK, Running, Strings, Rest
<1>3. Step("char")
  BY <1>1, GotoSteps DEF SInv, StringSkip
<1>4. SubSeq(Rest, 2, Len(Rest)) \in Seq(Byte)
  BY <1>2
<1>5. value' = [value EXCEPT !.string = SubSeq(Rest, 2, Len(Rest))]
  BY DEF StringSkip, Skip, Rest
<1>6. value' \in Strings
  BY <1>2, <1>4, <1>5 DEF Strings
<1>7. ValueOK'
  BY <1>1, <1>3, <1>6 DEF ValueOK, Running, StringSkip, Step
<1> QED BY <1>1, <1>3, <1>7 DEF Stays, SInv, StringSkip, Leaf, Values, Begins

LEMMA ControlHighStays == SInv /\ ControlHigh => Stays
<1> SUFFICES ASSUME SInv, ControlHigh PROVE Stays
  OBVIOUS
<1>1. busy /\ state = "high" /\ write_func = "string"
  BY DEF ControlHigh, At
<1>2. value \in Strings /\ Rest \in Seq(Byte) /\ Rest # <<>>
  BY <1>1 DEF SInv, ValueOK, Running, Strings, Rest
<1>3. <<ToHex(HighNibble(Head(Rest)))>> \in Seq(Byte)
  <2>1. Head(Rest) \in Byte
    BY <1>2
  <2> QED BY <2>1, HexBytes, BytesAreSeq
<1>4. Step("low")
  BY <1>1, <1>3, PutSteps DEF SInv, ControlHigh
<1>5. ValueOK'
  BY <1>1, <1>2, <1>4 DEF ValueOK, Running, ControlHigh, Step, Rest
<1> QED BY <1>1, <1>4, <1>5 DEF Stays, SInv, ControlHigh, Leaf, Values, Begins

LEMMA ControlLowStays == SInv /\ ControlLow => Stays
<1> SUFFICES ASSUME SInv, ControlLow PROVE Stays
  OBVIOUS
<1>1. busy /\ state = "low" /\ write_func = "string"
  BY DEF ControlLow, At
<1>2. value \in Strings /\ Rest \in Seq(Byte) /\ Rest # <<>>
  BY <1>1 DEF SInv, ValueOK, Running, Strings, Rest
<1>3. <<ToHex(Head(Rest) % 16)>> \in Seq(Byte)
  <2>1. Head(Rest) \in Int
    BY <1>2, HexBytes
  <2>2. Head(Rest) % 16 \in Int
    BY <2>1
  <2> QED BY <2>2, HexBytes, BytesAreSeq
<1>4. Step("skip")
  BY <1>1, <1>3, PutSteps DEF SInv, ControlLow
<1>5. ValueOK'
  BY <1>1, <1>2, <1>4 DEF ValueOK, Running, ControlLow, Step, Rest
<1> QED BY <1>1, <1>4, <1>5 DEF Stays, SInv, ControlLow, Leaf, Values, Begins

LEMMA StringCopyStays == SInv /\ StringCopy => Stays
<1> SUFFICES ASSUME SInv, StringCopy PROVE Stays
  OBVIOUS
<1> DEFINE advance == state = "copied"
           rest == IF advance THEN Tail(Rest) ELSE Rest
           count == IF advance THEN value.count - 1 ELSE value.count
<1>1. busy /\ state \in {"copy", "copied"} /\ write_func = "string"
  BY DEF StringCopy, At
<1>2. value \in Strings /\ Rest \in Seq(Byte) /\ value.count \in 1 .. Len(Rest)
  BY <1>1 DEF SInv, ValueOK, Running, Strings, Rest
<1>3. Rest # <<>> /\ Len(Rest) \in Nat
  BY <1>2
<1>4. rest \in Seq(Byte) /\ count \in 0 .. Len(rest)
  <2>1. Tail(Rest) \in Seq(Byte) /\ Len(Tail(Rest)) = Len(Rest) - 1
    BY <1>2, <1>3
  <2> QED BY <1>2, <1>3, <2>1
<1>5. value' = [value EXCEPT !.string = rest, !.count = count]
  BY DEF StringCopy
<1>6. value' \in Strings /\ value'.string = rest /\ value'.count = count
  <2> HIDE DEF rest, count
  <2>1. count \in Int
    BY <1>4
  <2> QED BY <1>2, <1>4, <1>5, <2>1 DEF Strings
<1>7. CASE count > 0
  <2>1. <<Head(rest)>> \in Seq(Byte)
    <3> HIDE DEF rest, count
    <3>1. rest # <<>>
      BY <1>4, <1>7
    <3>2. Head(rest) \in Byte
      BY <1>4, <3>1
    <3> QED BY <3>2, BytesAreSeq
  <2>2. Put(<<Head(rest)>>, "copied") /\ size' = size
    BY <1>7 DEF StringCopy
  <2>3. Step("copied")
    <3> HIDE DEF rest
    <3> QED BY <1>1, <2>1, <2>2, PutSteps DEF SInv
  <2>4. ValueOK'
    <3>1. count \in 1 .. Len(rest)
      <4> HIDE DEF rest, count
      <4> QED BY <1>4, <1>7
    <3> HIDE DEF rest, count
    <3> QED BY <1>1, <1>6, <2>3, <3>1 DEF ValueOK, Running, StringCopy, Step
  <2> QED BY <1>1, <2>3, <2>4 DEF Stays, SInv, StringCopy, Leaf, Values, Begins
<1>8. CASE ~(count > 0)
  <2>1. Goto("char") /\ size' = size
    BY <1>8 DEF StringCopy
  <2>2. Step("char")
    BY <1>1, <2>1, GotoSteps DEF SInv
  <2>3. ValueOK'
    BY <1>1, <1>6, <2>2 DEF ValueOK, Running, StringCopy, Step
  <2> QED BY <1>1, <2>2, <2>3 DEF Stays, SInv, StringCopy, Leaf, Values, Begins
<1> QED BY <1>7, <1>8

LEMMA UnitDigitStays == SInv /\ UnitDigit => Stays
<1> SUFFICES ASSUME SInv, UnitDigit PROVE Stays
  OBVIOUS
<1>1. PICK i \in 1 .. 8 : At("string", HexLabel[i]) /\
        LET unit == value.utf16[IF i <= 4 THEN 1 ELSE 2]
        IN  Put(<<ToHex((unit \div Place[i]) % 16)>>,
                IF i \notin {4, 8} THEN HexLabel[i + 1]
                ELSE IF i = 4 /\ value.utf16[2] # 0 THEN "pair" ELSE "char")
  BY DEF UnitDigit
<1> DEFINE unit == value.utf16[IF i <= 4 THEN 1 ELSE 2]
           label == IF i \notin {4, 8} THEN HexLabel[i + 1]
                    ELSE IF i = 4 /\ value.utf16[2] # 0 THEN "pair" ELSE "char"
           bytes == <<ToHex((unit \div Place[i]) % 16)>>
           HexLabels == {"hex1", "hex2", "hex3", "hex4", "hex5", "hex6", "hex7", "hex8"}
<1>2. busy /\ write_func = "string" /\ label \in HexLabels \cup {"pair", "char"}
  BY <1>1 DEF At, HexLabel
<1>3. bytes \in Seq(Byte)
  <2>1. unit \in Int
    BY <1>2 DEF SInv, ValueOK, Running, Strings
  <2>2. Place[i] \in Nat \ {0}
    BY DEF Place
  <2> HIDE DEF unit
  <2>3. (unit \div Place[i]) % 16 \in Int
    <3>1. unit \div Place[i] \in Int
      BY <2>1, <2>2
    <3> QED BY <3>1
  <2> QED BY <2>3, HexBytes, BytesAreSeq
<1>4. Put(bytes, label) /\ size' = size
  BY <1>1 DEF UnitDigit
<1>5. Step(label)
  <2> HIDE DEF bytes, label
  <2> QED BY <1>2, <1>3, <1>4, PutSteps DEF SInv
<1> HIDE DEF label
<1>6. ValueOK'
  BY <1>2, <1>5, SameValue DEF SInv, UnitDigit, Step
<1> QED BY <1>2, <1>5, <1>6 DEF Stays, SInv, UnitDigit, Leaf, Values, Begins

LEMMA SecondUnitStays == SInv /\ SecondUnit => Stays
<1> SUFFICES ASSUME SInv, SecondUnit PROVE Stays
  OBVIOUS
<1>1. busy /\ state = "pair" /\ write_func = "string"
  BY DEF SecondUnit, At
<1>2. Step("hex5")
  BY <1>1, PutSteps, BytesAreSeq, AsciiBytes DEF SInv, SecondUnit, HexLabel
<1>3. ValueOK'
  BY <1>2, SameValue DEF SInv, SecondUnit, Step
<1> QED BY <1>1, <1>2, <1>3 DEF Stays, SInv, SecondUnit, Leaf, Values, Begins

-----------------------------------------------------------------------------
(* Indentation, closing brackets, and what a continuation finds done. *)

LEMMA IndentStays == SInv /\ Indent => Stays
<1> SUFFICES ASSUME SInv, Indent PROVE Stays
  OBVIOUS
<1>1. busy /\ state \in {"newline", "more"} /\ write_func \in Ends \cup {"prelude"}
  BY DEF Indent, At
<1>2. indent \in Seq(Byte)
  BY <1>1 DEF SInv, LabelsOK
<1>3. Step("more") \/ Step("tail")
  BY <1>1, <1>2, PutSteps, GotoSteps DEF SInv, Indent
<1>4. ValueOK'
  BY <1>3, SameValue DEF SInv, Indent, Step
<1>5. nesting_written' \in Nat
  BY DEF SInv, Indent
<1> QED BY <1>1, <1>2, <1>3, <1>4, <1>5 DEF Stays, Indent, Ends, PreludeLabels, Leaf, Values, Begins

LEMMA ClosingBracketStays == SInv /\ ClosingBracket => Stays
<1> SUFFICES ASSUME SInv, ClosingBracket PROVE Stays
  OBVIOUS
<1>1. busy /\ state = "tail" /\ write_func \in Ends
  BY DEF ClosingBracket, At, Ends
<1>2. Step("done")
  BY <1>1, PutSteps, BytesAreSeq, AsciiBytes DEF SInv, ClosingBracket
<1>3. ValueOK'
  BY <1>2, SameValue DEF SInv, ClosingBracket, Step
<1> QED BY <1>1, <1>2, <1>3 DEF Stays, SInv, ClosingBracket, Ends

LEMMA FinishStays ==
  ASSUME SInv, Finish, write_func # "dummy"
  PROVE  Stays
<1>1. busy /\ pending = <<>> /\ (Done \/ RaiseError) /\ state \in {"done", "error"}
  BY DEF Finish
<1>2. Step("done") \/ Step("error")
  BY <1>1, DoneSteps, RaiseErrorSteps DEF SInv, Finish
<1>3. ValueOK'
  BY <1>2, SameValue DEF SInv, Finish, Step
<1>4. write_func # "prelude"
  BY <1>1 DEF SInv, LabelsOK, PreludeLabels
<1> QED BY <1>1, <1>2, <1>3, <1>4 DEF Stays, SInv, Finish

-----------------------------------------------------------------------------
(* The steps that are not Stays: they start at a label, or change the stack. *)

LEMMA SetTopStack ==
  ASSUME StackOK, stack_current > 0, NEW frame \in Frames \ {"none"}, SetTop(frame)
  PROVE  /\ StackOK'
         /\ stack' = [stack EXCEPT ![stack_current] = frame]
         /\ stack_current' = stack_current
         /\ Top' = frame
BY DEF StackOK, SetTop, Frames, Top

LEMMA TopOfStack ==
  ASSUME StackOK
  PROVE  Top \in Frames /\ (Top = "none" <=> stack_current = 0) /\ stack_current \in Nat
BY DEF StackOK, Top

LEMMA ProgramRuns ==
  ASSUME ProgramOK, busy, UNCHANGED programVars
  PROVE  ProgramOK'
BY DEF ProgramOK, programVars

LEMMA ResumeSInv == SInv /\ Resume /\ UNCHANGED programVars => SInv' /\ Step(state)
<1> SUFFICES ASSUME SInv, Resume, UNCHANGED programVars PROVE SInv' /\ Step(state)
  OBVIOUS
<1>1. busy /\ pending \in Seq(Byte) /\ pending # <<>> /\ Put(pending, state)
  BY DEF Resume, SInv, OutputOK
<1>2. Step(state)
  <2>1. state # "error"
    BY <1>1 DEF SInv, LabelsOK
  <2> QED BY <1>1, <2>1, PutSteps DEF SInv, Resume
<1>3. OutputOK' /\ state' = state
  BY <1>2 DEF Step
<1>4. StackOK' /\ ValueOK' /\ LabelsOK'
  <2>1. StackOK'
    BY DEF SInv, Resume, StackOK, frameVars
  <2>2. ValueOK'
    BY <1>3 DEF SInv, Resume, ValueOK, Running
  <2>3. LabelsOK'
    BY <1>1, <1>3 DEF SInv, Resume, LabelsOK, frameVars, configVars, Top
  <2> QED BY <2>1, <2>2, <2>3
<1>5. ProgramOK'
  BY <1>1, ProgramRuns DEF SInv
<1> QED BY <1>2, <1>3, <1>4, <1>5 DEF SInv, Resume, configVars

\* _ajson_write_dummy() returns 0.
LEMMA DummySInv ==
  ASSUME SInv, Finish, write_func = "dummy", UNCHANGED programVars
  PROVE  SInv' /\ state' = "START" /\ written' = 0 /\ ~busy'
<1>1. state = "START" /\ busy /\ pending = <<>>
  BY DEF SInv, LabelsOK, Finish
<1>2. ~busy' /\ busy' \in BOOLEAN
  BY <1>1 DEF Finish, Return
<1>3. written' = 0 /\ state' = state /\ pending' = pending /\ out' = out /\ size' = size
  BY <1>1 DEF Finish, Return
<1>4. OutputOK'
  BY <1>1, <1>2, <1>3 DEF SInv, OutputOK, ShortCountMeansDone
<1>5. StackOK' /\ ValueOK' /\ LabelsOK'
  <2>1. StackOK'
    BY DEF SInv, Finish, StackOK, frameVars
  <2>2. ValueOK'
    BY <1>3 DEF SInv, Finish, ValueOK, Running
  <2>3. LabelsOK'
    BY <1>1, <1>3 DEF SInv, Finish, LabelsOK, frameVars, configVars, Top
  <2> QED BY <2>1, <2>2, <2>3
<1>6. ProgramOK'
  BY <1>1, ProgramRuns DEF SInv
<1> QED BY <1>1, <1>2, <1>3, <1>4, <1>5, <1>6 DEF SInv, Finish, configVars

\* What the steps of the prelude before the frame is changed, and after, are.
LEMMA PreludeSteps ==
  ASSUME SInv, Prelude
  PROVE  /\ busy /\ write_func = "prelude" /\ state = "START" /\ pending = <<>>
         /\ \/ Top \in Containers /\ Step("comma") /\ UNCHANGED frameVars
            \/ Top = "k" /\ Step("tail") /\ SetTop("o")
            \/ Top = "none" /\ Step("tail") /\ UNCHANGED frameVars
<1>1. busy /\ write_func = "prelude" /\ state = "START" /\ pending = <<>>
  BY DEF Prelude, At
<1>2. <<Ascii.comma>> \in Seq(Byte) /\ <<Ascii.colon>> \in Seq(Byte) /\ <<Ascii.colon, 32>> \in Seq(Byte)
  BY BytesAreSeq, AsciiBytes
<1>3. size' = size
  BY DEF Prelude
<1>4. CASE Top \in {"a", "o"} /\ Put(<<Ascii.comma>>, "comma") /\ UNCHANGED frameVars
  BY <1>1, <1>2, <1>3, <1>4, PutSteps DEF SInv, Containers
<1>5. CASE Top \in {"A", "O"} /\ Goto("comma") /\ UNCHANGED frameVars
  BY <1>1, <1>3, <1>5, GotoSteps DEF SInv, Containers
<1>6. CASE /\ Top = "k"
           /\ SetTop("o")
           /\ Put(IF indent = NULL THEN <<Ascii.colon>> ELSE <<Ascii.colon, 32>>, "tail")
  BY <1>1, <1>2, <1>3, <1>6, PutSteps DEF SInv
<1>7. CASE Top = "none" /\ Goto("tail") /\ UNCHANGED frameVars
  BY <1>1, <1>3, <1>7, GotoSteps DEF SInv
<1> QED BY <1>1, <1>4, <1>5, <1>6, <1>7 DEF Prelude

LEMMA PreludeSInv == SInv /\ Prelude /\ UNCHANGED programVars => SInv'
<1> SUFFICES ASSUME SInv, Prelude, UNCHANGED programVars PROVE SInv'
  OBVIOUS
<1>1. /\ busy /\ write_func = "prelude" /\ state = "START"
      /\ \/ Top \in Containers /\ Step("comma") /\ UNCHANGED frameVars
         \/ Top = "k" /\ Step("tail") /\ SetTop("o")
         \/ Top = "none" /\ Step("tail") /\ UNCHANGED frameVars
  BY PreludeSteps
<1>2. OutputOK' /\ state' \in {"comma", "tail"}
  BY <1>1 DEF Step
<1>3. StackOK' /\ (state' = "comma" => Top' \in Containers)
  <2>1. CASE Top = "k" /\ Step("tail") /\ SetTop("o")
    <3>1. stack_current > 0
      BY <2>1, TopOfStack DEF SInv
    <3> QED BY <2>1, <3>1, SetTopStack DEF SInv, Frames, Step
  <2>2. CASE UNCHANGED frameVars /\ (Top \in Containers \/ Step("tail"))
    BY <2>2 DEF SInv, StackOK, frameVars, Top, Step
  <2> QED BY <1>1, <2>1, <2>2
<1>4. LabelsOK'
  BY <1>1, <1>2, <1>3 DEF LabelsOK, Prelude, PreludeLabels
<1>5. ValueOK'
  BY <1>1, <1>2, SameValue DEF SInv, Prelude
<1>6. ProgramOK'
  BY <1>1, ProgramRuns DEF SInv
<1> QED BY <1>2, <1>3, <1>4, <1>5, <1>6 DEF SInv, Prelude, configVars

LEMMA CommaSteps ==
  ASSUME SInv, Comma
  PROVE  /\ busy /\ write_func = "prelude" /\ state = "comma" /\ pending = <<>>
         /\ Top \in Containers /\ SetTop(IF Top \in {"O", "o"} THEN "k" ELSE "a")
         /\ Step("tail") \/ (Step("newline") /\ indent \in Seq(Byte))
<1>1. busy /\ write_func = "prelude" /\ state = "comma" /\ pending = <<>>
  BY DEF Comma, At
<1>2. Top \in Containers
  BY <1>1 DEF SInv, LabelsOK
<1>3. Step("tail") \/ (Step("newline") /\ indent \in Seq(Byte))
  <2>1. <<10>> \in Seq(Byte)
    BY BytesAreSeq, AsciiBytes
  <2> QED BY <1>1, <2>1, PutSteps, GotoSteps DEF SInv, Comma
<1> QED BY <1>1, <1>2, <1>3 DEF Comma

LEMMA CommaSInv == SInv /\ Comma /\ UNCHANGED programVars => SInv'
<1> SUFFICES ASSUME SInv, Comma, UNCHANGED programVars PROVE SInv'
  OBVIOUS
<1> DEFINE frame == IF Top \in {"O", "o"} THEN "k" ELSE "a"
<1>1. /\ busy /\ write_func = "prelude" /\ Top \in Containers /\ SetTop(frame)
      /\ Step("tail") \/ (Step("newline") /\ indent \in Seq(Byte))
  BY CommaSteps
<1>2. OutputOK' /\ state' \in {"newline", "tail"} /\ (state' = "newline" => indent \in Seq(Byte))
  BY <1>1 DEF Step
<1>3. StackOK'
  <2>1. stack_current > 0
    BY <1>1, TopOfStack DEF SInv, Containers
  <2>2. frame \in Frames \ {"none"}
    BY DEF Frames
  <2> HIDE DEF frame
  <2> QED BY <1>1, <2>1, <2>2, SetTopStack DEF SInv
<1>4. LabelsOK'
  BY <1>1, <1>2 DEF LabelsOK, Comma, PreludeLabels, configVars
<1>5. ValueOK'
  BY <1>2, SameValue DEF SInv, Comma
<1>6. ProgramOK'
  BY <1>1, ProgramRuns DEF SInv
<1> QED BY <1>2, <1>3, <1>4, <1>5, <1>6 DEF SInv, Comma, configVars

LEMMA TailCallSInv == SInv /\ TailCall /\ UNCHANGED programVars => SInv'
<1> SUFFICES ASSUME SInv, TailCall, UNCHANGED programVars PROVE SInv'
  OBVIOUS
<1>1. busy /\ write_func = "prelude" /\ write_func' = next_write_func /\ size' = size
  BY DEF TailCall, At
<1>2. Step("START")
  BY <1>1, GotoSteps DEF SInv, TailCall
<1>3. OutputOK' /\ state' = "START"
  BY <1>2 DEF Step
<1>4. StackOK'
  BY DEF SInv, TailCall, StackOK, frameVars
<1>5. LabelsOK'
  BY <1>3 DEF LabelsOK, PreludeLabels
<1>6. ValueOK'
  BY <1>1, <1>3 DEF SInv, TailCall, ValueOK, Running
<1>7. ProgramOK'
  BY <1>1, ProgramRuns DEF SInv
<1> QED BY <1>3, <1>4, <1>5, <1>6, <1>7 DEF SInv, TailCall, configVars

\* ajson_writer_push() fails and changes nothing, or the frame is the new top and what
\* was below it is kept.
LEMMA PushSteps ==
  ASSUME SInv, busy, pending = <<>>, size' = size, NEW frame \in {"A", "O"}, NEW bracket \in Byte,
         PushAndPut(frame, bracket)
  PROVE  \/ Step("error") /\ UNCHANGED frameVars
         \/ /\ Step("done") /\ StackOK'
            /\ stack_current' = stack_current + 1
            /\ stack'[stack_current + 1] = frame
            /\ \A i \in 0 .. stack_current : stack'[i] = stack[i]
<1> DEFINE full == stack_size = stack_current + 1
           newsize == IF full THEN stack_size + STACK_SIZE ELSE stack_size
<1>1. CASE RaiseError /\ UNCHANGED frameVars
  BY <1>1, RaiseErrorSteps DEF SInv
<1>2. CASE /\ stack' = [i \in 0 .. newsize - 1 |->
                          IF i = stack_current + 1 THEN frame
                          ELSE IF i < stack_size THEN stack[i] ELSE "uninit"]
           /\ stack_size' = newsize
           /\ stack_current' = stack_current + 1
           /\ Put(<<bracket>>, "done")
  <2>1. Step("done")
    BY <1>2, PutSteps, BytesAreSeq DEF SInv
  <2>2. /\ stack_size \in Nat /\ stack_current \in 0 .. stack_size - 1
        /\ stack \in [0 .. stack_size - 1 -> Frames \cup {"uninit"}]
        /\ \A i \in 0 .. stack_current : (stack[i] = "none") = (i = 0) /\ stack[i] # "uninit"
    BY DEF SInv, StackOK
  <2>3. newsize \in Nat /\ stack_current + 1 < newsize /\ stack_size <= newsize
    BY <2>2, WriterAssumption
  <2>4. frame \in Frames /\ frame # "none" /\ frame # "uninit"
    BY DEF Frames
  <2> HIDE DEF newsize
  <2>5. stack'[stack_current + 1] = frame /\ \A i \in 0 .. stack_current : stack'[i] = stack[i]
    BY <1>2, <2>2, <2>3
  <2>6. stack' \in [0 .. newsize - 1 -> Frames \cup {"uninit"}]
    BY <1>2, <2>2, <2>3, <2>4
  <2>7. StackOK'
    <3>1. stack_size' \in Nat /\ stack_current' \in 0 .. stack_size' - 1
      BY <1>2, <2>2, <2>3
    <3>2. \A i \in 0 .. stack_current + 1 : (stack'[i] = "none") = (i = 0) /\ stack'[i] # "uninit"
      <4> SUFFICES ASSUME NEW i \in 0 .. stack_current + 1
                   PROVE  (stack'[i] = "none") = (i = 0) /\ stack'[i] # "uninit"
        OBVIOUS
      <4>1. CASE i = stack_current + 1
        BY <2>2, <2>4, <2>5, <4>1
      <4>2. CASE i \in 0 .. stack_current
        BY <2>2, <2>5, <4>2
      <4> QED BY <2>2, <4>1, <4>2
    <3> QED BY <1>2, <2>6, <3>1, <3>2 DEF StackOK
  <2> QED BY <1>2, <2>1, <2>5, <2>7
<1> QED BY <1>1, <1>2 DEF PushAndPut

LEMMA BeginSteps ==
  ASSUME SInv, Begin
  PROVE  /\ busy /\ pending = <<>> /\ write_func \in Begins /\ state = "START"
         /\ \/ Step("error") /\ UNCHANGED frameVars
            \/ /\ Step("done") /\ StackOK'
               /\ stack_current' = stack_current + 1
               /\ stack'[stack_current + 1] = IF write_func = "begin_array" THEN "A" ELSE "O"
               /\ \A i \in 0 .. stack_current : stack'[i] = stack[i]
<1>1. busy /\ pending = <<>> /\ write_func \in Begins /\ state = "START"
  BY DEF Begin, At, Begins
<1>2. size' = size
  BY DEF Begin
<1>3. CASE write_func = "begin_array" /\ PushAndPut("A", Ascii.lbracket)
  BY <1>1, <1>2, <1>3, PushSteps, AsciiBytes
<1>4. CASE write_func = "begin_object" /\ PushAndPut("O", Ascii.lbrace)
  BY <1>1, <1>2, <1>4, PushSteps, AsciiBytes
<1> QED BY <1>1, <1>3, <1>4 DEF Begin, At

LEMMA BeginSInv == SInv /\ Begin /\ UNCHANGED programVars => SInv'
<1> SUFFICES ASSUME SInv, Begin, UNCHANGED programVars PROVE SInv'
  OBVIOUS
<1>1. /\ busy /\ write_func \in Begins /\ write_func' = write_func
      /\ Step("done") \/ Step("error")
      /\ StackOK' \/ UNCHANGED frameVars
  BY BeginSteps DEF Begin
<1>2. OutputOK' /\ state' \in {"done", "error"} /\ (state' = "error" => pending' = <<>>)
  BY <1>1 DEF Step
<1>3. StackOK'
  BY <1>1 DEF SInv, StackOK, frameVars
<1>4. LabelsOK'
  BY <1>1, <1>2 DEF LabelsOK, Begins
<1>5. ValueOK'
  BY <1>2, SameValue DEF SInv, Begin
<1>6. ProgramOK'
  BY <1>1, ProgramRuns DEF SInv
<1> QED BY <1>2, <1>3, <1>4, <1>5, <1>6 DEF SInv, Begin, configVars

\* The frame is popped, and the call goes on only if it is one of the two looked for.
LEMMA EndSteps ==
  ASSUME SInv, End
  PROVE  /\ busy /\ pending = <<>> /\ write_func \in Ends /\ state = "START"
         /\ stack' = stack /\ stack_size' = stack_size
         /\ stack_current' = IF stack_current = 0 THEN 0 ELSE stack_current - 1
         /\ IF \/ stack_current = 0
               \/ write_func = "end_array" /\ Top \notin {"A", "a"}
               \/ write_func = "end_object" /\ Top \notin {"O", "o"}
            THEN Step("error")
            ELSE Step("tail") \/ (Step("newline") /\ indent \in Seq(Byte))
<1>1. busy /\ pending = <<>> /\ write_func \in Ends /\ state = "START"
  BY DEF End, At, Ends
<1>2. size' = size /\ <<10>> \in Seq(Byte)
  BY BytesAreSeq, AsciiBytes DEF End
<1>3. ASSUME NEW empty, NEW filled, PopAndBreak(empty, filled)
      PROVE  /\ stack' = stack /\ stack_size' = stack_size
             /\ stack_current' = IF stack_current = 0 THEN 0 ELSE stack_current - 1
             /\ IF stack_current = 0 \/ Top \notin {empty, filled} THEN Step("error")
                ELSE Step("tail") \/ (Step("newline") /\ indent \in Seq(Byte))
  <2>1. CASE stack_current = 0 \/ Top \notin {empty, filled}
    BY <1>1, <1>2, <1>3, <2>1, RaiseErrorSteps DEF SInv, PopAndBreak
  <2>2. CASE ~(stack_current = 0 \/ Top \notin {empty, filled})
    BY <1>1, <1>2, <1>3, <2>2, PutSteps, GotoSteps DEF SInv, PopAndBreak
  <2> QED BY <1>3, <2>1, <2>2 DEF PopAndBreak
<1>4. CASE write_func = "end_array" /\ PopAndBreak("A", "a")
  BY <1>1, <1>3, <1>4
<1>5. CASE write_func = "end_object" /\ PopAndBreak("O", "o")
  BY <1>1, <1>3, <1>5
<1> QED BY <1>4, <1>5 DEF End, At

LEMMA EndSInv == SInv /\ End /\ UNCHANGED programVars => SInv'
<1> SUFFICES ASSUME SInv, End, UNCHANGED programVars PROVE SInv'
  OBVIOUS
<1>1. /\ busy /\ write_func \in Ends /\ write_func' = write_func
      /\ Step("tail") \/ Step("error") \/ (Step("newline") /\ indent \in Seq(Byte))
      /\ stack' = stack /\ stack_size' = stack_size
      /\ stack_current' = IF stack_current = 0 THEN 0 ELSE stack_current - 1
  BY EndSteps DEF End
<1>2. /\ OutputOK' /\ state' \in {"tail", "newline", "error"}
      /\ state' = "error" => pending' = <<>>
      /\ state' = "newline" => indent \in Seq(Byte)
  BY <1>1 DEF Step
<1>3. StackOK'
  BY <1>1 DEF SInv, StackOK
<1>4. LabelsOK'
  BY <1>1, <1>2 DEF LabelsOK, Ends, End, configVars
<1>5. ValueOK'
  BY <1>2, SameValue DEF SInv, End
<1>6. ProgramOK'
  BY <1>1, ProgramRuns DEF SInv
<1> QED BY <1>2, <1>3, <1>4, <1>5, <1>6 DEF SInv, End, configVars

\* Every step of a call.
LEMMA RunStays ==
  ASSUME SInv, Run
  PROVE  \/ Stays
         \/ Resume \/ (Finish /\ write_func = "dummy")
         \/ Prelude \/ Comma \/ TailCall \/ Begin \/ End
BY FinishStays, LiteralStays, NumberStays, IntegerSignStays, IntegerMagnitudeStays,
   IntegerScaleStays, IntegerDigitStays, StringStartStays, StringCharStays, StringSkipStays,
   ControlHighStays, ControlLowStays, StringCopyStays, UnitDigitStays, SecondUnitStays,
   IndentStays, ClosingBracketStays, Zenon
   DEF Run

LEMMA RunSInv == SInv /\ RunCall => SInv'
BY RunStays, StaysSInv, ResumeSInv, DummySInv, PreludeSInv, CommaSInv, TailCallSInv, BeginSInv,
   EndSInv, Zenon DEF RunCall

-----------------------------------------------------------------------------
(* The calls, and what the program does between them. *)

LEMMA RefuseSInv ==
  ASSUME SInv, NEW n \in Nat, ~busy, Refuse(n)
  PROVE  OutputOK' /\ StackOK' /\ ValueOK' /\ LabelsOK'
<1>1. OutputOK'
  BY DEF SInv, OutputOK, Refuse, ShortCountMeansDone
<1>2. StackOK' /\ LabelsOK'
  BY DEF SInv, StackOK, LabelsOK, Refuse, frameVars, configVars, Top
<1>3. ValueOK'
  BY DEF SInv, ValueOK, Refuse, Running
<1> QED BY <1>1, <1>2, <1>3

LEMMA StartSInv ==
  ASSUME SInv, NEW function, NEW next, NEW n \in Nat, StartAt(function, next, n),
         UNCHANGED frameVars, written = 0
  PROVE  OutputOK' /\ StackOK' /\ LabelsOK' /\ state' = "START"
<1>1. OutputOK'
  BY DEF SInv, OutputOK, StartAt, Enter, ShortCountMeansDone
<1>2. StackOK'
  BY DEF SInv, StackOK, frameVars
<1>3. LabelsOK' /\ state' = "START"
  BY DEF LabelsOK, StartAt, PreludeLabels
<1> QED BY <1>1, <1>2, <1>3

\* A token is one of those assumed of the program.
LEMMA TokenFacts ==
  ASSUME ProgramOK, made < MaxCalls, NEW t \in Tokens(made)
  PROVE  /\ t.function \in Values \cup Ends
         /\ t.function \in {"number", "integer", "string"} => "value" \in DOMAIN t
         /\ t.function = "number"  => t.value \in Numbers
         /\ t.function = "integer" => t.value \in Integers64
         /\ t.function = "string"  => t.value \in Strings
         /\ Weight(t) \in Nat
<1>1. made \in 0 .. MaxCalls
  BY CallsAssumption DEF ProgramOK
<1> QED BY <1>1, TokenAssumption

LEMMA CallSInv ==
  ASSUME SInv, phase = "free", made < MaxCalls, NEW t \in Tokens(made), NEW n \in Nat,
         CallWriter(t, n)
  PROVE  /\ OutputOK' /\ StackOK' /\ ValueOK' /\ LabelsOK'
         /\ UNCHANGED <<configVars, frameVars, nesting_written>>
<1>0. ~busy /\ written = 0
  BY DEF SInv, ProgramOK
<1> DEFINE f == t.function
           v == IF "value" \in DOMAIN t THEN t.value ELSE value
<1>1. CASE Refuse(n)
  BY <1>0, <1>1, RefuseSInv DEF Refuse
<1>2. CASE f \in Ends /\ ~Refuse(n)
  <2>1. StartAt(f, "none", n) /\ UNCHANGED <<configVars, frameVars, nesting_written, value>>
    BY <1>2 DEF CallWriter, WriteEnd
  <2>2. OutputOK' /\ StackOK' /\ LabelsOK' /\ state' = "START"
    BY <1>0, <2>1, StartSInv
  <2>3. ValueOK'
    BY <1>2, <2>1 DEF ValueOK, Running, StartAt, Ends
  <2> QED BY <2>1, <2>2, <2>3
<1>3. CASE f \notin Ends /\ ~Refuse(n)
  <2>1. /\ StartAt("prelude", f, n) /\ value' = v
        /\ UNCHANGED <<configVars, frameVars, nesting_written>>
    BY <1>3 DEF CallWriter, WriteValue
  <2>2. OutputOK' /\ StackOK' /\ LabelsOK' /\ state' = "START"
    BY <1>0, <2>1, StartSInv
  <2>3. ValueOK'
    <3>1. /\ f = "number"  => v \in Numbers
          /\ f = "integer" => v \in Integers64
          /\ f = "string"  => v \in Strings
      BY TokenFacts DEF SInv
    <3>2. write_func' = "prelude" /\ next_write_func' = f
      BY <2>1 DEF StartAt
    <3> HIDE DEF f, v
    <3> QED BY <2>1, <3>1, <3>2 DEF ValueOK, Running
  <2> QED BY <2>1, <2>2, <2>3
<1> QED BY <1>1, <1>2, <1>3

LEMMA WriteTokenSInv == SInv /\ WriteToken => SInv'
<1> SUFFICES ASSUME SInv, WriteToken PROVE SInv'
  OBVIOUS
<1>1. PICK t \in Tokens(made), n \in Sizes :
        /\ CallWriter(t, n)
        /\ accepted' = (n > 0 /\ J!Legal(nest, t.function))
        /\ made' = made + Weight(t)
  BY DEF WriteToken
<1>2. phase = "free" /\ made < MaxCalls /\ n \in Nat
  BY CallsAssumption DEF WriteToken
<1>3. /\ OutputOK' /\ StackOK' /\ ValueOK' /\ LabelsOK'
      /\ UNCHANGED <<configVars, frameVars, nesting_written>>
  BY <1>1, <1>2, CallSInv
<1>4. ProgramOK'
  <2>1. made' \in Nat
    BY <1>1, <1>2, TokenFacts DEF SInv, ProgramOK
  <2>2. accepted' \in BOOLEAN
    BY <1>1
  <2> QED BY <2>1, <2>2 DEF SInv, ProgramOK, WriteToken
<1> QED BY <1>3, <1>4 DEF SInv, configVars

LEMMA TakeSInv == SInv /\ Take => SInv'
<1> SUFFICES ASSUME SInv, Take PROVE SInv'
  OBVIOUS
<1>1. ~busy /\ busy' = busy /\ out' = <<>> /\ size' = 0 /\ written' = 0 /\ pending' = pending
  BY DEF Take
<1>2. OutputOK'
  BY <1>1 DEF SInv, OutputOK, ShortCountMeansDone
<1>3. StackOK' /\ LabelsOK'
  BY DEF SInv, StackOK, LabelsOK, Take, frameVars, configVars, Top
<1>4. ValueOK'
  BY DEF SInv, ValueOK, Take, Running
<1>5. ProgramOK'
  <2>1. broken' \in BOOLEAN /\ phase' \in {"free", "more"} /\ made' = made
    BY DEF SInv, ProgramOK, Take
  <2>2. accepted' \in BOOLEAN
    BY DEF SInv, ProgramOK, Take
  <2> QED BY <1>1, <2>1, <2>2 DEF SInv, ProgramOK
<1> QED BY <1>2, <1>3, <1>4, <1>5 DEF SInv, Take, configVars

LEMMA GoOnSInv == SInv /\ GoOn => SInv'
<1> SUFFICES ASSUME SInv, GoOn PROVE SInv'
  OBVIOUS
<1>1. PICK n \in Sizes \ {0} : Continue(n)
  BY DEF GoOn
<1>2. n \in Nat /\ n # 0 /\ phase = "more" /\ ~busy /\ written = 0
  BY CallsAssumption DEF GoOn, SInv, ProgramOK
<1>3. /\ Enter(n)
      /\ UNCHANGED <<configVars, write_func, next_write_func, state, frameVars,
                     nesting_written, pending, value>>
  BY <1>1, <1>2 DEF Continue
<1>4. OutputOK'
  BY <1>2, <1>3 DEF SInv, OutputOK, Enter, ShortCountMeansDone
<1>5. StackOK' /\ LabelsOK'
  BY <1>3 DEF SInv, StackOK, LabelsOK, frameVars, configVars, Top
<1>6. ValueOK'
  BY <1>3 DEF SInv, ValueOK, Running
<1>7. ProgramOK'
  BY DEF SInv, ProgramOK, GoOn
<1> QED BY <1>3, <1>4, <1>5, <1>6, <1>7 DEF SInv, configVars

LEMMA StartAnewSInv == SInv /\ StartAnew => SInv'
<1> SUFFICES ASSUME SInv, StartAnew PROVE SInv'
  OBVIOUS
<1>1. Reset /\ ~busy /\ written = 0
  BY DEF StartAnew, SInv, ProgramOK
<1>2. OutputOK'
  BY <1>1 DEF SInv, OutputOK, Reset, ShortCountMeansDone
<1>3. StackOK'
  BY <1>1 DEF SInv, StackOK, Reset, Frames
<1>4. LabelsOK' /\ ValueOK'
  BY <1>1 DEF LabelsOK, ValueOK, Running, Reset
<1>5. ProgramOK'
  <2>1. broken' \in BOOLEAN /\ accepted' \in BOOLEAN
    BY DEF StartAnew
  <2>2. ~busy' /\ written' = 0 /\ phase' = "free" /\ made' = made
    BY <1>1 DEF StartAnew, Reset
  <2> QED BY <2>1, <2>2 DEF SInv, ProgramOK
<1> QED BY <1>1, <1>2, <1>3, <1>4, <1>5 DEF SInv, Reset, configVars

LEMMA InitSInv == CallsInit => SInv
<1> SUFFICES ASSUME CallsInit PROVE SInv
  OBVIOUS
<1>1. OutputOK
  <2>1. ~busy /\ busy \in BOOLEAN
    BY DEF CallsInit, WriterInit
  <2>2. written = 0 /\ size = 0 /\ out = <<>> /\ pending = <<>>
    BY DEF CallsInit, WriterInit
  <2> QED BY <2>1, <2>2 DEF OutputOK, ShortCountMeansDone
<1>2. StackOK
  BY WriterAssumption DEF CallsInit, WriterInit, StackOK, Frames
<1>3. LabelsOK /\ ValueOK
  BY DEF CallsInit, WriterInit, LabelsOK, ValueOK, Running
<1>4. ProgramOK
  <2>1. broken \in BOOLEAN /\ accepted \in BOOLEAN /\ ~busy
    BY DEF CallsInit, WriterInit
  <2> QED BY <2>1 DEF CallsInit, WriterInit, ProgramOK
<1> QED BY <1>1, <1>2, <1>3, <1>4, IndentAssumption DEF SInv, CallsInit, WriterInit

LEMMA NextSInv == SInv /\ [CallsNext]_allVars => SInv'
<1>1. SInv /\ UNCHANGED allVars => SInv'
  BY DEF SInv, OutputOK, StackOK, ValueOK, LabelsOK, ProgramOK, ShortCountMeansDone, Running, Top,
         allVars, vars, programVars, configVars, frameVars, callVars
<1> QED
  BY <1>1, RunSInv, WriteTokenSInv, TakeSInv, GoOnSInv, StartAnewSInv, Zenon
  DEF CallsNext, Proceed, Exit

\* The inductive invariant of the structure.
THEOREM StructureInvariance == CallsSpec => []SInv
BY InitSInv, NextSInv, PTL DEF CallsSpec

\* The writer structure stays well formed, and no call puts more into a buffer than it
\* holds, for all sizes of stack and buffers, all tokens and whatever realloc answers.
THEOREM WriterTypeCorrect == CallsSpec => []TypeOK
<1>1. SInv => TypeOK
  BY DEF SInv, OutputOK, StackOK, ProgramOK, TypeOK
<1> QED BY <1>1, StructureInvariance, PTL

\* A count smaller than the buffer means that nothing of the token is left to put.
THEOREM ShortCountsMeanDone == CallsSpec => []ShortCountMeansDone
<1>1. SInv => ShortCountMeansDone
  BY DEF SInv, OutputOK
<1> QED BY <1>1, StructureInvariance, PTL

-----------------------------------------------------------------------------
(***************************************************************************)
(* The nesting: the stack says what is open.  The invariant follows the    *)
(* frames through the steps of a token, whatever buffers it is put in,     *)
(* whatever was refused before and wherever a token was given up.          *)
(***************************************************************************)

Open == [kind : {"array", "object"}, count : Nat]

\* The stack is that of n.
StackMeans(n) ==
  /\ stack_current = Len(n)
  /\ \A i \in 1 .. Len(n) : Means(stack[i], n[i])

\* The stack is that of n, but the token being written is not counted in it yet.
OneLess(open) == [open EXCEPT !.count = @ - 1]
StackMeansLess(n) ==
  /\ stack_current = Len(n)
  /\ \A i \in 1 .. Len(n) - 1 : Means(stack[i], n[i])
  /\ n # <<>> => n[Len(n)].count > 0 /\ Means(stack[Len(n)], OneLess(n[Len(n)]))

\* The stack is that of n and one container more, which the token closes.
Closed(function) == IF function = "end_array" THEN {"A", "a"} ELSE {"O", "o"}
StackMeansMore(n) ==
  /\ stack_current = Len(n) + 1
  /\ \A i \in 1 .. Len(n) : Means(stack[i], n[i])
  /\ Top \in Closed(token.function)

\* What is open around a container that is begun, and the container.
Around == IF token.function \in Begins THEN SubSeq(nest, 1, Len(nest) - 1) ELSE nest
Begun ==
  token.function \in Begins =>
    /\ nest # <<>>
    /\ nest[Len(nest)] = [kind |-> IF token.function = "begin_array" THEN "array" ELSE "object",
                          count |-> 0]

\* The stack while a token that JSON allows is written.
Progress ==
  /\ token.function \in Values \cup Ends
  /\ Begun
  /\ state = "START" => busy /\ pending = <<>>
  /\ \/ write_func = token.function
     \/ write_func = "prelude" /\ next_write_func = token.function /\ token.function \in Values
  /\ IF write_func = "prelude" /\ state \in {"START", "comma"} THEN StackMeansLess(Around)
     ELSE IF write_func \in Ends /\ state = "START" THEN StackMeansMore(nest)
     ELSE IF write_func = "prelude" \/ (write_func \in Begins /\ state = "START") THEN StackMeans(Around)
     ELSE StackMeans(nest)

\* A token that JSON does not allow is refused, or it fails as soon as it runs.
Refusal ==
  /\ phase = "token"
  /\ \/ ~busy /\ written = -1 /\ (StackMeans(nest) \/ (size > 0 /\ Mismatched))
     \/ /\ busy /\ pending = <<>> /\ size > 0
        /\ token.function \in Ends /\ write_func = token.function /\ state = "START"
        /\ StackMeans(nest) /\ (nest = <<>> \/ Mismatched)

Mirror ==
  /\ nest \in Seq(Open)
  /\ ~broken =>
       /\ phase = "free" => StackMeans(nest)
       /\ phase = "token" /\ accepted => size > 0
       /\ phase # "free" /\ accepted =>
            IF state = "error" THEN phase = "token" /\ ~busy /\ written = -1 ELSE Progress
       /\ phase # "free" /\ ~accepted => Refusal

-----------------------------------------------------------------------------
(* What is open, and frames. *)

LEMMA MeansFacts ==
  ASSUME NEW open \in Open, NEW frame, Means(frame, open)
  PROVE  /\ frame \in {"A", "a", "O", "o", "k"}
         /\ frame \in {"A", "a"} <=> open.kind = "array"
         /\ frame \in {"O", "o"} <=> open.kind = "object" /\ open.count % 2 = 0
         /\ frame = "k" <=> open.kind = "object" /\ open.count % 2 = 1
BY DEF Open, Means

\* A container in which one more token is counted has the next frame.
LEMMA NextFrame ==
  ASSUME NEW open \in Open, open.count > 0, NEW frame, Means(frame, OneLess(open))
  PROVE  /\ frame = "k" => Means("o", open)
         /\ frame \in {"O", "o"} => Means("k", open)
         /\ frame \in {"A", "a"} => Means("a", open)
         /\ frame \in {"A", "a", "O", "o", "k"}
<1>1. /\ open.kind = OneLess(open).kind
      /\ OneLess(open).count = open.count - 1
      /\ open.count \in Nat
  BY DEF Open, OneLess
<1>2. (open.count - 1) % 2 = 0 => open.count % 2 = 1
  BY <1>1
<1>3. (open.count - 1) % 2 = 1 => open.count % 2 = 0
  BY <1>1
<1> QED BY <1>1, <1>2, <1>3 DEF Means

\* The frame at the top tells what may come next.
LEMMA TopMeans ==
  ASSUME StackOK, NEW n \in Seq(Open), StackMeans(n)
  PROVE  /\ n = <<>> <=> stack_current = 0
         /\ J!InArray(n) <=> Top \in {"A", "a"}
         /\ J!ExpectsKey(n) <=> Top \in {"O", "o"}
         /\ J!ExpectsMember(n) <=> Top = "k"
<1>1. CASE n = <<>>
  <2>1. stack_current = 0 /\ Top = "none"
    BY <1>1, TopOfStack DEF StackMeans
  <2> QED BY <1>1, <2>1 DEF J!InArray, J!InObject, J!ExpectsKey, J!ExpectsMember
<1>2. CASE n # <<>>
  <2>1. Len(n) \in 1 .. Len(n) /\ n[Len(n)] \in Open /\ Len(n) > 0
    BY <1>2
  <2>2. Means(Top, n[Len(n)]) /\ stack_current # 0
    BY <2>1 DEF StackMeans, Top
  <2>3. J!Last(n) = n[Len(n)]
    BY DEF J!Last
  <2> DEFINE open == n[Len(n)]
  <2>4. open.kind \in {"array", "object"} /\ open.count \in Nat
    BY <2>1 DEF Open
  <2>5. open.count % 2 \in {0, 1}
    BY <2>4
  <2>6. /\ J!InArray(n) <=> open.kind = "array"
        /\ J!ExpectsKey(n) <=> (open.kind = "object" /\ open.count % 2 = 0)
        /\ J!ExpectsMember(n) <=> (open.kind = "object" /\ open.count % 2 = 1)
    BY <1>2, <2>3, Zenon DEF J!InArray, J!InObject, J!ExpectsKey, J!ExpectsMember
  <2> HIDE DEF open
  <2>7. Means(Top, open) /\ open \in Open
    BY <2>1, <2>2 DEF open
  <2> QED BY <1>2, <2>2, <2>6, <2>7, MeansFacts
<1> QED BY <1>1, <1>2

LEMMA LegalFacts ==
  ASSUME NEW n, NEW f \in Values \cup Ends
  PROVE  /\ f = "end_array" => J!Legal(n, f) = J!InArray(n)
         /\ f = "end_object" => J!Legal(n, f) = J!ExpectsKey(n)
         /\ f \in Values \ {"string"} => J!Legal(n, f) = ~J!ExpectsKey(n)
         /\ f = "string" => J!Legal(n, f) = TRUE
<1>1. CASE f = "end_array"
  BY <1>1, Zenon DEF J!Legal, Values
<1>2. CASE f = "end_object"
  BY <1>2, Zenon DEF J!Legal, Values
<1>3. CASE f = "string"
  BY <1>3, Zenon DEF J!Legal, Values
<1>4. CASE f \in Values \ {"string"}
  <2>1. f # "end_array" /\ f # "end_object" /\ f # "string"
    BY <1>4 DEF Values
  <2> QED BY <2>1, Zenon DEF J!Legal
<1> QED BY <1>1, <1>2, <1>3, <1>4 DEF Ends

\* The token is counted where it is written.
Counted(n) == IF n = <<>> THEN n ELSE [n EXCEPT ![Len(n)].count = @ + 1]

LEMMA AfterFacts ==
  ASSUME NEW n, NEW f \in Values \cup Ends
  PROVE  /\ f \in Ends => J!After(n, f) = SubSeq(n, 1, Len(n) - 1)
         /\ f = "begin_array" => J!After(n, f) = Append(Counted(n), [kind |-> "array", count |-> 0])
         /\ f = "begin_object" => J!After(n, f) = Append(Counted(n), [kind |-> "object", count |-> 0])
         /\ f \in Leaf => J!After(n, f) = Counted(n)
<1>1. CASE f \in Ends
  <2>1. f # "begin_array" /\ f # "begin_object" /\ f \notin Leaf
    BY <1>1 DEF Ends, Leaf, Values
  <2> QED BY <1>1, <2>1, Zenon DEF J!After, J!Front, Ends
<1>2. CASE f = "begin_array"
  BY <1>2, Zenon DEF J!After, Counted, Ends, Leaf, Begins
<1>3. CASE f = "begin_object"
  BY <1>3, Zenon DEF J!After, Counted, Ends, Leaf, Begins
<1>4. CASE f \in Leaf
  <2>1. f \notin Ends /\ f # "begin_array" /\ f # "begin_object"
    BY <1>4 DEF Ends, Leaf, Values, Begins
  <2> QED BY <2>1, Zenon DEF J!After, Counted, Ends
<1> QED BY <1>1, <1>2, <1>3, <1>4 DEF Leaf, Begins

\* What is open around the innermost container.
LEMMA FrontFacts ==
  ASSUME NEW n \in Seq(Open), n # <<>>
  PROVE  /\ SubSeq(n, 1, Len(n) - 1) \in Seq(Open)
         /\ Len(SubSeq(n, 1, Len(n) - 1)) = Len(n) - 1
         /\ \A i \in 1 .. Len(n) - 1 : SubSeq(n, 1, Len(n) - 1)[i] = n[i]
<1> DEFINE k == Len(n) - 1
<1>1. Len(n) \in Nat /\ k \in 0 .. Len(n) /\ 1 \in 1 .. Len(n) + 1
  OBVIOUS
<1>2. /\ SubSeq(n, 1, k) \in Seq(Open)
      /\ Len(SubSeq(n, 1, k)) = IF 1 <= k THEN k - 1 + 1 ELSE 0
      /\ \A i \in 1 .. k - 1 + 1 : SubSeq(n, 1, k)[i] = n[1 + i - 1]
  BY <1>1, SubSeqProperties
<1> HIDE DEF k
<1>3. \A i \in 1 .. k : 1 + i - 1 = i
  OBVIOUS
<1>4. k - 1 + 1 = k
  BY <1>1
<1>5. \A i \in 1 .. k : SubSeq(n, 1, k)[i] = n[i]
  BY <1>2, <1>3, <1>4
<1> QED BY <1>1, <1>2, <1>4, <1>5 DEF k

LEMMA CountedFacts ==
  ASSUME NEW n \in Seq(Open), StackMeans(n)
  PROVE  /\ Counted(n) \in Seq(Open) /\ Len(Counted(n)) = Len(n)
         /\ StackMeansLess(Counted(n))
<1>1. CASE n = <<>>
  BY <1>1 DEF Counted, StackMeans, StackMeansLess
<1>2. CASE n # <<>>
  <2> DEFINE last == n[Len(n)]
             more == [last EXCEPT !.count = @ + 1]
  <2>1. Len(n) \in Nat /\ Len(n) > 0 /\ last \in Open
    BY <1>2
  <2>2. more \in Open /\ more.count > 0 /\ OneLess(more) = last
    <3> HIDE DEF last
    <3>1. more \in Open /\ more.count = last.count + 1 /\ more.kind = last.kind /\ last.count \in Nat
      BY <2>1 DEF Open
    <3>2. OneLess(more) \in Open /\ OneLess(more).count = last.count /\ OneLess(more).kind = last.kind
      <4> HIDE DEF more
      <4> QED BY <3>1 DEF OneLess, Open
    <3>3. OneLess(more) = last
      BY <2>1, <3>2 DEF Open
    <3> QED BY <3>1, <3>3
  <2>3. Counted(n) = [n EXCEPT ![Len(n)] = more]
    BY <1>2 DEF Counted
  <2> HIDE DEF more
  <2>4. /\ Counted(n) \in Seq(Open) /\ Len(Counted(n)) = Len(n)
        /\ Counted(n)[Len(n)] = more
        /\ \A i \in 1 .. Len(n) - 1 : Counted(n)[i] = n[i]
    BY <2>1, <2>2, <2>3
  <2>5. Means(stack[Len(n)], last) /\ stack_current = Len(n)
        /\ \A i \in 1 .. Len(n) - 1 : Means(stack[i], n[i])
    BY <2>1 DEF StackMeans
  <2> HIDE DEF last
  <2> QED BY <2>1, <2>2, <2>4, <2>5 DEF StackMeansLess
<1> QED BY <1>1, <1>2

-----------------------------------------------------------------------------
(* The nesting through the steps of a call. *)

\* What the invariant says while a call runs.
LEMMA RunningFacts ==
  ASSUME SInv, Mirror, busy, ~broken
  PROVE  /\ phase = "token" /\ nest \in Seq(Open)
         /\ accepted => Progress /\ state # "error" /\ size > 0
         /\ ~accepted => /\ pending = <<>> /\ size > 0
                         /\ token.function \in Ends /\ write_func = token.function
                         /\ state = "START" /\ StackMeans(nest) /\ (nest = <<>> \/ Mismatched)
<1>1. phase = "token" /\ nest \in Seq(Open)
  BY DEF SInv, ProgramOK, Mirror
<1>2. accepted => Progress /\ state # "error" /\ size > 0
  BY <1>1 DEF Mirror
<1>3. ~accepted => Refusal
  BY <1>1 DEF Mirror
<1> QED BY <1>1, <1>2, <1>3 DEF Refusal

\* What it is left to show of a step of a call.
LEMMA RunMirror ==
  ASSUME SInv, Mirror, busy, UNCHANGED programVars, size' = size,
         ~broken /\ accepted => IF state' = "error" THEN ~busy' /\ written' = -1 ELSE Progress',
         ~broken /\ ~accepted => Refusal'
  PROVE  Mirror'
<1>1. /\ nest' = nest /\ broken' = broken /\ phase' = phase /\ accepted' = accepted
      /\ token' = token
  BY DEF programVars
<1>2. phase = "token" /\ nest \in Seq(Open)
  BY DEF SInv, ProgramOK, Mirror
<1>3. ~broken /\ accepted => size > 0
  BY RunningFacts
<1> QED BY <1>1, <1>2, <1>3 DEF Mirror

\* A step that leaves the stack and the token alone.
LEMMA SameStack ==
  ASSUME UNCHANGED frameVars, UNCHANGED programVars
  PROVE  /\ StackMeans(nest)' <=> StackMeans(nest)
         /\ StackMeans(Around)' <=> StackMeans(Around)
         /\ StackMeansLess(Around)' <=> StackMeansLess(Around)
         /\ StackMeansMore(nest)' <=> StackMeansMore(nest)
         /\ Begun' <=> Begun
BY DEF frameVars, programVars, StackMeans, StackMeansLess, StackMeansMore, Around, Begun, Top

LEMMA StaysMirror == SInv /\ Mirror /\ Stays /\ UNCHANGED programVars => Mirror'
<1> SUFFICES ASSUME SInv, Mirror, Stays, UNCHANGED programVars PROVE Mirror'
  OBVIOUS
<1>1. PICK label : Step(label) /\ label \notin {"START", "comma"}
  BY DEF Stays
<1>2. /\ busy /\ UNCHANGED <<write_func, next_write_func, frameVars>>
      /\ write_func \notin Leaf => state \notin {"START", "comma"}
      /\ state' = label /\ size' = size
      /\ label = "error" => ~busy' /\ written' = -1
  BY <1>1 DEF Stays, Step
<1>3. ~broken => accepted
  BY <1>2, RunningFacts DEF Ends, Leaf, Values
<1>4. ASSUME ~broken, label # "error" PROVE Progress'
  <2>1. Progress
    BY <1>2, <1>3, <1>4, RunningFacts
  <2>2. write_func \in Ends \cup Begins \cup {"prelude"} => write_func \notin Leaf
    BY DEF Ends, Leaf, Values, Begins
  <2>3. /\ token' = token /\ state' # "START" /\ state' # "comma"
        /\ write_func' = write_func /\ next_write_func' = next_write_func
    BY <1>1, <1>2 DEF programVars
  <2> QED BY <1>2, <2>1, <2>2, <2>3, SameStack DEF Progress
<1> QED BY <1>2, <1>3, <1>4, RunMirror

LEMMA ResumeMirror == SInv /\ Mirror /\ Resume /\ UNCHANGED programVars => Mirror'
<1> SUFFICES ASSUME SInv, Mirror, Resume, UNCHANGED programVars PROVE Mirror'
  OBVIOUS
<1>1. /\ busy /\ pending # <<>> /\ UNCHANGED <<write_func, next_write_func, frameVars>>
      /\ state' = state /\ size' = size /\ token' = token
  BY ResumeSInv DEF Resume, Step, programVars
<1>2. ASSUME ~broken PROVE accepted /\ state # "error" /\ Progress'
  <2>1. accepted /\ state # "error" /\ Progress
    BY <1>1, <1>2, RunningFacts
  <2> QED BY <1>1, <2>1, SameStack DEF Progress
<1> QED BY <1>1, <1>2, RunMirror

LEMMA DummyMirror ==
  ASSUME SInv, Mirror, Finish, write_func = "dummy", UNCHANGED programVars
  PROVE  Mirror'
<1>1. busy /\ size' = size
  BY DEF Finish
<1>2. broken
  BY <1>1, RunningFacts DEF Progress, Values, Ends
<1> QED BY <1>1, <1>2, RunMirror

\* What is open around the token.
LEMMA AroundSeq == nest \in Seq(Open) /\ Begun => Around \in Seq(Open)
<1> SUFFICES ASSUME nest \in Seq(Open), Begun PROVE Around \in Seq(Open)
  OBVIOUS
<1>1. CASE token.function \in Begins
  <2>1. Len(nest) \in Nat /\ Len(nest) > 0
    BY <1>1 DEF Begun
  <2>2. SubSeq(nest, 1, Len(nest) - 1) \in Seq(Open)
    BY <2>1
  <2> QED BY <1>1, <2>2 DEF Around
<1>2. CASE token.function \notin Begins
  BY <1>2 DEF Around
<1> QED BY <1>1, <1>2

\* The frame at the top is replaced by the one that counts the token.
LEMMA CountInFrame ==
  ASSUME StackOK, NEW n \in Seq(Open), StackMeansLess(n), Top # "none", NEW frame, SetTop(frame),
         frame = IF Top = "k" THEN "o" ELSE IF Top \in {"O", "o"} THEN "k" ELSE "a"
  PROVE  stack_current' = Len(n) /\ \A i \in 1 .. Len(n) : Means(stack'[i], n[i])
<1>1. /\ stack_current = Len(n) /\ Len(n) \in Nat /\ Len(n) > 0
      /\ n # <<>> /\ n[Len(n)] \in Open
  <2>1. stack_current # 0 /\ stack_current = Len(n) /\ Len(n) \in Nat
    BY TopOfStack DEF StackMeansLess
  <2> QED BY <2>1
<1>2. /\ \A i \in 1 .. Len(n) - 1 : Means(stack[i], n[i])
      /\ n[Len(n)].count > 0 /\ Means(Top, OneLess(n[Len(n)]))
  BY <1>1 DEF StackMeansLess, Top
<1>3. Means(frame, n[Len(n)])
  <2> DEFINE open == n[Len(n)]
  <2>1. open \in Open /\ open.count > 0 /\ Means(Top, OneLess(open))
    BY <1>1, <1>2
  <2> HIDE DEF open
  <2>2. Means(frame, open)
    BY <2>1, NextFrame
  <2> QED BY <2>2 DEF open
<1>4. stack_current' = stack_current /\ stack' = [stack EXCEPT ![stack_current] = frame]
  BY DEF SetTop
<1>5. stack'[Len(n)] = frame /\ \A i \in 1 .. Len(n) - 1 : stack'[i] = stack[i]
  BY <1>1, <1>4 DEF StackOK
<1> QED BY <1>1, <1>2, <1>3, <1>4, <1>5

LEMMA PreludeMirror == SInv /\ Mirror /\ Prelude /\ UNCHANGED programVars => Mirror'
<1> SUFFICES ASSUME SInv, Mirror, Prelude, UNCHANGED programVars PROVE Mirror'
  OBVIOUS
<1>1. /\ busy /\ write_func = "prelude" /\ state = "START" /\ pending = <<>> /\ size' = size
      /\ write_func' = write_func /\ next_write_func' = next_write_func
      /\ token' = token /\ nest' = nest
  BY PreludeSteps DEF Prelude, programVars
<1>2. \/ Top \in Containers /\ Step("comma") /\ UNCHANGED frameVars
      \/ Top = "k" /\ Step("tail") /\ SetTop("o")
      \/ Top = "none" /\ Step("tail") /\ UNCHANGED frameVars
  BY PreludeSteps
<1>3. ASSUME ~broken PROVE accepted /\ Progress'
  <2>1. accepted /\ Progress /\ nest \in Seq(Open)
    BY <1>1, <1>3, RunningFacts DEF Ends
  <2>2. /\ StackMeansLess(Around) /\ Begun /\ next_write_func = token.function
        /\ token.function \in Values
    BY <1>1, <2>1 DEF Progress, Values, Ends
  <2>3. Around' = Around /\ Begun'
    BY <1>1, <2>2 DEF Around, Begun
  <2>4. CASE Step("comma") /\ UNCHANGED frameVars
    <3>1. StackMeansLess(Around)'
      BY <2>2, <2>4, SameStack
    <3>2. state' = "comma"
      BY <2>4 DEF Step
    <3> QED BY <1>1, <2>1, <2>2, <2>3, <3>1, <3>2 DEF Progress
  <2>5. CASE Step("tail") /\ ((Top = "k" /\ SetTop("o")) \/ (Top = "none" /\ UNCHANGED frameVars))
    <3>1. StackMeans(Around)'
      <4>1. CASE Top = "k" /\ SetTop("o")
        <5>1. Around \in Seq(Open)
          BY <2>1, <2>2, AroundSeq
        <5>2. stack_current' = Len(Around) /\ \A i \in 1 .. Len(Around) : Means(stack'[i], Around[i])
          BY <2>2, <4>1, <5>1, CountInFrame DEF SInv
        <5> QED BY <2>3, <5>2 DEF StackMeans
      <4>2. CASE Top = "none" /\ UNCHANGED frameVars
        <5>1. stack_current = 0 /\ Len(Around) = 0
          BY <2>2, <4>2, TopOfStack DEF SInv, StackMeansLess
        <5> QED BY <2>3, <4>2, <5>1 DEF StackMeans, frameVars
      <4> QED BY <2>5, <4>1, <4>2
    <3>2. state' = "tail"
      BY <2>5 DEF Step
    <3>3. write_func' \notin Ends
      BY <1>1 DEF Ends
    <3> QED BY <1>1, <2>1, <2>2, <2>3, <3>1, <3>2, <3>3 DEF Progress
  <2>6. Progress'
    BY <1>2, <2>4, <2>5, Zenon
  <2> QED BY <2>1, <2>6
<1>4. state' # "error"
  BY <1>2 DEF Step
<1> QED BY <1>1, <1>3, <1>4, RunMirror

LEMMA CommaMirror == SInv /\ Mirror /\ Comma /\ UNCHANGED programVars => Mirror'
<1> SUFFICES ASSUME SInv, Mirror, Comma, UNCHANGED programVars PROVE Mirror'
  OBVIOUS
<1> DEFINE frame == IF Top \in {"O", "o"} THEN "k" ELSE "a"
<1>1. /\ busy /\ write_func = "prelude" /\ state = "comma" /\ size' = size
      /\ write_func' = write_func /\ next_write_func' = next_write_func
      /\ token' = token /\ nest' = nest
  BY CommaSteps DEF Comma, programVars
<1>2. Top \in Containers /\ SetTop(frame) /\ state' \in {"tail", "newline"}
  BY CommaSteps DEF Step
<1>3. ASSUME ~broken PROVE accepted /\ Progress'
  <2>1. accepted /\ Progress /\ nest \in Seq(Open)
    BY <1>1, <1>3, RunningFacts DEF Ends
  <2>2. /\ StackMeansLess(Around) /\ Begun /\ next_write_func = token.function
        /\ token.function \in Values
    BY <1>1, <2>1 DEF Progress, Values, Ends
  <2>3. Around' = Around /\ Begun'
    BY <1>1, <2>2 DEF Around, Begun
  <2>4. StackMeans(Around)'
    <3>1. Around \in Seq(Open)
      BY <2>1, <2>2, AroundSeq
    <3>2. Top # "none" /\ frame = IF Top = "k" THEN "o" ELSE IF Top \in {"O", "o"} THEN "k" ELSE "a"
      BY <1>2 DEF Containers
    <3> HIDE DEF frame
    <3>3. stack_current' = Len(Around) /\ \A i \in 1 .. Len(Around) : Means(stack'[i], Around[i])
      BY <1>2, <2>2, <3>1, <3>2, CountInFrame DEF SInv
    <3> QED BY <2>3, <3>3 DEF StackMeans
  <2>5. write_func' \notin Ends
    BY <1>1 DEF Ends
  <2> QED BY <1>1, <1>2, <2>1, <2>2, <2>3, <2>4, <2>5 DEF Progress
<1> QED BY <1>1, <1>2, <1>3, RunMirror

LEMMA TailCallMirror == SInv /\ Mirror /\ TailCall /\ UNCHANGED programVars => Mirror'
<1> SUFFICES ASSUME SInv, Mirror, TailCall, UNCHANGED programVars PROVE Mirror'
  OBVIOUS
<1>1. /\ busy /\ write_func = "prelude" /\ state = "tail" /\ pending = <<>> /\ size' = size
      /\ write_func' = next_write_func /\ state' = "START" /\ busy' = busy /\ pending' = pending
      /\ token' = token /\ UNCHANGED frameVars
  BY DEF TailCall, At, Goto, callVars, programVars
<1>2. ASSUME ~broken PROVE accepted /\ Progress'
  <2>1. accepted /\ Progress
    BY <1>1, <1>2, RunningFacts DEF Ends
  <2>2. /\ StackMeans(Around) /\ Begun /\ next_write_func = token.function
        /\ token.function \in Values
    BY <1>1, <2>1 DEF Progress, Values, Ends
  <2>3. write_func' \notin Ends /\ write_func' # "prelude"
    BY <1>1, <2>2 DEF Values, Ends
  <2>4. token.function \notin Begins => Around = nest
    BY DEF Around
  <2> QED BY <1>1, <2>1, <2>2, <2>3, <2>4, SameStack DEF Progress
<1> QED BY <1>1, <1>2, RunMirror

LEMMA BeginMirror == SInv /\ Mirror /\ Begin /\ UNCHANGED programVars => Mirror'
<1> SUFFICES ASSUME SInv, Mirror, Begin, UNCHANGED programVars PROVE Mirror'
  OBVIOUS
<1>1. /\ busy /\ write_func \in Begins /\ state = "START" /\ size' = size
      /\ write_func' = write_func /\ next_write_func' = next_write_func
      /\ token' = token /\ nest' = nest
  BY BeginSteps DEF Begin, programVars
<1>2. \/ Step("error")
      \/ /\ Step("done") /\ stack_current' = stack_current + 1
         /\ stack'[stack_current + 1] = IF write_func = "begin_array" THEN "A" ELSE "O"
         /\ \A i \in 0 .. stack_current : stack'[i] = stack[i]
  BY BeginSteps
<1>3. ASSUME ~broken PROVE accepted
  BY <1>1, <1>3, RunningFacts DEF Ends, Begins
<1>4. CASE Step("error")
  BY <1>1, <1>3, <1>4, RunMirror DEF Step
<1>5. CASE /\ Step("done") /\ stack_current' = stack_current + 1
           /\ stack'[stack_current + 1] = IF write_func = "begin_array" THEN "A" ELSE "O"
           /\ \A i \in 0 .. stack_current : stack'[i] = stack[i]
  <2>1. state' = "done"
    BY <1>5 DEF Step
  <2>2. ASSUME ~broken PROVE Progress'
    <3>1. Progress /\ nest \in Seq(Open)
      BY <1>1, <1>3, <2>2, RunningFacts
    <3>2. write_func = token.function /\ StackMeans(Around) /\ Begun
      BY <1>1, <3>1 DEF Progress, Begins, Ends
    <3>3. /\ nest # <<>> /\ Len(nest) \in Nat /\ Len(nest) > 0
          /\ nest[Len(nest)].kind = IF write_func = "begin_array" THEN "array" ELSE "object"
          /\ nest[Len(nest)].count = 0
      <4>1. /\ nest # <<>>
            /\ nest[Len(nest)] = [kind |-> IF token.function = "begin_array" THEN "array" ELSE "object",
                                  count |-> 0]
        BY <1>1, <3>2 DEF Begun
      <4> QED BY <3>1, <3>2, <4>1
    <3>4. /\ Len(Around) = Len(nest) - 1
          /\ \A i \in 1 .. Len(nest) - 1 : Around[i] = nest[i]
      <4>1. Around = SubSeq(nest, 1, Len(nest) - 1)
        BY <1>1, <3>2 DEF Around
      <4> QED BY <3>1, <3>3, <4>1, FrontFacts
    <3>5. stack_current = Len(nest) - 1 /\ \A i \in 1 .. Len(nest) - 1 : Means(stack[i], nest[i])
      BY <3>2, <3>4 DEF StackMeans
    <3>6. Means(stack'[Len(nest)], nest[Len(nest)])
      BY <1>1, <1>5, <3>3, <3>5 DEF Means, Begins
    <3>7. stack_current' = Len(nest) /\ \A i \in 1 .. Len(nest) : Means(stack'[i], nest[i])
      BY <1>5, <3>3, <3>5, <3>6
    <3>8. StackMeans(nest)'
      BY <1>1, <3>7 DEF StackMeans
    <3>9. Begun'
      BY <1>1, <3>2 DEF Begun
    <3>10. write_func' \notin Ends /\ write_func' # "prelude"
      BY <1>1 DEF Ends, Begins
    <3> QED BY <1>1, <2>1, <3>1, <3>2, <3>8, <3>9, <3>10 DEF Progress
  <2> QED BY <1>1, <1>3, <2>1, <2>2, RunMirror
<1> QED BY <1>2, <1>4, <1>5

LEMMA EndMirror == SInv /\ Mirror /\ End /\ UNCHANGED programVars => Mirror'
<1> SUFFICES ASSUME SInv, Mirror, End, UNCHANGED programVars PROVE Mirror'
  OBVIOUS
<1>1. /\ busy /\ write_func \in Ends /\ state = "START" /\ size' = size
      /\ write_func' = write_func /\ next_write_func' = next_write_func
      /\ token' = token /\ nest' = nest /\ phase' = phase
  BY EndSteps DEF End, programVars
<1>2. /\ stack' = stack
      /\ stack_current' = IF stack_current = 0 THEN 0 ELSE stack_current - 1
      /\ IF \/ stack_current = 0
            \/ write_func = "end_array" /\ Top \notin {"A", "a"}
            \/ write_func = "end_object" /\ Top \notin {"O", "o"}
         THEN Step("error")
         ELSE Step("tail") \/ Step("newline")
  BY EndSteps
<1>3. write_func # "prelude" /\ write_func \notin Begins /\ write_func \in {"end_array", "end_object"}
  BY <1>1 DEF Ends, Begins
<1>4. ASSUME ~broken, accepted PROVE state' # "error" /\ Progress'
  <2>1. Progress /\ nest \in Seq(Open)
    BY <1>1, <1>4, RunningFacts
  <2>2. StackMeansMore(nest) /\ write_func = token.function /\ Begun
    BY <1>1, <1>3, <2>1 DEF Progress
  <2>3. stack_current = Len(nest) + 1 /\ Len(nest) \in Nat
    BY <2>1, <2>2 DEF StackMeansMore
  <2>4. Top \in Closed(write_func)
    BY <2>2 DEF StackMeansMore
  <2>5. state' \in {"tail", "newline"}
    BY <1>2, <1>3, <2>3, <2>4 DEF Closed, Step
  <2>6. StackMeans(nest)'
    BY <1>1, <1>2, <2>2, <2>3 DEF StackMeans, StackMeansMore
  <2>7. Begun'
    BY <1>1, <2>2 DEF Begun
  <2> QED BY <1>1, <1>3, <2>1, <2>2, <2>5, <2>6, <2>7 DEF Progress
<1>5. ASSUME ~broken, ~accepted PROVE Refusal'
  <2>1. /\ phase = "token" /\ nest \in Seq(Open) /\ size > 0 /\ write_func = token.function
        /\ StackMeans(nest) /\ (nest = <<>> \/ Mismatched)
    BY <1>1, <1>5, RunningFacts
  <2>2. /\ nest = <<>> => stack_current = 0
        /\ J!InArray(nest) => Top \in {"A", "a"}
        /\ J!ExpectsMember(nest) => Top = "k"
    BY <2>1, TopMeans DEF SInv
  <2>3. Step("error")
    <3>1. CASE nest = <<>>
      BY <1>2, <2>2, <3>1
    <3>2. CASE Mismatched
      <4>1. \/ write_func = "end_array" /\ Top = "k"
            \/ write_func = "end_object" /\ Top \in {"A", "a"}
        BY <2>1, <2>2, <3>2, Zenon DEF Mismatched
      <4> QED BY <1>2, <4>1
    <3> QED BY <2>1, <3>1, <3>2
  <2>4. ~busy' /\ written' = -1
    BY <2>3 DEF Step
  <2>5. StackMeans(nest)' \/ Mismatched'
    <3>1. CASE nest = <<>>
      BY <1>1, <1>2, <2>2, <3>1 DEF StackMeans
    <3>2. CASE Mismatched
      BY <1>1, <3>2, Zenon DEF Mismatched
    <3> QED BY <2>1, <3>1, <3>2
  <2> QED BY <1>1, <2>1, <2>4, <2>5 DEF Refusal
<1> QED BY <1>1, <1>4, <1>5, RunMirror

LEMMA RunCallMirror == SInv /\ Mirror /\ RunCall => Mirror'
BY RunStays, StaysMirror, ResumeMirror, DummyMirror, PreludeMirror, CommaMirror, TailCallMirror,
   BeginMirror, EndMirror, Zenon DEF RunCall

-----------------------------------------------------------------------------
(* The nesting through the calls and between them. *)

\* Which of the two answers a call gets.
LEMMA CallFacts ==
  ASSUME NEW t, NEW n, CallWriter(t, n), t.function \in Values \cup Ends
  PROVE  LET f == t.function
             refused == \/ n = 0
                        \/ f = "end_array" /\ Top \in {"O", "o"}
                        \/ f = "end_object" /\ Top = "k"
                        \/ f \in Values \ {"string"} /\ Top \in {"O", "o"}
         IN  /\ refused => ~busy' /\ written' = -1
             /\ ~refused => /\ busy' /\ pending' = <<>> /\ state' = "START"
                            /\ f \in Ends => write_func' = f
                            /\ f \in Values => write_func' = "prelude" /\ next_write_func' = f
             /\ size' = n /\ UNCHANGED frameVars
<1> DEFINE f == t.function
           v == IF "value" \in DOMAIN t THEN t.value ELSE value
<1>1. CASE f \in Ends
  <2>1. WriteEnd(f, n) /\ f \notin Values
    BY <1>1 DEF CallWriter, Ends, Values
  <2> HIDE DEF f
  <2>2. f \in {"end_array", "end_object"}
    BY <1>1 DEF Ends
  <2>3. CASE n = 0 \/ RefusedEnd(f)
    <3>1. ~busy' /\ written' = -1 /\ size' = n /\ UNCHANGED frameVars
      BY <2>1, <2>3 DEF WriteEnd, Refuse
    <3> QED BY <2>1, <2>2, <2>3, <3>1 DEF RefusedEnd, f
  <2>4. CASE ~(n = 0 \/ RefusedEnd(f))
    <3>1. /\ busy' /\ pending' = <<>> /\ state' = "START" /\ write_func' = f
          /\ size' = n /\ UNCHANGED frameVars
      BY <2>1, <2>4 DEF WriteEnd, StartAt, Enter
    <3> QED BY <2>1, <2>2, <2>4, <3>1 DEF RefusedEnd, f
  <2> QED BY <2>3, <2>4
<1>2. CASE f \notin Ends
  <2>1. WriteValue(f, v, n) /\ f \in Values /\ f # "end_array" /\ f # "end_object"
    BY <1>2 DEF CallWriter, Ends
  <2> HIDE DEF f, v
  <2>2. CASE n = 0 \/ (f # "string" /\ Top \in {"O", "o"})
    <3>1. ~busy' /\ written' = -1 /\ size' = n /\ UNCHANGED frameVars
      BY <2>1, <2>2 DEF WriteValue, Refuse
    <3> QED BY <2>1, <2>2, <3>1 DEF f
  <2>3. CASE ~(n = 0 \/ (f # "string" /\ Top \in {"O", "o"}))
    <3>1. /\ busy' /\ pending' = <<>> /\ state' = "START"
          /\ write_func' = "prelude" /\ next_write_func' = f
          /\ size' = n /\ UNCHANGED frameVars
      BY <2>1, <2>3 DEF WriteValue, StartAt, Enter
    <3> QED BY <1>2, <2>1, <2>3, <3>1 DEF f
  <2> QED BY <2>2, <2>3
<1> QED BY <1>1, <1>2

\* A token that JSON allows is begun, on a stack that does not count it yet.
LEMMA LegalToken ==
  ASSUME SInv, nest \in Seq(Open), StackMeans(nest), NEW t, NEW n \in Nat, CallWriter(t, n),
         t.function \in Values \cup Ends, n > 0, J!Legal(nest, t.function),
         token' = t, nest' = J!After(nest, t.function)
  PROVE  nest' \in Seq(Open) /\ state' = "START" /\ Progress'
<1> DEFINE f == t.function
<1>1. StackOK /\ UNCHANGED frameVars
  BY CallFacts DEF SInv
<1>2. CASE f \in Ends
  <2>1. nest # <<>> /\ Top \in Closed(f)
    BY <1>1, <1>2, LegalFacts, TopMeans DEF Ends, Closed, J!InArray, J!ExpectsKey, J!InObject
  <2>2. /\ busy' /\ pending' = <<>> /\ state' = "START" /\ write_func' = f
    BY <1>2, <2>1, CallFacts DEF Ends, Closed, Values
  <2>3. nest' = SubSeq(nest, 1, Len(nest) - 1)
    BY <1>2, AfterFacts
  <2>4. nest' \in Seq(Open) /\ Len(nest') = Len(nest) - 1 /\ \A i \in 1 .. Len(nest) - 1 : nest'[i] = nest[i]
    BY <2>1, <2>3, FrontFacts
  <2>5. StackMeansMore(nest)'
    <3>1. Len(nest) \in Nat /\ Top' = Top
      BY <1>1 DEF frameVars, Top
    <3> QED BY <1>1, <2>1, <2>4, <3>1 DEF StackMeans, StackMeansMore, frameVars
  <2>6. token.function' = f /\ f \notin Begins /\ f # "prelude"
    BY <1>2 DEF Begins, Ends
  <2>7. Begun'
    BY <2>6 DEF Begun
  <2> HIDE DEF f
  <2> QED BY <1>2, <2>2, <2>4, <2>5, <2>6, <2>7 DEF Progress
<1>3. CASE f \in Values
  <2>1. f \notin Ends
    BY <1>3 DEF Values, Ends
  <2>2. /\ busy' /\ pending' = <<>> /\ state' = "START"
        /\ write_func' = "prelude" /\ next_write_func' = f
    <3>1. f = "string" \/ Top \notin {"O", "o"}
      BY <1>1, <1>3, LegalFacts, TopMeans
    <3> QED BY <1>3, <2>1, <3>1, CallFacts DEF Ends
  <2> DEFINE counted == Counted(nest)
  <2>3. counted \in Seq(Open) /\ StackMeansLess(counted)
    BY CountedFacts
  <2>4. nest' \in Seq(Open) /\ Around' = counted /\ Begun'
    <3>1. CASE f \in Begins
      <4> DEFINE begun == [kind |-> IF f = "begin_array" THEN "array" ELSE "object", count |-> 0]
      <4>1. nest' = Append(counted, begun)
        BY <1>3, <3>1, AfterFacts DEF Begins
      <4>2. begun \in Open
        BY DEF Open
      <4> HIDE DEF begun, counted
      <4>3. nest' \in Seq(Open) /\ nest' # <<>> /\ Len(nest') = Len(counted) + 1 /\ nest'[Len(nest')] = begun
        BY <2>3, <4>1, <4>2
      <4>4. SubSeq(nest', 1, Len(nest') - 1) = counted
        <5>1. \A i \in 1 .. Len(counted) : nest'[i] = counted[i]
          BY <2>3, <4>1, <4>2
        <5>2. Len(nest') - 1 = Len(counted)
          BY <2>3, <4>3
        <5> QED BY <2>3, <4>3, <5>1, <5>2, FrontFacts, SeqEqual
      <4> QED BY <3>1, <4>3, <4>4 DEF Around, Begun, begun
    <3>2. CASE f \notin Begins
      <4>1. nest' = counted
        BY <1>3, <3>2, AfterFacts DEF Leaf
      <4> QED BY <2>3, <3>2, <4>1 DEF Around, Begun
    <3> QED BY <3>1, <3>2
  <2>5. StackMeansLess(Around)'
    <3> HIDE DEF counted
    <3> QED BY <1>1, <2>3, <2>4 DEF StackMeansLess, frameVars
  <2>6. token.function' = f
    OBVIOUS
  <2> HIDE DEF f
  <2> QED BY <1>3, <2>2, <2>4, <2>5, <2>6 DEF Progress
<1> QED BY <1>2, <1>3

\* A token that JSON does not allow is refused, or it is one to close what is not open.
LEMMA IllegalToken ==
  ASSUME SInv, nest \in Seq(Open), StackMeans(nest), NEW t, NEW n \in Nat, CallWriter(t, n),
         t.function \in Values \cup Ends, ~(n > 0 /\ J!Legal(nest, t.function)),
         token' = t, nest' = nest, phase' = "token"
  PROVE  Refusal'
<1> DEFINE f == t.function
<1>1. StackOK /\ UNCHANGED frameVars /\ size' = n
  BY CallFacts DEF SInv
<1>2. StackMeans(nest)'
  BY <1>1 DEF StackMeans, frameVars
<1>3. /\ nest = <<>> <=> stack_current = 0
      /\ J!InArray(nest) <=> Top \in {"A", "a"}
      /\ J!ExpectsKey(nest) <=> Top \in {"O", "o"}
      /\ J!ExpectsMember(nest) <=> Top = "k"
      /\ Top \in {"A", "a", "O", "o", "k"} \/ stack_current = 0
  BY <1>1, TopMeans, TopOfStack DEF Frames
<1>4. CASE ~busy' /\ written' = -1
  BY <1>2, <1>4 DEF Refusal
<1>5. CASE ~(~busy' /\ written' = -1)
  <2>1. /\ n # 0
        /\ ~(f = "end_array" /\ Top \in {"O", "o"})
        /\ ~(f = "end_object" /\ Top = "k")
        /\ ~(f \in Values \ {"string"} /\ Top \in {"O", "o"})
        /\ busy' /\ pending' = <<>> /\ state' = "START"
        /\ f \in Ends => write_func' = f
    BY <1>5, CallFacts
  <2>0. ~J!Legal(nest, f)
    BY <2>1
  <2> HIDE DEF f
  <2>2. f \in Ends
    <3>1. ASSUME f \in Values \ {"string"} PROVE FALSE
      <4>1. J!Legal(nest, f) = ~J!ExpectsKey(nest)
        BY <3>1, LegalFacts, Zenon
      <4>2. ~J!ExpectsKey(nest)
        BY <1>3, <2>1, <3>1
      <4> QED BY <2>0, <4>1, <4>2, Zenon
    <3>2. ASSUME f = "string" PROVE FALSE
      <4>1. J!Legal(nest, f) = TRUE
        BY <3>2, LegalFacts DEF Values, f
      <4> QED BY <2>0, <4>1, Zenon
    <3> QED BY <3>1, <3>2 DEF f
  <2>3. \/ nest = <<>>
        \/ f = "end_array" /\ J!ExpectsMember(nest)
        \/ f = "end_object" /\ J!InArray(nest)
    <3>1. CASE f = "end_array"
      <4>1. J!Legal(nest, f) = J!InArray(nest)
        BY <2>2, <3>1, LegalFacts, Zenon
      <4>2. ~J!InArray(nest)
        BY <2>0, <4>1, Zenon
      <4> QED BY <1>3, <2>1, <3>1, <4>2
    <3>2. CASE f = "end_object"
      <4>1. J!Legal(nest, f) = J!ExpectsKey(nest)
        BY <2>2, <3>2, LegalFacts, Zenon
      <4>2. ~J!ExpectsKey(nest)
        BY <2>0, <4>1, Zenon
      <4> QED BY <1>3, <2>1, <3>2, <4>2
    <3> QED BY <2>2, <3>1, <3>2 DEF Ends
  <2>4. nest' = <<>> \/ Mismatched'
    <3>1. token'.function = f
      BY DEF f
    <3> QED BY <2>3, <3>1, Zenon DEF Mismatched
  <2>5. token'.function = f
    BY DEF f
  <2> QED BY <1>1, <1>2, <2>1, <2>2, <2>4, <2>5 DEF Refusal
<1> QED BY <1>4, <1>5

LEMMA WriteTokenMirror == SInv /\ Mirror /\ WriteToken => Mirror'
<1> SUFFICES ASSUME SInv, Mirror, WriteToken PROVE Mirror'
  OBVIOUS
<1>1. PICK t \in Tokens(made), n \in Sizes :
        /\ CallWriter(t, n) /\ token' = t
        /\ accepted' = (n > 0 /\ J!Legal(nest, t.function))
        /\ IF accepted' /\ ~broken THEN nest' = J!After(nest, t.function) ELSE nest' = nest
  BY DEF WriteToken
<1>2. phase = "free" /\ made < MaxCalls /\ n \in Nat /\ phase' = "token" /\ broken' = broken
  BY CallsAssumption DEF WriteToken
<1>3. t.function \in Values \cup Ends
  BY <1>2, TokenFacts DEF SInv
<1>4. nest \in Seq(Open) /\ (~broken => StackMeans(nest)) /\ size' = n
  BY <1>1, <1>2, <1>3, CallFacts DEF Mirror
<1>5. CASE broken
  BY <1>1, <1>2, <1>4, <1>5 DEF Mirror
<1>6. CASE ~broken /\ (n > 0 /\ J!Legal(nest, t.function))
  <2>1. accepted' /\ nest' = J!After(nest, t.function) /\ n > 0 /\ J!Legal(nest, t.function)
    BY <1>1, <1>6
  <2>2. nest' \in Seq(Open) /\ state' = "START" /\ Progress'
    BY <1>1, <1>3, <1>4, <1>6, <1>2, <2>1, LegalToken
  <2> QED BY <1>2, <1>4, <2>1, <2>2 DEF Mirror
<1>7. CASE ~broken /\ ~(n > 0 /\ J!Legal(nest, t.function))
  <2>1. ~accepted' /\ nest' = nest
    BY <1>1, <1>7
  <2>2. Refusal'
    BY <1>1, <1>2, <1>3, <1>4, <1>7, <2>1, IllegalToken
  <2> QED BY <1>2, <1>4, <2>1, <2>2 DEF Mirror
<1> QED BY <1>5, <1>6, <1>7

LEMMA TakeMirror == SInv /\ Mirror /\ Take => Mirror'
<1> SUFFICES ASSUME SInv, Mirror, Take PROVE Mirror'
  OBVIOUS
<1>1. /\ phase = "token" /\ ~busy /\ nest' = nest /\ nest \in Seq(Open)
      /\ UNCHANGED <<write_func, next_write_func, state, frameVars>>
      /\ written \in -1 .. size /\ size \in Nat
  BY DEF Take, Mirror, SInv, OutputOK
<1>2. ASSUME ~broken'
      PROVE  ~broken /\ (written >= 0 \/ size = 0 \/ (~accepted /\ ~Mismatched))
  <2>1. broken' = (broken \/ (written < 0 /\ size > 0 /\ (accepted \/ Mismatched)))
    BY DEF Take
  <2> HIDE DEF Mirror, SInv, Mismatched
  <2>2. ~broken /\ ~(written < 0 /\ size > 0 /\ (accepted \/ Mismatched))
    BY <1>2, <2>1, Zenon
  <2>3. written >= 0 <=> ~(written < 0)
    BY <1>1
  <2>4. size = 0 <=> ~(size > 0)
    BY <1>1
  <2> QED BY <2>2, <2>3, <2>4, Zenon
<1>3. CASE ~broken' /\ ~accepted
  <2>1. Refusal
    BY <1>1, <1>2, <1>3 DEF Mirror
  <2>2. written = -1 /\ StackMeans(nest)
    BY <1>1, <1>2, <1>3, <2>1 DEF Refusal
  <2>3. phase' = "free"
    BY <2>2 DEF Take
  <2>4. StackMeans(nest)'
    BY <1>1, <2>2 DEF StackMeans, frameVars
  <2> QED BY <1>1, <2>3, <2>4 DEF Mirror
<1>4. CASE ~broken' /\ accepted
  <2>1. size > 0 /\ written >= 0 /\ state # "error" /\ Progress
    <3>1. /\ size > 0
          /\ IF state = "error" THEN written = -1 ELSE Progress
      BY <1>1, <1>2, <1>4 DEF Mirror
    <3>2. written >= 0
      BY <1>2, <1>4, <3>1
    <3> QED BY <3>1, <3>2
  <2>2. state # "START"
    BY <1>1, <2>1 DEF Progress
  <2>3. CASE written > 0 /\ written = size
    <3>1. phase' = "more" /\ token' = token /\ accepted' = accepted
      BY <2>3 DEF Take
    <3>2. Progress'
      <4>1. /\ Begun' <=> Begun
            /\ StackMeans(nest)' <=> StackMeans(nest)
            /\ StackMeans(Around)' <=> StackMeans(Around)
            /\ StackMeansLess(Around)' <=> StackMeansLess(Around)
        BY <1>1, <3>1 DEF frameVars, Begun, StackMeans, Around, StackMeansLess
      <4> QED BY <1>1, <2>1, <2>2, <3>1, <4>1 DEF Progress
    <3> QED BY <1>1, <1>4, <2>1, <3>1, <3>2 DEF Mirror
  <2>4. CASE ~(written > 0 /\ written = size)
    <3>1. phase' = "free"
      BY <2>4 DEF Take
    <3>2. written < size
      BY <1>1, <2>1, <2>4
    <3>3. state = "done"
      BY <1>1, <2>1, <2>2, <3>2 DEF SInv, OutputOK, ShortCountMeansDone
    <3>4. write_func # "prelude"
      BY <3>3 DEF SInv, LabelsOK, PreludeLabels
    <3>5. StackMeans(nest)
      BY <2>1, <3>3, <3>4 DEF Progress
    <3>6. StackMeans(nest)'
      BY <1>1, <3>5 DEF StackMeans, frameVars
    <3> QED BY <1>1, <3>1, <3>6 DEF Mirror
  <2> QED BY <2>3, <2>4
<1>5. CASE broken'
  BY <1>1, <1>5 DEF Mirror
<1> QED BY <1>3, <1>4, <1>5

LEMMA GoOnMirror == SInv /\ Mirror /\ GoOn => Mirror'
<1> SUFFICES ASSUME SInv, Mirror, GoOn PROVE Mirror'
  OBVIOUS
<1>1. PICK n \in Sizes \ {0} : Continue(n)
  BY DEF GoOn
<1>2. /\ n \in Nat /\ n > 0 /\ phase = "more" /\ ~busy /\ phase' = "token"
      /\ UNCHANGED <<token, accepted, nest, broken>>
  BY CallsAssumption DEF GoOn, SInv, ProgramOK
<1>3. size' = n /\ UNCHANGED <<write_func, next_write_func, state, frameVars>>
  BY <1>1, <1>2 DEF Continue, Enter
<1>4. ASSUME ~broken PROVE accepted /\ state # "error" /\ Progress'
  <2>1. accepted /\ state # "error" /\ Progress
    BY <1>2, <1>4 DEF Mirror, Refusal
  <2>2. state # "START"
    BY <1>2, <2>1 DEF Progress
  <2>3. /\ Begun' <=> Begun
        /\ StackMeans(nest)' <=> StackMeans(nest)
        /\ StackMeans(Around)' <=> StackMeans(Around)
        /\ StackMeansLess(Around)' <=> StackMeansLess(Around)
    BY <1>2, <1>3 DEF frameVars, Begun, StackMeans, Around, StackMeansLess
  <2> QED BY <1>2, <1>3, <2>1, <2>2, <2>3 DEF Progress
<1> QED BY <1>2, <1>3, <1>4 DEF Mirror

LEMMA StartAnewMirror == SInv /\ Mirror /\ StartAnew => Mirror'
<1> SUFFICES ASSUME SInv, Mirror, StartAnew PROVE Mirror'
  OBVIOUS
<1>1. nest' = <<>> /\ phase' = "free" /\ stack_current' = 0
  BY DEF StartAnew, Reset
<1>2. StackMeans(nest)'
  BY <1>1 DEF StackMeans
<1> QED BY <1>1, <1>2 DEF Mirror

LEMMA InitMirror == CallsInit => Mirror
BY DEF CallsInit, WriterInit, Mirror, StackMeans

LEMMA NextMirror == SInv /\ Mirror /\ [CallsNext]_allVars => Mirror'
<1>1. SInv /\ Mirror /\ UNCHANGED allVars => Mirror'
  <2> SUFFICES ASSUME SInv, Mirror, UNCHANGED allVars PROVE Mirror'
    OBVIOUS
  <2>1. UNCHANGED <<configVars, write_func, next_write_func, state, frameVars, nesting_written,
                    callVars, value, size>> /\ UNCHANGED programVars
    BY DEF allVars, vars
  <2>2. Progress' <=> Progress
    BY <2>1, SameStack DEF Progress, callVars, programVars
  <2>3. Mismatched' <=> Mismatched
    BY <2>1 DEF Mismatched, programVars
  <2>4. Refusal' <=> Refusal
    BY <2>1, <2>3, SameStack DEF Refusal, callVars, programVars
  <2> QED BY <2>1, <2>2, <2>4, SameStack DEF Mirror, callVars, programVars
<1> QED
  BY <1>1, RunCallMirror, WriteTokenMirror, TakeMirror, GoOnMirror, StartAnewMirror, Zenon
  DEF CallsNext, Proceed, Exit

-----------------------------------------------------------------------------
(* The theorem about the nesting. *)

\* The inductive invariant of the stack and what is open.
THEOREM StackMirrors == CallsSpec => []Mirror
BY StructureInvariance, InitMirror, NextMirror, PTL DEF CallsSpec

\* Between tokens the stack says what is open, whatever was refused before, in however many
\* buffers the tokens were put, for stacks and buffers of all sizes.
THEOREM NestingIsKept == CallsSpec => []StackIsNest
<1>1. Mirror => StackIsNest
  <2> SUFFICES ASSUME Mirror, phase = "free", ~broken
               PROVE  stack_current = Len(nest) /\ \A i \in DOMAIN nest : Means(stack[i], nest[i])
    BY DEF StackIsNest
  <2>1. StackMeans(nest) /\ DOMAIN nest = 1 .. Len(nest)
    BY DEF Mirror
  <2> QED BY <2>1 DEF StackMeans
<1> QED BY <1>1, StackMirrors, PTL
=============================================================================
