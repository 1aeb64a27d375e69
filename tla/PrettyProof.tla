----------------------------- MODULE PrettyProof -----------------------------
(***************************************************************************)
(* The writer of the pretty printer takes every token of its parser, for   *)
(* all sizes of the stacks and buffers, all files, all ways they are cut   *)
(* into chunks, and whatever realloc and fwrite answer.  The frames of the *)
(* writer fit what the grammar of tokens expects, frame by frame; while a  *)
(* token is written the innermost frames are ahead of it or behind it by   *)
(* what the function that runs has still to do to them.                    *)
(***************************************************************************)
EXTENDS PrettyPrint, ParserGrammar

\* fread() reads bytes: what may follow bytes of the file are bytes.
FreadBytes ==
  \A e \in Encodings, d \in Seq(Byte) : Fread(e, d) \subseteq Seq(Byte)

\* The text of a double with 16 digits fits into the buffer it is printed to.
PrintfFits ==
  \A d \in Doubles :
    \/ Snprintf(d) = NULL
    \/ Snprintf(d) \in Seq(Byte) /\ Len(Snprintf(d)) <= NUMBER_SIZE

-----------------------------------------------------------------------------
(* The frames of the writer and the expectations of the grammar. *)

\* The frame of a container and what it expects.
Fits(frame, expected) ==
  \/ frame = "none" /\ expected \in {"doc", "end"}
  \/ frame \in {"A", "a"} /\ expected = "array"
  \/ frame \in {"O", "o"} /\ expected = "key"
  \/ frame = "k" /\ expected = "val"

\* The n outermost frames fit, and all of them up to the n-th.
Agree(st, n, e) == \A i \in 0 .. n - 1 : Fits(st[i], e[i + 1])
Matches(st, n, e) == Len(e) = n + 1 /\ Agree(st, n, e) /\ Fits(st[n], e[n + 1])

\* What an answer makes of what is expected, as the grammar has it.
Takes(e, t, f) ==
  LET Innermost == e[Len(e)]
      Taken == [e EXCEPT ![Len(e)] = Grammar!AfterValue(@)]
      ExpectsValue == Innermost \in {"doc", "array", "val"}
  IN  \/ ExpectsValue /\ t \in Grammar!Scalars /\ f = Taken
      \/ Innermost = "key" /\ t = "STRING" /\ f = [e EXCEPT ![Len(e)] = "val"]
      \/ ExpectsValue /\ t = "BEGIN_ARRAY" /\ f = Append(Taken, "array")
      \/ ExpectsValue /\ t = "BEGIN_OBJECT" /\ f = Append(Taken, "key")
      \/ Innermost = "array" /\ t = "END_ARRAY" /\ f = SubSeq(e, 1, Len(e) - 1)
      \/ Innermost = "key" /\ t = "END_OBJECT" /\ f = SubSeq(e, 1, Len(e) - 1)
      \/ t \in {"END", "NEED_DATA"} /\ f = e
      \/ t = "ERROR"

-----------------------------------------------------------------------------
(* The invariant of the writer while a token is written. *)

Begins == {"begin_array", "begin_object"}
Leaves == {"null", "boolean", "number", "integer", "string"}
PreludeLabels == {"START", "comma", "newline", "more", "tail"}
Containers == {"A", "a", "O", "o"}

\* A sequence of whatever is put into a buffer.
IsSeq(s) == \E S : s \in Seq(S)

\* The buffer of the call that runs, or that returned, and the result of the latter.
ResultOK ==
  /\ written \in Int
  /\ written < 0 <=> state = "error"
  /\ written >= 0 /\ written < size => state = "done"
OutputOK ==
  /\ IsSeq(out) /\ IsSeq(pending)
  /\ size \in Nat /\ Len(out) <= size
  /\ busy \in BOOLEAN
  /\ IF busy THEN state # "error" ELSE ResultOK

\* The stack has the size recorded for it, and a bottom.
WStackOK ==
  /\ wstack_size \in Nat /\ wstack_current \in 0 .. wstack_size - 1
  /\ wstack \in [0 .. wstack_size - 1 -> W!Frames \cup {"uninit"}]
  /\ wstack[0] = "none"

\* The labels of a function, and what is known at them.
LabelOK ==
  /\ write_func \in {"prelude"} \cup Leaves \cup Begins \cup W!Ends
  /\ write_func = "prelude" => next_write_func \in Leaves \cup Begins /\ state \in PreludeLabels
  /\ write_func = "prelude" /\ state = "comma" => W!Top \in Containers
  /\ state \in {"newline", "more"} => indent # NULL

\* The function that looks at the argument.
Writes == IF write_func = "prelude" THEN next_write_func ELSE write_func

\* A string from the byte the writer is at; a sequence that is copied is left out.
StringAt(v, label) ==
  \E s, c, u :
    /\ v = [string |-> s, encoding |-> "UTF8", count |-> c, utf16 |-> u]
    /\ s \in Seq(Byte)
    /\ label \notin {"copy", "copied"} => WellFormed(s)
    /\ label \in {"copy", "copied"} =>
         c \in 1 .. Len(s) /\ WellFormed(SubSeq(s, c + 1, Len(s)))
    /\ label \in {"skip", "high", "low"} => s # <<>> /\ s[1] < 128

\* The argument is what the function, at its label, takes it for.
ArgumentOK ==
  /\ Writes = "number" =>
       wvalue.number = NULL \/ (wvalue.number \in Seq(Byte) /\ Len(wvalue.number) <= NUMBER_SIZE)
  /\ Writes = "string" => StringAt(wvalue, IF write_func = "string" THEN state ELSE "START")

\* The frame of a container that has taken a value or a key more.
Counted(frame) ==
  CASE frame \in {"A", "a"} -> "a"
    [] frame \in {"O", "o"} -> "k"
    [] frame = "k"          -> "o"
    [] OTHER                -> frame

Opened(function) == IF function = "begin_array" THEN "A" ELSE "O"
Closable(function) == IF function = "end_array" THEN {"A", "a"} ELSE {"O", "o"}

\* What the function has still to do: to count the value, to push a frame, to pop it.
Counting == write_func = "prelude" /\ state \in {"START", "comma"}
Pushing ==
  \/ write_func = "prelude" /\ next_write_func \in Begins
  \/ write_func \in Begins /\ state = "START"
Popping == write_func \in W!Ends /\ state = "START"

\* The frames fit what the grammar expects behind the token but for what is left to do.
Nested ==
  /\ Agree(wstack, wstack_current, Expected)
  /\ Popping => /\ wstack_current > 0 /\ W!Top \in Closable(write_func)
                /\ Len(Expected) = wstack_current
  /\ ~Popping => Fits(IF Counting THEN Counted(W!Top) ELSE W!Top, Expected[wstack_current + 1])
  /\ Pushing => /\ Len(Expected) = wstack_current + 2
                /\ Fits(Opened(Writes), Expected[wstack_current + 2])
  /\ ~Popping /\ ~Pushing => Len(Expected) = wstack_current + 1

\* A call fails only where the stack is to grow.
Writing ==
  /\ size = OUTBUF
  /\ OutputOK /\ LabelOK /\ ArgumentOK
  /\ state # "error" => Nested
  /\ state = "error" => write_func \in Begins /\ wstack_current + 1 = wstack_size

-----------------------------------------------------------------------------
(* The invariant of the program. *)

Linked ==
  /\ WStackOK /\ indent \in Indents
  /\ phase \in {"read", "tokens"} \/ (phase = "parse" /\ pc # "idle") =>
       Matches(wstack, wstack_current, Expected)
  /\ phase = "parse" /\ pc = "idle" =>
       /\ tok \in Replies
       /\ \E e \in Seq(Grammar!Expectations) :
            Matches(wstack, wstack_current, e) /\ Takes(e, tok, Expected)
  /\ phase = "write" => Writing

PInv ==
  /\ IInv /\ KeyInv /\ TextInv /\ Numerals /\ Suited
  /\ doc \in Seq(Byte)
  /\ phase \in {"read", "tokens", "parse", "write", "done"}
  /\ phase # "parse" => pc = "idle"
  /\ "NUMBER_AS_STRING" \notin flags => Linked

-----------------------------------------------------------------------------
(* Putting bytes. *)

\* Short tuples are sequences.
LEMMA ShortSeqs ==
  /\ IsSeq(<<>>)
  /\ \A a : IsSeq(<<a>>)
  /\ \A a, b : IsSeq(<<a, b>>)
  /\ \A a, b, c, d : IsSeq(<<a, b, c, d>>)
  /\ \A a, b, c, d, e : IsSeq(<<a, b, c, d, e>>)
<1>1. <<>> \in Seq({})
  OBVIOUS
<1>2. ASSUME NEW a PROVE <<a>> \in Seq({a})
  OBVIOUS
<1>3. ASSUME NEW a, NEW b PROVE <<a, b>> \in Seq({a, b})
  OBVIOUS
<1>4. ASSUME NEW a, NEW b, NEW c, NEW d PROVE <<a, b, c, d>> \in Seq({a, b, c, d})
  OBVIOUS
<1>5. ASSUME NEW a, NEW b, NEW c, NEW d, NEW e PROVE <<a, b, c, d, e>> \in Seq({a, b, c, d, e})
  OBVIOUS
<1> QED BY <1>1, <1>2, <1>3, <1>4, <1>5, Zenon DEF IsSeq

\* Sequences that are joined are a sequence.
LEMMA JoinedSeq ==
  ASSUME NEW a, NEW b, IsSeq(a), IsSeq(b)
  PROVE  IsSeq(a \o b) /\ Len(a \o b) = Len(a) + Len(b) /\ Len(a) \in Nat /\ Len(b) \in Nat
<1>1. PICK S : a \in Seq(S)
  BY Zenon DEF IsSeq
<1>2. PICK T : b \in Seq(T)
  BY Zenon DEF IsSeq
<1>3. a \in Seq(S \cup T) /\ b \in Seq(S \cup T)
  <2>1. \A i \in 1 .. Len(a) : a[i] \in S \cup T
    BY <1>1
  <2>2. \A i \in 1 .. Len(b) : b[i] \in S \cup T
    BY <1>2
  <2>3. a \in Seq(S \cup T)
    BY <1>1, <2>1, SeqDef, LenProperties
  <2>4. b \in Seq(S \cup T)
    BY <1>2, <2>2, SeqDef, LenProperties
  <2> QED BY <2>3, <2>4
<1>4. a \o b \in Seq(S \cup T) /\ Len(a \o b) = Len(a) + Len(b) /\ Len(a) \in Nat /\ Len(b) \in Nat
  BY <1>3
<1> QED BY <1>4, Zenon DEF IsSeq

\* So are the two parts of a sequence that is cut.
LEMMA CutSeq ==
  ASSUME NEW a, IsSeq(a), NEW n \in Nat, n <= Len(a)
  PROVE  /\ IsSeq(SubSeq(a, 1, n)) /\ Len(SubSeq(a, 1, n)) = n
         /\ IsSeq(SubSeq(a, n + 1, Len(a)))
<1>1. PICK S : a \in Seq(S)
  BY Zenon DEF IsSeq
<1>2. /\ SubSeq(a, 1, n) \in Seq(S) /\ Len(SubSeq(a, 1, n)) = n
      /\ SubSeq(a, n + 1, Len(a)) \in Seq(S)
  BY <1>1
<1> QED BY <1>2, Zenon DEF IsSeq

\* Putting a sequence, going on at a label, and the answer behind the last byte.
LEMMA PutOK ==
  ASSUME OutputOK, busy, NEW bytes, IsSeq(bytes), NEW label, label # "error",
         W!Put(bytes, label), size' = size
  PROVE  OutputOK' /\ state' = label
<1> DEFINE nfree == size - Len(out)
<1>0. /\ nfree \in Nat /\ Len(out) \in Nat /\ Len(bytes) \in Nat /\ size \in Nat
      /\ IsSeq(out) /\ IsSeq(pending)
  BY JoinedSeq, ShortSeqs DEF OutputOK
<1>1. CASE Len(bytes) <= nfree
  <2>1. /\ out' = out \o bytes /\ pending' = <<>> /\ busy' = busy /\ written' = written
        /\ state' = label
    BY <1>1 DEF W!Put
  <2>2. IsSeq(out') /\ Len(out') = Len(out) + Len(bytes)
    BY <1>0, <2>1, JoinedSeq
  <2>3. IsSeq(pending') /\ Len(out') <= size'
    BY <1>0, <1>1, <2>1, <2>2, ShortSeqs
  <2> QED BY <2>1, <2>2, <2>3 DEF OutputOK
<1>2. CASE ~(Len(bytes) <= nfree)
  <2>1. /\ out' = out \o SubSeq(bytes, 1, nfree)
        /\ pending' = SubSeq(bytes, nfree + 1, Len(bytes))
        /\ busy' = FALSE /\ written' = size /\ state' = label
    BY <1>2 DEF W!Put, W!Return
  <2>2. /\ IsSeq(SubSeq(bytes, 1, nfree)) /\ Len(SubSeq(bytes, 1, nfree)) = nfree
        /\ IsSeq(pending')
    <3>1. nfree <= Len(bytes)
      BY <1>0, <1>2
    <3> HIDE DEF nfree
    <3> QED BY <1>0, <2>1, <3>1, CutSeq
  <2>3. IsSeq(out') /\ Len(out') = Len(out) + nfree
    <3> HIDE DEF nfree
    <3> QED BY <1>0, <2>1, <2>2, JoinedSeq
  <2>4. Len(out') <= size' /\ size' \in Nat
    BY <1>0, <2>3
  <2>5. ResultOK'
    BY <1>0, <2>1 DEF ResultOK
  <2> QED BY <2>1, <2>2, <2>3, <2>4, <2>5 DEF OutputOK
<1> QED BY <1>1, <1>2

\* Going on at a label.
LEMMA GotoOK ==
  ASSUME OutputOK, busy, NEW label, label # "error", W!Goto(label), size' = size
  PROVE  OutputOK' /\ state' = label
BY DEF OutputOK, W!Goto, W!callVars

\* Leaving a call whose token is written.
LEMMA DoneOK ==
  ASSUME OutputOK, busy, W!Done, size' = size
  PROVE  OutputOK' /\ state' = "done"
<1>1. /\ busy' = FALSE /\ written' = Len(out) /\ pending' = pending /\ out' = out
      /\ state' = "done"
  BY DEF W!Done, W!Return
<1>2. Len(out) \in Nat
  BY JoinedSeq DEF OutputOK
<1>3. ResultOK'
  BY <1>1, <1>2 DEF ResultOK
<1> QED BY <1>1, <1>3 DEF OutputOK

\* Leaving a call with an error.
LEMMA RaiseErrorOK ==
  ASSUME OutputOK, W!RaiseError, size' = size
  PROVE  OutputOK' /\ state' = "error"
<1>1. busy' = FALSE /\ written' = -1 /\ pending' = pending /\ out' = out /\ state' = "error"
  BY DEF W!RaiseError, W!Return
<1>2. ResultOK'
  BY <1>1 DEF ResultOK
<1> QED BY <1>1, <1>2 DEF OutputOK

-----------------------------------------------------------------------------
(* Steps of the writer that leave the frames alone. *)

FramesSame ==
  UNCHANGED <<wflags, indent, write_func, next_write_func, wstack, wstack_size, wstack_current>>

\* A step puts bytes, or looks at the argument.
Stays ==
  /\ FramesSame /\ size' = size
  /\ OutputOK' /\ ArgumentOK'
  /\ state' # "error"
  /\ \/ state' = state
     \/ write_func \in Leaves
     \/ state \notin {"START", "comma"} /\ state' \notin {"START", "comma"}
  /\ state' \in {"newline", "more"} => indent # NULL
  /\ write_func = "prelude" => state' \in PreludeLabels

\* The functions are different ones.
LEMMA FunctionFacts ==
  /\ "prelude" \notin Leaves \cup Begins \cup W!Ends
  /\ Leaves \cap (Begins \cup W!Ends) = {} /\ Begins \cap W!Ends = {}
  /\ {"number", "string"} \subseteq Leaves
  /\ W!Values = Leaves \cup Begins
  /\ "dummy" \notin {"prelude"} \cup Leaves \cup Begins \cup W!Ends
BY DEF Leaves, Begins, W!Ends, W!Values

\* Such a step leaves what is known of a token that is written.
LEMMA StaysWriting ==
  ASSUME Writing, busy, Stays, UNCHANGED vars
  PROVE  Writing'
<1>1. state # "error" /\ state' # "error"
  BY DEF Writing, OutputOK, Stays
<1>2. Expected' = Expected
  BY DEF vars, stackVars, Top, Expected
<1>3. /\ write_func' = write_func /\ next_write_func' = next_write_func
      /\ wstack' = wstack /\ wstack_current' = wstack_current /\ wstack_size' = wstack_size
      /\ W!Top' = W!Top /\ indent' = indent /\ size' = size
  BY DEF Stays, FramesSame, W!Top
<1>4. Counting' = Counting /\ Pushing' = Pushing /\ Popping' = Popping
  BY <1>3, FunctionFacts DEF Stays, Counting, Pushing, Popping
<1>5. Nested
  BY <1>1 DEF Writing
<1>6. Writes' = Writes
  BY <1>3 DEF Writes
<1>7. Nested'
  BY <1>2, <1>3, <1>4, <1>5, <1>6 DEF Nested
<1>8. LabelOK'
  <2>1. write_func = "prelude" /\ state' = "comma" => state = "comma"
    BY FunctionFacts DEF Stays
  <2> QED BY <1>3, <2>1 DEF Writing, Stays, LabelOK
<1>9. OutputOK' /\ ArgumentOK' /\ size' = OUTBUF
  BY <1>3 DEF Writing, Stays
<1> QED BY <1>1, <1>7, <1>8, <1>9 DEF Writing

\* The argument of a function that does not look at it, or that is not a string.
LEMMA ArgumentSame ==
  ASSUME ArgumentOK, write_func' = write_func, next_write_func' = next_write_func,
         \/ Writes \notin {"number", "string"}
         \/ Writes = "number" /\ wvalue' = wvalue
         \/ Writes = "string" /\ wvalue' = wvalue /\ (write_func = "prelude" \/ state' = state)
  PROVE  ArgumentOK'
<1>1. Writes' = Writes
  BY DEF Writes
<1>2. CASE Writes \notin {"number", "string"}
  BY <1>1, <1>2 DEF ArgumentOK
<1>3. CASE Writes = "number" /\ wvalue' = wvalue
  BY <1>1, <1>3 DEF ArgumentOK
<1>4. CASE Writes = "string" /\ wvalue' = wvalue /\ (write_func = "prelude" \/ state' = state)
  <2>1. (IF write_func' = "string" THEN state' ELSE "START") = IF write_func = "string" THEN state ELSE "START"
    BY <1>4
  <2> QED BY <1>1, <1>4, <2>1 DEF ArgumentOK
<1> QED BY <1>2, <1>3, <1>4

\* What is left of a piece is put first; the label behind the last byte.
LEMMA ResumeStays ==
  ASSUME Writing, W!Resume
  PROVE  Stays
<1>1. busy /\ W!Put(pending, state) /\ size' = size /\ FramesSame /\ wvalue' = wvalue
  BY DEF W!Resume, W!configVars, W!frameVars, FramesSame
<1>2. OutputOK /\ ArgumentOK /\ LabelOK /\ state # "error" /\ IsSeq(pending)
  BY <1>1 DEF Writing, OutputOK
<1>3. OutputOK' /\ state' = state
  BY <1>1, <1>2, PutOK
<1>4. ArgumentOK'
  BY <1>1, <1>2, <1>3, ArgumentSame DEF FramesSame, Writes
<1> QED BY <1>1, <1>2, <1>3, <1>4 DEF Stays, LabelOK

\* A call that comes to the end again says so again.
LEMMA FinishStays ==
  ASSUME Writing, W!Finish
  PROVE  Stays
<1>1. busy /\ size' = size /\ FramesSame /\ wvalue' = wvalue
  BY DEF W!Finish, W!configVars, W!frameVars, FramesSame
<1>2. OutputOK /\ ArgumentOK /\ LabelOK /\ state # "error" /\ write_func # "dummy"
  BY <1>1, FunctionFacts DEF Writing, OutputOK, LabelOK
<1>3. state = "done" /\ W!Done
  BY <1>2 DEF W!Finish
<1>4. OutputOK' /\ state' = state
  BY <1>1, <1>2, <1>3, DoneOK
<1>5. ArgumentOK'
  BY <1>1, <1>2, <1>4, ArgumentSame DEF FramesSame, Writes
<1> QED BY <1>1, <1>2, <1>3, <1>4, <1>5 DEF Stays, LabelOK

\* A step of a function that writes a value puts a sequence, or just goes on.
Puts(label) == (\E bytes : IsSeq(bytes) /\ W!Put(bytes, label)) \/ W!Goto(label)

\* Such a step is one of those that leave the frames alone.
LEMMA PutsStay ==
  ASSUME Writing, busy, write_func \in Leaves, FramesSame, size' = size,
         NEW label, label \notin {"error", "newline", "more"}, Puts(label),
         OutputOK' /\ state' = label => ArgumentOK'
  PROVE  Stays
<1>1. OutputOK' /\ state' = label
  BY PutOK, GotoOK DEF Writing, Puts
<1>2. write_func # "prelude"
  BY FunctionFacts
<1> QED BY <1>1, <1>2 DEF Stays

\* Literals, numbers and integers.
LEMMA LiteralStays ==
  ASSUME Writing, W!Literal
  PROVE  Stays
<1>1. /\ busy /\ size' = size /\ FramesSame /\ wvalue' = wvalue
      /\ write_func \in {"null", "boolean"}
  BY DEF W!Literal, W!At, W!configVars, W!frameVars, FramesSame
<1>2. Puts("done")
  <2>1. IsSeq(W!Text.null) /\ IsSeq(W!Text.true) /\ IsSeq(W!Text.false)
    BY ShortSeqs DEF W!Text
  <2>2. CASE W!Put(W!Text.null, "done")
    BY <2>1, <2>2 DEF Puts
  <2>3. CASE W!Put(IF wvalue.boolean THEN W!Text.true ELSE W!Text.false, "done")
    <3>1. IsSeq(IF wvalue.boolean THEN W!Text.true ELSE W!Text.false)
      BY <2>1, Zenon
    <3> QED BY <2>3, <3>1, Zenon DEF Puts
  <2> QED BY <2>2, <2>3 DEF W!Literal
<1>3. Writes \notin {"number", "string"} /\ write_func \in Leaves
  BY <1>1 DEF Writes, Leaves
<1>4. ArgumentOK'
  BY <1>1, <1>3, ArgumentSame DEF Writing, FramesSame
<1> QED BY <1>1, <1>2, <1>3, <1>4, PutsStay

\* What snprintf writes of a text is a sequence.
LEMMA PrintedSeq ==
  ASSUME NEW text \in Seq(Byte), NEW n \in Nat
  PROVE  IsSeq(W!Printed(text, n))
<1>1. W!Printed(text, n) \in Seq(Byte)
  <2>1. CASE Len(text) < n
    BY <2>1 DEF W!Printed
  <2>2. CASE ~(Len(text) < n)
    BY <2>2 DEF W!Printed
  <2> QED BY <2>1, <2>2
<1> QED BY <1>1, Zenon DEF IsSeq

\* The text of a number fits, so printing it does not fail.
LEMMA NumberStays ==
  ASSUME Writing, W!Number
  PROVE  Stays
<1> DEFINE text == wvalue.number
           nfree == size - Len(out)
<1>1. /\ busy /\ size' = size /\ FramesSame /\ wvalue' = wvalue
      /\ write_func = "number" /\ W!PutNumber(text)
  BY DEF W!Number, W!At, W!configVars, W!frameVars, FramesSame
<1>2. Writes = "number" /\ write_func \in Leaves
  BY <1>1 DEF Writes, Leaves
<1>3. text = NULL \/ (text \in Seq(Byte) /\ Len(text) <= NUMBER_SIZE)
  BY <1>2 DEF Writing, ArgumentOK
<1>4. nfree \in Nat /\ NUMBER_SIZE \in Nat
  <2>1. Len(out) \in Nat
    BY JoinedSeq DEF Writing, OutputOK
  <2> QED BY <2>1, PrettyAssumption DEF Writing, OutputOK
<1>5. Puts("done")
  <2>1. CASE text = NULL
    <3>1. IsSeq(W!Text.null)
      BY ShortSeqs DEF W!Text
    <3> QED BY <1>1, <2>1, <3>1 DEF W!PutNumber, Puts
  <2>2. CASE text # NULL
    <3>1. text \in Seq(Byte) /\ Len(text) <= NUMBER_SIZE
      BY <1>3, <2>2
    <3>2. ~(Len(text) > IF nfree >= NUMBER_SIZE THEN nfree ELSE NUMBER_SIZE)
      BY <1>4, <3>1
    <3>3. IsSeq(W!Printed(text, nfree)) /\ IsSeq(W!Printed(text, NUMBER_SIZE))
      BY <1>4, <3>1, PrintedSeq
    <3>4. IsSeq(W!Printed(text, nfree) \o (IF Len(text) = nfree THEN <<0>> ELSE <<>>))
      <4>1. IsSeq(IF Len(text) = nfree THEN <<0>> ELSE <<>>)
        BY ShortSeqs
      <4> HIDE DEF text, nfree
      <4> QED BY <3>3, <4>1, JoinedSeq
    <3>5. \/ W!Put(W!Printed(text, nfree) \o (IF Len(text) = nfree THEN <<0>> ELSE <<>>), "done")
          \/ W!Put(W!Printed(text, NUMBER_SIZE), "done")
      BY <1>1, <2>2, <3>2 DEF W!PutNumber
    <3> QED BY <3>3, <3>4, <3>5, Zenon DEF Puts
  <2> QED BY <2>1, <2>2
<1>6. ArgumentOK'
  BY <1>1, <1>2, ArgumentSame DEF Writing, FramesSame
<1> QED BY <1>1, <1>2, <1>5, <1>6, PutsStay

\* The sign and the digits of an integer.
LEMMA IntegerStays ==
  ASSUME Writing, W!IntegerSign \/ W!IntegerMagnitude \/ W!IntegerScale \/ W!IntegerDigit
  PROVE  Stays
<1>1. busy /\ size' = size /\ FramesSame /\ write_func = "integer"
  BY DEF W!IntegerSign, W!IntegerMagnitude, W!IntegerScale, W!IntegerDigit, W!At, W!configVars,
         W!frameVars, FramesSame
<1>2. \E label \in {"done", "magnitude", "scale", "digit"} : Puts(label)
  <2>1. CASE W!IntegerSign
    BY <2>1, ShortSeqs DEF W!IntegerSign, Puts
  <2>2. CASE W!IntegerMagnitude
    BY <2>2 DEF W!IntegerMagnitude, Puts
  <2>3. CASE W!IntegerScale
    BY <2>3 DEF W!IntegerScale, Puts
  <2>4. CASE W!IntegerDigit
    BY <2>4, ShortSeqs DEF W!IntegerDigit, Puts
  <2> QED BY <2>1, <2>2, <2>3, <2>4
<1>3. Writes \notin {"number", "string"} /\ write_func \in Leaves
  BY <1>1 DEF Writes, Leaves
<1>4. ArgumentOK'
  BY <1>1, <1>3, ArgumentSame DEF Writing, FramesSame
<1> QED BY <1>1, <1>2, <1>3, <1>4, PutsStay

-----------------------------------------------------------------------------
(* Strings: the parser's are decoded to their end, so the writer takes them. *)

Record(s, c, u) == [string |-> s, encoding |-> "UTF8", count |-> c, utf16 |-> u]

\* What is known at a label, of the fields of the argument.
LEMMA StringFields ==
  ASSUME NEW v, NEW label, StringAt(v, label)
  PROVE  /\ v = Record(v.string, v.count, v.utf16)
         /\ v.string \in Seq(Byte) /\ v.encoding = "UTF8"
         /\ label \notin {"copy", "copied"} => WellFormed(v.string)
         /\ label \in {"copy", "copied"} =>
              /\ v.count \in 1 .. Len(v.string)
              /\ WellFormed(SubSeq(v.string, v.count + 1, Len(v.string)))
         /\ label \in {"skip", "high", "low"} => v.string # <<>> /\ v.string[1] < 128
<1>1. PICK s, c, u :
        /\ v = [string |-> s, encoding |-> "UTF8", count |-> c, utf16 |-> u]
        /\ s \in Seq(Byte)
        /\ label \notin {"copy", "copied"} => WellFormed(s)
        /\ label \in {"copy", "copied"} =>
             c \in 1 .. Len(s) /\ WellFormed(SubSeq(s, c + 1, Len(s)))
        /\ label \in {"skip", "high", "low"} => s # <<>> /\ s[1] < 128
  BY Zenon DEF StringAt
<1>2. v.string = s /\ v.count = c /\ v.utf16 = u /\ v.encoding = "UTF8"
  BY <1>1
<1> QED BY <1>1, <1>2, Zenon DEF Record

\* What is left of a string changes.
LEMMA StringChange ==
  ASSUME NEW s, NEW c, NEW u, NEW t, NEW v, v = Record(s, c, u),
         NEW w, w = [v EXCEPT !.string = t]
  PROVE  w = Record(t, c, u)
BY DEF Record

\* The count alone.
LEMMA CountChange ==
  ASSUME NEW s, NEW c, NEW u, NEW n, NEW v, v = Record(s, c, u),
         NEW w, w = [v EXCEPT !.count = n]
  PROVE  w = Record(s, n, u)
BY DEF Record

\* A byte below 128 is a sequence.
LEMMA AsciiLength ==
  ASSUME NEW x \in 0 .. 127
  PROVE  SequenceLength(x) = 1
BY DEF SequenceLength

\* Between characters well formed bytes are left; a byte in front of that may be skipped.
LEMMA PlainString ==
  ASSUME NEW s \in Seq(Byte), WellFormed(s), NEW c, NEW u,
         NEW label, label \notin {"copy", "copied"},
         label \in {"skip", "high", "low"} => s # <<>> /\ s[1] < 128
  PROVE  StringAt(Record(s, c, u), label)
BY Zenon DEF StringAt, Record

\* In a sequence that is copied, well formed bytes are left behind it.
LEMMA CopiedString ==
  ASSUME NEW s \in Seq(Byte), NEW c \in 1 .. Len(s), WellFormed(SubSeq(s, c + 1, Len(s))), NEW u,
         NEW label \in {"copy", "copied"}
  PROVE  StringAt(Record(s, c, u), label)
BY Zenon DEF StringAt, Record

\* A step of the function goes on at a label where the argument is as it should be.
LEMMA StringStays ==
  ASSUME Writing, busy, write_func = "string", FramesSame, size' = size,
         NEW label, label \notin {"error", "newline", "more"}, Puts(label),
         StringAt(wvalue', label)
  PROVE  Stays
<1>1. write_func \in Leaves
  BY DEF Leaves
<1>2. ASSUME state' = label PROVE ArgumentOK'
  <2>1. Writes' = "string" /\ write_func' = "string"
    BY DEF Writes, FramesSame
  <2> QED BY <1>2, <2>1 DEF ArgumentOK
<1> QED BY <1>1, <1>2, PutsStay

\* The decoder of the writer is that of the parser's text.
LEMMA SameDecoder == \A b : W!DecodedCount(b) = DecodedCount(b)
BY DEF W!DecodedCount, DecodedCount, W!SequenceLength, SequenceLength, W!SecondUnits, SecondUnits,
       W!Continuation, Continuation

\* The argument of the function at a label.
LEMMA StringArgument ==
  ASSUME Writing, write_func = "string"
  PROVE  StringAt(wvalue, state)
BY DEF Writing, ArgumentOK, Writes

\* Steps that put bytes and leave the argument alone.
LEMMA StringPutsStay ==
  ASSUME Writing, W!StringStart \/ W!ControlHigh \/ W!ControlLow \/ W!UnitDigit \/ W!SecondUnit
  PROVE  Stays
<1>1. /\ busy /\ size' = size /\ FramesSame /\ wvalue' = wvalue /\ write_func = "string"
      /\ state \notin {"copy", "copied"}
  <2>1. \A i \in 1 .. 8 : W!HexLabel[i] \notin {"copy", "copied"}
    BY DEF W!HexLabel
  <2> QED BY <2>1 DEF W!StringStart, W!ControlHigh, W!ControlLow, W!UnitDigit, W!SecondUnit, W!At,
                      W!configVars, W!frameVars, FramesSame
<1> DEFINE s == wvalue.string
<1>2. /\ wvalue = Record(s, wvalue.count, wvalue.utf16) /\ s \in Seq(Byte) /\ WellFormed(s)
      /\ state \in {"high", "low"} => s # <<>> /\ s[1] < 128
  BY <1>1, StringArgument, StringFields
<1>3. ASSUME NEW label, Puts(label),
             label \notin {"error", "newline", "more", "copy", "copied"},
             label \in {"skip", "high", "low"} => state \in {"high", "low"}
      PROVE  Stays
  <2>1. StringAt(wvalue, label)
    <3> HIDE DEF s
    <3>1. StringAt(Record(s, wvalue.count, wvalue.utf16), label)
      BY <1>2, <1>3, PlainString
    <3> QED BY <1>2, <3>1, Zenon
  <2> QED BY <1>1, <1>3, <2>1, StringStays
<1>4. CASE W!StringStart
  <2>1. Puts("char")
    BY <1>4, ShortSeqs DEF W!StringStart, Puts
  <2> QED BY <1>3, <2>1
<1>5. CASE W!ControlHigh
  <2>1. Puts("low") /\ state = "high"
    BY <1>5, ShortSeqs DEF W!ControlHigh, W!At, Puts
  <2> QED BY <1>3, <2>1
<1>6. CASE W!ControlLow
  <2>1. Puts("skip") /\ state = "low"
    BY <1>6, ShortSeqs DEF W!ControlLow, W!At, Puts
  <2> QED BY <1>3, <2>1
<1>7. CASE W!UnitDigit
  <2>1. PICK i \in 1 .. 8 :
          \E b : W!Put(<<b>>, IF i \notin {4, 8} THEN W!HexLabel[i + 1]
                              ELSE IF i = 4 /\ wvalue.utf16[2] # 0 THEN "pair" ELSE "char")
    BY <1>7 DEF W!UnitDigit
  <2>2. i \notin {4, 8} => i + 1 \in 1 .. 8
    OBVIOUS
  <2>3. \A k \in 1 .. 8 :
          W!HexLabel[k] \notin {"error", "newline", "more", "copy", "copied", "skip", "high", "low"}
    BY DEF W!HexLabel
  <2>4. \E label \in {W!HexLabel[k] : k \in 1 .. 8} \cup {"pair", "char"} : Puts(label)
    BY <2>1, <2>2, ShortSeqs DEF Puts
  <2> QED BY <1>3, <2>3, <2>4
<1>8. CASE W!SecondUnit
  <2>1. Puts("hex5")
    BY <1>8, ShortSeqs DEF W!SecondUnit, W!HexLabel, Puts
  <2> QED BY <1>3, <2>1
<1> QED BY <1>4, <1>5, <1>6, <1>7, <1>8

\* The decoder takes such a byte alone.
LEMMA OneByte ==
  ASSUME NEW s \in Seq(Byte), s # <<>>, s[1] < 128
  PROVE  DecodedCount(s) = 1
<1>1. s[1] \in Byte /\ Len(s) \in Nat /\ Len(s) >= 1
  OBVIOUS
<1>2. ASSUME NEW x \in Byte, x < 128 PROVE x \in 0 .. 127
  BY <1>2 DEF Byte
<1>3. SequenceLength(s[1]) = 1
  BY <1>1, <1>2, AsciiLength, Zenon
<1> QED BY <1>1, <1>3 DEF DecodedCount

\* The character that was put is skipped: it is one byte.
LEMMA SkipStays ==
  ASSUME Writing, W!StringSkip
  PROVE  Stays
<1>1. /\ busy /\ size' = size /\ FramesSame /\ write_func = "string" /\ state = "skip"
      /\ wvalue' = [wvalue EXCEPT !.string = SubSeq(wvalue.string, 2, Len(wvalue.string))]
      /\ W!Goto("char")
  BY DEF W!StringSkip, W!Skip, W!At, W!configVars, W!frameVars, FramesSame
<1>2. PICK s, c, u : wvalue = Record(s, c, u) /\ wvalue.string = s
  BY <1>1, StringArgument, StringFields
<1>3. s \in Seq(Byte) /\ WellFormed(s) /\ s # <<>> /\ s[1] < 128
  BY <1>1, <1>2, StringArgument, StringFields
<1> DEFINE rest == SubSeq(s, 2, Len(s))
<1>4. wvalue' = Record(rest, c, u)
  <2>1. wvalue' = [wvalue EXCEPT !.string = rest]
    BY <1>1, <1>2, Zenon
  <2> HIDE DEF rest
  <2> QED BY <1>2, <2>1, StringChange
<1>5. rest \in Seq(Byte) /\ WellFormed(rest)
  <2>1. DecodedCount(s) = 1 /\ rest \in Seq(Byte) /\ 1 + 1 = 2
    BY <1>3, OneByte
  <2> QED BY <1>3, <2>1, WellFormedRest
<1>6. StringAt(wvalue', "char")
  <2> HIDE DEF rest
  <2> QED BY <1>4, <1>5, PlainString
<1>7. Puts("char")
  BY <1>1 DEF Puts
<1> QED BY <1>1, <1>6, <1>7, StringStays

\* A character is put, escaped or begun: the decoder finds a sequence.
LEMMA CharStays ==
  ASSUME Writing, W!StringChar
  PROVE  Stays
<1>1. /\ busy /\ size' = size /\ FramesSame /\ write_func = "string" /\ state = "char"
  BY DEF W!StringChar, W!At, W!configVars, W!frameVars, FramesSame
<1>2. PICK s, c, u : wvalue = Record(s, c, u) /\ wvalue.string = s /\ wvalue.encoding = "UTF8"
  BY <1>1, StringArgument, StringFields
<1>3. s \in Seq(Byte) /\ WellFormed(s)
  BY <1>1, <1>2, StringArgument, StringFields
<1> DEFINE ch == Head(s)
<1>4. \/ s = <<>> /\ wvalue' = wvalue /\ W!Put(<<W!Ascii.quote>>, "done")
      \/ /\ s # <<>> /\ ch \in W!HasShortEscape /\ wvalue' = wvalue
         /\ W!Put(<<92, W!ShortEscape(ch)>>, "skip")
      \/ /\ s # <<>> /\ (ch <= 31 \/ ch = 127)
         /\ wvalue' = wvalue /\ W!Put(<<92, W!Ascii.u, 48, 48>>, "high")
      \/ s # <<>> /\ ch < 127 /\ wvalue' = wvalue /\ W!Put(<<ch>>, "skip")
      \/ s # <<>> /\ W!Multibyte
  BY <1>2 DEF W!StringChar, W!Rest
<1>5. s # <<>> => ch = s[1] /\ ch \in Byte
  BY <1>3
<1>12. ch < 127 \/ ch <= 31 \/ ch = 127 => ch \notin Byte \/ ch < 128
  BY DEF Byte
<1> HIDE DEF ch
<1>6. CASE s = <<>> /\ wvalue' = wvalue /\ W!Put(<<W!Ascii.quote>>, "done")
  <2>1. StringAt(Record(s, c, u), "done")
    BY <1>3, PlainString
  <2>2. StringAt(wvalue', "done")
    BY <1>2, <1>6, <2>1, Zenon
  <2>3. Puts("done")
    BY <1>6, ShortSeqs DEF Puts
  <2> QED BY <1>1, <2>2, <2>3, StringStays
<1>7. ASSUME s # <<>>, ch < 128, wvalue' = wvalue, NEW label \in {"skip", "high"}, Puts(label)
      PROVE  Stays
  <2>1. StringAt(wvalue', label)
    BY <1>2, <1>3, <1>5, <1>7, PlainString
  <2> QED BY <1>1, <1>7, <2>1, StringStays
<1>8. CASE /\ s # <<>> /\ ch \in W!HasShortEscape /\ wvalue' = wvalue
           /\ W!Put(<<92, W!ShortEscape(ch)>>, "skip")
  <2>1. ch < 128
    BY <1>8 DEF W!HasShortEscape, W!ShortEscapes, W!Escapable, W!Unescape
  <2>2. Puts("skip")
    BY <1>8, ShortSeqs DEF Puts
  <2> QED BY <1>7, <1>8, <2>1, <2>2
<1>9. CASE /\ s # <<>> /\ (ch <= 31 \/ ch = 127)
           /\ wvalue' = wvalue /\ W!Put(<<92, W!Ascii.u, 48, 48>>, "high")
  <2>1. ch < 128 /\ s # <<>>
    BY <1>5, <1>9, <1>12, Zenon
  <2>2. Puts("high")
    BY <1>9, ShortSeqs DEF Puts
  <2> QED BY <1>7, <1>9, <2>1, <2>2
<1>10. CASE s # <<>> /\ ch < 127 /\ wvalue' = wvalue /\ W!Put(<<ch>>, "skip")
  <2>1. ch < 128
    BY <1>5, <1>10, <1>12, Zenon
  <2>2. Puts("skip")
    BY <1>10, ShortSeqs DEF Puts
  <2> QED BY <1>7, <1>10, <2>1, <2>2
<1>11. CASE s # <<>> /\ W!Multibyte
  <2> DEFINE count == DecodedCount(s)
             cp == W!DecodedCodepoint(s, count)
             rest == SubSeq(s, count + 1, Len(s))
  <2>1. count \in 1 .. 4 /\ count <= Len(s) /\ WellFormed(rest)
    BY <1>3, <1>11, WellFormedRest
  <2>2. W!DecodedCount(wvalue.string) = count
    BY <1>2, SameDecoder
  <2>3. ~(count <= 0)
    BY <2>1
  <2> HIDE DEF count
  <2>4. \/ /\ wvalue' = [wvalue EXCEPT !.string = SubSeq(wvalue.string, count + 1, Len(wvalue.string)),
                                       !.utf16 = W!Utf16(cp)]
           /\ W!Put(<<92, W!Ascii.u>>, W!HexLabel[1])
        \/ wvalue' = [wvalue EXCEPT !.count = count] /\ W!Goto("copy")
    BY <1>2, <1>11, <2>2, <2>3 DEF W!Multibyte, W!Rest
  <2>5. rest \in Seq(Byte) /\ count \in 1 .. Len(s)
    BY <1>3, <2>1
  <2>6. CASE /\ wvalue' = [wvalue EXCEPT !.string = SubSeq(wvalue.string, count + 1, Len(wvalue.string)),
                                         !.utf16 = W!Utf16(cp)]
             /\ W!Put(<<92, W!Ascii.u>>, W!HexLabel[1])
    <3>1. wvalue' = [wvalue EXCEPT !.string = rest, !.utf16 = W!Utf16(cp)]
      BY <1>2, <2>6, Zenon
    <3> HIDE DEF rest, cp
    <3>2. wvalue' = Record(rest, c, W!Utf16(cp))
      BY <1>2, <3>1 DEF Record
    <3>3. StringAt(wvalue', "hex1")
      BY <2>1, <2>5, <3>2, PlainString
    <3>4. Puts("hex1")
      BY <2>6, ShortSeqs DEF Puts, W!HexLabel
    <3> QED BY <1>1, <3>3, <3>4, StringStays
  <2>7. CASE wvalue' = [wvalue EXCEPT !.count = count] /\ W!Goto("copy")
    <3>1. wvalue' = Record(s, count, u)
      BY <1>2, <2>7, CountChange
    <3>2. StringAt(wvalue', "copy")
      BY <1>3, <2>1, <2>5, <3>1, CopiedString
    <3>3. Puts("copy")
      BY <2>7 DEF Puts
    <3> QED BY <1>1, <3>2, <3>3, StringStays
  <2> QED BY <2>4, <2>6, <2>7
<1> QED BY <1>4, <1>6, <1>8, <1>9, <1>10, <1>11

\* Bytes of a sequence are copied, and behind the last one well formed bytes are left.
LEMMA CopyStays ==
  ASSUME Writing, W!StringCopy
  PROVE  Stays
<1>1. /\ busy /\ size' = size /\ FramesSame /\ write_func = "string"
      /\ state \in {"copy", "copied"}
  BY DEF W!StringCopy, W!At, W!configVars, W!frameVars, FramesSame
<1>2. PICK s, c, u : wvalue = Record(s, c, u) /\ wvalue.string = s /\ wvalue.count = c
  BY <1>1, StringArgument, StringFields
<1>3. s \in Seq(Byte) /\ c \in 1 .. Len(s) /\ WellFormed(SubSeq(s, c + 1, Len(s)))
  BY <1>1, <1>2, StringArgument, StringFields
<1> DEFINE rest == IF state = "copied" THEN Tail(s) ELSE s
           count == IF state = "copied" THEN c - 1 ELSE c
<1>4. /\ wvalue' = [wvalue EXCEPT !.string = rest, !.count = count]
      /\ IF count > 0 THEN W!Put(<<Head(rest)>>, "copied") ELSE W!Goto("char")
  BY <1>2 DEF W!StringCopy, W!Rest
<1>5. /\ rest \in Seq(Byte) /\ count \in 0 .. Len(rest)
      /\ SubSeq(rest, count + 1, Len(rest)) = SubSeq(s, c + 1, Len(s))
  <2>1. CASE state # "copied"
    BY <1>3, <2>1
  <2>2. CASE state = "copied"
    <3>1. Len(s) \in Nat /\ Len(s) >= 1 /\ s # <<>>
      BY <1>3
    <3>2. Tail(s) \in Seq(Byte) /\ Len(Tail(s)) = Len(s) - 1
      BY <1>3, <3>1
    <3>3. SubSeq(Tail(s), c, Len(s) - 1) = SubSeq(s, c + 1, Len(s))
      BY <1>3, <3>1
    <3>4. rest = Tail(s) /\ count = c - 1 /\ c - 1 \in 0 .. Len(s) - 1 /\ c - 1 + 1 = c
      BY <1>3, <2>2, <3>1
    <3> HIDE DEF rest, count
    <3> QED BY <3>2, <3>3, <3>4
  <2> QED BY <2>1, <2>2
<1> HIDE DEF rest, count
<1>6. wvalue' = Record(rest, count, u)
  BY <1>2, <1>4 DEF Record
<1>7. CASE count > 0
  <2>1. count \in 1 .. Len(rest)
    BY <1>5, <1>7
  <2>2. StringAt(wvalue', "copied")
    BY <1>3, <1>5, <1>6, <2>1, CopiedString
  <2>3. Puts("copied")
    BY <1>4, <1>7, ShortSeqs DEF Puts
  <2> QED BY <1>1, <2>2, <2>3, StringStays
<1>8. CASE ~(count > 0)
  <2>1. count = 0 /\ SubSeq(rest, 0 + 1, Len(rest)) = rest
    BY <1>5, <1>8
  <2>2. WellFormed(rest)
    BY <1>3, <1>5, <2>1
  <2>3. StringAt(wvalue', "char")
    BY <1>5, <1>6, <2>2, PlainString
  <2>4. Puts("char")
    BY <1>4, <1>8 DEF Puts
  <2> QED BY <1>1, <2>3, <2>4, StringStays
<1> QED BY <1>7, <1>8

\* The levels of the indentation, and the closing bracket behind them.
LEMMA IndentStays ==
  ASSUME Writing, indent \in Indents, W!Indent
  PROVE  Stays
<1>1. /\ busy /\ size' = size /\ FramesSame /\ wvalue' = wvalue
      /\ write_func \in W!Ends \cup {"prelude"} /\ state \in {"newline", "more"}
      /\ W!Put(indent, "more") \/ W!Goto("tail")
  BY DEF W!Indent, W!At, W!configVars, W!frameVars, FramesSame
<1>2. OutputOK /\ ArgumentOK /\ LabelOK
  BY DEF Writing
<1>3. indent # NULL /\ IsSeq(indent)
  <2>1. indent # NULL
    BY <1>1, <1>2 DEF LabelOK
  <2> QED BY <2>1, PrettyAssumption DEF IsSeq
<1>4. OutputOK' /\ state' \in {"more", "tail"}
  <2>1. CASE W!Put(indent, "more")
    BY <1>1, <1>2, <1>3, <2>1, PutOK
  <2>2. CASE W!Goto("tail")
    BY <1>1, <1>2, <2>2, GotoOK
  <2> QED BY <1>1, <2>1, <2>2
<1>5. ArgumentOK'
  <2>1. Writes = "string" => write_func = "prelude"
    BY <1>1, FunctionFacts DEF Writes
  <2> QED BY <1>1, <1>2, <2>1, ArgumentSame DEF FramesSame
<1> QED BY <1>1, <1>3, <1>4, <1>5 DEF Stays, PreludeLabels

\* The closing bracket.
LEMMA ClosingStays ==
  ASSUME Writing, W!ClosingBracket
  PROVE  Stays
<1>1. /\ busy /\ size' = size /\ FramesSame /\ wvalue' = wvalue
      /\ write_func \in W!Ends /\ state = "tail"
      /\ W!Put(<<W!Ascii.rbracket>>, "done") \/ W!Put(<<W!Ascii.rbrace>>, "done")
  BY DEF W!ClosingBracket, W!At, W!configVars, W!frameVars, FramesSame, W!Ends
<1>2. OutputOK' /\ state' = "done"
  BY <1>1, PutOK, ShortSeqs DEF Writing
<1>3. Writes \notin {"number", "string"} /\ write_func # "prelude"
  BY <1>1, FunctionFacts DEF Writes
<1>4. ArgumentOK'
  BY <1>1, <1>3, ArgumentSame DEF Writing, FramesSame
<1> QED BY <1>1, <1>2, <1>3, <1>4 DEF Stays

-----------------------------------------------------------------------------
(* Steps of the writer that change the frames. *)

\* The innermost frame is changed.
LEMMA TopChanged ==
  ASSUME WStackOK, NEW frame \in W!Frames, W!SetTop(frame), W!Top # "none"
  PROVE  /\ WStackOK'
         /\ wstack_current' = wstack_current /\ wstack_size' = wstack_size
         /\ W!Top' = frame
         /\ \A e : Agree(wstack, wstack_current, e) => Agree(wstack', wstack_current, e)
<1> DEFINE n == wstack_current
<1>1. /\ wstack' = [wstack EXCEPT ![n] = frame]
      /\ wstack_current' = n /\ wstack_size' = wstack_size
  BY DEF W!SetTop
<1>2. /\ wstack_size \in Nat /\ n \in 0 .. wstack_size - 1
      /\ wstack \in [0 .. wstack_size - 1 -> W!Frames \cup {"uninit"}]
      /\ wstack[0] = "none" /\ wstack[n] # "none"
  BY DEF WStackOK, W!Top
<1>3. wstack' \in [0 .. wstack_size - 1 -> W!Frames \cup {"uninit"}] /\ wstack'[n] = frame
  BY <1>1, <1>2
<1>4. \A i \in 0 .. n - 1 : wstack'[i] = wstack[i]
  BY <1>1, <1>2
<1>5. wstack'[0] = "none"
  BY <1>1, <1>2
<1>6. \A e : Agree(wstack, n, e) => Agree(wstack', n, e)
  BY <1>4, Zenon DEF Agree
<1> QED BY <1>1, <1>2, <1>3, <1>5, <1>6 DEF WStackOK, W!Top

\* What has to be shown of a step.
LEMMA MovesWriting ==
  ASSUME Writing, size' = size, OutputOK', state' # "error", LabelOK', ArgumentOK', Nested'
  PROVE  Writing'
BY DEF Writing

\* The comma, or the colon, in front of a value; a key's value is counted with the colon.
LEMMA PreludeWrites ==
  ASSUME Writing, WStackOK, UNCHANGED vars, W!Prelude
  PROVE  Writing' /\ WStackOK'
<1>1. /\ busy /\ size' = size /\ wvalue' = wvalue /\ indent' = indent
      /\ write_func = "prelude" /\ state = "START"
      /\ write_func' = write_func /\ next_write_func' = next_write_func
      /\ \/ W!Top \in {"a", "o"} /\ W!Put(<<W!Ascii.comma>>, "comma") /\ UNCHANGED W!frameVars
         \/ W!Top \in {"A", "O"} /\ W!Goto("comma") /\ UNCHANGED W!frameVars
         \/ /\ W!Top = "k" /\ W!SetTop("o")
            /\ W!Put(IF indent = NULL THEN <<W!Ascii.colon>> ELSE <<W!Ascii.colon, 32>>, "tail")
         \/ W!Top = "none" /\ W!Goto("tail") /\ UNCHANGED W!frameVars
  BY DEF W!Prelude, W!At, W!configVars
<1>2. /\ OutputOK /\ ArgumentOK /\ LabelOK /\ state # "error" /\ Nested
  BY <1>1 DEF Writing
<1>3. /\ Counting /\ ~Popping /\ ~Popping'
      /\ Pushing' = Pushing /\ Writes' = Writes /\ Counting' = (state' \in {"START", "comma"})
  BY <1>1, FunctionFacts DEF Counting, Popping, Pushing, Writes
<1>4. Expected' = Expected
  BY DEF vars, stackVars, Top, Expected
<1>5. /\ OutputOK' /\ state' \in {"comma", "tail"} /\ WStackOK'
      /\ wstack_current' = wstack_current
      /\ Agree(wstack, wstack_current, Expected) => Agree(wstack', wstack_current, Expected)
      /\ state' = "comma" => W!Top' \in Containers /\ W!Top' = W!Top
      /\ state' = "tail" => W!Top' = Counted(W!Top)
  <2>1. CASE W!Top \in {"a", "o"} /\ W!Put(<<W!Ascii.comma>>, "comma") /\ UNCHANGED W!frameVars
    <3>1. OutputOK' /\ state' = "comma"
      BY <1>1, <1>2, <2>1, PutOK, ShortSeqs
    <3> QED BY <2>1, <3>1 DEF W!frameVars, W!Top, WStackOK, Containers
  <2>2. CASE W!Top \in {"A", "O"} /\ W!Goto("comma") /\ UNCHANGED W!frameVars
    <3>1. OutputOK' /\ state' = "comma"
      BY <1>1, <1>2, <2>2, GotoOK
    <3> QED BY <2>2, <3>1 DEF W!frameVars, W!Top, WStackOK, Containers
  <2>3. CASE /\ W!Top = "k" /\ W!SetTop("o")
             /\ W!Put(IF indent = NULL THEN <<W!Ascii.colon>> ELSE <<W!Ascii.colon, 32>>, "tail")
    <3>1. IsSeq(IF indent = NULL THEN <<W!Ascii.colon>> ELSE <<W!Ascii.colon, 32>>)
      BY ShortSeqs
    <3>2. OutputOK' /\ state' = "tail"
      BY <1>1, <1>2, <2>3, <3>1, PutOK
    <3>3. "o" \in W!Frames /\ W!Top # "none" /\ Counted(W!Top) = "o"
      BY <2>3 DEF W!Frames, Counted
    <3> QED BY <2>3, <3>2, <3>3, TopChanged
  <2>4. CASE W!Top = "none" /\ W!Goto("tail") /\ UNCHANGED W!frameVars
    <3>1. OutputOK' /\ state' = "tail"
      BY <1>1, <1>2, <2>4, GotoOK
    <3>2. Counted(W!Top) = W!Top
      BY <2>4 DEF Counted
    <3> QED BY <2>4, <3>1, <3>2 DEF W!frameVars, W!Top, WStackOK
  <2> QED BY <1>1, <2>1, <2>2, <2>3, <2>4
<1>6. Nested'
  BY <1>2, <1>3, <1>4, <1>5 DEF Nested
<1>7. LabelOK'
  BY <1>1, <1>2, <1>5 DEF LabelOK, PreludeLabels
<1>8. ArgumentOK'
  BY <1>1, <1>2, ArgumentSame DEF Writes
<1> QED BY <1>1, <1>5, <1>6, <1>7, <1>8, MovesWriting

\* Behind the comma the value or the key is counted.
LEMMA CommaWrites ==
  ASSUME Writing, WStackOK, UNCHANGED vars, W!Comma
  PROVE  Writing' /\ WStackOK'
<1>1. /\ busy /\ size' = size /\ wvalue' = wvalue /\ indent' = indent
      /\ write_func = "prelude" /\ state = "comma"
      /\ write_func' = write_func /\ next_write_func' = next_write_func
      /\ W!SetTop(IF W!Top \in {"O", "o"} THEN "k" ELSE "a")
      /\ IF indent = NULL THEN W!Goto("tail") ELSE W!Put(<<10>>, "newline")
  BY DEF W!Comma, W!At, W!configVars
<1>2. /\ OutputOK /\ ArgumentOK /\ LabelOK /\ state # "error" /\ Nested
  BY <1>1 DEF Writing
<1>3. OutputOK' /\ state' \in {"tail", "newline"} /\ (state' = "newline" => indent # NULL)
  BY <1>1, <1>2, PutOK, GotoOK, ShortSeqs
<1>4. /\ Counting /\ ~Counting' /\ ~Popping /\ ~Popping'
      /\ Pushing' = Pushing /\ Writes' = Writes
  BY <1>1, <1>3, FunctionFacts DEF Counting, Popping, Pushing, Writes
<1>5. Expected' = Expected
  BY DEF vars, stackVars, Top, Expected
<1>6. /\ WStackOK' /\ wstack_current' = wstack_current
      /\ Agree(wstack, wstack_current, Expected) => Agree(wstack', wstack_current, Expected)
      /\ W!Top' = Counted(W!Top)
  <2>1. W!Top \in Containers
    BY <1>1, <1>2 DEF LabelOK
  <2>2. Counted(W!Top) = (IF W!Top \in {"O", "o"} THEN "k" ELSE "a") /\ W!Top # "none"
    BY <2>1 DEF Counted, Containers
  <2>3. Counted(W!Top) \in W!Frames
    BY <2>2 DEF W!Frames
  <2> QED BY <1>1, <2>2, <2>3, TopChanged
<1>7. Nested'
  BY <1>2, <1>4, <1>5, <1>6 DEF Nested
<1>8. LabelOK'
  BY <1>1, <1>2, <1>3 DEF LabelOK, PreludeLabels
<1>9. ArgumentOK'
  BY <1>1, <1>2, ArgumentSame DEF Writes
<1> QED BY <1>1, <1>3, <1>6, <1>7, <1>8, <1>9, MovesWriting

\* The function of the value is called.
LEMMA TailCallWrites ==
  ASSUME Writing, WStackOK, UNCHANGED vars, W!TailCall
  PROVE  Writing' /\ WStackOK'
<1>1. /\ busy /\ size' = size /\ wvalue' = wvalue /\ indent' = indent
      /\ write_func = "prelude" /\ state = "tail" /\ write_func' = next_write_func
      /\ UNCHANGED W!frameVars /\ W!Goto("START")
  BY DEF W!TailCall, W!At, W!configVars
<1>2. /\ OutputOK /\ ArgumentOK /\ LabelOK /\ state # "error" /\ Nested
  BY <1>1 DEF Writing
<1>3. OutputOK' /\ state' = "START"
  BY <1>1, <1>2, GotoOK
<1>4. write_func' \in Leaves \cup Begins /\ write_func' # "prelude" /\ write_func' \notin W!Ends
  BY <1>1, <1>2, FunctionFacts DEF LabelOK
<1>5. Writes = next_write_func /\ Writes' = next_write_func
  BY <1>1, <1>4 DEF Writes
<1>6. /\ ~Counting /\ ~Counting' /\ ~Popping /\ ~Popping' /\ Pushing' = Pushing
  BY <1>1, <1>3, <1>4, FunctionFacts DEF Counting, Popping, Pushing
<1>7. Expected' = Expected
  BY DEF vars, stackVars, Top, Expected
<1>8. /\ wstack' = wstack /\ wstack_current' = wstack_current /\ wstack_size' = wstack_size
      /\ W!Top' = W!Top
  BY <1>1 DEF W!frameVars, W!Top
<1>9. Nested'
  BY <1>2, <1>5, <1>6, <1>7, <1>8 DEF Nested
<1>10. LabelOK'
  BY <1>3, <1>4 DEF LabelOK
<1>11. ArgumentOK'
  BY <1>1, <1>2, <1>3, <1>5 DEF ArgumentOK
<1>12. WStackOK'
  BY <1>8 DEF WStackOK
<1> QED BY <1>1, <1>3, <1>9, <1>10, <1>11, <1>12, MovesWriting

\* A frame is pushed, unless the stack is full and does not grow.
LEMMA Pushed ==
  ASSUME WStackOK, NEW frame \in {"A", "O"}, NEW bracket, busy, OutputOK, size' = size,
         W!PushAndPut(frame, bracket)
  PROVE  \/ /\ OutputOK' /\ state' = "error" /\ UNCHANGED W!frameVars
            /\ wstack_size = wstack_current + 1
         \/ /\ OutputOK' /\ state' = "done" /\ WStackOK'
            /\ wstack_current' = wstack_current + 1 /\ wstack_current \in Nat
            /\ W!Top' = frame
            /\ \A i \in 0 .. wstack_current : wstack'[i] = wstack[i]
<1> DEFINE full == wstack_size = wstack_current + 1
           newsize == IF full THEN wstack_size + STACK_SIZE ELSE wstack_size
           n == wstack_current
<1>1. /\ wstack_size \in Nat /\ n \in 0 .. wstack_size - 1 /\ n \in Nat
      /\ wstack \in [0 .. wstack_size - 1 -> W!Frames \cup {"uninit"}]
      /\ wstack[0] = "none"
  BY DEF WStackOK
<1>2. CASE full /\ W!RaiseError /\ UNCHANGED W!frameVars
  BY <1>2, RaiseErrorOK
<1>3. CASE /\ wstack' = [i \in 0 .. newsize - 1 |->
                           IF i = n + 1 THEN frame
                           ELSE IF i < wstack_size THEN wstack[i] ELSE "uninit"]
           /\ wstack_size' = newsize
           /\ wstack_current' = n + 1
           /\ W!Put(<<bracket>>, "done")
  <2>1. newsize \in Nat /\ n + 1 \in 0 .. newsize - 1 /\ wstack_size <= newsize
    BY <1>1, MemoryAssumption
  <2>2. OutputOK' /\ state' = "done"
    BY <1>3, PutOK, ShortSeqs
  <2> HIDE DEF newsize, full
  <2>3. \A i \in 0 .. n : wstack'[i] = wstack[i]
    BY <1>1, <1>3, <2>1
  <2>4. wstack'[n + 1] = frame
    BY <1>1, <1>3, <2>1
  <2>5. wstack' \in [0 .. newsize - 1 -> W!Frames \cup {"uninit"}]
    <3>1. ASSUME NEW i \in 0 .. newsize - 1 PROVE wstack'[i] \in W!Frames \cup {"uninit"}
      <4>1. wstack'[i] = IF i = n + 1 THEN frame
                         ELSE IF i < wstack_size THEN wstack[i] ELSE "uninit"
        BY <1>3
      <4>2. frame \in W!Frames
        BY DEF W!Frames
      <4>3. i < wstack_size => wstack[i] \in W!Frames \cup {"uninit"}
        BY <1>1, <2>1
      <4> QED BY <4>1, <4>2, <4>3
    <3> QED BY <1>3, <3>1
  <2>6. wstack'[0] = "none"
    BY <1>1, <2>3
  <2>7. WStackOK'
    BY <1>3, <2>1, <2>5, <2>6 DEF WStackOK
  <2>8. W!Top' = frame
    BY <1>3, <2>4 DEF W!Top
  <2> QED BY <1>1, <1>3, <2>2, <2>3, <2>7, <2>8
<1> QED BY <1>2, <1>3 DEF W!PushAndPut

\* A container is begun, or the call fails for lack of memory.
LEMMA BeginWrites ==
  ASSUME Writing, WStackOK, UNCHANGED vars, W!Begin
  PROVE  Writing' /\ WStackOK'
<1>1. /\ busy /\ size' = size /\ wvalue' = wvalue /\ indent' = indent
      /\ write_func \in Begins /\ state = "START" /\ write_func' = write_func
      /\ \E bracket : W!PushAndPut(Opened(write_func), bracket)
  BY DEF W!Begin, W!At, W!configVars, Begins, Opened
<1>2. /\ OutputOK /\ ArgumentOK /\ LabelOK /\ state # "error" /\ Nested
  BY <1>1 DEF Writing
<1>3. /\ ~Counting /\ ~Counting' /\ ~Popping /\ ~Popping' /\ Pushing
      /\ Writes = write_func /\ Writes' = write_func
  BY <1>1, FunctionFacts DEF Counting, Popping, Pushing, Writes
<1>4. Expected' = Expected
  BY DEF vars, stackVars, Top, Expected
<1>5. ArgumentOK'
  BY <1>3, FunctionFacts, <1>1 DEF ArgumentOK
<1>6. Opened(write_func) \in {"A", "O"}
  BY DEF Opened
<1>7. CASE /\ OutputOK' /\ state' = "error" /\ UNCHANGED W!frameVars
           /\ wstack_size = wstack_current + 1
  <2>1. LabelOK'
    BY <1>1, <1>2, <1>7, FunctionFacts DEF LabelOK
  <2> QED BY <1>1, <1>5, <1>7, <2>1 DEF Writing, WStackOK, W!frameVars
<1>8. CASE /\ OutputOK' /\ state' = "done" /\ WStackOK'
           /\ wstack_current' = wstack_current + 1 /\ wstack_current \in Nat
           /\ W!Top' = Opened(write_func)
           /\ \A i \in 0 .. wstack_current : wstack'[i] = wstack[i]
  <2>1. LabelOK'
    BY <1>1, <1>2, <1>8, FunctionFacts DEF LabelOK
  <2>2. ~Pushing'
    BY <1>1, <1>8, FunctionFacts DEF Pushing
  <2>3. /\ Agree(wstack, wstack_current, Expected)
        /\ Fits(wstack[wstack_current], Expected[wstack_current + 1])
        /\ Len(Expected) = wstack_current + 2
        /\ Fits(Opened(write_func), Expected[wstack_current + 2])
    BY <1>2, <1>3 DEF Nested, W!Top
  <2>4. Agree(wstack', wstack_current + 1, Expected)
    <3>1. ASSUME NEW i \in 0 .. (wstack_current + 1) - 1 PROVE Fits(wstack'[i], Expected[i + 1])
      <4>1. i \in 0 .. wstack_current - 1 \/ i = wstack_current
        BY <1>8
      <4>2. wstack'[i] = wstack[i]
        BY <1>8, <4>1
      <4> QED BY <2>3, <4>1, <4>2 DEF Agree
    <3> QED BY <3>1, Zenon DEF Agree
  <2>5. wstack_current + 1 + 1 = wstack_current + 2
    BY <1>8
  <2>6. Nested'
    BY <1>3, <1>4, <1>8, <2>2, <2>3, <2>4, <2>5 DEF Nested
  <2> QED BY <1>1, <1>5, <1>8, <2>1, <2>6, MovesWriting
<1> QED BY <1>1, <1>2, <1>6, <1>7, <1>8, Pushed, Zenon

\* A frame is popped: it is that of the container that is closed.
LEMMA EndWrites ==
  ASSUME Writing, WStackOK, UNCHANGED vars, W!End
  PROVE  Writing' /\ WStackOK'
<1>1. /\ busy /\ size' = size /\ wvalue' = wvalue /\ indent' = indent
      /\ write_func \in W!Ends /\ state = "START" /\ write_func' = write_func
      /\ \E empty, filled : /\ Closable(write_func) = {empty, filled}
                            /\ W!PopAndBreak(empty, filled)
  BY DEF W!End, W!At, W!configVars, W!Ends, Closable
<1>2. /\ OutputOK /\ ArgumentOK /\ LabelOK /\ state # "error" /\ Nested
  BY <1>1 DEF Writing
<1>3. /\ Popping /\ ~Counting /\ ~Counting' /\ ~Pushing /\ ~Pushing'
      /\ Writes = write_func /\ Writes' = write_func
  BY <1>1, FunctionFacts DEF Counting, Popping, Pushing, Writes
<1>4. Expected' = Expected
  BY DEF vars, stackVars, Top, Expected
<1>5. /\ wstack_current > 0 /\ W!Top \in Closable(write_func) /\ Len(Expected) = wstack_current
      /\ Agree(wstack, wstack_current, Expected)
  BY <1>2, <1>3 DEF Nested
<1>6. /\ wstack_size \in Nat /\ wstack_current \in 0 .. wstack_size - 1
  BY DEF WStackOK
<1>7. /\ wstack_current' = wstack_current - 1 /\ wstack' = wstack /\ wstack_size' = wstack_size
      /\ \/ indent # NULL /\ W!Put(<<10>>, "newline")
         \/ W!Goto("tail")
  <2>1. PICK empty, filled : /\ Closable(write_func) = {empty, filled}
                             /\ W!PopAndBreak(empty, filled)
    BY <1>1
  <2>2. W!Top \in {empty, filled} /\ wstack_current # 0
    BY <1>5, <1>6, <2>1
  <2> QED BY <2>1, <2>2 DEF W!PopAndBreak
<1>8. OutputOK' /\ state' \in {"newline", "tail"} /\ (state' = "newline" => indent # NULL)
  BY <1>1, <1>2, <1>7, PutOK, GotoOK, ShortSeqs
<1>9. WStackOK' /\ wstack_current - 1 + 1 = wstack_current
  BY <1>5, <1>6, <1>7 DEF WStackOK
<1>10. Agree(wstack, wstack_current - 1, Expected) /\ Fits(wstack[wstack_current - 1], Expected[wstack_current])
  <2>1. wstack_current - 1 \in 0 .. wstack_current - 1
    BY <1>5, <1>6
  <2>2. \A i \in 0 .. wstack_current - 1 - 1 : i \in 0 .. wstack_current - 1
    BY <1>5, <1>6
  <2> QED BY <1>5, <1>9, <2>1, <2>2, Zenon DEF Agree
<1>11. ~Popping'
  BY <1>8 DEF Popping
<1>12. Nested'
  BY <1>3, <1>4, <1>5, <1>7, <1>9, <1>10, <1>11 DEF Nested, W!Top
<1>t. LabelOK'
  BY <1>1, <1>2, <1>8, FunctionFacts DEF LabelOK
<1>14. ArgumentOK'
  BY <1>1, <1>3, FunctionFacts DEF ArgumentOK
<1> QED BY <1>1, <1>8, <1>9, <1>12, <1>t, <1>14, MovesWriting

\* A step of the writer.
LEMMA RunWrites ==
  ASSUME Writing, WStackOK, indent \in Indents, UNCHANGED vars, W!Run
  PROVE  Writing' /\ WStackOK' /\ indent' = indent
<1>1. indent' = indent
  BY DEF W!Run, W!Resume, W!Finish, W!Prelude, W!Comma, W!Indent, W!TailCall, W!Literal, W!Number,
         W!IntegerSign, W!IntegerMagnitude, W!IntegerScale, W!IntegerDigit, W!StringStart,
         W!StringChar, W!StringSkip, W!ControlHigh, W!ControlLow, W!StringCopy, W!UnitDigit,
         W!SecondUnit, W!Begin, W!End, W!ClosingBracket, W!configVars
<1>2. busy
  BY DEF W!Run, W!Resume, W!Finish, W!Prelude, W!Comma, W!Indent, W!TailCall, W!Literal, W!Number,
         W!IntegerSign, W!IntegerMagnitude, W!IntegerScale, W!IntegerDigit, W!StringStart,
         W!StringChar, W!StringSkip, W!ControlHigh, W!ControlLow, W!StringCopy, W!UnitDigit,
         W!SecondUnit, W!Begin, W!End, W!ClosingBracket, W!At
<1>3. ASSUME Stays PROVE Writing' /\ WStackOK'
  <2>1. WStackOK'
    BY <1>3 DEF Stays, FramesSame, WStackOK
  <2> QED BY <1>2, <1>3, <2>1, StaysWriting
<1>4. CASE W!Resume \/ W!Finish \/ W!Literal \/ W!Number
  BY <1>1, <1>3, <1>4, ResumeStays, FinishStays, LiteralStays, NumberStays
<1>5. CASE W!IntegerSign \/ W!IntegerMagnitude \/ W!IntegerScale \/ W!IntegerDigit
  BY <1>1, <1>3, <1>5, IntegerStays
<1>6. CASE W!StringStart \/ W!ControlHigh \/ W!ControlLow \/ W!UnitDigit \/ W!SecondUnit
  BY <1>1, <1>3, <1>6, StringPutsStay
<1>7. CASE W!StringChar \/ W!StringSkip \/ W!StringCopy
  BY <1>1, <1>3, <1>7, CharStays, SkipStays, CopyStays
<1>8. CASE W!Indent \/ W!ClosingBracket
  BY <1>1, <1>3, <1>8, IndentStays, ClosingStays
<1>9. CASE W!Prelude \/ W!Comma \/ W!TailCall
  BY <1>1, <1>9, PreludeWrites, CommaWrites, TailCallWrites
<1>10. CASE W!Begin \/ W!End
  BY <1>1, <1>10, BeginWrites, EndWrites
<1> QED BY <1>1, <1>4, <1>5, <1>6, <1>7, <1>8, <1>9, <1>10 DEF W!Run

-----------------------------------------------------------------------------
(* A token is given to the writer. *)

\* What the frame of a container and what it expects become with a value or a key.
LEMMA Fitted ==
  ASSUME NEW frame, NEW expected, Fits(frame, expected)
  PROVE  /\ expected \in {"doc", "array", "val"} =>
              /\ frame \notin {"O", "o"}
              /\ Grammar!AfterValue(expected) \in Grammar!Expectations
              /\ Fits(Counted(frame), Grammar!AfterValue(expected))
         /\ expected = "key" => frame \in {"O", "o"} /\ Fits(Counted(frame), "val")
         /\ expected = "array" => frame \in {"A", "a"}
<1>1. CASE frame = "none" /\ expected \in {"doc", "end"}
  BY <1>1 DEF Fits, Counted, Grammar!AfterValue, Grammar!Expectations
<1>2. CASE frame \in {"A", "a"} /\ expected = "array"
  BY <1>2 DEF Fits, Counted, Grammar!AfterValue, Grammar!Expectations
<1>3. CASE frame \in {"O", "o"} /\ expected = "key"
  BY <1>3 DEF Fits, Counted
<1>4. CASE frame = "k" /\ expected = "val"
  BY <1>4 DEF Fits, Counted, Grammar!AfterValue, Grammar!Expectations
<1> QED BY <1>1, <1>2, <1>3, <1>4 DEF Fits

\* Another innermost expectation.
With(e, x) == [e EXCEPT ![Len(e)] = x]

\* The others stay.
LEMMA InnermostTaken ==
  ASSUME NEW st, NEW n \in Nat, NEW e \in Seq(Grammar!Expectations), Matches(st, n, e),
         NEW x \in Grammar!Expectations
  PROVE  /\ With(e, x) \in Seq(Grammar!Expectations) /\ Len(With(e, x)) = n + 1
         /\ Agree(st, n, With(e, x)) /\ With(e, x)[n + 1] = x
<1> DEFINE f == With(e, x)
<1>1. Len(e) = n + 1 /\ Agree(st, n, e)
  BY DEF Matches
<1>2. f \in Seq(Grammar!Expectations) /\ Len(f) = Len(e) /\ f[Len(e)] = x
  BY <1>1 DEF With
<1>3. \A i \in 0 .. n - 1 : f[i + 1] = e[i + 1]
  BY <1>1 DEF With
<1> HIDE DEF f
<1>4. Agree(st, n, f)
  BY <1>1, <1>2, <1>3 DEF Agree
<1> QED BY <1>1, <1>2, <1>4 DEF f

\* A container more is open.
LEMMA InnermostAppended ==
  ASSUME NEW st, NEW n \in Nat, NEW e \in Seq(Grammar!Expectations), Len(e) = n + 1,
         Agree(st, n, e), NEW y \in Grammar!Expectations
  PROVE  /\ Len(Append(e, y)) = n + 2 /\ Agree(st, n, Append(e, y))
         /\ Append(e, y)[n + 1] = e[n + 1] /\ Append(e, y)[n + 2] = y
<1> DEFINE f == Append(e, y)
<1>1. Len(f) = n + 2 /\ f[n + 2] = y /\ \A i \in 1 .. n + 1 : f[i] = e[i]
  OBVIOUS
<1>2. n + 1 \in 1 .. n + 1 /\ \A i \in 0 .. n - 1 : i + 1 \in 1 .. n + 1
  OBVIOUS
<1> HIDE DEF f
<1>3. Agree(st, n, f)
  BY <1>1, <1>2 DEF Agree
<1> QED BY <1>1, <1>2, <1>3 DEF f

\* A container is closed.
LEMMA InnermostDropped ==
  ASSUME NEW st, NEW n \in Nat, NEW e \in Seq(Grammar!Expectations), Matches(st, n, e)
  PROVE  Len(SubSeq(e, 1, Len(e) - 1)) = n /\ Agree(st, n, SubSeq(e, 1, Len(e) - 1))
<1> DEFINE f == SubSeq(e, 1, Len(e) - 1)
<1>1. Len(e) = n + 1 /\ Agree(st, n, e)
  BY DEF Matches
<1>2. Len(f) = n /\ \A i \in 1 .. n : f[i] = e[i]
  BY <1>1
<1>3. \A i \in 0 .. n - 1 : i + 1 \in 1 .. n
  OBVIOUS
<1> HIDE DEF f
<1>4. Agree(st, n, f)
  BY <1>1, <1>2, <1>3 DEF Agree
<1> QED BY <1>2, <1>4 DEF f

\* A call that is not refused starts with the prelude.
LEMMA ValueStarts ==
  ASSUME NEW f \in Leaves \cup Begins, NEW v, W!WriteValue(f, v, OUTBUF),
         f # "string" => W!Top \notin {"O", "o"}
  PROVE  /\ OutputOK' /\ size' = OUTBUF /\ LabelOK' /\ state' # "error"
         /\ Counting' /\ ~Popping' /\ (Pushing' <=> f \in Begins) /\ Writes' = f
         /\ wvalue' = v /\ UNCHANGED <<W!frameVars, indent>> /\ write_func' = "prelude"
<1>1. OUTBUF \in Nat /\ OUTBUF # 0
  BY PrettyAssumption
<1>2. /\ write_func' = "prelude" /\ next_write_func' = f /\ state' = "START" /\ pending' = <<>>
      /\ busy' = TRUE /\ size' = OUTBUF /\ out' = <<>>
      /\ wvalue' = v /\ UNCHANGED <<W!frameVars, indent>>
  BY <1>1 DEF W!WriteValue, W!StartAt, W!Enter, W!configVars
<1>3. OutputOK'
  <2>1. IsSeq(<<>>) /\ Len(<<>>) = 0
    BY ShortSeqs
  <2> QED BY <1>1, <1>2, <2>1 DEF OutputOK
<1>4. LabelOK'
  BY <1>2 DEF LabelOK, PreludeLabels
<1>5. Counting' /\ ~Popping' /\ (Pushing' <=> f \in Begins) /\ Writes' = f
  BY <1>2, FunctionFacts DEF Counting, Popping, Pushing, Writes
<1> QED BY <1>2, <1>3, <1>4, <1>5

\* So does a call that ends a container, with the function itself.
LEMMA EndStarts ==
  ASSUME NEW f \in W!Ends, W!WriteEnd(f, OUTBUF), ~W!RefusedEnd(f)
  PROVE  /\ OutputOK' /\ size' = OUTBUF /\ LabelOK' /\ state' # "error" /\ ArgumentOK'
         /\ ~Counting' /\ Popping' /\ ~Pushing'
         /\ UNCHANGED <<W!frameVars, indent>> /\ write_func' = f
<1>1. OUTBUF \in Nat /\ OUTBUF # 0
  BY PrettyAssumption
<1>2. /\ write_func' = f /\ state' = "START" /\ pending' = <<>>
      /\ busy' = TRUE /\ size' = OUTBUF /\ out' = <<>>
      /\ UNCHANGED <<W!frameVars, indent>>
  BY <1>1 DEF W!WriteEnd, W!StartAt, W!Enter, W!configVars
<1>3. OutputOK'
  <2>1. IsSeq(<<>>) /\ Len(<<>>) = 0
    BY ShortSeqs
  <2> QED BY <1>1, <1>2, <2>1 DEF OutputOK
<1>4. LabelOK'
  BY <1>2, FunctionFacts DEF LabelOK
<1>5. ~Counting' /\ Popping' /\ ~Pushing'
  BY <1>2, FunctionFacts DEF Counting, Popping, Pushing
<1>6. ArgumentOK'
  <2>1. Writes' = f
    BY <1>2, FunctionFacts DEF Writes
  <2> QED BY <2>1, FunctionFacts DEF ArgumentOK
<1> QED BY <1>2, <1>3, <1>4, <1>5, <1>6

\* The arguments: the text of a double fits, a string is decoded to its end.
LEMMA ArgumentFacts ==
  ASSUME PrintfFits, IInv, TextInv, Suited, pc = "idle", "NUMBER_AS_STRING" \notin flags
  PROVE  /\ tok = "NUMBER" =>
              \/ Argument.number = NULL
              \/ Argument.number \in Seq(Byte) /\ Len(Argument.number) <= NUMBER_SIZE
         /\ tok = "STRING" => StringAt(Argument, "START")
<1>1. TypeOK /\ ValueOK /\ StringsAreTerminated
  BY DEF IInv, TypeOK
<1>2. CASE tok = "NUMBER"
  <2>1. NumberMember = "number"
    BY <1>1, PrettyAssumption DEF TypeOK, NumberMember
  <2>2. Live = "number"
    BY <1>2, <2>1 DEF Suited, Suits, Live
  <2>3. Held \in Doubles
    BY <1>1, <2>2 DEF ValueOK
  <2>4. Argument.number = Snprintf(Held)
    BY <1>2 DEF Argument
  <2> QED BY <1>2, <2>3, <2>4 DEF PrintfFits
<1>3. CASE tok = "STRING"
  <2>1. Live = "string"
    BY <1>3 DEF Suited, Suits, Live
  <2>2. Held \in Nat /\ Used = Held + 1 /\ buffer \in Seq(Byte)
    BY <1>1, <1>3, <2>1 DEF ValueOK, TypeOK, StringsAreTerminated
  <2> DEFINE s == SubSeq(buffer, 1, Held)
  <2>3. s \in Seq(Byte)
    BY <2>2 DEF Used
  <2>4. WellFormed(s)
    BY <1>3 DEF TextInv, StringsAreDecodable
  <2>5. Argument = Record(s, 0, <<0, 0>>)
    BY <1>3 DEF Argument, Record
  <2>6. StringAt(Record(s, 0, <<0, 0>>), "START")
    <3> HIDE DEF s
    <3> QED BY <2>3, <2>4, PlainString
  <2> QED BY <1>3, <2>5, <2>6
<1> QED BY <1>2, <1>3

\* A value or a key goes to a function that writes it.
LEMMA ValueWrites ==
  ASSUME PrintfFits, IInv, TextInv, Suited, pc = "idle", "NUMBER_AS_STRING" \notin flags,
         WStackOK, NEW e \in Seq(Grammar!Expectations), Matches(wstack, wstack_current, e),
         Takes(e, tok, Expected), tok \in DOMAIN Function, tok \notin {"END_ARRAY", "END_OBJECT"},
         W!WriteValue(Function[tok], Argument, OUTBUF), UNCHANGED vars
  PROVE  Writing' /\ UNCHANGED <<W!frameVars, indent>>
<1> DEFINE n == wstack_current
           inner == e[n + 1]
           f == Function[tok]
<1>1. /\ n \in Nat /\ Len(e) = n + 1 /\ Agree(wstack, n, e) /\ Fits(W!Top, inner)
      /\ n + 1 \in 1 .. Len(e) /\ inner \in Grammar!Expectations
  BY DEF WStackOK, Matches, W!Top
<1>2. /\ f \in Leaves \cup Begins
      /\ tok \in Grammar!Scalars => f \in Leaves
      /\ tok = "BEGIN_ARRAY" => f = "begin_array"
      /\ tok = "BEGIN_OBJECT" => f = "begin_object"
      /\ f = "number" => tok = "NUMBER"
      /\ f = "string" => tok = "STRING"
      /\ tok = "STRING" => f = "string"
  BY DEF Function, Leaves, Begins, Grammar!Scalars
<1>3. /\ inner \in {"doc", "array", "val"} =>
           /\ W!Top \notin {"O", "o"}
           /\ Grammar!AfterValue(inner) \in Grammar!Expectations
           /\ Fits(Counted(W!Top), Grammar!AfterValue(inner))
      /\ inner = "key" => Fits(Counted(W!Top), "val")
  BY <1>1, Fitted
<1>4. "val" \in Grammar!Expectations /\ "array" \in Grammar!Expectations /\ "key" \in Grammar!Expectations
  BY DEF Grammar!Expectations
<1> DEFINE taken == With(e, Grammar!AfterValue(inner))
<1>5. \/ /\ inner \in {"doc", "array", "val"} /\ tok \in Grammar!Scalars /\ Expected = taken
      \/ /\ inner = "key" /\ tok = "STRING" /\ Expected = With(e, "val")
      \/ /\ inner \in {"doc", "array", "val"} /\ tok = "BEGIN_ARRAY"
         /\ Expected = Append(taken, "array")
      \/ /\ inner \in {"doc", "array", "val"} /\ tok = "BEGIN_OBJECT"
         /\ Expected = Append(taken, "key")
  <2>1. tok \notin {"END", "NEED_DATA", "ERROR"}
    BY DEF Function
  <2>2. taken = [e EXCEPT ![Len(e)] = Grammar!AfterValue(@)]
    BY <1>1 DEF With
  <2> QED BY <1>1, <2>1, <2>2 DEF Takes, With
<1> HIDE DEF f, inner
<1>6. f # "string" => W!Top \notin {"O", "o"}
  BY <1>2, <1>3, <1>5
<1>7. /\ OutputOK' /\ size' = OUTBUF /\ LabelOK' /\ state' # "error"
      /\ Counting' /\ ~Popping' /\ (Pushing' <=> f \in Begins) /\ Writes' = f
      /\ wvalue' = Argument /\ UNCHANGED <<W!frameVars, indent>> /\ write_func' = "prelude"
  BY <1>2, <1>6, ValueStarts DEF f
<1>8. ArgumentOK'
  BY <1>2, <1>7, ArgumentFacts DEF ArgumentOK
<1>t. ASSUME inner \in {"doc", "array", "val"}
       PROVE  /\ taken \in Seq(Grammar!Expectations) /\ Len(taken) = n + 1
              /\ Agree(wstack, n, taken) /\ taken[n + 1] = Grammar!AfterValue(inner)
  <2>1. PICK x \in Grammar!Expectations : x = Grammar!AfterValue(inner)
    BY <1>3, <1>t
  <2>2. /\ With(e, x) \in Seq(Grammar!Expectations) /\ Len(With(e, x)) = n + 1
        /\ Agree(wstack, n, With(e, x)) /\ With(e, x)[n + 1] = x
    BY <1>1, InnermostTaken
  <2> QED BY <2>1, <2>2, Zenon
<1>9. /\ Agree(wstack, n, Expected) /\ Fits(Counted(W!Top), Expected[n + 1])
      /\ f \in Begins => Len(Expected) = n + 2 /\ Fits(Opened(f), Expected[n + 2])
      /\ f \notin Begins => Len(Expected) = n + 1
  <2>1. CASE inner \in {"doc", "array", "val"} /\ tok \in Grammar!Scalars /\ Expected = taken
    <3>1. /\ Len(Expected) = n + 1 /\ Agree(wstack, n, Expected)
          /\ Expected[n + 1] = Grammar!AfterValue(inner)
      BY <1>t, <2>1
    <3>2. f \notin Begins
      BY <1>2, <2>1, FunctionFacts
    <3> QED BY <1>3, <2>1, <3>1, <3>2
  <2>2. CASE inner = "key" /\ tok = "STRING" /\ Expected = With(e, "val")
    <3>1. Len(Expected) = n + 1 /\ Agree(wstack, n, Expected) /\ Expected[n + 1] = "val"
      BY <1>1, <1>4, <2>2, InnermostTaken, Z3
    <3>2. f \notin Begins
      BY <1>2, <2>2 DEF Begins
    <3> QED BY <1>3, <2>2, <3>1, <3>2
  <2>3. ASSUME inner \in {"doc", "array", "val"}, f \in Begins,
               NEW y \in Grammar!Expectations, Expected = Append(taken, y), Fits(Opened(f), y)
        PROVE  /\ Agree(wstack, n, Expected) /\ Fits(Counted(W!Top), Expected[n + 1])
               /\ Len(Expected) = n + 2 /\ Fits(Opened(f), Expected[n + 2])
    <3>1. /\ taken \in Seq(Grammar!Expectations) /\ Len(taken) = n + 1 /\ Agree(wstack, n, taken)
          /\ taken[n + 1] = Grammar!AfterValue(inner)
      BY <1>t, <2>3
    <3> HIDE DEF taken
    <3>2. /\ Len(Expected) = n + 2 /\ Agree(wstack, n, Expected)
          /\ Expected[n + 1] = taken[n + 1] /\ Expected[n + 2] = y
      BY <1>1, <2>3, <3>1, InnermostAppended
    <3> QED BY <1>3, <2>3, <3>1, <3>2
  <2>4. CASE /\ inner \in {"doc", "array", "val"} /\ tok = "BEGIN_ARRAY"
             /\ Expected = Append(taken, "array")
    <3>1. f \in Begins /\ Fits(Opened(f), "array")
      BY <1>2, <2>4 DEF Begins, Opened, Fits
    <3> QED BY <1>4, <2>3, <2>4, <3>1
  <2>5. CASE /\ inner \in {"doc", "array", "val"} /\ tok = "BEGIN_OBJECT"
             /\ Expected = Append(taken, "key")
    <3>1. f \in Begins /\ Fits(Opened(f), "key")
      BY <1>2, <2>5 DEF Begins, Opened, Fits
    <3> QED BY <1>4, <2>3, <2>5, <3>1
  <2> QED BY <1>5, <2>1, <2>2, <2>4, <2>5
<1>10. /\ wstack' = wstack /\ wstack_current' = n /\ W!Top' = W!Top /\ Expected' = Expected
  BY <1>7 DEF W!frameVars, W!Top, vars, stackVars, Top, Expected
<1>11. Nested'
  BY <1>7, <1>9, <1>10 DEF Nested
<1> QED BY <1>7, <1>8, <1>11 DEF Writing

\* The end of a container goes to the function that closes it.
LEMMA EndIsWritten ==
  ASSUME WStackOK, NEW e \in Seq(Grammar!Expectations), Matches(wstack, wstack_current, e),
         Takes(e, tok, Expected), tok \in {"END_ARRAY", "END_OBJECT"},
         W!WriteEnd(Function[tok], OUTBUF), UNCHANGED vars
  PROVE  Writing' /\ UNCHANGED <<W!frameVars, indent>>
<1> DEFINE n == wstack_current
           f == Function[tok]
<1>1. /\ n \in Nat /\ Len(e) = n + 1 /\ Fits(W!Top, e[n + 1]) /\ wstack[0] = "none"
  BY DEF WStackOK, Matches, W!Top
<1>2. /\ Expected = SubSeq(e, 1, Len(e) - 1)
      /\ tok = "END_ARRAY" => e[n + 1] = "array"
      /\ tok = "END_OBJECT" => e[n + 1] = "key"
  <2>1. tok \notin {"END", "NEED_DATA", "ERROR", "STRING", "BEGIN_ARRAY", "BEGIN_OBJECT"}
    OBVIOUS
  <2>2. tok \notin Grammar!Scalars
    BY DEF Grammar!Scalars
  <2> QED BY <1>1, <2>1, <2>2 DEF Takes
<1>3. /\ f \in W!Ends
      /\ tok = "END_ARRAY" => f = "end_array"
      /\ tok = "END_OBJECT" => f = "end_object"
  BY DEF Function, W!Ends
<1> HIDE DEF f
<1>4. W!Top \in Closable(f) /\ ~W!RefusedEnd(f) /\ W!Top # "none"
  <2>1. CASE tok = "END_ARRAY"
    <3>1. W!Top \in {"A", "a"}
      BY <1>1, <1>2, <2>1, Fitted
    <3> QED BY <1>3, <2>1, <3>1 DEF Closable, W!RefusedEnd
  <2>2. CASE tok = "END_OBJECT"
    <3>1. W!Top \in {"O", "o"}
      BY <1>1, <1>2, <2>2, Fitted
    <3> QED BY <1>3, <2>2, <3>1 DEF Closable, W!RefusedEnd
  <2> QED BY <2>1, <2>2
<1>5. n > 0
  BY <1>1, <1>4 DEF W!Top
<1>6. /\ OutputOK' /\ size' = OUTBUF /\ LabelOK' /\ state' # "error" /\ ArgumentOK'
      /\ ~Counting' /\ Popping' /\ ~Pushing'
      /\ UNCHANGED <<W!frameVars, indent>> /\ write_func' = f
  BY <1>3, <1>4, EndStarts DEF f
<1>7. Len(Expected) = n /\ Agree(wstack, n, Expected)
  BY <1>1, <1>2, InnermostDropped
<1>8. /\ wstack' = wstack /\ wstack_current' = n /\ W!Top' = W!Top /\ Expected' = Expected
  BY <1>6 DEF W!frameVars, W!Top, vars, stackVars, Top, Expected
<1>9. Nested'
  BY <1>4, <1>5, <1>6, <1>7, <1>8 DEF Nested
<1> QED BY <1>6, <1>9 DEF Writing

\* An answer is handled.
LEMMA HandleLinks ==
  ASSUME PrintfFits, PInv, "NUMBER_AS_STRING" \notin flags, HandleToken
  PROVE  Linked'
<1>1. /\ IInv /\ TextInv /\ Suited /\ pc = "idle" /\ Linked
      /\ WStackOK /\ indent \in Indents /\ UNCHANGED vars
  BY DEF PInv, Linked, HandleToken
<1>2. PICK e \in Seq(Grammar!Expectations) :
        Matches(wstack, wstack_current, e) /\ Takes(e, tok, Expected)
  BY <1>1 DEF Linked, HandleToken
<1>3. Expected' = Expected /\ pc' = "idle"
  BY <1>1 DEF vars, stackVars, Top, Expected
<1>4. ASSUME UNCHANGED <<W!frameVars, indent>> PROVE WStackOK' /\ indent' \in Indents
  BY <1>1, <1>4 DEF W!frameVars, WStackOK
<1>5. CASE tok = "ERROR" /\ ExitWith(1) /\ UNCHANGED writerVars
  BY <1>4, <1>5 DEF ExitWith, writerVars, W!frameVars, Linked
<1>6. CASE tok \in {"NEED_DATA", "END"} /\ ChunkDone /\ UNCHANGED writerVars
  <2>1. Expected = e
    <3>1. tok \notin Grammar!Scalars
      BY <1>6 DEF Grammar!Scalars
    <3> QED BY <1>2, <1>6, <3>1 DEF Takes
  <2>2. phase' \in {"read", "done"} /\ UNCHANGED <<W!frameVars, indent>>
    BY <1>6 DEF ChunkDone, ExitWith, GoTo, writerVars, W!frameVars
  <2>3. Matches(wstack', wstack_current', Expected')
    BY <1>2, <1>3, <2>1, <2>2 DEF W!frameVars
  <2> QED BY <1>4, <2>2, <2>3 DEF Linked
<1>7. CASE /\ tok \in DOMAIN Function
           /\ IF tok \in {"END_ARRAY", "END_OBJECT"}
              THEN W!WriteEnd(Function[tok], OUTBUF)
              ELSE W!WriteValue(Function[tok], Argument, OUTBUF)
           /\ GoTo("write")
  <2>1. Writing' /\ UNCHANGED <<W!frameVars, indent>>
    <3>1. CASE tok \in {"END_ARRAY", "END_OBJECT"}
      BY <1>1, <1>2, <1>7, <3>1, EndIsWritten
    <3>2. CASE tok \notin {"END_ARRAY", "END_OBJECT"}
      BY <1>1, <1>2, <1>7, <3>2, ValueWrites
    <3> QED BY <3>1, <3>2
  <2>2. phase' = "write"
    BY <1>7 DEF GoTo
  <2> QED BY <1>4, <2>1, <2>2 DEF Linked
<1> QED BY <1>5, <1>6, <1>7 DEF HandleToken

-----------------------------------------------------------------------------
(* The steps of the program. *)

\* The writer's buffer is empty, and it is called to go on, or the token is written.
LEMMA FlushLinks ==
  ASSUME PInv, "NUMBER_AS_STRING" \notin flags, Flush
  PROVE  Linked'
<1>1. /\ Writing /\ WStackOK /\ indent \in Indents /\ ~busy /\ UNCHANGED vars
      /\ \/ phase' = "done" /\ UNCHANGED writerVars
         \/ ~(written < 0) /\ written < OUTBUF /\ phase' = "tokens" /\ UNCHANGED writerVars
         \/ ~(written < 0) /\ phase' = "write" /\ W!Continue(OUTBUF)
  BY DEF Flush, PInv, Linked, ExitWith, GoTo
<1>2. OutputOK /\ ResultOK /\ LabelOK /\ ArgumentOK /\ size = OUTBUF
  BY <1>1 DEF Writing, OutputOK
<1>3. Expected' = Expected /\ pc' = pc
  BY <1>1 DEF vars, stackVars, Top, Expected
<1>4. OUTBUF \in Nat /\ OUTBUF # 0
  BY PrettyAssumption
<1>5. ASSUME UNCHANGED <<W!frameVars, indent>> PROVE WStackOK' /\ indent' \in Indents
  BY <1>1, <1>5 DEF W!frameVars, WStackOK
<1>6. CASE phase' = "done" /\ UNCHANGED writerVars
  BY <1>5, <1>6 DEF writerVars, W!frameVars, Linked
<1>7. CASE ~(written < 0) /\ written < OUTBUF /\ phase' = "tokens" /\ UNCHANGED writerVars
  <2>1. state = "done"
    BY <1>2, <1>4, <1>7 DEF ResultOK
  <2>2. Nested /\ ~Counting /\ ~Popping /\ ~Pushing
    BY <1>1, <1>2, <2>1 DEF Writing, LabelOK, PreludeLabels, Counting, Popping, Pushing
  <2>3. Matches(wstack, wstack_current, Expected)
    BY <2>2 DEF Nested, Matches, W!Top
  <2>4. Matches(wstack', wstack_current', Expected')
    BY <1>3, <1>7, <2>3 DEF writerVars
  <2>5. WStackOK' /\ indent' \in Indents
    BY <1>5, <1>7 DEF writerVars, W!frameVars
  <2> QED BY <1>7, <2>4, <2>5 DEF Linked
<1>8. CASE ~(written < 0) /\ phase' = "write" /\ W!Continue(OUTBUF)
  <2>1. /\ busy' = TRUE /\ size' = OUTBUF /\ out' = <<>> /\ pending' = pending
        /\ write_func' = write_func /\ next_write_func' = next_write_func /\ state' = state
        /\ wvalue' = wvalue /\ UNCHANGED <<W!frameVars, indent>>
    BY <1>4, <1>8 DEF W!Continue, W!Enter, W!configVars
  <2>2. state # "error"
    BY <1>2, <1>8 DEF ResultOK
  <2>3. OutputOK'
    <3>1. IsSeq(<<>>) /\ Len(<<>>) = 0
      BY ShortSeqs
    <3> QED BY <1>2, <1>4, <2>1, <2>2, <3>1 DEF OutputOK
  <2>4. wstack' = wstack /\ wstack_current' = wstack_current /\ W!Top' = W!Top
    BY <2>1 DEF W!frameVars, W!Top
  <2>5. LabelOK'
    BY <1>2, <2>1, <2>4 DEF LabelOK
  <2>6. ArgumentOK'
    BY <1>2, <2>1 DEF ArgumentOK, Writes
  <2>7. Nested'
    BY <1>1, <1>3, <2>1, <2>2, <2>4 DEF Writing, Nested, Counting, Popping, Pushing, Writes
  <2>8. Writing'
    BY <2>1, <2>2, <2>3, <2>5, <2>6, <2>7 DEF Writing
  <2> QED BY <1>5, <1>8, <2>1, <2>8 DEF Linked
<1> QED BY <1>1, <1>6, <1>7, <1>8

\* An answer of the grammar.
LEMMA GrammarTakes ==
  ASSUME Grammar!GrammarNext, tok' \in Replies
  PROVE  Takes(Expected, tok', Expected')
<1>1. CASE Grammar!Scalar
  BY <1>1 DEF Grammar!Scalar, Grammar!ExpectsValue, Grammar!Innermost, Grammar!Taken, Takes
<1>2. CASE Grammar!Key
  BY <1>2 DEF Grammar!Key, Grammar!Innermost, Takes
<1>3. CASE Grammar!Finish \/ Grammar!Fail \/ Grammar!Wait
  BY <1>3 DEF Grammar!Finish, Grammar!Fail, Grammar!Wait, Takes
<1>4. CASE Grammar!Feed \/ Grammar!Restart
  BY <1>4 DEF Grammar!Feed, Grammar!Restart, Replies
<1>5. CASE Grammar!Begin("BEGIN_ARRAY", "array") \/ Grammar!Begin("BEGIN_OBJECT", "key")
  BY <1>5 DEF Grammar!Begin, Grammar!ExpectsValue, Grammar!Innermost, Grammar!Taken, Takes
<1>6. CASE Grammar!End("END_ARRAY", "array") \/ Grammar!End("END_OBJECT", "key")
  BY <1>6 DEF Grammar!End, Grammar!Innermost, Takes
<1> QED BY <1>1, <1>2, <1>3, <1>4, <1>5, <1>6 DEF Grammar!GrammarNext

\* The parser runs on; its answer is one the grammar has.
LEMMA RunParserPInv ==
  ASSUME PInv, RunParser
  PROVE  PInv'
<1>1. /\ Run /\ phase = "parse" /\ UNCHANGED <<writerVars, programVars>>
      /\ IInv /\ KeyInv /\ TextInv /\ Numerals /\ Suited
  BY DEF PInv, RunParser
<1>2. IInv' /\ TextInv'
  <2>1. IInv'
    BY <1>1, StepIInv DEF Next
  <2> QED BY <1>1, <2>1, StepText DEF Next
<1>3. GrammarRun /\ KeyInv'
  BY <1>1, <1>2, RunStep
<1>4. Replied
  BY <1>1, <1>2, RunReplied
<1>5. flags' = flags /\ pc # "idle"
  <2>1. pc \in Labels
    <3>1. Moves
      BY <1>1, RunMoves
    <3> QED BY <3>1, LabelFacts
        DEF Moves, Goes, Calls, Fails, Returns, Emits, Concludes, NeedData, Running, Checked
  <2> QED BY <1>1, <2>1, LabelFacts DEF Run, configVars
<1>6. ASSUME "NUMBER_AS_STRING" \notin flags, Linked PROVE Linked'
  <2>1. Matches(wstack, wstack_current, Expected)
    BY <1>1, <1>5, <1>6 DEF Linked
  <2>2. /\ phase' = "parse" /\ indent' = indent /\ wstack' = wstack
        /\ wstack_current' = wstack_current /\ wstack_size' = wstack_size
    BY <1>1 DEF writerVars, programVars
  <2>3. WStackOK' /\ indent' \in Indents
    BY <1>6, <2>2 DEF Linked, WStackOK
  <2>4. CASE pc' # "idle"
    <3>1. Expected' = Expected
      BY <1>3, <2>4 DEF GrammarRun
    <3> QED BY <2>1, <2>2, <2>3, <2>4, <3>1 DEF Linked
  <2>5. CASE pc' = "idle"
    <3>1. tok' \in Replies /\ Takes(Expected, tok', Expected')
      BY <1>3, <1>4, <2>5, GrammarTakes DEF GrammarRun, Replied
    <3>2. Expected \in Seq(Grammar!Expectations)
      BY <1>1, ExpectedReads DEF ReadAs
    <3> QED BY <2>1, <2>2, <2>3, <2>5, <3>1, <3>2 DEF Linked
  <2> QED BY <2>4, <2>5
<1> QED BY <1>1, <1>2, <1>3, <1>4, <1>5, <1>6 DEF PInv, Replied, programVars

\* A chunk is fed, or the call of the parser begins: nothing of the tokens changes.
LEMMA ParserWaits ==
  ASSUME Linked, phase \in {"read", "tokens"}, Expected' = Expected, UNCHANGED writerVars,
         phase' \in {"tokens", "done"} \/ (phase' = "parse" /\ pc' # "idle")
  PROVE  Linked'
<1>1. /\ indent' = indent /\ wstack' = wstack
      /\ wstack_current' = wstack_current /\ wstack_size' = wstack_size
  BY DEF writerVars
<1>2. WStackOK' /\ indent' \in Indents
  BY <1>1 DEF Linked, WStackOK
<1>3. Matches(wstack', wstack_current', Expected')
  BY <1>1 DEF Linked
<1> QED BY <1>2, <1>3 DEF Linked

\* A chunk is read and fed.
LEMMA ReadChunkPInv ==
  ASSUME FreadBytes, PInv, ReadChunk
  PROVE  PInv'
<1>1. /\ phase = "read" /\ phase' \in {"done", "tokens"} /\ UNCHANGED writerVars
      /\ IInv /\ KeyInv /\ TextInv /\ Numerals
  BY DEF PInv, ReadChunk, ExitWith, GoTo
<1>2. PICK chunk \in Fread(encoding, doc) \cup {<<>>} : Feed(chunk) /\ doc' = doc \o chunk
  BY DEF ReadChunk
<1>3. chunk \in Seq(Byte) /\ doc \in Seq(Byte)
  <2>1. encoding \in Encodings /\ doc \in Seq(Byte)
    BY DEF PInv, IInv, TypeOK
  <2>2. Fread(encoding, doc) \subseteq Seq(Byte)
    BY <2>1, Zenon DEF FreadBytes
  <2>3. <<>> \in Seq(Byte)
    OBVIOUS
  <2> QED BY <2>1, <2>2, <2>3
<1>4. IInv' /\ KeyInv' /\ Numerals' /\ Suited' /\ pc' = "idle" /\ Top' = Top
  BY <1>1, <1>2, <1>3, FeedStays
<1>5. /\ UNCHANGED <<stackVars, buffer, value, flags>> /\ tok' \in {"FED", "ENOBUFS"}
  BY <1>2 DEF Feed, configVars, bufferVars
<1>6. TextInv'
  BY <1>1, <1>4, <1>5, TextSame
<1>7. Expected' = Expected
  BY <1>1, <1>4, <1>5, SamePlace
<1>8. doc' \in Seq(Byte)
  BY <1>2, <1>3
<1>9. "NUMBER_AS_STRING" \notin flags' => Linked'
  BY <1>1, <1>5, <1>7, ParserWaits DEF PInv
<1> QED BY <1>1, <1>4, <1>6, <1>8, <1>9 DEF PInv

\* The parser is asked for a token.
LEMMA CallNextTokenPInv ==
  ASSUME PInv, CallNextToken
  PROVE  PInv'
<1>1. /\ phase = "tokens" /\ phase' = "parse" /\ UNCHANGED <<writerVars, doc>> /\ NextToken
      /\ IInv /\ KeyInv /\ TextInv /\ Numerals
  BY DEF PInv, CallNextToken, GoTo
<1>2. IInv'
  BY <1>1, NextTokenIInv
<1>3. Top' = Top /\ pc' # "idle" /\ UNCHANGED <<flags, stackVars, buffer, value>>
  <2>1. pc = "idle" /\ pc' = Top /\ UNCHANGED <<configVars, stackVars, bufferVars, value>>
    BY <1>1 DEF NextToken, Top
  <2>2. Top \in Labels
    BY <1>1 DEF IInv, Frames
  <2> QED BY <2>1, <2>2, LabelFacts DEF Top, configVars, bufferVars
<1>4. Numerals' /\ Suited'
  BY <1>1, <1>3 DEF Numerals, Suited
<1>5. TextInv'
  BY <1>1, <1>3, TextSame
<1>6. Expected' = Expected /\ KeyInv'
  BY <1>1, <1>3, SamePlace
<1>7. "NUMBER_AS_STRING" \notin flags' => Linked'
  BY <1>1, <1>3, <1>6, ParserWaits DEF PInv
<1> QED BY <1>1, <1>2, <1>3, <1>4, <1>5, <1>6, <1>7 DEF PInv

\* Steps that leave the parser alone.
LEMMA ParserRests ==
  ASSUME PInv, UNCHANGED <<vars, doc>>, phase' \in {"read", "tokens", "write", "done"},
         phase # "parse" \/ pc = "idle",
         "NUMBER_AS_STRING" \notin flags => Linked'
  PROVE  PInv'
<1>1. IInv' /\ KeyInv' /\ Numerals' /\ Suited'
  BY ParserStays DEF PInv
<1>2. Top' = Top /\ UNCHANGED <<flags, buffer, value, tok, pc>>
  BY DEF vars, configVars, stackVars, bufferVars, Top
<1>3. TextInv'
  BY <1>2, TextSame DEF PInv
<1> QED BY <1>1, <1>2, <1>3 DEF PInv

\* Every step preserves the invariant.
LEMMA StepPInv ==
  ASSUME FreadBytes, PrintfFits, PInv, [PrettyNext]_allVars
  PROVE  PInv'
<1>1. CASE ReadChunk
  BY <1>1, ReadChunkPInv
<1>2. CASE CallNextToken
  BY <1>2, CallNextTokenPInv
<1>3. CASE RunParser
  BY <1>3, RunParserPInv
<1>4. CASE HandleToken
  <2>1. /\ UNCHANGED <<vars, doc>> /\ pc = "idle" /\ phase' \in {"read", "tokens", "write", "done"}
    BY <1>4 DEF HandleToken, ExitWith, GoTo, ChunkDone
  <2> QED BY <1>4, <2>1, HandleLinks, ParserRests
<1>5. CASE RunWriter
  <2>1. UNCHANGED <<vars, doc>> /\ phase = "write" /\ phase' = "write" /\ W!Run
    BY <1>5 DEF RunWriter, programVars
  <2>2. ASSUME "NUMBER_AS_STRING" \notin flags PROVE Linked'
    <3>1. Writing /\ WStackOK /\ indent \in Indents
      BY <2>1, <2>2 DEF PInv, Linked
    <3>2. Writing' /\ WStackOK' /\ indent' = indent
      BY <2>1, <3>1, RunWrites
    <3> QED BY <2>1, <3>1, <3>2 DEF Linked
  <2> QED BY <2>1, <2>2, ParserRests
<1>6. CASE Flush
  <2>1. /\ UNCHANGED <<vars, doc>> /\ phase = "write" /\ phase' \in {"read", "tokens", "write", "done"}
    BY <1>6 DEF Flush, ExitWith, GoTo
  <2> QED BY <1>6, <2>1, FlushLinks, ParserRests
<1>7. CASE Exit \/ UNCHANGED allVars
  <2>1. UNCHANGED allVars
    BY <1>7 DEF Exit
  <2>2. /\ UNCHANGED <<vars, doc, phase, indent, write_func, next_write_func, state, wstack>>
        /\ UNCHANGED <<wstack_size, wstack_current, pending, wvalue, busy, size, out, written>>
    BY <2>1 DEF allVars, writerVars, programVars
  <2>3. Top' = Top /\ UNCHANGED <<flags, buffer, value, tok, pc>> /\ Expected' = Expected
    BY <2>2 DEF vars, configVars, stackVars, bufferVars, Top, Expected
  <2>4. IInv' /\ KeyInv' /\ Numerals' /\ Suited' /\ TextInv'
    BY <2>2, <2>3, ParserStays, TextSame DEF PInv
  <2>5. Linked => Linked'
    BY <2>2, <2>3
    DEF Linked, WStackOK, Writing, OutputOK, ResultOK, LabelOK, ArgumentOK, Nested, Counting,
        Pushing, Popping, Writes, W!Top
  <2> QED BY <2>2, <2>3, <2>4, <2>5 DEF PInv
<1> QED BY <1>1, <1>2, <1>3, <1>4, <1>5, <1>6, <1>7 DEF PrettyNext

\* At the start the writer has a bottom and the parser expects a document.
LEMMA InitPInv ==
  ASSUME PrettyInit
  PROVE  PInv
<1>1. Init /\ W!WriterInit(WriterFlagSets, Indents) /\ phase = "read" /\ doc = <<>>
  BY DEF PrettyInit
<1>2. IInv /\ KeyInv /\ TextInv /\ Expected = <<"doc">>
  BY <1>1, InitIInv, InitGrammar, InitText DEF Grammar!GrammarInit
<1>3. pc = "idle" /\ tok = "INIT" /\ Top = "START"
  BY <1>1, MemoryAssumption DEF Init, Top
<1>4. Numerals /\ Suited
  BY <1>3, NumeralFacts, LabelFacts DEF Numerals, Suited, Suits, NumeralLabels
<1>5. /\ wstack = [i \in 0 .. STACK_SIZE - 1 |-> "none"] /\ wstack_size = STACK_SIZE
      /\ wstack_current = 0 /\ indent \in Indents
  BY <1>1 DEF W!WriterInit
<1>6. WStackOK
  <2>1. STACK_SIZE \in Nat /\ 0 \in 0 .. STACK_SIZE - 1 /\ "none" \in W!Frames
    BY MemoryAssumption DEF W!Frames
  <2> QED BY <1>5, <2>1 DEF WStackOK
<1>7. Matches(wstack, wstack_current, Expected)
  <2>1. wstack[0] = "none" /\ Expected[1] = "doc" /\ Len(Expected) = 1 /\ 0 + 1 = 1
    BY <1>2, <1>6 DEF WStackOK
  <2>2. 0 .. 0 - 1 = {}
    OBVIOUS
  <2> QED BY <1>5, <2>1, <2>2 DEF Matches, Agree, Fits
<1>8. doc \in Seq(Byte)
  BY <1>1
<1> QED BY <1>1, <1>2, <1>3, <1>4, <1>5, <1>6, <1>7, <1>8 DEF PInv, Linked

\* The invariant holds in every state the program reaches.
THEOREM PrettyInvariance ==
  ASSUME FreadBytes, PrintfFits
  PROVE  PrettySpec => []PInv
<1>1. PrettyInit => PInv
  BY InitPInv
<1>2. PInv /\ [PrettyNext]_allVars => PInv'
  BY StepPInv
<1> QED BY <1>1, <1>2, PTL DEF PrettySpec

\* The writer takes every token of the parser, and fails only where its stack is to grow.
THEOREM TokensAreTaken ==
  ASSUME FreadBytes, PrintfFits
  PROVE  PrettySpec => []WriterTakesTokens
<1>1. PInv => WriterTakesTokens
  BY DEF PInv, Linked, Writing, OutputOK, ResultOK, Begins, WriterTakesTokens
<1> QED BY <1>1, PrettyInvariance, PTL

=============================================================================
