---------------------------- MODULE ParserProof -----------------------------
(***************************************************************************)
(* The theorems about the parser: the properties its runs check on small   *)
(* instances hold for every stack and buffer size, every chunk a program   *)
(* may feed, every order of its calls and every outcome of realloc.  As far*)
(* as the inductive invariant is concerned the steps of a call are few     *)
(* moves (Moves): it is shown that each move preserves it, and the calls   *)
(* that are single steps do; and then, with a lemma for each operator the  *)
(* scanners are built from and one for each action, that every step of     *)
(* ajson_next_token() behind its dispatch is such a move.                  *)
(***************************************************************************)
EXTENDS Parser, SequenceTheorems, TLAPS

-----------------------------------------------------------------------------
(* The inductive invariant. *)

\* The labels of the document itself, and those a container resumes at.
Doc == {"START", "start.ws", "start.ret", "start.trail"}
Inner == {"arr.ret", "obj.key", "obj.val"}

\* The document is the first frame of the stack and containers are all others;
\* the scanner that runs, or is resumed next, is the document's in the first
\* frame and another one in the others.
Frames ==
  /\ Top \in Labels
  /\ stack_current = 0 => Top \in Doc \cup {"ERROR"} /\ stack[0] \in Doc \cup {"ERROR"}
  /\ stack_current > 0 => Top \notin Doc /\ stack[0] = "start.ret"
  /\ \A i \in 1 .. stack_current - 1 : stack[i] \in Inner

Position == IF pc = "idle" THEN input_current ELSE index

\* Where nothing is checked there is a byte, or the end.
ByteAhead == Top \in JumpLabels \ {"ERROR"} => AtEof \/ Position < Size

\* After the answer ERROR the parser is in its error state.
ErrorStays == tok = "ERROR" => Top = "ERROR"

\* The zero byte is stored before the string is handed out.
Terminated == Used > 0 /\ buffer[Used] = 0
StringClosed == Top = "str.close" => Terminated

IInv ==
  /\ TypeOK
  /\ Frames
  /\ ScratchKept
  /\ StringClosed
  /\ StringsAreTerminated
  /\ ByteAhead
  /\ ErrorStays
  /\ NoInternalError
  /\ FeedAccepted

-----------------------------------------------------------------------------
(* The moves. *)

BufferOK == buffer \in Seq(Byte) /\ buffer_size \in Nat /\ Used <= buffer_size
Readable == AtEof \/ index < Size
Checked == NeedLabels \cup MayLabels
Tokens == Answers \ {"NEED_DATA", "END", "ERROR"}
Opening == {"BEGIN_ARRAY", "BEGIN_OBJECT"}
Running == pc \in Labels \ {"ERROR"} /\ Readable

\* A byte is taken and the scanner goes on.
Goes ==
  /\ Running
  /\ \E l \in Checked :
       /\ Advance(l)
       /\ l \in Doc <=> pc \in Doc
       /\ ScratchOf(l, value')
       /\ l = "str.close" => Terminated'
  /\ BufferOK' /\ ValueOK'

\* A value or a key is begun.
Calls ==
  /\ Running
  /\ \E enter \in {"VALUE", "STRING"}, return \in Inner \cup {"start.ret"} :
       /\ Recurse(enter, return)
       /\ return = "start.ret" <=> pc \in Doc

\* The call answers an error that is not an internal one.
Fails ==
  /\ pc \in Labels
  /\ \E e \in Errors \ {"EMPTY_SATCK", "JUMP"} : Fail(e)
  /\ BufferOK'

\* A value is complete.
Returns ==
  /\ Running /\ pc \notin Doc
  /\ \E t \in Tokens :
       /\ Answer(t)
       /\ t \in {"STRING", "NUMBER"} /\ Live' = "string" => Used' = Held' + 1 /\ Terminated'
  /\ stack_current > 0 /\ stack_current' = stack_current - 1
  /\ UNCHANGED <<stack, stack_size>>
  /\ BufferOK' /\ ValueOK'

\* A bracket is answered and the scanner waits at it.
Emits ==
  /\ Running /\ pc \notin Doc
  /\ \E t \in Opening, l \in {"arr.emit", "obj.emit"} : Emit(t, l)

\* The end is answered.
Concludes == Running /\ pc \in Doc /\ AtEof /\ Done

Moves == Goes \/ Calls \/ Fails \/ Returns \/ Emits \/ Concludes \/ NeedData
-----------------------------------------------------------------------------
(* Facts about labels. *)

\* The classes of labels do not overlap, and no label is one of the marks for "no call"
\* and "never stored".
LEMMA LabelFacts ==
  /\ "idle" \notin Labels /\ "uninit" \notin Labels
  /\ Checked \cap JumpLabels = {}
  /\ Checked \subseteq Labels /\ JumpLabels \subseteq Labels
  /\ Doc \subseteq Labels /\ Inner \subseteq JumpLabels
  /\ {"VALUE", "STRING", "ERROR", "start.ret", "arr.emit", "obj.emit"} \subseteq Labels
  /\ "VALUE" \in Checked /\ "START" \in Checked
BY DEF Labels, Checked, NeedLabels, MayLabels, JumpLabels, Doc, Inner, LiteralLabels, LiteralEnds, HexLabels, Utf8Labels

\* At a label that is not inside of a scalar nothing is asked of the union.
Scratch ==
  Utf8Labels \cup (HexLabels \ {"hex1"}) \cup {"sur.bs", "sur.u"} \cup NumberLabels

\* Outside of those labels any value of the union will do.
LEMMA ScratchFree ==
  ASSUME NEW l, l \notin Scratch, NEW v
  PROVE  ScratchOf(l, v)
BY DEF Scratch, ScratchOf, Utf8Labels, HexLabels

\* The labels a call may be resumed at without a byte, and those of the document, are
\* outside.
LEMMA ScratchFreeLabels ==
  (JumpLabels \cup Doc \cup {"VALUE"}) \cap Scratch = {}
BY DEF Scratch, JumpLabels, Doc, Utf8Labels, HexLabels, NumberLabels

-----------------------------------------------------------------------------
(* The moves preserve the invariant. *)

\* Taking a byte preserves the invariant.
LEMMA GoesIInv ==
  ASSUME IInv, Goes, UNCHANGED configVars
  PROVE  IInv'
<1>1. PICK l \in Checked : /\ Advance(l)
                           /\ l \in Doc <=> pc \in Doc
                           /\ ScratchOf(l, value')
                           /\ l = "str.close" => Terminated'
  BY DEF Goes
<1>2. l \in Labels /\ l # "idle" /\ l \notin JumpLabels /\ pc # "idle"
  BY LabelFacts DEF Goes, Running
<1>3. Top = pc /\ Top' = l
  BY <1>1, <1>2 DEF Top, Advance
<1>4. UNCHANGED <<configVars, input, input_current, stack, stack_size, stack_current, tok>>
  BY <1>1 DEF Advance, inputVars, stackVars
<1>5. TypeOK'
  BY <1>1, <1>2, <1>4 DEF IInv, TypeOK, Goes, Advance, BufferOK, Used, configVars
<1>6. Frames'
  BY <1>1, <1>2, <1>3, <1>4, LabelFacts DEF IInv, Frames, Goes, Running
<1>7. ScratchKept'
  BY <1>1, <1>3 DEF ScratchKept
<1>8. ByteAhead' /\ NoInternalError' /\ FeedAccepted'
  BY <1>1, <1>2, <1>3 DEF ByteAhead, NoInternalError, FeedAccepted, Advance
<1>9. ErrorStays'
  BY <1>2, <1>3, <1>4 DEF IInv, ErrorStays, Goes, Running
<1>10. StringClosed' /\ StringsAreTerminated'
  BY <1>1, <1>2, <1>3 DEF StringClosed, StringsAreTerminated, Advance
<1> QED
  BY <1>5, <1>6, <1>7, <1>8, <1>9, <1>10 DEF IInv

\* What an answer leaves: the position becomes input_current, and the top of the stack
\* is where the next call starts.
LEMMA AnswerFacts ==
  ASSUME NEW t, Answer(t)
  PROVE  /\ pc' = "idle" /\ tok' = t
         /\ input' = input /\ input_current' = index /\ index' = 0
         /\ Top' = stack'[stack_current'] /\ Position' = index /\ Size' = Size
         /\ AtEof' = AtEof
BY DEF Answer, Top, Position, Size, AtEof

\* Answering an error preserves the invariant: the parser is left in its error state
\* (RAISE_ERROR).
LEMMA FailsIInv ==
  ASSUME IInv, Fails, UNCHANGED configVars
  PROVE  IInv'
<1>1. PICK e \in Errors \ {"EMPTY_SATCK", "JUMP"} : Fail(e)
  BY DEF Fails
<1>2. Answer("ERROR") /\ value' = <<"error", e>>
  BY <1>1 DEF Fail
<1>3. /\ stack' = [stack EXCEPT ![stack_current] = "ERROR"]
      /\ stack_size' = stack_size /\ stack_current' = stack_current
  BY <1>1 DEF Fail
<1>4. stack_current \in 0 .. stack_size - 1 /\ stack \in [0 .. stack_size - 1 -> Labels \cup {"uninit"}]
  BY DEF IInv, TypeOK
<1>5. Top' = "ERROR"
  BY <1>2, <1>3, <1>4, AnswerFacts
<1>6. TypeOK'
  <2>1. ValueOK'
    BY <1>2 DEF ValueOK, Live, Held
  <2>2. stack' \in [0 .. stack_size' - 1 -> Labels \cup {"uninit"}]
    BY <1>3, <1>4, LabelFacts
  <2> QED
    BY <1>2, <1>3, <1>4, <2>1, <2>2, AnswerFacts
    DEF IInv, TypeOK, Fails, BufferOK, Used, configVars, Answers
<1>7. Frames'
  <2>1. \A i \in 0 .. stack_current - 1 : stack'[i] = stack[i]
    BY <1>3, <1>4
  <2>2. stack_size \in Nat /\ stack_current > 0 => stack[0] = "start.ret"
    <3>1. CASE pc = "idle"
      BY DEF IInv, Frames, TypeOK
    <3> QED BY DEF IInv, Frames, TypeOK
  <2> QED
    BY <1>3, <1>4, <1>5, <2>1, <2>2, LabelFacts DEF IInv, Frames, Doc
<1>8. ScratchKept'
  BY <1>5, ScratchFree, ScratchFreeLabels DEF ScratchKept, JumpLabels
<1>9. ByteAhead' /\ ErrorStays'
  BY <1>5 DEF ByteAhead, ErrorStays
<1>10. NoInternalError' /\ FeedAccepted'
  BY <1>2, AnswerFacts DEF NoInternalError, FeedAccepted, Held
<1>11. StringClosed' /\ StringsAreTerminated'
  BY <1>2, <1>5, AnswerFacts DEF StringClosed, StringsAreTerminated
<1> QED
  BY <1>6, <1>7, <1>8, <1>9, <1>10, <1>11 DEF IInv

\* RECURSE preserves the invariant, also when the stack is moved and when it cannot be.
LEMMA CallsIInv ==
  ASSUME IInv, Calls, UNCHANGED configVars
  PROVE  IInv'
<1>1. PICK enter \in {"VALUE", "STRING"}, return \in Inner \cup {"start.ret"} :
         Recurse(enter, return) /\ (return = "start.ret" <=> pc \in Doc)
  BY DEF Calls
<1> DEFINE full == stack_current + 1 = stack_size
           newsize == IF full THEN stack_size + STACK_SIZE ELSE stack_size
           moved == [i \in 0 .. newsize - 1 |->
                       IF i = stack_current THEN return
                       ELSE IF i < stack_size THEN stack[i] ELSE "uninit"]
<1>2. CASE RaiseError("MEMORY")
  BY <1>2, FailsIInv DEF Fails, RaiseError, Errors, Calls, Running, bufferVars,
     BufferOK, Used, IInv, TypeOK
<1>3. CASE /\ stack' = moved /\ stack_size' = newsize
           /\ stack_current' = stack_current + 1 /\ pc' = enter
           /\ UNCHANGED <<inputVars, bufferVars, value, index, tok>>
  <2>1. /\ stack_current \in Nat /\ stack_size \in Nat /\ stack_current < stack_size
        /\ stack \in [0 .. stack_size - 1 -> Labels \cup {"uninit"}]
        /\ STACK_SIZE \in Nat /\ STACK_SIZE > 1
    BY MemoryAssumption DEF IInv, TypeOK
  <2>2. newsize \in Nat /\ newsize >= stack_size /\ stack_current + 1 < newsize
    BY <2>1
  <2>3. return \in Labels /\ enter \in Labels \ {"idle", "ERROR"} /\ enter \notin Doc
    BY LabelFacts DEF Doc
  <2>4. moved \in [0 .. newsize - 1 -> Labels \cup {"uninit"}]
    BY <2>1, <2>2, <2>3
  <2>5. /\ moved[stack_current] = return
        /\ \A i \in 0 .. stack_current - 1 : moved[i] = stack[i]
    BY <2>1, <2>2
  <2>6. TypeOK'
    BY <1>3, <2>1, <2>2, <2>3, <2>4
    DEF IInv, TypeOK, ValueOK, Live, Held, Used, configVars, inputVars, bufferVars
  <2>7. Top = pc /\ Top' = enter /\ pc \notin {"ERROR", "idle"}
    BY <1>3, <2>3, LabelFacts DEF Top, Calls, Running
  <2>8. Frames'
    <3>1. stack'[0] = "start.ret"
      <4>1. CASE stack_current = 0
        BY <1>1, <1>3, <2>5, <2>7, <4>1 DEF IInv, Frames
      <4>2. CASE stack_current > 0
        BY <1>3, <2>1, <2>5, <4>2 DEF IInv, Frames
      <4> QED BY <2>1, <4>1, <4>2
    <3>2. \A i \in 1 .. stack_current : stack'[i] \in Inner
      <4>1. stack_current > 0 => stack'[stack_current] \in Inner
        BY <1>1, <1>3, <2>5, <2>7 DEF IInv, Frames
      <4> QED BY <1>3, <2>1, <2>5, <4>1 DEF IInv, Frames
    <3>3. stack_current' \in Nat \ {0} /\ 1 .. stack_current' - 1 = 1 .. stack_current
      BY <1>3, <2>1
    <3>4. \A i \in 1 .. stack_current' - 1 : stack'[i] \in Inner
      BY <3>2, <3>3
    <3>5. Top' \in Labels /\ Top' \notin Doc
      BY <2>3, <2>7
    <3> HIDE DEF moved, newsize, full
    <3> QED BY <3>1, <3>3, <3>5, <3>4 DEF Frames
  <2>9. ScratchKept'
    BY <2>7, ScratchFree, ScratchFreeLabels DEF ScratchKept, JumpLabels
  <2>10. ByteAhead'
    BY <1>3, <2>3, <2>7 DEF ByteAhead, Calls, Running, Readable, AtEof, Size, Position, inputVars
  <2>11. ErrorStays' /\ NoInternalError' /\ FeedAccepted'
    BY <1>3, <2>3, <2>7 DEF IInv, ErrorStays, NoInternalError, FeedAccepted
  <2>12. StringClosed' /\ StringsAreTerminated'
    BY <1>3, <2>3, <2>7 DEF StringClosed, StringsAreTerminated
  <2> QED BY <2>6, <2>8, <2>9, <2>10, <2>11, <2>12 DEF IInv
<1>4. \/ RaiseError("MEMORY")
      \/ /\ stack' = moved /\ stack_size' = newsize
         /\ stack_current' = stack_current + 1 /\ pc' = enter
         /\ UNCHANGED <<inputVars, bufferVars, value, index, tok>>
  <2>1. PICK ok \in Realloc :
          IF full /\ ~(ok /\ newsize <= MaxStackSize) THEN RaiseError("MEMORY")
          ELSE /\ stack' = moved /\ stack_size' = newsize
               /\ stack_current' = stack_current + 1 /\ pc' = enter
               /\ UNCHANGED <<inputVars, bufferVars, value, index, tok>>
    BY <1>1, Zenon DEF Recurse
  <2> HIDE DEF full, newsize, moved
  <2> QED BY <2>1
<1> QED BY <1>2, <1>3, <1>4

\* RETURN preserves the invariant: there is a frame below, and it is one to resume at.
LEMMA ReturnsIInv ==
  ASSUME IInv, Returns, UNCHANGED configVars
  PROVE  IInv'
<1>1. PICK t \in Tokens :
        /\ Answer(t)
        /\ t \in {"STRING", "NUMBER"} /\ Live' = "string" => Used' = Held' + 1 /\ Terminated'
  BY DEF Returns
<1>2. /\ stack_current \in Nat /\ stack_current > 0 /\ stack_current < stack_size
      /\ stack_size \in Nat
      /\ stack \in [0 .. stack_size - 1 -> Labels \cup {"uninit"}]
      /\ stack' = stack /\ stack_size' = stack_size /\ stack_current' = stack_current - 1
  BY DEF IInv, TypeOK, Returns
<1>3. Top' = stack[stack_current - 1]
  BY <1>1, <1>2, AnswerFacts
<1>4. stack[0] = "start.ret" /\ \A i \in 1 .. stack_current - 1 : stack[i] \in Inner
  BY <1>2 DEF IInv, Frames
<1>5. /\ Top' \in Labels
      /\ stack_current' = 0 => Top' = "start.ret"
      /\ stack_current' > 0 => Top' \in Inner
  BY <1>2, <1>3, <1>4, LabelFacts
<1>6. TypeOK'
  BY <1>1, <1>2, AnswerFacts DEF IInv, TypeOK, Returns, BufferOK, Used, configVars, Tokens, Answers
<1>7. Frames'
  BY <1>2, <1>4, <1>5 DEF Frames, Doc, Inner
<1>8. ScratchKept'
  <2>1. Top' \in Inner \cup {"start.ret"}
    BY <1>2, <1>5
  <2>2. Top' \notin Scratch
    BY <2>1, ScratchFreeLabels, LabelFacts DEF Doc
  <2> QED BY <2>2, ScratchFree DEF ScratchKept
<1>9. ByteAhead'
  BY <1>1, AnswerFacts DEF ByteAhead, Returns, Running, Readable
<1>10. ErrorStays' /\ NoInternalError' /\ FeedAccepted'
  BY <1>1, AnswerFacts DEF ErrorStays, NoInternalError, FeedAccepted, Tokens
<1>11. StringClosed'
  BY <1>2, <1>5 DEF StringClosed, Inner
<1>12. StringsAreTerminated'
  BY <1>1, AnswerFacts DEF StringsAreTerminated, Terminated
<1> QED
  BY <1>6, <1>7, <1>8, <1>9, <1>10, <1>11, <1>12 DEF IInv

\* Answering a bracket preserves the invariant: the call stops in front of the bracket,
\* which the next call takes without a check.
LEMMA EmitsIInv ==
  ASSUME IInv, Emits, UNCHANGED configVars
  PROVE  IInv'
<1>1. PICK t \in Opening, l \in {"arr.emit", "obj.emit"} : Emit(t, l)
  BY DEF Emits
<1>2. Answer(t) /\ stack' = [stack EXCEPT ![stack_current] = l]
      /\ UNCHANGED <<stack_size, stack_current, bufferVars, value>>
  BY <1>1 DEF Emit
<1>3. /\ stack_current \in Nat /\ stack_size \in Nat /\ stack_current < stack_size
      /\ stack \in [0 .. stack_size - 1 -> Labels \cup {"uninit"}]
  BY DEF IInv, TypeOK
<1>4. Top' = l /\ l \in Labels \cap JumpLabels /\ l \notin Doc
  BY <1>2, <1>3, AnswerFacts, LabelFacts DEF Doc, JumpLabels
<1>5. Top = pc /\ pc # "ERROR"
  BY LabelFacts DEF Top, Emits, Running
<1>6. stack_current > 0
  BY <1>3, <1>5 DEF IInv, Frames, Emits
<1>7. TypeOK'
  BY <1>2, <1>3, <1>4, AnswerFacts
  DEF IInv, TypeOK, ValueOK, Live, Held, Used, bufferVars, configVars, Opening, Answers
<1>8. Frames'
  BY <1>2, <1>3, <1>4, <1>6 DEF IInv, Frames
<1>9. ScratchKept'
  BY <1>4, ScratchFree, ScratchFreeLabels DEF ScratchKept
<1>10. ByteAhead'
  BY <1>2, AnswerFacts DEF ByteAhead, Emits, Running, Readable
<1>11. ErrorStays' /\ NoInternalError' /\ FeedAccepted'
  BY <1>2, AnswerFacts DEF ErrorStays, NoInternalError, FeedAccepted, Opening
<1>12. StringClosed' /\ StringsAreTerminated'
  BY <1>2, <1>4, AnswerFacts DEF StringClosed, StringsAreTerminated, Opening
<1> QED
  BY <1>7, <1>8, <1>9, <1>10, <1>11, <1>12 DEF IInv

\* Answering END preserves the invariant; the stack still holds the label of the
\* document.
LEMMA ConcludesIInv ==
  ASSUME IInv, Concludes, UNCHANGED configVars
  PROVE  IInv'
<1>1. Answer("END") /\ UNCHANGED <<stackVars, bufferVars, value>>
  BY DEF Concludes, Done
<1>2. Top = pc /\ pc \in Labels
  BY LabelFacts DEF Top, Concludes, Running
<1>3. /\ stack_current \in Nat /\ stack_size \in Nat /\ stack_current < stack_size
      /\ stack \in [0 .. stack_size - 1 -> Labels \cup {"uninit"}]
  BY DEF IInv, TypeOK
<1>4. stack_current = 0 /\ stack' = stack /\ stack_current' = 0 /\ stack_size' = stack_size
  BY <1>1, <1>2, <1>3 DEF IInv, Frames, Concludes, stackVars
<1>5. Top' = stack[0] /\ Top' \in Doc \cup {"ERROR"}
  BY <1>1, <1>4, AnswerFacts DEF IInv, Frames
<1>6. TypeOK'
  BY <1>1, <1>3, <1>4, AnswerFacts
  DEF IInv, TypeOK, ValueOK, Live, Held, Used, bufferVars, configVars, Answers
<1>7. Frames'
  BY <1>4, <1>5, LabelFacts DEF Frames
<1>8. ScratchKept'
  BY <1>5, ScratchFree, ScratchFreeLabels DEF ScratchKept, JumpLabels
<1>9. ByteAhead' /\ FeedAccepted'
  BY <1>1, AnswerFacts DEF ByteAhead, FeedAccepted, Concludes, AtEof, Size, IInv, TypeOK
<1>10. ErrorStays' /\ NoInternalError'
  BY <1>1, AnswerFacts DEF ErrorStays, NoInternalError
<1>11. StringClosed' /\ StringsAreTerminated'
  BY <1>1, <1>5, AnswerFacts DEF StringClosed, StringsAreTerminated, Doc
<1> QED
  BY <1>6, <1>7, <1>8, <1>9, <1>10, <1>11 DEF IInv

\* Answering NEED_DATA preserves the invariant: the call resumes where it stopped.
LEMMA NeedDataIInv ==
  ASSUME IInv, NeedData, UNCHANGED configVars
  PROVE  IInv'
<1>1. /\ pc \in Checked /\ ~AtEof /\ index >= Size /\ Answer("NEED_DATA")
      /\ stack' = [stack EXCEPT ![stack_current] = pc]
      /\ UNCHANGED <<stack_size, stack_current, bufferVars, value>>
  BY DEF NeedData, Checked
<1>2. pc \in Labels /\ pc \notin JumpLabels /\ Top = pc /\ pc # "ERROR"
  BY <1>1, LabelFacts DEF Top, JumpLabels
<1>3. /\ stack_current \in Nat /\ stack_size \in Nat /\ stack_current < stack_size
      /\ stack \in [0 .. stack_size - 1 -> Labels \cup {"uninit"}]
  BY DEF IInv, TypeOK
<1>4. Top' = Top
  BY <1>1, <1>2, <1>3, AnswerFacts
<1>5. TypeOK'
  BY <1>1, <1>2, <1>3, AnswerFacts
  DEF IInv, TypeOK, ValueOK, Live, Held, Used, bufferVars, configVars, Answers
<1>6. Frames'
  BY <1>1, <1>2, <1>3, <1>4 DEF IInv, Frames
<1>7. ScratchKept'
  BY <1>1, <1>4 DEF IInv, ScratchKept
<1>8. ByteAhead' /\ ErrorStays'
  BY <1>1, <1>2, <1>4, AnswerFacts DEF ByteAhead, ErrorStays
<1>9. NoInternalError' /\ FeedAccepted'
  BY <1>1, AnswerFacts DEF NoInternalError, FeedAccepted
<1>10. StringClosed' /\ StringsAreTerminated'
  BY <1>1, <1>4, AnswerFacts
  DEF IInv, StringClosed, StringsAreTerminated, Terminated, Used, bufferVars
<1> QED
  BY <1>5, <1>6, <1>7, <1>8, <1>9, <1>10 DEF IInv

\* Every move preserves the invariant.
LEMMA MovesIInv ==
  ASSUME IInv, Moves, UNCHANGED configVars
  PROVE  IInv'
BY GoesIInv, CallsIInv, FailsIInv, ReturnsIInv, EmitsIInv, ConcludesIInv, NeedDataIInv DEF Moves

-----------------------------------------------------------------------------
(* The other calls preserve it. *)

\* The dispatch at the start of ajson_next_token() preserves the invariant: it starts
\* at a label.
LEMMA NextTokenIInv ==
  ASSUME IInv, NextToken
  PROVE  IInv'
<1>1. /\ pc = "idle" /\ pc' = stack[stack_current] /\ index' = input_current
      /\ UNCHANGED <<configVars, inputVars, stackVars, bufferVars, value, tok>>
  BY DEF NextToken
<1>2. Top = stack[stack_current] /\ Top' = Top /\ Top \in Labels /\ pc' # "idle"
  BY <1>1, LabelFacts DEF IInv, Frames, Top
<1>3. TypeOK'
  BY <1>1, <1>2
  DEF IInv, TypeOK, ValueOK, Live, Held, Used, bufferVars, inputVars, stackVars, configVars
<1>4. Frames' /\ ScratchKept'
  BY <1>1, <1>2 DEF IInv, Frames, ScratchKept, stackVars
<1>5. ByteAhead'
  BY <1>1, <1>2 DEF IInv, ByteAhead, Position, AtEof, Size, inputVars
<1>6. ErrorStays' /\ NoInternalError' /\ FeedAccepted'
  BY <1>1, <1>2 DEF IInv, ErrorStays, NoInternalError, FeedAccepted
<1>7. StringClosed' /\ StringsAreTerminated'
  BY <1>1, <1>2 DEF IInv, StringClosed, StringsAreTerminated, Terminated, Used, bufferVars
<1> QED
  BY <1>3, <1>4, <1>5, <1>6, <1>7 DEF IInv

\* ajson_feed() preserves the invariant: a chunk is only taken when the last one is
\* used up, or at the end.
LEMMA FeedIInv ==
  ASSUME IInv, NEW chunk \in Seq(Byte), Feed(chunk)
  PROVE  IInv'
<1>1. /\ pc = "idle"
      /\ UNCHANGED <<configVars, stackVars, bufferVars, value, index, pc>>
      /\ \/ input_current < Size /\ tok' = "ENOBUFS" /\ UNCHANGED inputVars
         \/ ~(input_current < Size) /\ tok' = "FED" /\ input' = chunk /\ input_current' = 0
  BY DEF Feed
<1>2. chunk \in Seq(Byte)
  OBVIOUS
<1>3. Top' = Top /\ Position = input_current /\ Position' = input_current'
  BY <1>1 DEF Top, Position, stackVars
<1>4. TypeOK'
  BY <1>1, <1>2
  DEF IInv, TypeOK, ValueOK, Live, Held, Used, bufferVars, inputVars, stackVars, configVars, Answers
<1>5. Frames' /\ ScratchKept'
  BY <1>1, <1>3 DEF IInv, Frames, ScratchKept, stackVars
<1>6. ByteAhead'
  BY <1>1, <1>2, <1>3 DEF IInv, ByteAhead, AtEof, Size, inputVars
<1>7. ErrorStays' /\ NoInternalError' /\ FeedAccepted'
  BY <1>1 DEF ErrorStays, NoInternalError, FeedAccepted
<1>8. StringClosed' /\ StringsAreTerminated'
  BY <1>1, <1>3 DEF IInv, StringClosed, StringsAreTerminated, Terminated, Used, bufferVars
<1> QED
  BY <1>4, <1>5, <1>6, <1>7, <1>8 DEF IInv

\* ajson_reset() preserves the invariant, wherever the parser was.
LEMMA ResetIInv ==
  ASSUME IInv, Reset
  PROVE  IInv'
<1>1. /\ pc = "idle" /\ pc' = pc /\ input' = <<>> /\ input_current' = 0
      /\ stack' = [stack EXCEPT ![0] = "START"] /\ stack_current' = 0
      /\ buffer' = <<>> /\ tok' = "RESET"
      /\ UNCHANGED <<configVars, stack_size, buffer_size, value, index>>
  BY DEF Reset
<1>2. /\ stack_size \in Nat /\ stack_size > 0
      /\ stack \in [0 .. stack_size - 1 -> Labels \cup {"uninit"}]
  BY DEF IInv, TypeOK
<1>3. Top' = "START" /\ stack'[0] = "START" /\ "START" \in Labels
  BY <1>1, <1>2, LabelFacts DEF Top
<1>4. TypeOK'
  BY <1>1, <1>2, <1>3 DEF IInv, TypeOK, ValueOK, Live, Held, Used, configVars, Answers
<1>5. Frames'
  BY <1>1, <1>3 DEF Frames, Doc
<1>6. ScratchKept'
  BY <1>3, ScratchFree, ScratchFreeLabels DEF ScratchKept, Doc
<1>7. ByteAhead' /\ ErrorStays' /\ NoInternalError' /\ FeedAccepted'
  BY <1>1 DEF ByteAhead, ErrorStays, NoInternalError, FeedAccepted, AtEof, Size
<1>8. StringClosed' /\ StringsAreTerminated'
  BY <1>1, <1>3 DEF StringClosed, StringsAreTerminated
<1> QED
  BY <1>4, <1>5, <1>6, <1>7, <1>8 DEF IInv

\* ajson_init() establishes the invariant.
LEMMA InitIInv ==
  ASSUME Init
  PROVE  IInv
<1>1. /\ input = <<>> /\ input_current = 0 /\ stack = [i \in 0 .. STACK_SIZE - 1 |-> "START"]
      /\ stack_size = STACK_SIZE /\ stack_current = 0 /\ buffer = <<>> /\ buffer_size = 0
      /\ value = <<"none", 0>> /\ index = 0 /\ pc = "idle" /\ tok = "INIT"
      /\ flags \in FlagSets /\ encoding \in Encodings
  BY DEF Init
<1>2. STACK_SIZE \in Nat /\ STACK_SIZE > 1
  BY MemoryAssumption
<1>3. Top = "START" /\ stack[0] = "START" /\ "START" \in Labels
  BY <1>1, <1>2, LabelFacts DEF Top
<1>4. TypeOK
  BY <1>1, <1>2, <1>3 DEF TypeOK, ValueOK, Live, Held, Used, Answers
<1>5. Frames
  BY <1>1, <1>3 DEF Frames, Doc
<1>6. ScratchKept
  BY <1>3, ScratchFree, ScratchFreeLabels DEF ScratchKept, Doc
<1>7. ByteAhead /\ ErrorStays /\ NoInternalError /\ FeedAccepted
  BY <1>1 DEF ByteAhead, ErrorStays, NoInternalError, FeedAccepted, AtEof, Size
<1>8. StringClosed /\ StringsAreTerminated
  BY <1>1, <1>3 DEF StringClosed, StringsAreTerminated
<1> QED
  BY <1>4, <1>5, <1>6, <1>7, <1>8 DEF IInv

-----------------------------------------------------------------------------
(* The building blocks of the scanners are moves. *)

\* The labels that may be gone on to inside of a value, whatever the union holds.
Plain == Checked \ (Doc \cup Scratch \cup {"str.close"})

\* Which labels are plain, and which are at least labels of a value that are checked
\* for data.
LEMMA PlainFacts ==
  /\ LiteralLabels \cup LiteralEnds \subseteq Plain
  /\ {"str", "esc", "hex1"} \subseteq Plain
  /\ "str.close" \in Checked \ (Doc \cup Scratch)
  /\ {"txt.neg", "txt.dot", "txt.exp", "txt.expsign", "txt.int", "txt.zero",
      "txt.frac", "txt.expd"} \subseteq Plain
  /\ {"arr.open", "arr.ws", "arr.comma", "arr.close"} \subseteq Plain
  /\ {"obj.open", "obj.kws", "obj.colon", "obj.ws", "obj.comma", "obj.close"} \subseteq Plain
  /\ {"hex2", "hex3", "hex4", "hex5", "hex6", "hex7", "hex8", "sur.bs", "sur.u"}
       \subseteq Checked \ Doc
  /\ Utf8Labels \subseteq Checked \ Doc
  /\ NumberLabels \subseteq Checked \ Doc
BY DEF Plain, Scratch, Checked, NeedLabels, MayLabels, Doc, LiteralLabels, LiteralEnds,
       HexLabels, Utf8Labels, NumberLabels

\* At a label there is a byte to look at, or the end.
LEMMA AtFacts ==
  ASSUME IInv, NEW label \in Labels \ {"ERROR"}, At(label)
  PROVE  Running /\ pc = label /\ Top = label
<1>1. pc = label /\ Top = label /\ Position = index
  BY LabelFacts DEF At, Top, Position
<1>2. Readable
  BY <1>1 DEF At, IInv, ByteAhead, Readable
<1> QED
  BY <1>1, <1>2 DEF Running

\* CURR_CH is EOF at the end and a byte of the chunk otherwise.
LEMMA CurrChFacts ==
  ASSUME IInv, Readable, NEW ch \in CurrCh
  PROVE  /\ ch = EOF <=> AtEof
         /\ ch # EOF => ch \in Byte
<1>1. /\ input \in Seq(Byte) /\ index \in Nat /\ EOF \notin Byte
      /\ AtEof <=> Size = 0
      /\ AtEof \/ index < Size
  BY DEF IInv, TypeOK, EOF, Byte, AtEof, Readable
<1>2. CASE AtEof
  BY <1>1, <1>2 DEF CurrCh
<1>3. CASE ~AtEof
  BY <1>1, <1>3 DEF CurrCh, Size
<1> QED
  BY <1>2, <1>3

\* RAISE_ERROR is a failing move.
LEMMA RaiseFails ==
  ASSUME IInv, pc \in Labels, NEW e \in Errors \ {"EMPTY_SATCK", "JUMP"}, RaiseError(e)
  PROVE  Fails
BY DEF Fails, RaiseError, bufferVars, BufferOK, Used, IInv, TypeOK

\* READ_NEXT is a move to the label behind it.
LEMMA ReadGoes ==
  ASSUME IInv, Running, NEW l \in Checked \ {"str.close"}, Read(l), l \in Doc <=> pc \in Doc,
         l \in Plain \cup Doc \/ ScratchOf(l, value)
  PROVE  Goes
<1>1. ScratchOf(l, value)
  BY ScratchFree, ScratchFreeLabels DEF Plain
<1>2. Advance(l) /\ value' = value /\ UNCHANGED bufferVars
  BY DEF Read
<1>3. BufferOK' /\ ValueOK'
  BY <1>2 DEF IInv, TypeOK, BufferOK, ValueOK, Used, bufferVars, Live, Held
<1> QED
  BY <1>1, <1>2, <1>3 DEF Goes

\* READ_NEXT inside of a value, to a plain label.
LEMMA PlainGoes ==
  ASSUME IInv, Running, pc \notin Doc, NEW l \in Plain, Read(l)
  PROVE  Goes
BY ReadGoes DEF Plain

\* RECURSE is a calling move when it leaves the right label behind.
LEMMA RecurseCalls ==
  ASSUME Running, NEW enter \in {"VALUE", "STRING"}, NEW return \in Inner \cup {"start.ret"},
         Recurse(enter, return), return = "start.ret" <=> pc \in Doc
  PROVE  Calls
BY DEF Calls

\* What a buffer that is stored to holds, if realloc succeeds and if it does not.
LEMMA StoreFacts ==
  ASSUME IInv, pc \in Labels, NEW old \in Seq(Byte), Len(old) <= Used,
         NEW bytes \in Seq(Byte), NEW newsize \in Nat, Len(old) + Len(bytes) <= newsize
  PROVE  /\ Fail("MEMORY") /\ buffer' = old /\ UNCHANGED buffer_size => Fails
         /\ buffer' = old \o bytes /\ buffer_size' = newsize => BufferOK'
<1>1. Used \in Nat /\ Used <= buffer_size /\ buffer_size \in Nat
  BY DEF IInv, TypeOK, Used
<1>2. old \o bytes \in Seq(Byte) /\ Len(old \o bytes) = Len(old) + Len(bytes)
  BY ConcatProperties
<1>3. Len(old) \in Nat
  OBVIOUS
<1>4. ASSUME Fail("MEMORY"), buffer' = old, UNCHANGED buffer_size
      PROVE  Fails
  BY <1>1, <1>3, <1>4 DEF Fails, Errors, BufferOK, Used
<1>5. ASSUME buffer' = old \o bytes, buffer_size' = newsize
      PROVE  BufferOK'
  BY <1>2, <1>5 DEF BufferOK, Used
<1> QED
  BY <1>4, <1>5

\* The size ajson_buffer_putc() asks for.
LEMMA ByteSize ==
  ASSUME IInv, NEW old \in Seq(Byte), Len(old) <= Used
  PROVE  LET newsize == IF Len(old) = buffer_size THEN buffer_size + BUFSIZ ELSE buffer_size
         IN  newsize \in Nat /\ Len(old) + 1 <= newsize
BY MemoryAssumption DEF IInv, TypeOK, Used

\* Putting a byte behind the bytes in old is a move: the buffer has room for it, or the
\* call fails.
LEMMA StoreByteMoves ==
  ASSUME IInv, Running, pc \notin Doc, NEW old \in Seq(Byte), Len(old) <= Used,
         NEW ch \in Byte, NEW l \in Plain \cup {"str.close"}, l = "str.close" => ch = 0,
         StoreByte(old, ch, Advance(l) /\ UNCHANGED value)
  PROVE  Goes \/ Fails
<1> DEFINE newsize == IF Len(old) = buffer_size THEN buffer_size + BUFSIZ ELSE buffer_size
<1>1. \/ Fail("MEMORY") /\ buffer' = old /\ UNCHANGED buffer_size
      \/ /\ buffer' = old \o <<ch>> /\ buffer_size' = newsize
         /\ Advance(l) /\ UNCHANGED value
  BY DEF StoreByte, Store
<1>2. pc \in Labels
  BY DEF Running
<1>3. newsize \in Nat /\ Len(old) + 1 <= newsize
  BY ByteSize
<1>4. <<ch>> \in Seq(Byte) /\ Len(<<ch>>) = 1
  OBVIOUS
<1> HIDE DEF newsize
<1>5. CASE Fail("MEMORY") /\ buffer' = old /\ UNCHANGED buffer_size
  BY <1>2, <1>3, <1>4, <1>5, StoreFacts
<1>6. CASE /\ buffer' = old \o <<ch>> /\ buffer_size' = newsize
           /\ Advance(l) /\ UNCHANGED value
  <2>1. BufferOK'
    BY <1>2, <1>3, <1>4, <1>6, StoreFacts
  <2>2. ValueOK' /\ ScratchOf(l, value')
    BY <1>6, PlainFacts, ScratchFree DEF IInv, TypeOK, ValueOK, Live, Held, Plain
  <2>3. l = "str.close" => Terminated'
    BY <1>2, <1>6 DEF Terminated, Used
  <2>4. l \in Checked \ Doc
    BY PlainFacts DEF Plain
  <2> QED
    BY <1>6, <2>1, <2>2, <2>3, <2>4 DEF Goes
<1> QED
  BY <1>1, <1>5, <1>6

\* ajson_buffer_putc() of a scanned byte is a move.
LEMMA PutCMoves ==
  ASSUME IInv, Running, pc \notin Doc, NEW ch \in Byte, NEW l \in Plain \cup {"str.close"},
         l = "str.close" => ch = 0, PutC(ch, l)
  PROVE  Goes \/ Fails
<1>1. buffer \in Seq(Byte) /\ Len(buffer) <= Used
  BY DEF IInv, TypeOK, Used
<1> QED
  BY <1>1, StoreByteMoves DEF PutC

\* A value that is not the error is complete.
LEMMA PopReturns ==
  ASSUME IInv, Running, pc \notin Doc, NEW t \in Tokens, NEW v, Pop(t, v),
         BufferOK', ValueOK',
         t \in {"STRING", "NUMBER"} /\ Live' = "string" => Used' = Held' + 1 /\ Terminated'
  PROVE  Returns
<1>1. Top = pc /\ pc # "ERROR"
  BY LabelFacts DEF Running, Top
<1>2. stack_current \in Nat /\ stack_current # 0
  BY <1>1 DEF IInv, TypeOK, Frames
<1> QED
  BY <1>2 DEF Pop, Returns

\* RETURN of a well-formed value is a returning move, and it does not find the stack
\* empty.
LEMMA ReturnReturns ==
  ASSUME IInv, Running, pc \notin Doc, NEW t \in Tokens, NEW v, Return(t, v),
         value' = v => ValueOK',
         t \in {"STRING", "NUMBER"} /\ v[1] = "string" => Used = v[2] + 1 /\ Terminated
  PROVE  Returns
<1>1. Top = pc /\ pc # "ERROR"
  BY LabelFacts DEF Running, Top
<1>2. stack_current \in Nat /\ stack_current # 0
  BY <1>1 DEF IInv, TypeOK, Frames
<1>3. value' = v /\ Pop(t, v) /\ UNCHANGED bufferVars
  BY <1>2 DEF Return, Pop
<1>4. BufferOK'
  BY <1>3 DEF BufferOK, Used, bufferVars, IInv, TypeOK
<1>5. t \in {"STRING", "NUMBER"} /\ Live' = "string" => Used' = Held' + 1 /\ Terminated'
  BY <1>3 DEF Live, Held, Used, Terminated, bufferVars
<1> QED
  BY <1>3, <1>4, <1>5, PopReturns

\* RETURN of a token that carries no value.
LEMMA SameValueReturns ==
  ASSUME IInv, Running, pc \notin Doc, NEW t \in Tokens \ {"STRING", "NUMBER"}, Return(t, value)
  PROVE  Returns
<1>1. value' = value => ValueOK'
  BY DEF IInv, TypeOK, ValueOK, Live, Held
<1> QED
  BY <1>1, ReturnReturns

-----------------------------------------------------------------------------
(* The document, literals, arrays and objects. *)

\* White space in front of the document.
LEMMA StartMoves ==
  ASSUME IInv, Start
  PROVE  Moves
<1>1. Running /\ pc \in Doc
  <2>1. {"START", "start.ws"} \subseteq Labels \ {"ERROR"}
    BY LabelFacts DEF Doc
  <2> QED BY <2>1, AtFacts DEF Start, Doc
<1>2. PICK ch \in CurrCh :
        IF ch \in Space THEN Read("start.ws") ELSE Recurse("VALUE", "start.ret")
  BY DEF Start
<1>3. CASE Read("start.ws")
  BY <1>1, <1>3, ReadGoes DEF Moves, Doc, Checked, NeedLabels
<1>4. CASE Recurse("VALUE", "start.ret")
  BY <1>1, <1>4, RecurseCalls DEF Moves
<1> QED
  BY <1>2, <1>3, <1>4

\* White space behind the document, and its end.
LEMMA TrailMoves ==
  ASSUME IInv, Trail
  PROVE  Moves
<1>1. Running /\ pc \in Doc
  <2>1. {"start.ret", "start.trail"} \subseteq Labels \ {"ERROR"}
    BY LabelFacts DEF Doc
  <2> QED BY <2>1, AtFacts DEF Trail, Doc
<1>2. PICK ch \in CurrCh :
        \/ ch = EOF /\ Done
        \/ ch \in Space /\ Read("start.trail")
        \/ ch \notin Space \cup {EOF} /\ RaiseError("UNEXPECTED_CHAR")
  BY DEF Trail
<1>3. CASE ch = EOF /\ Done
  BY <1>1, <1>3, CurrChFacts DEF Moves, Concludes, Running
<1>4. CASE Read("start.trail")
  BY <1>1, <1>4, ReadGoes DEF Moves, Doc, Checked, MayLabels
<1>5. CASE RaiseError("UNEXPECTED_CHAR")
  BY <1>1, <1>5, RaiseFails DEF Moves, Running, Errors
<1> QED
  BY <1>2, <1>3, <1>4, <1>5

\* The letters of true, false and null.
LEMMA LiteralLetterMoves ==
  ASSUME IInv, LiteralLetter
  PROVE  Moves
<1>1. PICK label \in LiteralLabels :
        At(label) /\ (Read(Spelled[label]) \/ RaiseError("UNEXPECTED_CHAR"))
  BY DEF LiteralLetter
<1>2. label \in Labels \ {"ERROR"} /\ label \notin Doc
  BY PlainFacts, LabelFacts DEF Plain, JumpLabels
<1>3. Running /\ pc \notin Doc
  BY <1>1, <1>2, AtFacts
<1>4. Spelled[label] \in Plain
  BY PlainFacts DEF LiteralLabels, LiteralEnds, Spelled
<1> QED
  BY <1>1, <1>3, <1>4, PlainGoes, RaiseFails DEF Moves, Running, Errors

\* The byte behind a literal.
LEMMA LiteralEndMoves ==
  ASSUME IInv, LiteralEnd
  PROVE  Moves
<1>1. PICK label \in LiteralEnds :
        /\ At(label)
        /\ \/ RaiseError("UNEXPECTED_CHAR")
           \/ Return("NULL", value)
           \/ Return("BOOLEAN", <<"boolean", label = "true">>)
  BY DEF LiteralEnd
<1>2. label \in Labels \ {"ERROR"} /\ label \notin Doc
  BY PlainFacts, LabelFacts DEF Plain, JumpLabels
<1>3. Running /\ pc \notin Doc
  BY <1>1, <1>2, AtFacts
<1>4. CASE RaiseError("UNEXPECTED_CHAR")
  BY <1>3, <1>4, RaiseFails DEF Moves, Running, Errors
<1>5. CASE Return("NULL", value)
  BY <1>3, <1>5, SameValueReturns DEF Moves, Tokens, Answers
<1>6. CASE Return("BOOLEAN", <<"boolean", label = "true">>)
  <2>1. value' = <<"boolean", label = "true">> => ValueOK'
    BY DEF ValueOK, Live, Held
  <2> QED BY <1>3, <1>6, <2>1, ReturnReturns DEF Moves, Tokens, Answers
<1> QED
  BY <1>1, <1>4, <1>5, <1>6

\* A step at one label that takes a byte, begins a value or fails.
LEMMA ContainerMoves ==
  ASSUME IInv, NEW label \in Labels \ (Doc \cup {"ERROR"}), At(label),
         \/ \E l \in Plain : Read(l)
         \/ \E enter \in {"VALUE", "STRING"}, return \in Inner : Recurse(enter, return)
         \/ \E e \in Errors \ {"EMPTY_SATCK", "JUMP"} : RaiseError(e)
         \/ \E t \in Tokens \ {"STRING", "NUMBER"} : Return(t, value)
         \/ \E t \in Opening, l \in {"arr.emit", "obj.emit"} : Emit(t, l)
  PROVE  Moves
<1>1. Running /\ pc \notin Doc /\ pc \in Labels
  BY AtFacts DEF Running
<1>2. ASSUME NEW l \in Plain, Read(l) PROVE Moves
  BY <1>1, <1>2, PlainGoes DEF Moves
<1>3. ASSUME NEW enter \in {"VALUE", "STRING"}, NEW return \in Inner, Recurse(enter, return)
      PROVE  Moves
  BY <1>1, <1>3, RecurseCalls DEF Moves, Inner
<1>4. ASSUME NEW e \in Errors \ {"EMPTY_SATCK", "JUMP"}, RaiseError(e) PROVE Moves
  BY <1>1, <1>4, RaiseFails DEF Moves
<1>5. ASSUME NEW t \in Tokens \ {"STRING", "NUMBER"}, Return(t, value) PROVE Moves
  BY <1>1, <1>5, SameValueReturns DEF Moves
<1>6. ASSUME NEW t \in Opening, NEW l \in {"arr.emit", "obj.emit"}, Emit(t, l) PROVE Moves
  BY <1>1, <1>6 DEF Moves, Emits
<1> QED
  BY <1>2, <1>3, <1>4, <1>5, <1>6

\* The array scanner.
LEMMA ArrayMoves ==
  ASSUME IInv, ArrayEmitted \/ ArrayFirst \/ ArrayNext \/ ArrayMore \/ ArrayClosed
  PROVE  Moves
<1>1. {"arr.emit", "arr.open", "arr.ret", "arr.ws", "arr.comma", "arr.close"}
        \subseteq Labels \ (Doc \cup {"ERROR"})
  BY LabelFacts, PlainFacts DEF Plain, JumpLabels, Doc
<1>2. {"UNEXPECTED_EOF", "EXPECTED_COMMA_OR_ARRAY_END"} \subseteq Errors \ {"EMPTY_SATCK", "JUMP"}
  BY DEF Errors
<1>3. "END_ARRAY" \in Tokens /\ "arr.ret" \in Inner
  BY DEF Tokens, Answers, Inner
<1>4. CASE ArrayEmitted
  BY <1>1, <1>4, PlainFacts, ContainerMoves DEF ArrayEmitted
<1>5. CASE ArrayFirst
  <2>1. At("arr.open") /\ (Read("arr.open") \/ Read("arr.close") \/ Recurse("VALUE", "arr.ret"))
    BY <1>5 DEF ArrayFirst
  <2> QED BY <1>1, <1>3, <2>1, PlainFacts, ContainerMoves
<1>6. CASE ArrayNext
  <2>1. /\ At("arr.ret") \/ At("arr.ws")
        /\ \/ Read("arr.ws") \/ Read("arr.comma") \/ Read("arr.close")
           \/ RaiseError("UNEXPECTED_EOF") \/ RaiseError("EXPECTED_COMMA_OR_ARRAY_END")
    BY <1>6 DEF ArrayNext
  <2> QED BY <1>1, <1>2, <2>1, PlainFacts, ContainerMoves
<1>7. CASE ArrayMore
  <2>1. At("arr.comma") /\ (Read("arr.comma") \/ Recurse("VALUE", "arr.ret"))
    BY <1>7 DEF ArrayMore
  <2> QED BY <1>1, <1>3, <2>1, PlainFacts, ContainerMoves
<1>8. CASE ArrayClosed
  BY <1>1, <1>3, <1>8, ContainerMoves DEF ArrayClosed
<1> QED
  BY <1>4, <1>5, <1>6, <1>7, <1>8

\* The object scanner.
LEMMA ObjectMoves ==
  ASSUME IInv, \/ ObjectEmitted \/ ObjectFirst \/ ObjectColon \/ ObjectValue
               \/ ObjectNext \/ ObjectMore \/ ObjectClosed
  PROVE  Moves
<1>1. {"obj.emit", "obj.open", "obj.key", "obj.kws", "obj.colon", "obj.val", "obj.ws",
       "obj.comma", "obj.close"} \subseteq Labels \ (Doc \cup {"ERROR"})
  BY LabelFacts, PlainFacts DEF Plain, JumpLabels, Doc
<1>2. {"UNEXPECTED_EOF", "EXPECTED_STRING", "EXPECTED_COLON", "EXPECTED_COMMA_OR_OBJECT_END"}
        \subseteq Errors \ {"EMPTY_SATCK", "JUMP"}
  BY DEF Errors
<1>3. "END_OBJECT" \in Tokens /\ {"obj.key", "obj.val"} \subseteq Inner
  BY DEF Tokens, Answers, Inner
<1>4. CASE ObjectEmitted
  BY <1>1, <1>4, PlainFacts, ContainerMoves DEF ObjectEmitted
<1>5. CASE ObjectFirst \/ ObjectMore
  <2>1. /\ At("obj.open") \/ At("obj.comma")
        /\ \/ Read("obj.open") \/ Read("obj.comma") \/ Read("obj.close")
           \/ Recurse("STRING", "obj.key") \/ RaiseError("EXPECTED_STRING")
    BY <1>5 DEF ObjectFirst, ObjectMore, ObjectKey
  <2> QED BY <1>1, <1>2, <1>3, <2>1, PlainFacts, ContainerMoves
<1>6. CASE ObjectColon
  <2>1. /\ At("obj.key") \/ At("obj.kws")
        /\ \/ Read("obj.kws") \/ Read("obj.colon")
           \/ RaiseError("UNEXPECTED_EOF") \/ RaiseError("EXPECTED_COLON")
    BY <1>6 DEF ObjectColon
  <2> QED BY <1>1, <1>2, <2>1, PlainFacts, ContainerMoves
<1>7. CASE ObjectValue
  <2>1. At("obj.colon") /\ (Read("obj.colon") \/ Recurse("VALUE", "obj.val"))
    BY <1>7 DEF ObjectValue
  <2> QED BY <1>1, <1>3, <2>1, PlainFacts, ContainerMoves
<1>8. CASE ObjectNext
  <2>1. /\ At("obj.val") \/ At("obj.ws")
        /\ \/ Read("obj.ws") \/ Read("obj.comma") \/ Read("obj.close")
           \/ RaiseError("UNEXPECTED_EOF") \/ RaiseError("EXPECTED_COMMA_OR_OBJECT_END")
    BY <1>8 DEF ObjectNext
  <2> QED BY <1>1, <1>2, <2>1, PlainFacts, ContainerMoves
<1>9. CASE ObjectClosed
  BY <1>1, <1>3, <1>9, ContainerMoves DEF ObjectClosed
<1> QED
  BY <1>4, <1>5, <1>6, <1>7, <1>8, <1>9

-----------------------------------------------------------------------------
(* Strings. *)

\* The opening quote.
LEMMA BeginStringGoes ==
  ASSUME IInv, Running, pc \notin Doc, BeginString
  PROVE  Goes
<1>1. Advance("str") /\ buffer' = <<>> /\ buffer_size' = buffer_size /\ value' = value
  BY DEF BeginString
<1>2. BufferOK' /\ ValueOK'
  BY <1>1 DEF BufferOK, Used, ValueOK, Live, Held, IInv, TypeOK
<1>3. "str" \in Checked \ Doc /\ ScratchOf("str", value')
  BY PlainFacts, ScratchFree DEF Plain
<1> QED
  BY <1>1, <1>2, <1>3 DEF Goes

\* A value of the union is stored and a byte taken, the buffer stays.
LEMMA KeepGoes ==
  ASSUME IInv, Running, pc \notin Doc, NEW l \in Checked \ (Doc \cup {"str.close"}), NEW v,
         Advance(l), value' = v, UNCHANGED bufferVars, ScratchOf(l, v), value' = v => ValueOK'
  PROVE  Goes
BY DEF Goes, IInv, TypeOK, BufferOK, Used, bufferVars

\* The bytes of a code point, or nothing, are appended.
LEMMA BytesMoves ==
  ASSUME IInv, Running, pc \notin Doc, NEW bytes \in Seq(Byte), NEW v, value' = v => ValueOK',
         \/ /\ Fail("MEMORY") /\ buffer' = buffer /\ UNCHANGED buffer_size
         \/ /\ buffer' = buffer \o bytes /\ buffer_size' = SizeFor(Len(bytes))
            /\ Advance("str") /\ value' = v
  PROVE  Goes \/ Fails
<1>1. /\ buffer \in Seq(Byte) /\ Len(buffer) <= Used /\ Used \in Nat /\ pc \in Labels
      /\ Used = Len(buffer) /\ buffer_size \in Nat /\ Used <= buffer_size
  BY DEF IInv, TypeOK, Used, Running
<1>2. SizeFor(Len(bytes)) \in Nat /\ Len(buffer) + Len(bytes) <= SizeFor(Len(bytes))
  <2> DEFINE needed == Used + Len(bytes)
             rest == needed % BUFSIZ
  <2>1. BUFSIZ \in Nat /\ BUFSIZ > 0 /\ needed \in Nat
    BY <1>1, MemoryAssumption
  <2>2. rest \in Nat /\ rest < BUFSIZ
    BY <2>1
  <2>3. SizeFor(Len(bytes)) = IF needed <= buffer_size THEN buffer_size
                              ELSE IF needed - rest < needed THEN needed - rest + BUFSIZ
                              ELSE needed - rest
    BY DEF SizeFor
  <2> HIDE DEF rest
  <2> QED BY <1>1, <2>1, <2>2, <2>3
<1>3. CASE Fail("MEMORY") /\ buffer' = buffer /\ UNCHANGED buffer_size
  BY <1>1, <1>2, <1>3, StoreFacts
<1>4. CASE /\ buffer' = buffer \o bytes /\ buffer_size' = SizeFor(Len(bytes))
           /\ Advance("str") /\ value' = v
  <2>1. BufferOK'
    BY <1>1, <1>2, <1>4, StoreFacts
  <2>2. "str" \in Checked \ Doc /\ ScratchOf("str", value')
    BY PlainFacts, ScratchFree DEF Plain
  <2> QED
    BY <1>4, <2>1, <2>2 DEF Goes
<1> QED
  BY <1>3, <1>4

\* ajson_buffer_putcp() writes bytes.
LEMMA Utf8Bytes ==
  ASSUME NEW cp \in Nat, cp <= MaxCodepoint
  PROVE  Utf8(cp) \in Seq(Byte)
<1>1. cp \in Nat /\ cp <= 1114111
  BY SMT DEF MaxCodepoint
<1>2. CASE cp < 128
  BY <1>1, <1>2, SMT DEF Utf8, Byte
<1>3. CASE cp >= 128 /\ cp <= 2047
  <2>1. (cp \div 64) + 192 \in Byte /\ ((cp \div 1) % 64) + 128 \in Byte
    BY <1>1, <1>3, SMT DEF Byte
  <2>2. Utf8(cp) = <<(cp \div 64) + 192, ((cp \div 1) % 64) + 128>>
    BY <1>1, <1>3, SMT DEF Utf8
  <2> QED BY <2>1, <2>2
<1>4. CASE cp > 2047 /\ cp <= 65535
  <2>1. /\ (cp \div 4096) + 224 \in Byte
        /\ ((cp \div 64) % 64) + 128 \in Byte /\ ((cp \div 1) % 64) + 128 \in Byte
    BY <1>1, <1>4, SMT DEF Byte
  <2>2. Utf8(cp) = <<(cp \div 4096) + 224, ((cp \div 64) % 64) + 128, ((cp \div 1) % 64) + 128>>
    BY <1>1, <1>4, SMT DEF Utf8
  <2> QED BY <2>1, <2>2, SMT
<1>5. CASE cp > 65535
  <2>1. /\ (cp \div 262144) + 240 \in Byte /\ ((cp \div 4096) % 64) + 128 \in Byte
        /\ ((cp \div 64) % 64) + 128 \in Byte /\ ((cp \div 1) % 64) + 128 \in Byte
    BY <1>1, <1>5, SMT DEF Byte
  <2>2. Utf8(cp) = <<(cp \div 262144) + 240, ((cp \div 4096) % 64) + 128,
                     ((cp \div 64) % 64) + 128, ((cp \div 1) % 64) + 128>>
    BY <1>1, <1>5, SMT DEF Utf8
  <2> QED BY <2>1, <2>2, SMT
<1> QED
  BY <1>1, <1>2, <1>3, <1>4, <1>5, SMT

\* ajson_buffer_putcp() of a code point that was read is a move.
LEMMA CodepointMoves ==
  ASSUME IInv, Running, pc \notin Doc, NEW cp \in Nat, NEW v, value' = v => ValueOK',
         StoreCodepoint(cp, Advance("str") /\ value' = v)
  PROVE  Goes \/ Fails
<1>1. CASE cp <= MaxCodepoint
  <2>1. Utf8(cp) \in Seq(Byte)
    BY <1>1, Utf8Bytes
  <2>2. \/ Fail("MEMORY") /\ buffer' = buffer /\ UNCHANGED buffer_size
        \/ /\ buffer' = buffer \o Utf8(cp) /\ buffer_size' = SizeFor(Len(Utf8(cp)))
           /\ Advance("str") /\ value' = v
    BY <1>1 DEF StoreCodepoint, Store
  <2> QED BY <2>1, <2>2, BytesMoves
<1>2. CASE ~(cp <= MaxCodepoint)
  BY <1>2, RaiseFails DEF StoreCodepoint, Running, Errors
<1> QED
  BY <1>1, <1>2

\* A byte of a string outside of escapes and sequences.
LEMMA StringByteMoves ==
  ASSUME IInv, Running, pc \notin Doc, StringByte
  PROVE  Moves
<1>1. At("str") /\ ~AtEof
  BY DEF StringByte, At, JumpLabels, MayLabels, LiteralEnds, AtEof, IInv, TypeOK, Size
<1>2. PICK ch \in CurrCh :
        \/ Read("esc")
        \/ PutC(0, "str.close")
        \/ ch < 128 /\ PutC(ch, "str")
        \/ ch >= 128 /\ Utf8Lead(ch)
        \/ ch >= 128 /\ StoreCodepoint(ch, Advance("str") /\ UNCHANGED value)
  BY DEF StringByte
<1>3. ch \in Byte
  BY <1>1, CurrChFacts DEF Running
<1>4. CASE Read("esc")
  BY <1>4, PlainFacts, PlainGoes DEF Moves
<1>5. CASE PutC(0, "str.close")
  BY <1>5, PlainFacts, PutCMoves DEF Moves, Byte
<1>6. CASE PutC(ch, "str")
  BY <1>3, <1>6, PlainFacts, PutCMoves DEF Moves
<1>7. CASE Utf8Lead(ch)
  <2>1. \/ RaiseError("ILLEGAL_UNICODE")
        \/ \E l \in {"u2.2", "u3.2", "u4.2"} :
             Advance(l) /\ value' = <<"utf8", <<ch>>>> /\ UNCHANGED bufferVars
    BY <1>3, <1>7 DEF Utf8Lead, Utf8Value, Byte
  <2>2. CASE RaiseError("ILLEGAL_UNICODE")
    BY <2>2, RaiseFails DEF Moves, Running, Errors
  <2>3. ASSUME NEW l \in {"u2.2", "u3.2", "u4.2"}, Advance(l),
               value' = <<"utf8", <<ch>>>>, UNCHANGED bufferVars
        PROVE  Moves
    <3>1. value' = <<"utf8", <<ch>>>> => ValueOK'
      BY <1>3 DEF ValueOK, Live, Held
    <3>2. ScratchOf(l, <<"utf8", <<ch>>>>)
      BY DEF ScratchOf, HexLabels, NumberLabels
    <3>3. l \in Checked \ Doc
      BY PlainFacts DEF Utf8Labels
    <3> QED BY <2>3, <3>1, <3>2, <3>3, KeepGoes DEF Moves
  <2> QED BY <2>1, <2>2, <2>3
<1>8. CASE StoreCodepoint(ch, Advance("str") /\ UNCHANGED value)
  <2>1. value' = value => ValueOK'
    BY DEF IInv, TypeOK, ValueOK, Live, Held
  <2>2. StoreCodepoint(ch, Advance("str") /\ value' = value) /\ ch \in Nat
    BY <1>3, <1>8 DEF Byte
  <2> QED BY <2>1, <2>2, CodepointMoves DEF Moves
<1> QED
  BY <1>2, <1>4, <1>5, <1>6, <1>7, <1>8

\* A continuation byte: the sequence read so far grows by one and is stored when it is
\* complete.
LEMMA Utf8ByteMoves ==
  ASSUME IInv, NEW label \in Utf8Labels, At(label), Running, pc \notin Doc, Utf8Byte
  PROVE  Moves
<1>1. pc = label /\ ~AtEof
  BY DEF At, JumpLabels, MayLabels, LiteralEnds, Utf8Labels, AtEof, Size, IInv, TypeOK
<1>2. PICK ch \in CurrCh : Utf8Continue(label, ch)
  BY <1>1 DEF Utf8Byte, At
<1> DEFINE bytes == Append(Held, ch)
<1>3. ch \in Byte
  BY <1>1, CurrChFacts DEF Running
<1>4. Top = label /\ ScratchOf(label, value)
  BY <1>1, LabelFacts DEF IInv, ScratchKept, Top, Running
<1>5. Live = "utf8" /\ Held \in Seq(Byte) /\ bytes \in Seq(Byte) /\ Len(bytes) = Len(Held) + 1
  <2>1. Live = "utf8"
    BY <1>4 DEF ScratchOf, Utf8Labels, Live
  <2> QED BY <1>3, <2>1 DEF IInv, TypeOK, ValueOK
<1>6. value' = Utf8Value(bytes) => ValueOK'
  BY <1>5 DEF ValueOK, Live, Held, Utf8Value
<1>7. CASE RaiseError("ILLEGAL_UNICODE")
  BY <1>7, RaiseFails DEF Moves, Running, Errors
<1>8. CASE /\ Utf8Next(label) = "str"
           /\ Store(buffer, bytes, SizeFor(Len(bytes)),
                    Advance(Utf8Next(label)) /\ value' = Utf8Value(bytes))
  <2>1. \/ Fail("MEMORY") /\ buffer' = buffer /\ UNCHANGED buffer_size
        \/ /\ buffer' = buffer \o bytes /\ buffer_size' = SizeFor(Len(bytes))
           /\ Advance("str") /\ value' = Utf8Value(bytes)
    BY <1>8 DEF Store
  <2> QED BY <1>5, <1>6, <2>1, BytesMoves DEF Moves
<1>9. CASE /\ Utf8Next(label) # "str"
           /\ Advance(Utf8Next(label)) /\ value' = Utf8Value(bytes) /\ UNCHANGED bufferVars
  <2>1. Utf8Next(label) \in Checked \ (Doc \cup {"str.close"})
    BY <1>9, PlainFacts DEF Utf8Next, Utf8Labels
  <2>2. ScratchOf(Utf8Next(label), Utf8Value(bytes))
    <3>1. Utf8Value(bytes)[1] = "utf8" /\ Utf8Value(bytes)[2] = bytes
      BY DEF Utf8Value
    <3>2. \/ label \in {"u3.2", "u4.2"} /\ Len(Held) = 1
          \/ label = "u4.3" /\ Len(Held) = 2
      <4>1. label \in {"u3.2", "u4.2", "u4.3"}
        BY <1>9 DEF Utf8Next, Utf8Labels
      <4> QED BY <1>4, <4>1 DEF ScratchOf, Held
    <3> HIDE DEF bytes
    <3>3. \/ Utf8Next(label) \in {"u3.3", "u4.3"} /\ Len(bytes) = 2
          \/ Utf8Next(label) = "u4.4" /\ Len(bytes) = 3
      <4>1. Len(bytes) = Len(Held) + 1
        BY <1>5
      <4>2. Len(Held) = 1 => Len(bytes) = 2
        BY <4>1
      <4>3. Len(Held) = 2 => Len(bytes) = 3
        BY <4>1
      <4>4. label = "u4.3" => Utf8Next(label) = "u4.4"
        BY DEF Utf8Next
      <4>5. label \in {"u3.2", "u4.2"} => Utf8Next(label) \in {"u3.3", "u4.3"}
        BY DEF Utf8Next
      <4> QED BY <3>2, <4>2, <4>3, <4>4, <4>5
    <3> QED BY <3>1, <3>3 DEF ScratchOf, HexLabels, NumberLabels
  <2> QED BY <1>6, <1>9, <2>1, <2>2, KeepGoes DEF Moves
<1> QED
  BY <1>2, <1>7, <1>8, <1>9 DEF Utf8Continue

\* The byte behind a backslash.
LEMMA EscapeByteMoves ==
  ASSUME IInv, Running, pc \notin Doc, EscapeByte
  PROVE  Moves
<1>1. At("esc") /\ ~AtEof
  BY DEF EscapeByte, At, JumpLabels, MayLabels, LiteralEnds, AtEof, IInv, TypeOK, Size
<1>2. PICK ch \in CurrCh : PutC(Unescape(ch), "str") \/ Read("hex1") \/ RaiseError("ILLEGAL_ESCAPE")
  BY DEF EscapeByte
<1>3. ch \in Byte /\ Unescape(ch) \in Byte
  BY <1>1, CurrChFacts DEF Running, Unescape, Byte
<1>4. CASE PutC(Unescape(ch), "str")
  BY <1>3, <1>4, PlainFacts, PutCMoves DEF Moves
<1>5. CASE Read("hex1")
  BY <1>5, PlainFacts, PlainGoes DEF Moves
<1>6. CASE RaiseError("ILLEGAL_ESCAPE")
  BY <1>6, RaiseFails DEF Moves, Running, Errors
<1> QED
  BY <1>2, <1>4, <1>5, <1>6

\* The surrogate pair: a backslash, the letter u and the second unit.
LEMMA SurrogateMoves ==
  ASSUME IInv, Running, pc \notin Doc, SurrogateBackslash \/ SurrogateU
  PROVE  Moves
<1>1. PICK l \in {"sur.u", "hex5"} :
        (pc = "sur.bs" \/ pc = "sur.u") /\ (Read(l) \/ RaiseError("ILLEGAL_UNICODE"))
  BY DEF SurrogateBackslash, SurrogateU, At
<1>2. Top = pc /\ ScratchOf(pc, value)
  BY LabelFacts DEF IInv, ScratchKept, Top, Running
<1>3. ScratchOf(l, value)
  BY <1>1, <1>2, SMT DEF ScratchOf, HexLabels, NumberLabels
<1>4. l \in Checked \ Doc
  BY PlainFacts
<1> QED
  BY <1>1, <1>3, <1>4, ReadGoes, RaiseFails DEF Moves, Running, Errors

\* The closing quote: the zero byte stored in front of it is there.
LEMMA EndStringMoves ==
  ASSUME IInv, Running, pc \notin Doc, EndString
  PROVE  Moves
<1>1. Return("STRING", <<"string", Used - 1>>)
  BY DEF EndString
<1>2. Top = "str.close" /\ Used \in Nat
  BY LabelFacts DEF EndString, At, Top, Running, Used, IInv, TypeOK
<1>3. Terminated /\ Used - 1 \in Nat
  BY <1>2 DEF IInv, StringClosed, Terminated
<1>4. value' = <<"string", Used - 1>> => ValueOK'
  BY <1>3 DEF ValueOK, Live, Held
<1> QED
  BY <1>1, <1>2, <1>3, <1>4, ReturnReturns DEF Moves, Tokens, Answers

\* A digit goes to bits of a unit that are still zero.
LEMMA FirstDigitBits ==
  ASSUME NEW d \in Nat, d <= 15
  PROVE  d * 4096 \in Nat /\ d * 4096 <= MaxUnit /\ (d * 4096) % 4096 = 0
BY SMT DEF MaxUnit

\* The second digit of a unit.
LEMMA SecondDigitBits ==
  ASSUME NEW d \in Nat, d <= 15, NEW u \in Nat, u <= MaxUnit, u % 4096 = 0
  PROVE  u + d * 256 \in Nat /\ u + d * 256 <= MaxUnit /\ (u + d * 256) % 256 = 0
BY SMT DEF MaxUnit

\* The third digit of a unit.
LEMMA ThirdDigitBits ==
  ASSUME NEW d \in Nat, d <= 15, NEW u \in Nat, u <= MaxUnit, u % 256 = 0
  PROVE  u + d * 16 \in Nat /\ u + d * 16 <= MaxUnit /\ (u + d * 16) % 16 = 0
BY SMT DEF MaxUnit

\* A pair of units is well formed when both are.
LEMMA UnitsFacts ==
  ASSUME NEW u1 \in Nat, u1 <= MaxUnit, NEW u2 \in Nat, u2 <= MaxUnit
  PROVE  [unit1 |-> u1, unit2 |-> u2] \in Units
BY SMT DEF Units

\* WithDigit() keeps the units well formed, the bits of the digits to come zero, and
\* the first unit of a pair a high surrogate.
LEMMA DigitFacts ==
  ASSUME IInv, Running, NEW k \in 1 .. 8, pc = HexLabel[k], NEW digit \in Nat, digit <= 15
  PROVE  /\ WithDigit(k, digit) \in Units
         /\ k \notin {4, 8} => ScratchOf(HexLabel[k + 1], <<"utf16", WithDigit(k, digit)>>)
         /\ k > 4 => WithDigit(k, digit).unit1 \in HighSurrogate
<1> DEFINE units == WithDigit(k, digit)
<1>0. 0 <= MaxUnit /\ MaxUnit \in Nat
  BY SMT DEF MaxUnit
<1>1. ScratchOf(pc, value)
  BY LabelFacts DEF IInv, ScratchKept, Top, Running
<1>2. k > 1 => /\ Held \in Units
               /\ Held.unit1 \in Nat /\ Held.unit1 <= MaxUnit
               /\ Held.unit2 \in Nat /\ Held.unit2 <= MaxUnit
  <2>1. k > 1 => pc \in HexLabels \ {"hex1"}
    BY DEF HexLabel, HexLabels
  <2>2. k > 1 => Live = "utf16"
    BY <1>1, <2>1 DEF ScratchOf, Live
  <2>3. k > 1 => Held \in Units
    BY <2>2 DEF IInv, TypeOK, ValueOK
  <2> QED BY <1>0, <2>3 DEF Units
<1>3. CASE k = 1
  <2>1. units = [unit1 |-> digit * 4096, unit2 |-> 0]
    BY <1>3, SMT DEF WithDigit, Weight
  <2>2. units \in Units
    BY <1>0, <1>3, <2>1, FirstDigitBits, UnitsFacts
  <2>3. HexLabel[k + 1] = "hex2"
    BY <1>3 DEF HexLabel
  <2>4. ScratchOf("hex2", <<"utf16", units>>)
    BY <1>3, <2>1, FirstDigitBits DEF ScratchOf, HexLabels, NumberLabels
  <2> QED BY <1>3, <2>1, <2>2, <2>3, <2>4
<1>4. CASE k = 2
  <2>1. units = [unit1 |-> Held.unit1 + digit * 256, unit2 |-> 0]
    BY <1>2, <1>4, SMT DEF WithDigit, Weight
  <2>2. Held.unit1 % 4096 = 0
    BY <1>1, <1>4 DEF ScratchOf, HexLabel, HexLabels, Held
  <2>3. units \in Units
    BY <1>0, <1>2, <1>4, <2>1, <2>2, SecondDigitBits, UnitsFacts
  <2>4. HexLabel[k + 1] = "hex3"
    BY <1>4 DEF HexLabel
  <2>5. ScratchOf("hex3", <<"utf16", units>>)
    BY <1>2, <1>4, <2>1, <2>2, SecondDigitBits DEF ScratchOf, HexLabels, NumberLabels
  <2> QED BY <1>4, <2>1, <2>2, <2>3, <2>4, <2>5
<1>5. CASE k = 3
  <2>1. units = [unit1 |-> Held.unit1 + digit * 16, unit2 |-> 0]
    BY <1>2, <1>5, SMT DEF WithDigit, Weight
  <2>2. Held.unit1 % 256 = 0
    BY <1>1, <1>5 DEF ScratchOf, HexLabel, HexLabels, Held
  <2>3. units \in Units
    BY <1>0, <1>2, <1>5, <2>1, <2>2, ThirdDigitBits, UnitsFacts
  <2>4. HexLabel[k + 1] = "hex4"
    BY <1>5 DEF HexLabel
  <2>5. ScratchOf("hex4", <<"utf16", units>>)
    BY <1>2, <1>5, <2>1, <2>2, ThirdDigitBits DEF ScratchOf, HexLabels, NumberLabels
  <2> QED BY <1>5, <2>1, <2>2, <2>3, <2>4, <2>5
<1>6. CASE k = 4
  <2>1. units = [unit1 |-> Held.unit1 + digit, unit2 |-> 0]
    BY <1>2, <1>6, SMT DEF WithDigit, Weight
  <2>2. Held.unit1 % 16 = 0
    BY <1>1, <1>6 DEF ScratchOf, HexLabel, HexLabels, Held
  <2>3. Held.unit1 + digit \in Nat /\ Held.unit1 + digit <= MaxUnit
    BY <1>2, <1>6, <2>2, SMT DEF MaxUnit
  <2>4. units \in Units
    BY <1>0, <1>2, <1>6, <2>1, <2>3, UnitsFacts
  <2> QED BY <1>6, <2>1, <2>2, <2>4
<1>7. CASE k = 5
  <2>1. units = [unit1 |-> Held.unit1, unit2 |-> digit * 4096]
    BY <1>2, <1>7, SMT DEF WithDigit, Weight
  <2>2. Held.unit1 \in HighSurrogate
    BY <1>1, <1>7 DEF ScratchOf, HexLabel, HexLabels, Held
  <2>3. units \in Units
    BY <1>0, <1>2, <1>7, <2>1, <2>2, FirstDigitBits, UnitsFacts
  <2>4. HexLabel[k + 1] = "hex6"
    BY <1>7 DEF HexLabel
  <2>5. ScratchOf("hex6", <<"utf16", units>>)
    BY <1>2, <1>7, <2>1, <2>2, FirstDigitBits DEF ScratchOf, HexLabels, NumberLabels
  <2> QED BY <1>7, <2>1, <2>2, <2>3, <2>4, <2>5
<1>8. CASE k = 6
  <2>1. units = [unit1 |-> Held.unit1, unit2 |-> Held.unit2 + digit * 256]
    BY <1>2, <1>8, SMT DEF WithDigit, Weight
  <2>2. Held.unit2 % 4096 = 0 /\ Held.unit1 \in HighSurrogate
    BY <1>1, <1>8 DEF ScratchOf, HexLabel, HexLabels, Held
  <2>3. Held.unit2 + digit * 256 \in Nat /\ Held.unit2 + digit * 256 <= MaxUnit
    BY <1>2, <1>8, <2>2, SecondDigitBits
  <2>4. units \in Units
    BY <1>0, <1>2, <1>8, <2>1, <2>3, UnitsFacts
  <2>5. HexLabel[k + 1] = "hex7"
    BY <1>8 DEF HexLabel
  <2>6. ScratchOf("hex7", <<"utf16", units>>)
    BY <1>2, <1>8, <2>1, <2>2, SecondDigitBits DEF ScratchOf, HexLabels, NumberLabels
  <2> QED BY <1>8, <2>1, <2>2, <2>4, <2>5, <2>6
<1>9. CASE k = 7
  <2>1. units = [unit1 |-> Held.unit1, unit2 |-> Held.unit2 + digit * 16]
    BY <1>2, <1>9, SMT DEF WithDigit, Weight
  <2>2. Held.unit2 % 256 = 0 /\ Held.unit1 \in HighSurrogate
    BY <1>1, <1>9 DEF ScratchOf, HexLabel, HexLabels, Held
  <2>3. Held.unit2 + digit * 16 \in Nat /\ Held.unit2 + digit * 16 <= MaxUnit
    BY <1>2, <1>9, <2>2, ThirdDigitBits
  <2>4. units \in Units
    BY <1>0, <1>2, <1>9, <2>1, <2>3, UnitsFacts
  <2>5. HexLabel[k + 1] = "hex8"
    BY <1>9 DEF HexLabel
  <2>6. ScratchOf("hex8", <<"utf16", units>>)
    BY <1>2, <1>9, <2>1, <2>2, ThirdDigitBits DEF ScratchOf, HexLabels, NumberLabels
  <2> QED BY <1>9, <2>1, <2>2, <2>4, <2>5, <2>6
<1>10. CASE k = 8
  <2>1. units = [unit1 |-> Held.unit1, unit2 |-> Held.unit2 + digit]
    BY <1>2, <1>10, SMT DEF WithDigit, Weight
  <2>2. Held.unit2 % 16 = 0 /\ Held.unit1 \in HighSurrogate
    BY <1>1, <1>10 DEF ScratchOf, HexLabel, HexLabels, Held
  <2>3. Held.unit2 + digit \in Nat /\ Held.unit2 + digit <= MaxUnit
    BY <1>2, <1>10, <2>2, SMT DEF MaxUnit
  <2>4. units \in Units
    BY <1>0, <1>2, <1>10, <2>1, <2>3, UnitsFacts
  <2> QED BY <1>10, <2>1, <2>2, <2>4
<1> QED
  BY <1>3, <1>4, <1>5, <1>6, <1>7, <1>8, <1>9, <1>10

\* A surrogate pair is a code point.
LEMMA SurrogatesFact ==
  ASSUME NEW unit1, unit1 \in HighSurrogate, NEW unit2, unit2 \in LowSurrogate
  PROVE  Surrogates(unit1, unit2) \in Nat
<1>1. /\ unit1 \in Int /\ unit1 >= 55296 /\ unit1 <= 56319
      /\ unit2 \in Int /\ unit2 >= 56320 /\ unit2 <= 57343
  BY SMT DEF HighSurrogate, LowSurrogate
<1> QED
  BY <1>1, SMT DEF Surrogates

\* A digit of a \u escape; the last one stores the code point, goes on to the second
\* unit, or is an error.
LEMMA HexByteMoves ==
  ASSUME IInv, Running, pc \notin Doc, pc \in HexLabels, HexByte
  PROVE  Moves
<1>1. PICK k \in 1 .. 8, ch \in CurrCh :
        /\ At(HexLabel[k])
        /\ IF ch \notin HexDigit THEN RaiseError("EXPECTED_HEX")
           ELSE IF k \in {4, 8} THEN UnitRead(k, WithDigit(k, HexValue(ch)))
           ELSE /\ Advance(HexLabel[k + 1])
                /\ value' = Utf16Value(WithDigit(k, HexValue(ch)))
                /\ UNCHANGED bufferVars
  BY DEF HexByte
<1>2. pc = HexLabel[k]
  BY <1>1 DEF At
<1> DEFINE units == WithDigit(k, HexValue(ch))
<1>3. CASE ch \notin HexDigit
  BY <1>1, <1>3, RaiseFails DEF Moves, Running, Errors
<1>4. ASSUME ch \in HexDigit
      PROVE  /\ units \in Units
             /\ k \notin {4, 8} => ScratchOf(HexLabel[k + 1], <<"utf16", units>>)
             /\ k > 4 => units.unit1 \in HighSurrogate
  <2>1. HexValue(ch) \in Nat /\ HexValue(ch) <= 15
    BY <1>4 DEF HexDigit, HexValue, Digit
  <2> QED BY <1>2, <2>1, DigitFacts
<1>5. ch \in HexDigit /\ value' = <<"utf16", units>> => ValueOK'
  BY <1>4 DEF ValueOK, Live, Held
<1>6. CASE ch \in HexDigit /\ k \notin {4, 8}
  <2>1. HexLabel[k + 1] \in Checked \ (Doc \cup {"str.close"})
    <3>1. HexLabel[k + 1] \in {"hex2", "hex3", "hex4", "hex5", "hex6", "hex7", "hex8"}
      BY <1>6 DEF HexLabel
    <3> QED BY <3>1, PlainFacts
  <2>2. /\ Advance(HexLabel[k + 1]) /\ value' = <<"utf16", units>>
        /\ UNCHANGED bufferVars
    BY <1>1, <1>6 DEF Utf16Value
  <2> HIDE DEF units
  <2> QED BY <1>4, <1>5, <1>6, <2>1, <2>2, KeepGoes DEF Moves
<1>7. CASE ch \in HexDigit /\ k \in {4, 8}
  <2>1. UnitRead(k, units)
    BY <1>1, <1>7
  <2>2. units.unit1 \in Nat /\ units.unit2 \in Nat
    BY <1>4, <1>7 DEF Units
  <2>3. CASE RaiseError("ILLEGAL_UNICODE")
    BY <2>3, RaiseFails DEF Moves, Running, Errors
  <2>4. CASE /\ units.unit1 \in HighSurrogate
             /\ Advance("sur.bs") /\ value' = <<"utf16", units>> /\ UNCHANGED bufferVars
    <3>1. "sur.bs" \in Checked \ (Doc \cup {"str.close"})
      BY PlainFacts
    <3>2. ScratchOf("sur.bs", <<"utf16", units>>)
      BY <2>4 DEF ScratchOf, HexLabels, NumberLabels
    <3> HIDE DEF units
    <3> QED BY <1>5, <1>7, <2>4, <3>1, <3>2, KeepGoes DEF Moves
  <2>5. ASSUME NEW cp \in Nat,
               StoreCodepoint(cp, Advance("str") /\ value' = <<"utf16", units>>)
        PROVE  Moves
    BY <1>5, <1>7, <2>5, CodepointMoves DEF Moves
  <2>6. k = 8 /\ units.unit2 \in LowSurrogate => Surrogates(units.unit1, units.unit2) \in Nat
    BY <1>4, <1>7, SurrogatesFact
  <2> HIDE DEF units
  <2> QED BY <1>7, <2>1, <2>2, <2>3, <2>4, <2>5, <2>6 DEF UnitRead, Utf16Value
<1> QED
  BY <1>3, <1>6, <1>7

\* The string scanner.
LEMMA StringMoves ==
  ASSUME IInv, StringNext
  PROVE  Moves
<1>1. {"STRING", "str", "esc", "sur.bs", "sur.u", "str.close"} \cup Utf8Labels \cup HexLabels
        \subseteq Labels \ (Doc \cup {"ERROR"})
  BY LabelFacts, PlainFacts DEF Plain, HexLabels, JumpLabels, Doc
<1>2. CASE String
  BY <1>1, <1>2, AtFacts, BeginStringGoes DEF String, Moves
<1>3. CASE StringByte
  <2>1. At("str")
    BY <1>3 DEF StringByte
  <2> QED BY <1>1, <1>3, <2>1, AtFacts, StringByteMoves
<1>4. CASE Utf8Byte
  <2>1. PICK label \in Utf8Labels : At(label)
    BY <1>4 DEF Utf8Byte
  <2> QED BY <1>1, <1>4, <2>1, AtFacts, Utf8ByteMoves
<1>5. CASE EscapeByte
  <2>1. At("esc")
    BY <1>5 DEF EscapeByte
  <2> QED BY <1>1, <1>5, <2>1, AtFacts, EscapeByteMoves
<1>6. CASE HexByte
  <2>1. PICK k \in 1 .. 8 : At(HexLabel[k])
    BY <1>6 DEF HexByte
  <2>2. HexLabel[k] \in HexLabels
    BY DEF HexLabel, HexLabels
  <2> QED BY <1>1, <1>6, <2>1, <2>2, AtFacts, HexByteMoves
<1>7. CASE SurrogateBackslash \/ SurrogateU
  <2>1. At("sur.bs") \/ At("sur.u")
    BY <1>7 DEF SurrogateBackslash, SurrogateU
  <2> QED BY <1>1, <1>7, <2>1, AtFacts, SurrogateMoves
<1>8. CASE EndString
  <2>1. At("str.close")
    BY <1>8 DEF EndString
  <2> QED BY <1>1, <1>8, <2>1, AtFacts, EndStringMoves
<1> QED
  BY <1>2, <1>3, <1>4, <1>5, <1>6, <1>7, <1>8 DEF StringNext

-----------------------------------------------------------------------------
(* Numerals read into their components. *)

\* The counters of a numeral stay within 64 bits.
LEMMA CounterFacts ==
  ASSUME NEW n \in 0 .. MaxU, NEW digit \in 0 .. 9
  PROVE  Shift10(n, digit) \in 0 .. MaxU /\ RoundUp(n, digit) \in 0 .. MaxU
<1>1. MaxU \in Nat
  BY NumberAssumption
<1>2. RoundUp(n, digit) \in 0 .. MaxU
  BY <1>1 DEF RoundUp
<1>3. Shift10(n, digit) \in 0 .. MaxU
  BY <1>1 DEF Shift10, Uint
<1> QED
  BY <1>2, <1>3

\* The test for overflow, made of two divisions, is exact.
LEMMA OverflowsExactly ==
  ASSUME NEW n \in 0 .. MaxU, NEW digit \in 0 .. 9
  PROVE  Overflows(n, digit) <=> 10 * n + digit > MaxU
BY NumberAssumption DEF Overflows

\* Going on with a numeral is a move.
LEMMA ScanGoes ==
  ASSUME IInv, Running, pc \notin Doc, NEW c \in Components, NEW l \in NumberLabels, Scan(c, l)
  PROVE  Moves
<1>1. Advance(l) /\ value' = <<"components", c>> /\ UNCHANGED bufferVars
  BY DEF Scan, ComponentsValue
<1>2. value' = <<"components", c>> => ValueOK'
  BY DEF ValueOK, Live, Held
<1>3. ScratchOf(l, <<"components", c>>)
  BY DEF ScratchOf, HexLabels, NumberLabels
<1>4. l \in Checked \ (Doc \cup {"str.close"})
  BY PlainFacts DEF NumberLabels
<1> QED
  BY <1>1, <1>2, <1>3, <1>4, KeepGoes DEF Moves

\* The double computed from components.
LEMMA DoubleFacts ==
  ASSUME NEW c \in Components
  PROVE  Double(c) \in Doubles
<1> DEFINE scale == IF c.exponent_positive THEN c.exponent ELSE -c.exponent
           decimal == IF c.decimal_places > MinPow10 THEN 0 ELSE c.decimal
<1>1. /\ c.positive \in BOOLEAN /\ c.integer \in 0 .. MaxU /\ c.decimal_places \in 0 .. MaxU
      /\ c.exponent \in 0 .. MaxU /\ c.decimal \in 0 .. MaxU /\ MaxU \in Nat
  BY NumberAssumption DEF Components
<1>2. scale \in Int /\ decimal \in 0 .. MaxU
  BY <1>1
<1> HIDE DEF scale, decimal
<1>3. /\ [class |-> "nan"] \in Doubles
      /\ [class |-> "infinity", positive |-> c.positive] \in Doubles
      /\ [class |-> "zero", positive |-> c.positive] \in Doubles
      /\ [class |-> "finite", positive |-> c.positive, integer |-> c.integer,
          decimal |-> decimal, places |-> c.decimal_places, scale |-> scale] \in Doubles
  BY <1>1, <1>2 DEF Doubles
<1> QED BY <1>3, Zenon DEF Double, scale, decimal

\* A numeral is complete.
LEMMA FinishMoves ==
  ASSUME IInv, Running, pc \notin Doc, NEW c \in Components, NEW ch, FinishNumber(c, ch)
  PROVE  Moves
<1>1. CASE RaiseError("UNEXPECTED_CHAR")
  BY <1>1, RaiseFails DEF Moves, Running, Errors
<1>2. ASSUME NEW u \in 0 .. MaxU, Return("INTEGER", <<"integer", Int64(u)>>)
      PROVE  Moves
  <2>1. Int64(u) \in Int
    BY NumberAssumption DEF Int64
  <2>2. value' = <<"integer", Int64(u)>> => ValueOK'
    BY <2>1 DEF ValueOK, Live, Held
  <2> QED BY <1>2, <2>2, ReturnReturns DEF Moves, Tokens, Answers
<1>3. CASE Return("NUMBER", ComponentsValue(c))
  <2>1. value' = <<"components", c>> => ValueOK'
    BY DEF ValueOK, Live, Held
  <2> QED BY <1>3, <2>1, ReturnReturns DEF Moves, Tokens, Answers, ComponentsValue
<1>4. CASE Return("NUMBER", <<"number", Double(c)>>)
  <2>1. value' = <<"number", Double(c)>> => ValueOK'
    BY DoubleFacts DEF ValueOK, Live, Held
  <2> QED BY <1>4, <2>1, ReturnReturns DEF Moves, Tokens, Answers
<1>5. c.integer \in 0 .. MaxU /\ Uint(-c.integer) \in 0 .. MaxU
  BY NumberAssumption DEF Components, Uint
<1> QED
  BY <1>1, <1>2, <1>3, <1>4, <1>5 DEF FinishNumber

\* What may follow the decimals, or an integer without any.
LEMMA AfterDecimalsMoves ==
  ASSUME IInv, Running, pc \notin Doc, NEW c \in Components, NEW ch, AfterDecimals(c, ch)
  PROVE  Moves
<1>1. [c EXCEPT !.isinteger = @ /\ (c.integer # 0 \/ c.positive)] \in Components
  BY DEF Components
<1> QED
  BY <1>1, ScanGoes, FinishMoves DEF AfterDecimals, NumberLabels

\* What may follow the integer part.
LEMMA AfterIntegerMoves ==
  ASSUME IInv, Running, pc \notin Doc, NEW c \in Components, NEW ch, AfterInteger(c, ch)
  PROVE  Moves
BY ScanGoes, AfterDecimalsMoves DEF AfterInteger, NumberLabels

\* A digit that did not fit.
LEMMA DroppedDigitMoves ==
  ASSUME IInv, Running, pc \notin Doc, NEW c \in Components, DroppedDigit(c)
  PROVE  Moves
<1>1. CASE c.exponent = MaxU
  BY <1>1, RaiseFails DEF DroppedDigit, Moves, Running, Errors
<1>2. CASE c.exponent # MaxU
  <2>1. [c EXCEPT !.exponent = @ + 1] \in Components
    BY <1>2, NumberAssumption DEF Components
  <2> QED BY <1>2, <2>1, ScanGoes DEF DroppedDigit, NumberLabels
<1> QED
  BY <1>1, <1>2

\* A digit of the integer part.
LEMMA IntegerDigitMoves ==
  ASSUME IInv, Running, pc \notin Doc, NEW c \in Components, NEW digit \in 0 .. 9,
         IntegerDigit(c, digit)
  PROVE  Moves
<1>1. /\ [c EXCEPT !.isinteger = FALSE, !.integer = RoundUp(@, digit)] \in Components
      /\ [c EXCEPT !.integer = Shift10(@, digit)] \in Components
  BY CounterFacts DEF Components
<1> QED
  BY <1>1, DroppedDigitMoves, ScanGoes DEF IntegerDigit, NumberLabels

\* The first digit.
LEMMA FirstDigitMoves ==
  ASSUME IInv, Running, pc \notin Doc, NEW c \in Components, NEW ch, FirstDigit(c, ch)
  PROVE  Moves
<1>1. ch \in Digit => ch - Ascii.zero \in 0 .. 9
  BY DEF Digit, Ascii
<1> QED
  BY <1>1, ScanGoes, IntegerDigitMoves, RaiseFails
  DEF FirstDigit, NumberLabels, Moves, Running, Errors

\* A digit behind the point.
LEMMA DecimalDigitMoves ==
  ASSUME IInv, Running, pc \notin Doc, NEW c \in Components, NEW digit \in 0 .. 9,
         DecimalDigit(c, digit)
  PROVE  Moves
<1>1. [c EXCEPT !.decimal = RoundUp(@, digit)] \in Components
  BY CounterFacts DEF Components
<1>2. c.decimal_places # MaxU =>
        [c EXCEPT !.decimal = Shift10(@, digit), !.decimal_places = @ + 1] \in Components
  <2>1. c.decimal \in 0 .. MaxU /\ c.decimal_places \in 0 .. MaxU
    BY DEF Components
  <2>2. Shift10(c.decimal, digit) \in 0 .. MaxU
    BY <2>1, CounterFacts
  <2>3. c.decimal_places # MaxU => c.decimal_places + 1 \in 0 .. MaxU
    BY <2>1, NumberAssumption
  <2> QED BY <2>2, <2>3 DEF Components
<1> QED
  BY <1>1, <1>2, ScanGoes DEF DecimalDigit, NumberLabels

\* A digit of the exponent.
LEMMA ExponentDigitMoves ==
  ASSUME IInv, Running, pc \notin Doc, NEW c \in Components, NEW ch, ExponentDigit(c, ch)
  PROVE  Moves
<1>1. CASE ch \notin Digit
  BY <1>1, RaiseFails DEF ExponentDigit, Moves, Running, Errors
<1>2. CASE ch \in Digit
  <2>1. ch - Ascii.zero \in 0 .. 9
    BY <1>2 DEF Digit, Ascii
  <2>2. [c EXCEPT !.exponent = Shift10(@, ch - Ascii.zero)] \in Components
    BY <2>1, CounterFacts DEF Components
  <2>3. [c EXCEPT !.exponent = MaxU] \in Components
    BY NumberAssumption DEF Components
  <2> QED BY <1>2, <2>2, <2>3, ScanGoes DEF ExponentDigit, NumberLabels
<1> QED
  BY <1>1, <1>2

\* Inside of a numeral the union holds its components.
LEMMA HeldComponents ==
  ASSUME IInv, NEW label \in NumberLabels, At(label)
  PROVE  Running /\ pc \notin Doc /\ Held \in Components
<1>1. label \in Labels \ (Doc \cup {"ERROR"})
  BY LabelFacts, PlainFacts DEF JumpLabels
<1>2. Running /\ pc \notin Doc /\ Top = label
  BY <1>1, AtFacts
<1>3. Live = "components"
  BY <1>2 DEF IInv, ScratchKept, ScratchOf, Live
<1> QED
  BY <1>2, <1>3 DEF IInv, TypeOK, ValueOK

\* More digits are read where they make no difference.
LEMMA SameLabelGoes ==
  ASSUME IInv, Running, pc \notin Doc, NEW label \in NumberLabels, At(label), Read(label)
  PROVE  Moves
<1>1. ScratchOf(label, value)
  BY LabelFacts DEF IInv, ScratchKept, Top, At, Running
<1>2. label \in Checked \ (Doc \cup {"str.close"})
  BY PlainFacts DEF NumberLabels
<1> QED
  BY <1>1, <1>2, ReadGoes DEF Moves

\* The number a digit stands for.
LEMMA DigitRange ==
  ASSUME NEW ch, ch \in Digit
  PROVE  ch - Ascii.zero \in 0 .. 9
BY DEF Digit, Ascii

\* The integer part of a numeral.
LEMMA IntegerPartMoves ==
  ASSUME IInv, IntegerPart
  PROVE  Moves
<1>1. PICK label \in {"num.neg", "num.int", "num.big", "num.zero"}, ch \in CurrCh :
        /\ At(label)
        /\ \/ FirstDigit(Held, ch)
           \/ ch \in Digit /\ IntegerDigit(Held, ch - Ascii.zero)
           \/ DroppedDigit(Held)
           \/ AfterInteger(Held, ch)
  BY DEF IntegerPart
<1>2. Running /\ pc \notin Doc /\ Held \in Components
  BY <1>1, HeldComponents DEF NumberLabels
<1> QED
  BY <1>1, <1>2, DigitRange, FirstDigitMoves, IntegerDigitMoves, DroppedDigitMoves, AfterIntegerMoves

\* The decimals of a numeral.
LEMMA DecimalPartMoves ==
  ASSUME IInv, DecimalPart
  PROVE  Moves
<1>1. PICK label \in {"num.dot", "num.dec", "num.decmore"}, ch \in CurrCh :
        /\ At(label)
        /\ \/ ch \in Digit /\ DecimalDigit([Held EXCEPT !.isinteger = FALSE], ch - Ascii.zero)
           \/ ch \in Digit /\ DecimalDigit(Held, ch - Ascii.zero)
           \/ RaiseError("EXPECTED_DIGIT")
           \/ AfterDecimals(Held, ch)
           \/ label = "num.decmore" /\ Read("num.decmore")
  BY DEF DecimalPart
<1>2. Running /\ pc \notin Doc /\ Held \in Components
  BY <1>1, HeldComponents DEF NumberLabels
<1>3. [Held EXCEPT !.isinteger = FALSE] \in Components
  BY <1>2 DEF Components
<1>4. CASE RaiseError("EXPECTED_DIGIT")
  BY <1>2, <1>4, RaiseFails DEF Moves, Running, Errors
<1>5. CASE label = "num.decmore" /\ Read("num.decmore")
  BY <1>1, <1>2, <1>5, SameLabelGoes DEF NumberLabels
<1> QED
  BY <1>1, <1>2, <1>3, <1>4, <1>5, DigitRange, DecimalDigitMoves, AfterDecimalsMoves

\* The exponent of a numeral.
LEMMA ExponentPartMoves ==
  ASSUME IInv, ExponentPart
  PROVE  Moves
<1> DEFINE c == [Held EXCEPT !.isinteger = FALSE]
<1>1. PICK label \in {"num.exp", "num.expneg", "num.exppos", "num.expd", "num.expinf"},
           ch \in CurrCh :
        /\ At(label)
        /\ \/ Scan([c EXCEPT !.exponent_positive = FALSE], "num.expneg")
           \/ Scan(c, "num.exppos")
           \/ ExponentDigit(c, ch)
           \/ ExponentDigit(Held, ch)
           \/ FinishNumber(Held, ch)
           \/ label = "num.expinf" /\ Read("num.expinf")
  BY DEF ExponentPart
<1>2. Running /\ pc \notin Doc /\ Held \in Components
  BY <1>1, HeldComponents DEF NumberLabels
<1>3. c \in Components /\ [c EXCEPT !.exponent_positive = FALSE] \in Components
  BY <1>2 DEF Components
<1>4. CASE label = "num.expinf" /\ Read("num.expinf")
  BY <1>1, <1>2, <1>4, SameLabelGoes DEF NumberLabels
<1> QED
  BY <1>1, <1>2, <1>3, <1>4, ScanGoes, ExponentDigitMoves, FinishMoves DEF NumberLabels

-----------------------------------------------------------------------------
(* Numerals kept as text. *)

TextLabels == {"txt.neg", "txt.dot", "txt.exp", "txt.expsign", "txt.int", "txt.zero", "txt.frac", "txt.expd"}

\* A byte of a numeral kept as text is stored.
LEMMA TextPutMoves ==
  ASSUME IInv, Running, pc \notin Doc, NEW ch \in Byte, NEW l \in TextLabels, PutC(ch, l)
  PROVE  Moves
BY PlainFacts, PutCMoves DEF TextLabels, Moves, Plain

\* The first byte of one clears the buffer.
LEMMA BeginTextMoves ==
  ASSUME IInv, Running, pc \notin Doc, NEW ch \in Byte, BeginText(ch)
  PROVE  Moves
<1>1. PICK l \in {"txt.neg", "txt.zero", "txt.int"} :
        StoreByte(<<>>, ch, Advance(l) /\ UNCHANGED value)
  BY DEF BeginText
<1>2. <<>> \in Seq(Byte) /\ Len(<<>>) <= Used
  BY DEF IInv, TypeOK, Used
<1>3. l \in Plain
  BY PlainFacts
<1> QED
  BY <1>1, <1>2, <1>3, StoreByteMoves DEF Moves, Plain

\* A numeral kept as text is complete: the zero byte is stored, then the token is
\* answered.
LEMMA FinishTextMoves ==
  ASSUME IInv, Running, pc \notin Doc, NEW ch, FinishText(ch)
  PROVE  Moves
<1> DEFINE newsize == IF Len(buffer) = buffer_size THEN buffer_size + BUFSIZ ELSE buffer_size
           v == <<"string", Used>>
<1>1. \/ RaiseError("UNEXPECTED_CHAR")
      \/ Fail("MEMORY") /\ buffer' = buffer /\ UNCHANGED buffer_size
      \/ buffer' = buffer \o <<0>> /\ buffer_size' = newsize /\ Pop("NUMBER", v)
  BY DEF FinishText, StoreByte, Store
<1>2. buffer \in Seq(Byte) /\ Len(buffer) <= Used /\ Used \in Nat /\ pc \in Labels
  BY DEF IInv, TypeOK, Used, Running
<1>3. newsize \in Nat /\ Len(buffer) + 1 <= newsize
  BY <1>2, ByteSize
<1>4. <<0>> \in Seq(Byte) /\ Len(<<0>>) = 1
  BY DEF Byte
<1> HIDE DEF newsize
<1>5. CASE RaiseError("UNEXPECTED_CHAR")
  BY <1>5, RaiseFails DEF Moves, Running, Errors
<1>6. CASE Fail("MEMORY") /\ buffer' = buffer /\ UNCHANGED buffer_size
  BY <1>2, <1>3, <1>4, <1>6, StoreFacts DEF Moves
<1>7. CASE buffer' = buffer \o <<0>> /\ buffer_size' = newsize /\ Pop("NUMBER", v)
  <2>1. BufferOK'
    BY <1>2, <1>3, <1>4, <1>7, StoreFacts
  <2>2. value' = v
    <3>1. Top = pc /\ pc # "ERROR"
      BY LabelFacts DEF Running, Top
    <3>2. stack_current # 0
      BY <3>1 DEF IInv, TypeOK, Frames
    <3> QED BY <1>7, <3>2 DEF Pop
  <2>3. ValueOK' /\ Held' = Used
    BY <1>2, <2>2 DEF ValueOK, Live, Held
  <2>4. Used' = Used + 1 /\ Terminated'
    BY <1>2, <1>7 DEF Used, Terminated
  <2> HIDE DEF v
  <2> QED BY <1>7, <2>1, <2>3, <2>4, PopReturns DEF Moves, Tokens, Answers
<1> QED
  BY <1>1, <1>5, <1>6, <1>7

\* The scanner of numerals kept as text.
LEMMA TextMoves ==
  ASSUME IInv, TextInteger \/ TextDecimals \/ TextExponent
  PROVE  Moves
<1>1. PICK label \in TextLabels, ch \in CurrCh :
        /\ At(label)
        /\ \/ \E l \in TextLabels : ch # EOF /\ PutC(ch, l)
           \/ RaiseError("EXPECTED_DIGIT")
           \/ FinishText(ch)
  <2> DEFINE Outcome(label, ch) ==
        /\ At(label)
        /\ \/ \E l \in TextLabels : ch # EOF /\ PutC(ch, l)
           \/ RaiseError("EXPECTED_DIGIT")
           \/ FinishText(ch)
  <2>1. CASE TextInteger
    <3>1. PICK label \in {"txt.neg", "txt.int", "txt.zero"}, ch \in CurrCh :
            /\ At(label)
            /\ \/ FirstTextDigit(ch)
               \/ ch \in Digit /\ PutC(ch, "txt.int")
               \/ TextAfterInteger(ch)
      BY <2>1 DEF TextInteger
    <3>2. Outcome(label, ch)
      BY <3>1 DEF FirstTextDigit, TextDigit, TextAfterInteger, TextAfterDecimals, TextLabels,
                  EOF, Digit, ExpMark, Ascii
    <3> QED BY <3>1, <3>2 DEF TextLabels
  <2>2. CASE TextDecimals
    <3>1. PICK label \in {"txt.dot", "txt.frac"}, ch \in CurrCh :
            /\ At(label)
            /\ \/ TextDigit(ch, "txt.frac")
               \/ ch \in Digit /\ PutC(ch, "txt.frac")
               \/ TextAfterDecimals(ch)
      BY <2>2 DEF TextDecimals
    <3>2. Outcome(label, ch)
      BY <3>1 DEF TextDigit, TextAfterDecimals, TextLabels, EOF, Digit, ExpMark
    <3> QED BY <3>1, <3>2 DEF TextLabels
  <2>3. CASE TextExponent
    <3>1. PICK label \in {"txt.exp", "txt.expsign", "txt.expd"}, ch \in CurrCh :
            /\ At(label)
            /\ \/ ch \in {Ascii.minus, Ascii.plus} /\ PutC(ch, "txt.expsign")
               \/ TextDigit(ch, "txt.expd")
               \/ ch \in Digit /\ PutC(ch, "txt.expd")
               \/ FinishText(ch)
      BY <2>3 DEF TextExponent
    <3>2. Outcome(label, ch)
      BY <3>1 DEF TextDigit, TextLabels, EOF, Digit, Ascii
    <3> QED BY <3>1, <3>2 DEF TextLabels
  <2> QED BY <2>1, <2>2, <2>3
<1>2. label \in Labels \ (Doc \cup {"ERROR"})
  BY PlainFacts, LabelFacts DEF TextLabels, Plain, JumpLabels
<1>3. Running /\ pc \notin Doc
  BY <1>1, <1>2, AtFacts
<1>4. ch # EOF => ch \in Byte
  BY <1>3, CurrChFacts DEF Running
<1>5. CASE RaiseError("EXPECTED_DIGIT")
  BY <1>3, <1>5, RaiseFails DEF Moves, Running, Errors
<1> QED
  BY <1>1, <1>3, <1>4, <1>5, TextPutMoves, FinishTextMoves

-----------------------------------------------------------------------------
(* Every step of a call is a move. *)

\* The first byte of a value chooses its scanner.
LEMMA ValueMoves ==
  ASSUME IInv, Value
  PROVE  Moves
<1>1. At("VALUE") /\ ~AtEof
  BY DEF Value, At, JumpLabels, MayLabels, LiteralEnds, AtEof, IInv, TypeOK, Size
<1>2. "VALUE" \in Labels \ (Doc \cup {"ERROR"})
  BY LabelFacts DEF Doc
<1>3. Running /\ pc \notin Doc
  BY <1>1, <1>2, AtFacts
<1>4. PICK ch \in CurrCh :
        \/ \E l \in {"t", "f", "n"} : Read(l)
        \/ BeginString
        \/ ch \in Digit \cup {Ascii.minus} /\ BeginNumber(ch)
        \/ Emit("BEGIN_ARRAY", "arr.emit")
        \/ Emit("BEGIN_OBJECT", "obj.emit")
        \/ RaiseError("UNEXPECTED_CHAR")
  BY DEF Value
<1>5. ch \in Byte
  BY <1>1, <1>3, CurrChFacts DEF Running
<1>6. ASSUME NEW l \in {"t", "f", "n"}, Read(l)
      PROVE  Moves
  BY <1>3, <1>6, PlainFacts, PlainGoes DEF Moves, LiteralLabels
<1>7. CASE BeginString
  BY <1>3, <1>7, BeginStringGoes DEF Moves
<1>8. CASE BeginNumber(ch)
  <2>1. CASE BeginText(ch)
    BY <1>3, <1>5, <2>1, BeginTextMoves
  <2>2. CASE BeginComponents(ch)
    <3>1. NoComponents \in Components /\ [NoComponents EXCEPT !.positive = FALSE] \in Components
      <4>1. 0 \in 0 .. MaxU
        BY NumberAssumption
      <4>2. NoComponents \in Components
        BY <4>1 DEF NoComponents, Components
      <4> QED BY <4>2 DEF Components
    <3> QED BY <1>3, <2>2, <3>1, ScanGoes, FirstDigitMoves DEF BeginComponents, NumberLabels
  <2> QED BY <1>8, <2>1, <2>2 DEF BeginNumber
<1>9. CASE Emit("BEGIN_ARRAY", "arr.emit") \/ Emit("BEGIN_OBJECT", "obj.emit")
  BY <1>3, <1>9 DEF Moves, Emits, Opening
<1>10. CASE RaiseError("UNEXPECTED_CHAR")
  BY <1>3, <1>10, RaiseFails DEF Moves, Running, Errors
<1> QED
  BY <1>4, <1>6, <1>7, <1>8, <1>9, <1>10

\* The end where a byte is needed, and a call in the error state; END_DISPATCH is never
\* reached.
LEMMA ErrorMoves ==
  ASSUME IInv, UnexpectedEof \/ ErrorState
  PROVE  Moves
<1>1. CASE UnexpectedEof
  <2>1. pc \in Labels /\ RaiseError("UNEXPECTED_EOF")
    BY <1>1, LabelFacts DEF UnexpectedEof, Checked
  <2> QED BY <2>1, RaiseFails DEF Moves, Errors
<1>2. CASE ErrorState
  <2>1. pc = "ERROR"
    BY <1>2 DEF ErrorState, IInv, Frames, Top
  <2> QED BY <1>2, <2>1, LabelFacts, RaiseFails DEF ErrorState, Moves, Errors
<1> QED
  BY <1>1, <1>2

\* Every step behind the dispatch is a move.
LEMMA RunMoves ==
  ASSUME IInv, Run
  PROVE  Moves /\ UNCHANGED configVars
<1>1. UNCHANGED configVars
  BY DEF Run
<1>2. \/ NeedData
      \/ UnexpectedEof \/ ErrorState
      \/ Start \/ Trail \/ Value \/ LiteralLetter \/ LiteralEnd
      \/ StringNext \/ NumberNext
      \/ ArrayEmitted \/ ArrayFirst \/ ArrayNext \/ ArrayMore \/ ArrayClosed
      \/ ObjectEmitted \/ ObjectFirst \/ ObjectColon \/ ObjectValue
      \/ ObjectNext \/ ObjectMore \/ ObjectClosed
  BY DEF Run
<1>3. CASE NeedData
  BY <1>1, <1>3 DEF Moves
<1>4. CASE NumberNext
  BY <1>1, <1>4, IntegerPartMoves, DecimalPartMoves, ExponentPartMoves, TextMoves DEF NumberNext
<1> QED
  BY <1>1, <1>2, <1>3, <1>4, ErrorMoves, StartMoves, TrailMoves, ValueMoves,
     LiteralLetterMoves, LiteralEndMoves, StringMoves, ArrayMoves, ObjectMoves

-----------------------------------------------------------------------------
(* The theorems. *)

\* Every step of the parser preserves the invariant.
LEMMA StepIInv ==
  ASSUME IInv, [Next]_vars
  PROVE  IInv'
<1>1. CASE Run
  BY <1>1, RunMoves, MovesIInv
<1>2. CASE NextToken
  BY <1>2, NextTokenIInv
<1>3. CASE Reset
  BY <1>3, ResetIInv
<1>4. ASSUME NEW chunk \in Chunks, Feed(chunk) PROVE IInv'
  BY <1>4, FeedIInv, ProgramAssumption
<1>5. CASE UNCHANGED vars
  BY <1>5
  DEF vars, configVars, inputVars, stackVars, bufferVars, IInv, TypeOK, ValueOK, Live, Held,
      Used, Frames, Top, ScratchKept, StringClosed, Terminated, StringsAreTerminated,
      ByteAhead, Position, AtEof, Size, ErrorStays, NoInternalError, FeedAccepted
<1> QED BY <1>1, <1>2, <1>3, <1>4, <1>5 DEF Next

\* IInv holds initially and every step preserves it.
THEOREM Invariance == Spec => []IInv
<1>1. Init => IInv
  BY InitIInv
<1>2. IInv /\ [Next]_vars => IInv'
  BY StepIInv
<1> QED
  BY <1>1, <1>2, PTL DEF Spec

\* The parser structure stays well formed, for all sizes of the stack and of
\* the buffer and whatever realloc answers.
THEOREM TypeCorrect == Spec => []TypeOK
<1>1. IInv => TypeOK
  BY DEF IInv
<1> QED
  BY <1>1, Invariance, PTL

\* RETURN never finds the stack empty, and no call starts at a cell of the
\* stack nothing was stored in.
THEOREM NoInternalErrors == Spec => []NoInternalError
<1>1. IInv => NoInternalError
  BY DEF IInv
<1> QED
  BY <1>1, Invariance, PTL

\* The places that look at a byte without asking for one have one, or are at the end.
THEOREM ReadsStay == Spec => []ReadsStayInChunk
<1>1. IInv => ReadsStayInChunk
  <2> SUFFICES ASSUME IInv, pc \in JumpLabels \ {"ERROR"} PROVE AtEof \/ index < Size
    BY DEF ReadsStayInChunk
  <2>1. Top = pc /\ Position = index
    BY LabelFacts DEF Top, Position
  <2> QED BY <2>1 DEF IInv, ByteAhead
<1> QED
  BY <1>1, Invariance, PTL

\* The union keeps what was read of a scalar over all chunk boundaries.
THEOREM ScratchIsKept == Spec => []ScratchKept
<1>1. IInv => ScratchKept
  BY DEF IInv
<1> QED
  BY <1>1, Invariance, PTL

\* Every string and every numeral kept as text is terminated where its length says.
THEOREM Termination == Spec => []StringsAreTerminated
<1>1. IInv => StringsAreTerminated
  BY DEF IInv
<1> QED
  BY <1>1, Invariance, PTL

\* A chunk that was asked for is accepted.
THEOREM FeedIsAccepted == Spec => []FeedAccepted
<1>1. IInv => FeedAccepted
  BY DEF IInv
<1> QED
  BY <1>1, Invariance, PTL

\* An error is final until the parser is reset.
THEOREM ErrorsAreFinal == Spec => ErrorIsFinal
<1>1. IInv /\ [Next]_vars =>
        [tok = "ERROR" \/ Top = "ERROR" => Top' = "ERROR" \/ tok' = "RESET"]_vars
  <2> SUFFICES ASSUME IInv, Next, Top = "ERROR"
               PROVE  Top' = "ERROR" \/ tok' = "RESET"
    BY DEF IInv, ErrorStays
  <2>1. CASE Run
    <3>1. Moves
      BY <2>1, RunMoves
    <3>2. CASE Fails
      <4>1. PICK e : Fail(e)
        BY <3>2 DEF Fails
      <4>2. /\ stack_current \in 0 .. stack_size - 1
            /\ stack \in [0 .. stack_size - 1 -> Labels \cup {"uninit"}]
        BY DEF IInv, TypeOK
      <4> QED BY <4>1, <4>2, AnswerFacts DEF Fail
    <3>3. ~Fails => pc \in Labels \ {"ERROR"}
      BY <3>1, LabelFacts
      DEF Moves, Goes, Calls, Returns, Emits, Concludes, NeedData, Running, Checked, JumpLabels
    <3> QED BY <3>2, <3>3, LabelFacts DEF Top
  <2>2. CASE NextToken
    BY <2>2, LabelFacts DEF NextToken, Top, stackVars
  <2>3. CASE Reset
    BY <2>3 DEF Reset
  <2>4. ASSUME NEW chunk \in Chunks, Feed(chunk) PROVE Top' = "ERROR"
    BY <2>4 DEF Feed, Top, stackVars
  <2> QED BY <2>1, <2>2, <2>3, <2>4 DEF Next
<1> QED
  BY <1>1, Invariance, PTL DEF Spec, ErrorIsFinal
=============================================================================
