---------------------------- MODULE ParserEngine ----------------------------
(***************************************************************************)
(* The resumable engine under ajson_next_token(): the parser structure,    *)
(* the stack of labels to resume at, the string buffer, and the macros     *)
(* (READ_NEXT, RECURSE, RETURN, EMIT, RAISE_ERROR, ...) every scanner of   *)
(* parser.c is written in.  A label names a place of ajson_next_token()    *)
(* where the code may leave the call and come back to.                     *)
(***************************************************************************)
EXTENDS Bytes

CONSTANTS
  STACK_SIZE,      \* AJSON_STACK_SIZE, the cells the stack starts with and grows by
  BUFSIZ,          \* the bytes the buffer grows by
  MaxStackSize,    \* SIZE_MAX / sizeof(uintptr_t), the cells a stack can have
  MaxBufferSize,   \* bytes beyond which realloc never succeeds (bound of the model)
  Realloc          \* the outcomes of realloc within the limits: {TRUE} or BOOLEAN

ASSUME MemoryAssumption ==
  /\ STACK_SIZE \in Nat /\ STACK_SIZE > 1
  /\ BUFSIZ \in Nat /\ BUFSIZ > 0
  /\ MaxStackSize \in Nat
  /\ MaxBufferSize \in Nat
  /\ Realloc \in SUBSET BOOLEAN /\ Realloc # {}

VARIABLES
  flags,           \* given to ajson_init(), as is the encoding
  encoding,
  input,           \* the current chunk; input_size is its length
  input_current,   \* the first byte of it not parsed yet
  stack,           \* labels, a function on 0 .. stack_size - 1
  stack_size,
  stack_current,
  buffer,          \* the buffer_used bytes in use of the buffer
  buffer_size,
  value,           \* the union: the member last written, and what it holds
  index,           \* the local variable of the running call
  pc,              \* the label the running call is at, "idle" outside of a call
  tok              \* the answer of the last API call

configVars == <<flags, encoding>>
inputVars  == <<input, input_current>>
stackVars  == <<stack, stack_size, stack_current>>
bufferVars == <<buffer, buffer_size>>
vars == <<configVars, inputVars, stackVars, bufferVars, value, index, pc, tok>>

Live == value[1]
Held == value[2]

-----------------------------------------------------------------------------
(* Labels, by what the code checks when the call resumes at them. *)

LiteralLabels == {"t", "tr", "tru", "f", "fa", "fal", "fals", "n", "nu", "nul"}
LiteralEnds   == {"true", "false", "null"}

HexLabel  == <<"hex1", "hex2", "hex3", "hex4", "hex5", "hex6", "hex7", "hex8">>
HexLabels == {"hex1", "hex2", "hex3", "hex4", "hex5", "hex6", "hex7", "hex8"}
Utf8Labels == {"u2.2", "u3.2", "u3.3", "u4.2", "u4.3", "u4.4"}

NumberLabels ==
  {"num.neg", "num.int", "num.big", "num.zero", "num.dot", "num.dec", "num.decmore",
   "num.exp", "num.expneg", "num.exppos", "num.expd", "num.expinf"}

\* READ_NEXT and STATE_WITH_DATA: a byte is needed, the end of the input is an error.
NeedLabels ==
  {"START", "start.ws", "VALUE"} \cup LiteralLabels \cup HexLabels \cup Utf8Labels
    \cup {"str", "esc", "sur.bs", "sur.u"}
    \cup {"num.neg", "num.dot", "num.exp", "num.expneg", "num.exppos"}
    \cup {"txt.neg", "txt.dot", "txt.exp", "txt.expsign"}
    \cup {"arr.open", "arr.ws", "arr.comma"}
    \cup {"obj.open", "obj.kws", "obj.colon", "obj.ws", "obj.comma"}

\* READ_NEXT_OR_EOF: a byte is needed unless the end was signalled.
MayLabels ==
  {"start.trail", "str.close", "arr.close", "obj.close"} \cup LiteralEnds
    \cup {"num.int", "num.big", "num.zero", "num.dec", "num.decmore", "num.expd", "num.expinf"}
    \cup {"txt.int", "txt.zero", "txt.frac", "txt.expd"}

\* STATE, RECURSE and EMIT: nothing is checked, the byte at index is taken to be there.
JumpLabels ==
  {"STRING", "ERROR", "start.ret", "arr.emit", "arr.ret", "obj.emit", "obj.key", "obj.val"}

Labels == NeedLabels \cup MayLabels \cup JumpLabels

-----------------------------------------------------------------------------
(* Reading. *)

Size  == Len(input)
AtEof == Size = 0

\* CURR_CH, guarded by AT_EOF where the code guards it; a read past the
\* chunk would return any byte.
CurrCh == IF AtEof THEN {EOF} ELSE IF index < Size THEN {input[index + 1]} ELSE Byte

\* The check in front of a label passes and the code behind it runs.
At(label) ==
  /\ pc = label
  /\ \/ label \in JumpLabels
     \/ label \in MayLabels /\ AtEof
     \/ index < Size

\* Leave the call with an answer.
Answer(t) ==
  /\ input_current' = index
  /\ tok' = t
  /\ pc' = "idle"
  /\ index' = 0
  /\ UNCHANGED input

\* Mutant: the error is answered but the parser does not stay in it.
FailForgotten(e) ==
  /\ Answer("ERROR")
  /\ value' = <<"error", e>>
  /\ UNCHANGED stackVars

\* RAISE_ERROR, leaving open what happened to the buffer.
Fail(e) ==
  /\ Answer("ERROR")
  /\ value' = <<"error", e>>
  /\ stack' = [stack EXCEPT ![stack_current] = "ERROR"]
  /\ UNCHANGED <<stack_size, stack_current>>

RaiseError(e) == Fail(e) /\ UNCHANGED bufferVars

\* RQUIRE_DATA: the chunk is used up, the call resumes at this label.
NeedData ==
  /\ pc \in NeedLabels \cup MayLabels
  /\ ~AtEof /\ index >= Size
  /\ Answer("NEED_DATA")
  /\ stack' = [stack EXCEPT ![stack_current] = pc]
  /\ UNCHANGED <<stack_size, stack_current, bufferVars, value>>

UnexpectedEof ==
  /\ pc \in NeedLabels
  /\ AtEof
  /\ RaiseError("UNEXPECTED_EOF")

\* READ_NEXT and READ_NEXT_OR_EOF up to their label.
Advance(label) ==
  /\ index' = index + 1
  /\ pc' = label
  /\ UNCHANGED <<inputVars, stackVars, tok>>

Read(label) == Advance(label) /\ UNCHANGED <<bufferVars, value>>

-----------------------------------------------------------------------------
(* Recursion and answers. *)

\* Mutant: a full stack is replaced instead of moved.
RecurseFresh(enter, return) ==
  LET full == stack_current + 1 = stack_size
      newsize == IF full THEN stack_size + STACK_SIZE ELSE stack_size
  IN \E ok \in Realloc :
       IF full /\ ~(ok /\ newsize <= MaxStackSize)
       THEN RaiseError("MEMORY")
       ELSE /\ stack' = [i \in 0 .. newsize - 1 |->
                           IF i = stack_current THEN return
                           ELSE IF full THEN "uninit" ELSE stack[i]]
            /\ stack_size' = newsize
            /\ stack_current' = stack_current + 1
            /\ pc' = enter
            /\ UNCHANGED <<inputVars, bufferVars, value, index, tok>>

Recurse(enter, return) ==
  LET full == stack_current + 1 = stack_size
      newsize == IF full THEN stack_size + STACK_SIZE ELSE stack_size
  IN \E ok \in Realloc :
       IF full /\ ~(ok /\ newsize <= MaxStackSize)
       THEN RaiseError("MEMORY")
       ELSE /\ stack' = [i \in 0 .. newsize - 1 |->
                           IF i = stack_current THEN return
                           ELSE IF i < stack_size THEN stack[i] ELSE "uninit"]
            /\ stack_size' = newsize
            /\ stack_current' = stack_current + 1
            /\ pc' = enter
            /\ UNCHANGED <<inputVars, bufferVars, value, index, tok>>

\* RETURN: a value is complete, go on where it was asked for.
Pop(t, v) ==
  IF stack_current = 0
  THEN Fail("EMPTY_SATCK")
  ELSE /\ Answer(t)
       /\ value' = v
       /\ stack_current' = stack_current - 1
       /\ UNCHANGED <<stack, stack_size>>

Return(t, v) == Pop(t, v) /\ UNCHANGED bufferVars

\* Mutant: the byte the token was made of is taken before the answer.
EmitBehind(t, label) ==
  /\ input_current' = index + 1
  /\ tok' = t
  /\ pc' = "idle"
  /\ index' = 0
  /\ stack' = [stack EXCEPT ![stack_current] = label]
  /\ UNCHANGED <<input, stack_size, stack_current, bufferVars, value>>

Emit(t, label) ==
  /\ Answer(t)
  /\ stack' = [stack EXCEPT ![stack_current] = label]
  /\ UNCHANGED <<stack_size, stack_current, bufferVars, value>>

Done == Answer("END") /\ UNCHANGED <<stackVars, bufferVars, value>>

-----------------------------------------------------------------------------
(* The string buffer. *)

Used == Len(buffer)

\* The size ajson_buffer_ensure() makes the buffer.
SizeFor(space) ==
  LET needed == Used + space
      newsize == needed - (needed % BUFSIZ)
  IN  IF needed <= buffer_size THEN buffer_size
      ELSE IF newsize < needed THEN newsize + BUFSIZ ELSE newsize

\* Store bytes behind those in old, in a buffer of newsize bytes, and go on with Then.
Store(old, bytes, newsize, Then) ==
  \E ok \in Realloc :
    IF newsize # buffer_size /\ ~(ok /\ newsize <= MaxBufferSize)
    THEN Fail("MEMORY") /\ buffer' = old /\ UNCHANGED buffer_size
    ELSE buffer' = old \o bytes /\ buffer_size' = newsize /\ Then

\* Mutant: the buffer is grown one byte late.
StoreByteLate(old, ch, Then) ==
  Store(old, <<ch>>, IF Len(old) > buffer_size THEN buffer_size + BUFSIZ ELSE buffer_size, Then)

\* ajson_buffer_putc(), which grows a full buffer by BUFSIZ.
StoreByte(old, ch, Then) ==
  Store(old, <<ch>>, IF Len(old) = buffer_size THEN buffer_size + BUFSIZ ELSE buffer_size, Then)

\* ajson_buffer_putcp(); the error it sets is replaced by the caller's.
StoreCodepoint(cp, Then) ==
  IF cp <= MaxCodepoint
  THEN Store(buffer, Utf8(cp), SizeFor(Len(Utf8(cp))), Then)
  ELSE RaiseError("MEMORY")

PutC(ch, label) == StoreByte(buffer, ch, Advance(label) /\ UNCHANGED value)
=============================================================================
