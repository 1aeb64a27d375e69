---------------------------- MODULE WriterCalls ----------------------------
(***************************************************************************)
(* A program that writes tokens in any order, legal or not, takes what     *)
(* each buffer received, continues while a buffer was filled, and may give *)
(* a document up and reset the writer at any time.  Next to the writer it  *)
(* keeps what JsonText promises it: what is open, and the bytes due.       *)
(***************************************************************************)
EXTENDS Writer

CONSTANTS
  FlagSets,        \* the flags and indentation strings a program may ask for
  Indents,
  Sizes,           \* the sizes of its buffers
  Tokens(_),       \* the tokens it may write after some others
  Weight(_),       \* how much of the bound a token takes up
  MaxCalls         \* the bound on tokens written

ASSUME CallsAssumption ==
  /\ FlagSets \subseteq SUBSET {"ASCII"}
  /\ Sizes \subseteq Nat
  /\ MaxCalls \in Nat

\* The indentation is none, or a string of bytes.
ASSUME IndentAssumption == \A i \in Indents : i = NULL \/ i \in Seq(Byte)

J == INSTANCE JsonText

\* MaxDivisor is a power of ten.
ASSUME DivisorAssumption == \E k \in 0 .. 19 : MaxDivisor = J!Power10[k]

\* The arguments of the functions that look at them.
Booleans == [boolean : BOOLEAN]
Numbers == [number : {NULL} \cup Seq(Byte)]
Integers64 == [integer : Int]
Strings == [string : Seq(Byte), encoding : {"UTF8", "LATIN1"}, count : Int, utf16 : Int \X Int]

\* A token is a call of a function with an argument of its type.
ASSUME TokenAssumption ==
  \A n \in 0 .. MaxCalls : \A t \in Tokens(n) :
    /\ t.function \in Values \cup Ends
    /\ t.function \in {"boolean", "number", "integer", "string"} => "value" \in DOMAIN t
    /\ t.function = "boolean" => t.value \in Booleans
    /\ t.function = "number"  => t.value \in Numbers
    /\ t.function = "integer" => t.value \in Integers64
    /\ t.function = "string"  => t.value \in Strings
    /\ Weight(t) \in Nat

\* value.number.buffer has room for every number and its zero byte, and MaxDivisor has as
\* many digits as the largest integer.
ASSUME RangeAssumption ==
  \A n \in 0 .. MaxCalls : \A t \in Tokens(n) :
    /\ t.function = "number" => t.value.number = NULL \/ Len(t.value.number) < NUMBER_SIZE
    /\ t.function = "integer" => t.value.integer \in 1 - 10 * MaxDivisor .. 10 * MaxDivisor - 1

\* The code points a string function handles: in Latin-1, a byte that is promoted to a
\* negative number is not escaped as it should.
Codepoints(encoding) ==
  IF encoding = "UTF8" THEN 0 .. MaxCodepoint
  ELSE IF CharIsSigned THEN 0 .. 127 ELSE 0 .. 159

\* A code point as the program gives it.
Spelling(cp, encoding) == IF encoding = "UTF8" THEN Utf8(cp) ELSE <<cp>>
Spellings(t) == [i \in DOMAIN t.points |-> Spelling(t.points[i], t.value.encoding)]

\* What comes after the code points: nothing, or bytes that are no UTF-8.
TailOf(t) ==
  SubSeq(t.value.string, Len(J!FlattenSeq(Spellings(t))) + 1, Len(t.value.string))

\* A string is what its code points are spelled as, up to bytes that are no UTF-8 if it is
\* not well formed.
Spelled(t) ==
  /\ t.points \in Seq(Codepoints(t.value.encoding))
  /\ t.wellformed \in BOOLEAN
  /\ t.value.string = J!FlattenSeq(Spellings(t)) \o TailOf(t)
  /\ IF t.wellformed THEN TailOf(t) = <<>>
     ELSE t.value.encoding = "UTF8" /\ TailOf(t) # <<>> /\ DecodedCount(TailOf(t)) <= 0

\* Every string a program writes is.
StringsAreSpelled ==
  \A n \in 0 .. MaxCalls : \A t \in Tokens(n) : t.function = "string" => Spelled(t)

VARIABLES
  phase,           \* "free", "token" while a call is made, "more" after a full buffer
  token,           \* the token being written
  accepted,        \* whether JSON allows it
  nest,            \* what is open
  due,             \* the bytes of it not yet received
  broken,          \* a call failed half way: only a reset helps
  made             \* the weight of the tokens written

programVars == <<phase, token, accepted, nest, due, broken, made>>
allVars == <<vars, programVars>>

NoToken == [function |-> "none"]

CallsInit ==
  /\ WriterInit(FlagSets, Indents)
  /\ phase = "free"
  /\ token = NoToken
  /\ accepted = TRUE
  /\ nest = <<>>
  /\ due = <<>>
  /\ broken = FALSE
  /\ made = 0

\* The text a token is promised to have.
TextOf(t) ==
  CASE t.function \in DOMAIN J!Bracket -> J!Bracket[t.function]
    [] t.function = "null"    -> Text.null
    [] t.function = "boolean" -> (IF t.value.boolean THEN Text.true ELSE Text.false)
    [] t.function = "number"  -> IF t.value.number = NULL THEN Text.null ELSE t.value.number
    [] t.function = "integer" -> J!Numeral(t.value.integer)
    [] t.function = "string"  -> J!StringText(t.points, t.wellformed, "ASCII" \in flags)
Promised(t) == J!Before(nest, t.function, indent) \o TextOf(t)

CallWriter(t, n) ==
  IF t.function \in Ends THEN WriteEnd(t.function, n)
  ELSE IF "value" \in DOMAIN t THEN WriteValue(t.function, t.value, n)
  ELSE WriteValue(t.function, value, n)

WriteToken ==
  /\ phase = "free" /\ made < MaxCalls
  /\ \E t \in Tokens(made), n \in Sizes :
       /\ CallWriter(t, n)
       /\ token' = t
       /\ accepted' = (n > 0 /\ J!Legal(nest, t.function))
       /\ IF accepted' /\ ~broken
          THEN due' = Promised(t) /\ nest' = J!After(nest, t.function)
          ELSE due' = <<>> /\ UNCHANGED nest
       /\ made' = made + Weight(t)
  /\ phase' = "token"
  /\ UNCHANGED broken

RunCall == Run /\ UNCHANGED programVars

\* A token that does not close what is open, other than one refused for a key or value.
Mismatched ==
  \/ token.function = "end_array" /\ J!ExpectsMember(nest)
  \/ token.function = "end_object" /\ J!InArray(nest)

\* Look at the result of a call, and take the bytes out of the buffer.
Take ==
  /\ phase = "token" /\ ~busy
  /\ due' = IF written < 0 THEN <<>> ELSE SubSeq(due, Len(out) + 1, Len(due))
  /\ broken' = (broken \/ (written < 0 /\ size > 0 /\ (accepted \/ Mismatched)))
  /\ IF written > 0 /\ written = size
     THEN phase' = "more" /\ UNCHANGED <<token, accepted>>
     ELSE phase' = "free" /\ token' = NoToken /\ accepted' = TRUE
  /\ out' = <<>> /\ size' = 0 /\ written' = 0
  /\ UNCHANGED <<configVars, write_func, next_write_func, state, frameVars, nesting_written,
                 pending, value, busy, nest, made>>

GoOn ==
  /\ phase = "more"
  /\ \E n \in Sizes \ {0} : Continue(n)
  /\ phase' = "token"
  /\ UNCHANGED <<token, accepted, nest, due, broken, made>>

StartAnew ==
  /\ phase \in {"free", "more"} /\ made < MaxCalls
  /\ Reset
  /\ phase' = "free"
  /\ token' = NoToken
  /\ accepted' = TRUE
  /\ nest' = <<>>
  /\ due' = <<>>
  /\ broken' = FALSE
  /\ UNCHANGED made

Exit == phase = "free" /\ made >= MaxCalls /\ UNCHANGED allVars

Proceed == RunCall \/ Take \/ GoOn

CallsNext == WriteToken \/ Proceed \/ StartAnew \/ Exit

\* A call runs on, and a program that has begun a token takes all of it.
CallsSpec == CallsInit /\ [][CallsNext]_allVars /\ WF_allVars(Proceed)

-----------------------------------------------------------------------------
(* Properties. *)

Returned == phase = "token" /\ ~busy

\* The writer structure is well formed: the stack has the size recorded for it, what is in
\* use of it are frames above the bottom, and no buffer received more than it holds.
TypeOK ==
  /\ stack_size \in Nat /\ stack_current \in 0 .. stack_size - 1
  /\ stack \in [0 .. stack_size - 1 -> Frames \cup {"uninit"}]
  /\ \A i \in 0 .. stack_current : (stack[i] = "none") = (i = 0) /\ stack[i] # "uninit"
  /\ nesting_written \in Nat
  /\ out \in Seq(Byte) /\ pending \in Seq(Byte)
  /\ size \in Nat /\ Len(out) <= size
  /\ busy \in BOOLEAN /\ written \in -1 .. size
  /\ phase \in {"free", "token", "more"} /\ broken \in BOOLEAN /\ accepted \in BOOLEAN

\* What a frame of the writer says of an open container.
Means(frame, open) ==
  \/ frame = "A" /\ open.kind = "array" /\ open.count = 0
  \/ frame = "a" /\ open.kind = "array" /\ open.count > 0
  \/ frame = "O" /\ open.kind = "object" /\ open.count = 0
  \/ frame = "o" /\ open.kind = "object" /\ open.count > 0 /\ open.count % 2 = 0
  \/ frame = "k" /\ open.kind = "object" /\ open.count % 2 = 1

\* Between tokens the writer's stack says what is open, whatever was refused, in however
\* many buffers the tokens were put, and whatever became of other tokens before a reset
\* (ajson_writer_push(), ajson_writer_pop(), the prelude).
StackIsNest ==
  phase = "free" /\ ~broken =>
    stack_current = Len(nest) /\ \A i \in DOMAIN nest : Means(stack[i], nest[i])

\* Whatever the sizes of the buffers, each call puts the next bytes of the promised text
\* and fills its buffer with them unless they end in it: no byte is lost, repeated or
\* left behind where one buffer ends and the next begins (ajson_write_continue()).
DeliversText ==
  Returned /\ written >= 0 /\ ~broken =>
    written = Len(out) /\ out = SubSeq(due, 1, IF Len(due) < size THEN Len(due) ELSE size)

\* A token is refused or fails exactly if JSON does not allow it here, its string is not
\* UTF-8, or the stack cannot grow; what was refused before makes no difference
\* (the guards of ajson_write_*(), ajson_writer_push(), ajson_decode_utf8()).
FailsForAReason ==
  Returned /\ ~broken =>
    (written = -1) =
      \/ ~accepted
      \/ token.function = "string" /\ ~token.wellformed /\ Len(due) <= size
      \/ state = "error" /\ write_func \in {"begin_array", "begin_object"}
           /\ stack_current + 1 = stack_size

\* A result smaller than the buffer means that all of the token was put: a program that
\* stops there (prettyprint.c) leaves nothing behind.
ShortCountMeansDone ==
  ~busy /\ 0 <= written /\ written < size => pending = <<>> /\ state \in {"done", "START"}

\* Every token is complete, or has failed, after some buffers.
TokensEnd == phase # "free" ~> phase = "free"
=============================================================================
