----------------------------- MODULE MCCallback -----------------------------
(***************************************************************************)
(* The callback parser on every document put together from a few pieces,   *)
(* against the grammar.                                                    *)
(***************************************************************************)
EXTENDS CallbackParser, JsonGrammar

CONSTANTS
  MaxDoc        \* bytes of a document

NoChunks == {<<>>}

AllHandlers ==
  {"null", "boolean", "number", "number_as_string", "components", "integer", "string",
   "begin_array", "end_array", "begin_object", "end_object", "end", "error"}

\* One function is not set.
SomeHandlers == {AllHandlers \ {"end_object"}}

\* The pieces [ ] { } , : 1 and a space, "" and true; some pieces of more than one token.
Pieces ==
  {<<91>>, <<93>>, <<123>>, <<125>>, <<44>>, <<58>>, <<49>>, <<32>>, <<34, 34>>,
   <<116, 114, 117, 101>>, <<91, 93>>, <<91, 49>>, <<91, 49, 93>>}

PiecesAfter(read) == {p \in Pieces : Len(read \o p) <= MaxDoc}

-----------------------------------------------------------------------------
(* The texts that can be put together, and the callbacks for them. *)

Strings == {Literal(<<<<>>, <<>>>>)}

\* A numeral stands for itself in the language; what it is answered as is up to the flags.
Numerals == {Token([i \in 1 .. n |-> 49], "NUMERAL", [i \in 1 .. n |-> 49]) : n \in 1 .. MaxDoc}
Words == {Token(<<116, 114, 117, 101>>, "BOOLEAN", TRUE)}

Language ==
  JsonTexts(ByLength(Strings \cup Numerals \cup Words, MaxDoc), ByLength(Strings, MaxDoc),
            {32}, MaxDoc)

TokensOf == [text \in {r[1] : r \in Language} |-> (CHOOSE r \in Language : r[1] = text)[2]]

NumeralFor(text) ==
  LET n == (10 ^ Len(text)) \div 9
  IN  CASE flags = {"NUMBER_AS_STRING"} -> <<"number_as_string", text>>
        [] "INTEGER" \in flags -> <<"integer", n>>
        [] flags = {"NUMBER_COMPONENTS"} ->
             <<"components", [positive |-> TRUE, integer |-> n, decimal |-> 0,
                              decimal_places |-> 0, exponent_positive |-> TRUE,
                              exponent |-> 0, isinteger |-> TRUE]>>
        [] flags = {} ->
             <<"number", [class |-> "finite", positive |-> TRUE, integer |-> n,
                          decimal |-> 0, places |-> 0, scale |-> 0]>>

FuncFor == [BOOLEAN |-> "boolean", STRING |-> "string",
            BEGIN_ARRAY |-> "begin_array", END_ARRAY |-> "end_array",
            BEGIN_OBJECT |-> "begin_object", END_OBJECT |-> "end_object"]

\* The callbacks for the tokens of a text, but for the end.
CallbacksFor(text) ==
  LET tokens == Front(TokensOf[text])
      For(t) == IF t[1] = "NUMERAL" THEN NumeralFor(t[2]) ELSE <<FuncFor[t[1]], t[2]>>
      Set(callback) == callback[1] \in handlers
  IN  SelectSeq([i \in DOMAIN tokens |-> For(tokens[i])], Set)

\* The callbacks made, but for those of the end, which may be asked for again.
CallsMade == SelectSeq(calls, LAMBDA callback : callback[1] # "end")

-----------------------------------------------------------------------------
(* Properties. *)

\* A driver of a file returns 0 only when the file was a text read to its end without
\* an error; then exactly its tokens were handed to the functions set, the end last:
\* also after a failed read and a call that is made again.
DeliversDocument ==
  phase = "program" /\ result = 0 /\ driver \in {"fd", "file"} /\ ~ferror =>
    /\ doc \in DOMAIN TokensOf
    /\ CallsMade = CallbacksFor(doc)
    /\ "end" \in handlers => Last(calls)[1] = "end"

\* ajson_cb_parse_buf() holds back at most the last token of a text, which is
\* complete only with a byte behind it or with the end, that it does not signal.
BuffersAllButLast ==
  phase = "program" /\ result = 0 /\ driver = "buf" /\ ~ferror /\ doc \in DOMAIN TokensOf =>
    LET all == CallbacksFor(doc)
    IN  CallsMade = all \/ (all # <<>> /\ CallsMade = Front(all))

\* A JSON document given to ajson_cb_parse_buf() is parsed when it returns 0
\* (doc/callback_parser.dox: "Parse JSON document from buffer.").
BuffersAreParsed ==
  phase = "program" /\ result = 0 /\ driver = "buf" /\ made = 1 /\ doc \in DOMAIN TokensOf =>
    CallsMade = CallbacksFor(doc)
=============================================================================
