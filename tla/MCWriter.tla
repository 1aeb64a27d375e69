------------------------------ MODULE MCWriter ------------------------------
(***************************************************************************)
(* Writers on small instances: all orders of brackets, keys and nulls; at  *)
(* the start also all kinds of scalars and strings of one or two letters.  *)
(***************************************************************************)
EXTENDS WriterCalls, TLC

\* No line breaks, empty lines, an indentation of two bytes.
SomeIndents == {NULL, <<>>, <<32, 9>>}

Plain(function) == [function |-> function]
With(function, member, argument) == [function |-> function, value |-> (member :> argument)]

StringToken(points, bytes, encoding, tail) ==
  [function |-> "string", points |-> points, wellformed |-> tail = <<>>,
   value |-> [string |-> bytes \o tail, encoding |-> encoding, count |-> 0, utf16 |-> <<0, 0>>]]

Utf8Token(points, tail) ==
  StringToken(points, J!FlattenSeq([i \in DOMAIN points |-> Utf8(points[i])]), "UTF8", tail)
Latin1Token(points) == StringToken(points, points, "LATIN1", <<>>)

Structure ==
  {Plain(f) : f \in Ends \cup {"begin_array", "begin_object", "null"}} \cup {Utf8Token(<<65>>, <<>>)}

Scalars ==
  {With("boolean", "boolean", b) : b \in BOOLEAN}
    \cup {With("number", "number", n) : n \in {NULL, <<49>>, <<49, 46, 53>>}}
    \cup {With("integer", "integer", n) : n \in {-128, -100, -99, -9, 0, 7, 10, 109, 127}}

\* Code points around the limits of escapes, of UTF-8 sequences and of surrogate pairs.
Points == {31, 34, 10, 126, 127, 128, 159, 160, 2047, 2048, 65535, 65536, 1114111}
\* Bytes no sequence starts with, goes on with, or ends in too early.
Tails == {<<128>>, <<193, 191>>, <<194>>, <<194, 65>>, <<224, 159, 191>>, <<224, 160>>,
          <<225, 191, 192>>, <<240, 143, 191, 191>>, <<244, 144, 128, 128>>, <<240, 144, 128>>,
          <<241, 128, 192, 128>>, <<241, 128, 128, 65>>, <<245, 128, 128, 128>>}

Utf8Strings ==
  {Utf8Token(s, <<>>) : s \in {<<p>> : p \in Points} \cup {<<65, p>> : p \in Points} \cup {<<>>}}
    \cup {Utf8Token(<<233>>, tail) : tail \in Tails}

SomeTokens(n) ==
  IF n > 1 THEN Structure
  ELSE Structure \cup Scalars \cup Utf8Strings \cup {Latin1Token(<<p>>) : p \in {0, 8, 92, 126, 127}}

\* Scalars only come first or second, and one token follows them.
SomeWeight(t) == IF t \in Structure THEN 1 ELSE MaxCalls - 1

\* The strings of these tokens are what their code points are spelled as.
ASSUME SpellingAssumption ==
  \A n \in 0 .. MaxCalls : \A t \in SomeTokens(n) : t.function = "string" => Spelled(t)

\* A Latin-1 string of one letter.
Latin1Tokens(n) == {Latin1Token(<<p>>) : p \in 0 .. 255}

-----------------------------------------------------------------------------

\* A control character in a string is written as an escape of that character
\* (README.md: "They will be encoded as e.g. \u0000 or \n"; ajson_write_string()).
ControlsAreEscaped ==
  Returned /\ token.points[1] \in 0 .. 31 \cup 127 .. 159 => DeliversText
=============================================================================
