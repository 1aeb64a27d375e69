---------------------------- MODULE MCPrettyPrint ----------------------------
(***************************************************************************)
(* The pretty printer on every start of the JSON texts of a language: short *)
(* texts of nested values, and strings of one letter in any spelling.  The *)
(* tokens of a reading hold strings as code points, numerals as bytes.     *)
(***************************************************************************)
EXTENDS PrettyPrint, JsonGrammar

CONSTANT MaxText       \* bytes of a text of nested values

J == INSTANCE JsonText

NoChunks == {<<>>}

\* No line breaks, an indentation of one byte.
SomeIndents == {NULL, <<9>>}

Ones == {Token([i \in 1 .. n |-> 49], "NUMBER", [i \in 1 .. n |-> 49]) : n \in 1 .. 2}
Brackets == {Literal(<<<<93>>, <<93>>>>)}

\* Letters on both sides of what is escaped, of what is multi-byte, of what is a pair.
Points == {0, 31, 34, 47, 65, 127, 159, 233, 65536}
Short == {letter \in Escapable : Unescape(letter) \in Points}

Spellings(enc) ==
  {<<<<92, letter>>, <<Unescape(letter)>>>> : letter \in Short}
    \cup {<<J!Escapes(p), <<p>>>> : p \in Points}
    \cup {<<IF enc = "LATIN1" THEN <<p>> ELSE Utf8(p), <<p>>>>
            : p \in {65, 127, 159, 233} \cup IF enc = "LATIN1" THEN {} ELSE {65536}}

InObject(letter) ==
  <<<<123>> \o letter[1] \o <<58>> \o letter[1] \o <<125>>,
    <<<<"BEGIN_OBJECT", "none">>>> \o letter[2] \o letter[2] \o <<<<"END_OBJECT", "none">>>>>>

LanguageOf(enc) ==
  LET structure == JsonTexts(ByLength(Brackets \cup Ones, MaxText), ByLength(Brackets, MaxText),
                             {32}, MaxText)
      letters == {Literal(c) : c \in Spellings(enc)}
      strings == letters \cup {InObject(l) : l \in letters}
  IN  structure \cup {<<r[1], r[2] \o <<<<"END", "none">>>>>> : r \in strings}

Utf8Language == LanguageOf("UTF8")
Latin1Language == LanguageOf("LATIN1")
Language == IF encoding = "LATIN1" THEN Latin1Language ELSE Utf8Language

StartsOf(readings) == UNION {{SubSeq(r[1], 1, n) : n \in 0 .. Len(r[1])} : r \in readings}
Utf8Starts == StartsOf(Utf8Language)
Latin1Starts == StartsOf(Latin1Language)

Alphabet == UNION {ToSet(t) : t \in Utf8Starts \cup Latin1Starts}

\* One to three bytes more of a text.
NextChunk(enc, read) ==
  LET starts == IF enc = "LATIN1" THEN Latin1Starts ELSE Utf8Starts
      Longer(chunks) == {c \in {Append(c, b) : c \in chunks, b \in Alphabet} : read \o c \in starts}
      one == Longer({<<>>})
      two == Longer(one)
  IN  one \cup two

\* The doubles of this language are small integers.
Printf(double) == J!Numeral(double.integer)

-----------------------------------------------------------------------------
(* What is promised to be printed. *)

TextOf(t) ==
  CASE t[1] \in {"BEGIN_ARRAY", "END_ARRAY", "BEGIN_OBJECT", "END_OBJECT"} -> J!Bracket[Function[t[1]]]
    [] t[1] = "NUMBER" -> t[2]
    [] t[1] = "STRING" -> J!StringText(t[2], TRUE, "ASCII" \in wflags)

Pretty(tokens) ==
  LET Written(acc, t) ==
        IF t[1] = "END" THEN [acc EXCEPT !.text = Append(@, 10)]
        ELSE [nest |-> J!After(acc.nest, Function[t[1]]),
              text |-> acc.text \o J!Before(acc.nest, Function[t[1]], indent) \o TextOf(t)]
  IN  FoldLeft(Written, [nest |-> <<>>, text |-> <<>>], tokens).text

-----------------------------------------------------------------------------
(* Properties. *)

\* The program succeeds only for a JSON text, and then it has printed all of that text's
\* tokens in the layout asked for.  When it gives up, what it has printed is the
\* beginning of that.  Buffers, chunks and the spelling of strings make no difference
\* (main() of prettyprint.c).
PrintsTheText ==
  phase = "done" /\ "NUMBER_AS_STRING" \notin flags =>
    IF status = 0
    THEN \E r \in Language : r[1] = doc /\ printed \in {Pretty(r[2]), Front(Pretty(r[2]))}
    ELSE \E r \in Language : IsPrefix(doc, r[1]) /\ IsPrefix(printed, Pretty(r[2]))
=============================================================================
