----------------------------- MODULE JsonGrammar -----------------------------
(***************************************************************************)
(* What the parser promises, stated without it: the JSON texts over an     *)
(* alphabet up to a length, each with the tokens of its reading.  A set of *)
(* readings holds pairs <<text, tokens>>.  Only TLC uses this module.      *)
(***************************************************************************)
EXTENDS Bytes, FiniteSets, SequencesExt

Juxtapose(A, B) == {<<a[1] \o b[1], a[2] \o b[2]>> : a \in A, b \in B}

\* The readings of a text without tokens, of a scalar, and of a terminal.
Silent(texts) == {<<t, <<>>>> : t \in texts}
Token(text, name, of) == <<text, <<<<name, of>>>>>>
Mark(byte, name) == {Token(<<byte>>, name, "none")}
Symbol(byte) == Silent({<<byte>>})

TextsOf(n, bytes) == [1 .. n -> bytes]

\* F and G hold readings by length, the empty text first: the juxtapositions of length n.
Split(F, G, n) == UNION {Juxtapose(F[k + 1], G[n - k + 1]) : k \in 0 .. n}

(***************************************************************************)
(* The productions of RFC 8259, with the white space of parser.c: scalar   *)
(* and string are readings by length.  Level n adds the readings of length *)
(* n to those of the smaller lengths in acc.                               *)
(***************************************************************************)
Level(scalar, string, blank, acc, n) ==
  LET At(F, m) == IF m < 0 THEN {} ELSE F[m + 1]
      Inside(open, F, close) == Juxtapose(Juxtapose(open, At(F, n - 2)), close)
      array == LET open == Mark(Ascii.lbracket, "BEGIN_ARRAY")
                   close == Mark(Ascii.rbracket, "END_ARRAY")
               IN  Inside(open, blank, close) \cup Inside(open, acc.elements, close)
      object == LET open == Mark(Ascii.lbrace, "BEGIN_OBJECT")
                    close == Mark(Ascii.rbrace, "END_OBJECT")
                IN  Inside(open, blank, close) \cup Inside(open, acc.members, close)
      value == Append(acc.value, scalar[n + 1] \cup array \cup object)
      left == Append(acc.left, Split(blank, value, n))
      padded == Append(acc.padded, Split(left, blank, n))
      keyleft == Append(acc.keyleft, Split(blank, string, n))
      key == Append(acc.key, Split(keyleft, blank, n))
      Listed(F, G, mark) ==
        UNION {Juxtapose(Juxtapose(F[k + 1], Symbol(mark)), At(G, n - k - 1)) : k \in 0 .. n - 1}
      member == Append(acc.member, Listed(key, padded, Ascii.colon))
  IN  [value |-> value, left |-> left, padded |-> padded, keyleft |-> keyleft, key |-> key,
       member |-> member,
       elements |-> Append(acc.elements,
                           padded[n + 1] \cup Listed(padded, acc.elements, Ascii.comma)),
       members |-> Append(acc.members,
                          member[n + 1] \cup Listed(member, acc.members, Ascii.comma))]

\* The texts of at most max bytes: white space, a value, white space, the end.
JsonTexts(scalar, string, spaces, max) ==
  LET blank == [i \in 1 .. max + 1 |-> Silent(TextsOf(i - 1, spaces))]
      none == [value |-> <<>>, left |-> <<>>, padded |-> <<>>, keyleft |-> <<>>, key |-> <<>>,
               member |-> <<>>, elements |-> <<>>, members |-> <<>>]
      levels == FoldLeft(LAMBDA acc, n : Level(scalar, string, blank, acc, n), none,
                         [i \in 1 .. max + 1 |-> i - 1])
  IN  {<<r[1], r[2] \o <<<<"END", "none">>>>>> : r \in UNION ToSet(levels.padded)}

\* Readings sorted by length.
ByLength(readings, max) ==
  FoldLeft(LAMBDA acc, n : Append(acc, {r \in readings : Len(r[1]) = n}), <<>>,
           [i \in 1 .. max + 1 |-> i - 1])

\* The sequences of at most max bytes of characters; a character is a pair of its
\* bytes in the text and the bytes it is read as.
Characters(units, max) ==
  LET unit == ByLength(units, max)
      Longer(acc, n) == Append(acc, UNION {Juxtapose(acc[n - k + 1], unit[k + 1]) : k \in 1 .. n})
  IN  UNION ToSet(FoldLeft(Longer, <<{<<<<>>, <<>>>>}>>, [n \in 1 .. max |-> n]))

\* String literals of such characters.
Literal(c) == Token(<<Ascii.quote>> \o c[1] \o <<Ascii.quote>>, "STRING", c[2])
QuotedStrings(units, max) == {Literal(c) : c \in Characters(units, max - 2)}

\* The multi-byte sequences over a set of bytes that encode a code point in the
\* shortest form (surrogates among them).
Utf8Sequences(bytes) ==
  LET Bits(bs) == FoldLeft(LAMBDA n, b : n * 64 + (b - 128), 0, Tail(bs))
      Codepoint(bs) == CASE Len(bs) = 2 -> (bs[1] - 192) * 64 + Bits(bs)
                         [] Len(bs) = 3 -> (bs[1] - 224) * 4096 + Bits(bs)
                         [] Len(bs) = 4 -> (bs[1] - 240) * 262144 + Bits(bs)
  IN  {bs \in UNION {TextsOf(n, bytes) : n \in 2 .. 4} :
         Codepoint(bs) \in 128 .. MaxCodepoint /\ Utf8(Codepoint(bs)) = bs}
=============================================================================
