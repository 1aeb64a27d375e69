----------------------------- MODULE MCTokenize -----------------------------
(***************************************************************************)
(* tokenize() on every file of some families, against the grammar:         *)
(* "structure", all files over the bytes of nested values; "utf8" and      *)
(* "latin1", a string of plain bytes and multi-byte sequences, right and   *)
(* wrong ones; "escapes", a string of one or two escapes, likewise.        *)
(***************************************************************************)
EXTENDS Tokenize, JsonGrammar

CONSTANTS
  Families,     \* the families of files
  MaxStructure, \* bytes of a file of each of three of them
  MaxUtf8,
  MaxLatin1

NoChunks == {<<>>}

\* The bytes [ ] { } : , " 1 and a space.
StructureBytes == {91, 93, 123, 125, 58, 44, 34, 49, 32}

\* The bytes " A and those at the boundaries of the UTF-8 table.
StringBytes == {34, 65, 128, 143, 144, 159, 160, 191, 193, 194, 224, 237, 240, 244, 245}

\* The bytes at each place of an escapes file; g is no hexadecimal digit.
Quad == <<{48, 68, 103}, {48, 56, 99, 103}, {48, 56, 102, 103}, {48, 57, 70, 103}>>
EscapeFile == <<{34}, {92}, {117, 110, 120}>> \o Quad
                \o <<{34, 92}, {117, 110, 120}>> \o Quad \o <<{34}>>

\* The bytes a file of a family may go on with: strings of the structure family
\* hold closing brackets only; a short escape ends its string.
NextBytes(family, text) ==
  LET n == Len(text)
      quotes == Cardinality({j \in 1 .. n : text[j] = 34})
      InString(max) == IF n = 0 THEN {34} ELSE IF n < max THEN StringBytes ELSE {}
  IN  CASE family = "structure" ->
             IF n >= MaxStructure THEN {} ELSE IF quotes % 2 = 1 THEN {34, 93} ELSE StructureBytes
        [] family = "utf8"    -> InString(MaxUtf8)
        [] family = "latin1"  -> InString(MaxLatin1)
        [] family = "escapes" ->
             IF n \in {3, 9} /\ text[n] = 110 THEN {34}
             ELSE IF n < Len(EscapeFile) THEN EscapeFile[n + 1] ELSE {}

IsPrefixOf(family, text) ==
  \A n \in DOMAIN text : text[n] \in NextBytes(family, SubSeq(text, 1, n - 1))

\* A parser for Latin-1 reads the latin1 family, one for UTF-8 the others.
FamiliesOf(enc) == Families \cap IF enc = "LATIN1" THEN {"latin1"} ELSE {"structure", "utf8", "escapes"}

\* One or two bytes more.  Of a second file, two bytes at most are read, and its reads
\* may fail.
FamilyRead(enc, file, read) ==
  LET One(family) == {<<b>> : b \in NextBytes(family, read)}
      Two(family) == UNION {{Append(c, b) : b \in NextBytes(family, read \o c)} : c \in One(family)}
      families == {f \in FamiliesOf(enc) : IsPrefixOf(f, read)}
  IN  IF file = 2 /\ Len(read) = 2 THEN {}
      ELSE UNION {IF file = 2 THEN One(family) ELSE One(family) \cup Two(family) : family \in families}

SecondFails(file) == IF file = 2 THEN BOOLEAN ELSE {FALSE}

-----------------------------------------------------------------------------
(* The language of each family. *)

Ones == {Token([i \in 1 .. n |-> 49], "INTEGER", (10 ^ n) \div 9) : n \in 1 .. MaxStructure}

Structure ==
  LET strings == QuotedStrings({<<<<93>>, <<93>>>>}, MaxStructure)
  IN  JsonTexts(ByLength(strings \cup Ones, MaxStructure), ByLength(strings, MaxStructure),
                {32}, MaxStructure)

WithEnd(readings) == {<<r[1], r[2] \o <<<<"END", "none">>>>>> : r \in readings}

\* A character of a string: its bytes, and the bytes they are read as.
Utf8Units == {<<<<65>>, <<65>>>>} \cup {<<bs, bs>> : bs \in Utf8Sequences(StringBytes)}
Latin1Units == {<<<<b>>, Utf8(b)>> : b \in StringBytes \ {34}}

EscapeUnits ==
  LET hex == {h \in [1 .. 4 -> HexDigit \cap UNION ToSet(Quad)] : \A i \in 1 .. 4 : h[i] \in Quad[i]}
      Unit(h) == HexValue(h[1]) * 4096 + HexValue(h[2]) * 256 + HexValue(h[3]) * 16 + HexValue(h[4])
      High == {h \in hex : Unit(h) \in HighSurrogate}
      Low == {h \in hex : Unit(h) \in LowSurrogate}
      Esc(h) == <<92, 117>> \o h
  IN  {<<<<92, 110>>, <<10>>>>}
        \cup {<<Esc(h), Utf8(Unit(h))>> : h \in hex \ (High \cup Low)}
        \cup {<<Esc(h) \o Esc(l), Utf8(65536 + (Unit(h) - 55296) * 1024 + (Unit(l) - 56320))>>
                : h \in High, l \in Low}

OneOrTwo(units) ==
  LET short == {c \in Juxtapose(units, units) \cup units : Len(c[1]) <= Len(EscapeFile) - 2}
  IN  {Literal(c) : c \in short}

Latin1Language == WithEnd(QuotedStrings(Latin1Units, MaxLatin1))
Utf8Language ==
  (IF "structure" \in Families THEN Structure ELSE {})
    \cup (IF "utf8" \in Families THEN WithEnd(QuotedStrings(Utf8Units, MaxUtf8)) ELSE {})
    \cup (IF "escapes" \in Families THEN WithEnd(OneOrTwo(EscapeUnits)) ELSE {})

PrefixesOf(texts) == UNION {{SubSeq(t, 1, n) : n \in 0 .. Len(t)} : t \in texts}

Latin1Texts == {reading[1] : reading \in Latin1Language}
Latin1Prefixes == PrefixesOf(Latin1Texts)
Utf8Texts == {reading[1] : reading \in Utf8Language}
Utf8Prefixes == PrefixesOf(Utf8Texts)

Language == IF encoding = "LATIN1" THEN Latin1Language ELSE Utf8Language
Texts == IF encoding = "LATIN1" THEN Latin1Texts ELSE Utf8Texts
ViablePrefixes == IF encoding = "LATIN1" THEN Latin1Prefixes ELSE Utf8Prefixes

-----------------------------------------------------------------------------
(* Properties. *)

\* A file is accepted only if it is a text of the language that was read without
\* an error, and then exactly its tokens were printed: how it was cut into chunks
\* and what the parser was used for before make no difference
\* (ajson_next_token(), tokenize()).
AcceptsOnlyJson == Finished /\ status = 0 => ~ferror /\ <<doc, out>> \in Language

\* The bytes up to and with the one an error was raised at.
Offending == SubSeq(doc, 1, Len(doc) - Size + input_current + 1)

\* A file is refused only for a reason: at a byte with which no text of the
\* language goes on, or at the end of a file that is no text
\* (RAISE_ERROR in ajson_next_token()).
RefusesOnlyOthers ==
  Finished /\ tok = "ERROR" /\ Held # "MEMORY" =>
    IF AtEof THEN doc \notin Texts ELSE Offending \notin ViablePrefixes

\* The bytes of a UTF-8 file are validated (parser.c: "validate UTF-8"): no
\* surrogate, which UTF-8 cannot encode, gets into a string.
StringsAreUtf8 ==
  \A i \in DOMAIN out : out[i][1] = "STRING" =>
    ~ \E j \in 1 .. Len(out[i][2]) - 1 : out[i][2][j] = 237 /\ out[i][2][j + 1] >= 160
=============================================================================
