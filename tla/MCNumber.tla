------------------------------ MODULE MCNumber ------------------------------
(***************************************************************************)
(* tokenize() on every file that may be a numeral, against the numerals of *)
(* RFC 8259 and the numbers they denote (NumberGrammar).                   *)
(***************************************************************************)
EXTENDS NumberGrammar

CONSTANTS
  MaxDoc,      \* bytes of a file
  DigitBytes,  \* the digits used
  OtherBytes,  \* those of - + . e and space used
  MaxLong,     \* bytes of a long file, one of
  LongBytes    \* a few of those bytes

NoChunks == {<<>>}
NoErrors(file) == {FALSE}

StartsWith(text, bytes) == text # <<>> /\ text[1] \in bytes

\* The bytes a file may go on with; a space is the last one.
NextBytes(text) ==
  IF StartsWith(Reverse(text), {32}) THEN {}
  ELSE IF Len(text) < MaxDoc THEN DigitBytes \cup OtherBytes
  ELSE IF Len(text) < MaxLong /\ ToSet(text) \subseteq LongBytes THEN LongBytes ELSE {}

\* One or two bytes more.
NumeralRead(enc, file, read) ==
  LET One == {<<b>> : b \in NextBytes(read)}
  IN  One \cup UNION {{Append(c, b) : b \in NextBytes(read \o c)} : c \in One}

-----------------------------------------------------------------------------
(* Properties. *)

\* doc/parser.dox: "Parse numbers without decimals or exponent as integers."
IntegersAreTheNumerals ==
  Answered /\ tok = "INTEGER" => Held = Signed(Parts(Numeral))

\* parser.c on an exponent that does not fit: "this will emit infinity or zero
\* (for negative exponents)".
DoublesAreNumbers == Answered /\ Live = "number" => Held.class # "nan"
=============================================================================
