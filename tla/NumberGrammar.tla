---------------------------- MODULE NumberGrammar ----------------------------
(***************************************************************************)
(* What the token loop promises of numbers: the answer NUMBER or INTEGER   *)
(* is given for a numeral of RFC 8259, [minus] int [. frac] [e sign exp],  *)
(* that stands in the file right before the byte the parser is at, and     *)
(* what is answered is what that numeral denotes.                          *)
(***************************************************************************)
EXTENDS Tokenize

-----------------------------------------------------------------------------
(* The numeral that was read last. *)

NumeralBytes == Digit \cup ExpMark \cup {Ascii.minus, Ascii.plus, Ascii.dot}

\* The bytes the parser has taken of a file.
Taken == SubSeq(doc, 1, Len(doc) - Size + input_current)

\* The longest end of a text that is made of bytes of numerals.
LastWord(text) ==
  LET start == Max({0} \cup {i \in DOMAIN text : text[i] \notin NumeralBytes})
  IN  SubSeq(text, start + 1, Len(text))

Numeral == LastWord(Taken)

-----------------------------------------------------------------------------
(* A numeral taken apart. *)

\* The first place of a text at which one of some bytes stands; behind its end if none does.
FirstOf(bytes, text) ==
  Min({i \in DOMAIN text : text[i] \in bytes} \cup {Len(text) + 1})

Parts(text) ==
  LET n == Len(text)
      minus == n > 0 /\ text[1] = Ascii.minus
      mark == FirstOf(ExpMark, text)
      dot == Min({FirstOf({Ascii.dot}, text), mark})
      sign == mark < n /\ text[mark + 1] \in {Ascii.minus, Ascii.plus}
  IN  [minus |-> minus,
       int |-> SubSeq(text, IF minus THEN 2 ELSE 1, dot - 1),
       hasFrac |-> dot < mark,
       frac |-> SubSeq(text, dot + 1, mark - 1),
       hasExp |-> mark <= n,
       expMinus |-> sign /\ text[mark + 1] = Ascii.minus,
       exp |-> SubSeq(text, IF sign THEN mark + 2 ELSE mark + 1, n)]

IsDigits(ds) == ds # <<>> /\ \A i \in DOMAIN ds : ds[i] \in Digit

\* The productions of RFC 8259.
IsNumeral(p) ==
  /\ IsDigits(p.int) /\ (p.int[1] = Ascii.zero => Len(p.int) = 1)
  /\ p.hasFrac => IsDigits(p.frac)
  /\ p.hasExp => IsDigits(p.exp)

-----------------------------------------------------------------------------
(* What a numeral denotes. *)

\* The number some digits denote; those above MaxU are not told apart.
NumberOf(ds) ==
  LET number[k \in 0 .. Len(ds)] ==
        IF k = 0 THEN 0 ELSE Min({10 * number[k - 1] + (ds[k] - Ascii.zero), MaxU + 1})
  IN  number[Len(ds)]

Fits64(ds) == NumberOf(ds) <= MaxU

\* The digits without their last k > 0, rounded to the nearest: one more would not
\* fit, or not be counted.
RoundedTo(ds, n, k) ==
  /\ k \in 1 .. Len(ds)
  /\ LET kept == NumberOf(SubSeq(ds, 1, Len(ds) - k))
         next == ds[Len(ds) - k + 1] - Ascii.zero
     IN  /\ 10 * kept + next > MaxU \/ Len(ds) - k = MaxU
         /\ n = IF next >= 5 /\ kept < MaxU THEN kept + 1 ELSE kept

\* A numeral without point and exponent; minus zero is none.
IsInteger(p) == ~p.hasFrac /\ ~p.hasExp /\ ~(p.minus /\ NumberOf(p.int) = 0)

DecimalsOf(p, c) ==
  \/ c.decimal = NumberOf(p.frac) /\ c.decimal_places = Len(p.frac)
  \/ RoundedTo(p.frac, c.decimal, Len(p.frac) - c.decimal_places)

\* The components of a numeral whose integer fits; of one whose integer does not.
ExactInteger(p, c) ==
  /\ c.integer = NumberOf(p.int)
  /\ c.exponent = Min({NumberOf(p.exp), MaxU})
  /\ c.exponent_positive = ~p.expMinus

RoundedInteger(p, c) ==
  /\ RoundedTo(p.int, c.integer, c.exponent)
  /\ c.exponent_positive

ReadAsComponents(p, c) ==
  /\ c.positive = ~p.minus
  /\ c.isinteger = (IsInteger(p) /\ Fits64(p.int))
  /\ DecimalsOf(p, c)
  /\ IF Fits64(p.int) THEN ExactInteger(p, c) ELSE RoundedInteger(p, c)

Signed(p) == IF p.minus THEN -NumberOf(p.int) ELSE NumberOf(p.int)

\* A double is infinite or zero only for want of range.
ReadAsDouble(p, d) ==
  LET exponent == NumberOf(p.exp)
  IN  /\ d.class \in {"infinity", "zero", "finite"}
      /\ d.positive = ~p.minus
      /\ d.class = "infinity" => exponent > MaxPow10 /\ ~p.expMinus
      /\ d.class = "zero" => exponent > MinPow10 /\ p.expMinus
      /\ d.class = "finite" =>
           /\ d.integer = NumberOf(p.int)
           /\ d.scale = (IF p.expMinus THEN -exponent ELSE exponent)
           /\ \/ d.decimal = NumberOf(p.frac) /\ d.places = Len(p.frac)
              \/ d.decimal = 0 /\ Len(p.frac) > MinPow10

-----------------------------------------------------------------------------
(* Properties. *)

Answered == pc = "idle" /\ tok \in {"NUMBER", "INTEGER"}

\* A number is answered only for a numeral, and only when the numeral is complete: what
\* comes next is the end of the file or no letter or digit, also where a chunk ended
\* in the middle of it (the number scanners of ajson_next_token(), for every set of flags).
AcceptsOnlyNumerals ==
  Answered =>
    /\ IsNumeral(Parts(Numeral))
    /\ ~AtEof => input_current < Size /\ input[input_current + 1] \notin Word

\* The components are the numeral's, also when the numeral was cut anywhere
\* into chunks; a part of more digits than fit keeps as many as fit, rounded
\* (value.components in ajson_next_token()).  Left out are numerals
\* with more after an integer part that does not fit: the digits of an exponent are
\* appended to the count of the digits dropped.
ComponentsAreTheNumerals ==
  Answered /\ tok = "NUMBER" /\ Live = "components" =>
    LET p == Parts(Numeral)
    IN  \/ ~Fits64(p.int) /\ (p.hasExp \/ p.hasFrac)
        \/ ReadAsComponents(p, Held)

\* With the flag, INTEGER is the answer to the integers that fit, and its value is
\* the numeral's as far as an int64_t holds it; see IntegersAreTheNumerals.
IntegersInRange ==
  Answered =>
    LET p == Parts(Numeral)
    IN  /\ tok = "INTEGER" <=> ("INTEGER" \in flags /\ IsInteger(p) /\ Fits64(p.int))
        /\ tok = "INTEGER" /\ NumberOf(p.int) <= MaxU \div 2 => Held = Signed(p)

\* The double is computed from the numeral's sign, digits and exponent; nothing
\* is said of numerals with more digits than fit, nor of what pow() makes of
\* a zero: see DoublesAreNumbers.
DoublesAreTheNumerals ==
  Answered /\ Live = "number" =>
    LET p == Parts(Numeral)
    IN  Fits64(p.int) /\ Fits64(p.frac) /\ Held.class # "nan" => ReadAsDouble(p, Held)

\* NUMBER_AS_STRING keeps the text of the numeral as it is.
TextIsKept ==
  Answered /\ "NUMBER_AS_STRING" \in flags =>
    Live = "string" /\ SubSeq(buffer, 1, Held) = Numeral

\* A file has a space behind its numeral, or none.
Stripped(text) == IF text # <<>> /\ Last(text) = 32 THEN Front(text) ELSE text

\* A text that is not a numeral but can become one needs one more digit.
IsNumeralText(text) == IsNumeral(Parts(text))
IsViable(text) == IsNumeralText(Stripped(text)) \/ IsNumeralText(Append(text, 49))

\* A file that is a numeral is accepted, and one that is not is refused at the
\* byte no numeral goes on with; RANGE is the answer to more digits than a
\* uint64_t counts.
RefusesOnlyOthers ==
  Finished /\ tok = "ERROR" /\ Held \notin {"MEMORY", "RANGE"} =>
    IF AtEof THEN ~IsNumeralText(Stripped(doc))
    ELSE ~IsViable(SubSeq(doc, 1, Len(doc) - Size + input_current + 1))
=============================================================================
