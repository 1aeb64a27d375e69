---------------------------- MODULE ParserNumber ----------------------------
(***************************************************************************)
(* The number scanners of ajson_next_token(): a numeral read into its      *)
(* components (sign, integer, decimal places, exponent), each a counter of *)
(* the width of uint64_t, and a numeral kept as text.                      *)
(***************************************************************************)
EXTENDS ParserEngine

CONSTANTS
  MaxU,         \* UINT64_MAX
  MaxPow10,     \* the largest n for which pow(10.0, n) is finite
  MinPow10      \* the largest n for which pow(10.0, -n) is not zero

ASSUME NumberAssumption ==
  /\ MaxU \in Nat /\ MaxU >= 9 /\ MaxU % 2 = 1
  /\ MaxPow10 \in Nat /\ MinPow10 \in Nat

\* No power of ten in reach of a double needs an exponent of that width.
ASSUME PowAssumption == MaxPow10 < MaxU /\ MinPow10 < MaxU

Components == [positive : BOOLEAN, exponent_positive : BOOLEAN, isinteger : BOOLEAN,
               integer : 0 .. MaxU, decimal : 0 .. MaxU,
               decimal_places : 0 .. MaxU, exponent : 0 .. MaxU]

ComponentsValue(c) == <<"components", c>>

\* uint64_t arithmetic, and the value an int64_t has with the same bits.
Uint(n)  == n % (MaxU + 1)
Int64(u) == IF u <= MaxU \div 2 THEN u ELSE u - (MaxU + 1)

\* n * 10 + digit does not fit (the two divisions of the code).
Overflows(n, digit) == (MaxU - 9) \div 10 < n /\ (MaxU - digit) \div 10 < n

Shift10(n, digit) == Uint(10 * n + digit)
RoundUp(n, digit) == IF digit >= 5 /\ n < MaxU THEN n + 1 ELSE n

\* Advance to a label with the components set to c.
Scan(c, label) == Advance(label) /\ value' = ComponentsValue(c) /\ UNCHANGED bufferVars

-----------------------------------------------------------------------------
(* The result. *)

\* The doubles: not a number, infinity, zero for an underflow, or a real number rounded.
Doubles ==
  [class : {"nan"}] \cup [class : {"infinity", "zero"}, positive : BOOLEAN]
    \cup [class : {"finite"}, positive : BOOLEAN, integer : 0 .. MaxU, decimal : 0 .. MaxU,
          places : 0 .. MaxU, scale : Int]

\* Mutant: the sign of the exponent is lost.
DoubleScaledUp(c) ==
  LET decimal == IF c.decimal_places > MinPow10 THEN 0 ELSE c.decimal
      nothing == c.integer = 0 /\ decimal = 0
  IN  CASE c.exponent > MaxPow10 /\ nothing -> [class |-> "nan"]
        [] c.exponent > MaxPow10 /\ ~nothing -> [class |-> "infinity", positive |-> c.positive]
        [] OTHER -> [class |-> "finite", positive |-> c.positive, integer |-> c.integer,
                     decimal |-> decimal, places |-> c.decimal_places, scale |-> c.exponent]

\* The double computed from the components: the one nearest to integer.decimal
\* times ten to the scale, or one of the values pow() brings in when it
\* overflows or underflows.
Double(c) ==
  LET scale == IF c.exponent_positive THEN c.exponent ELSE -c.exponent
      decimal == IF c.decimal_places > MinPow10 THEN 0 ELSE c.decimal
      nothing == c.integer = 0 /\ decimal = 0
  IN  CASE scale > MaxPow10 /\ nothing -> [class |-> "nan"]
        [] scale > MaxPow10 /\ ~nothing -> [class |-> "infinity", positive |-> c.positive]
        [] scale < -MinPow10 -> [class |-> "zero", positive |-> c.positive]
        [] OTHER -> [class |-> "finite", positive |-> c.positive, integer |-> c.integer,
                     decimal |-> decimal, places |-> c.decimal_places, scale |-> scale]

\* Mutant: the sign of an integer is lost.
FinishUnsigned(c, ch) ==
  IF ch \in Word THEN RaiseError("UNEXPECTED_CHAR")
  ELSE IF "INTEGER" \in flags /\ c.isinteger
  THEN Return("INTEGER", <<"integer", Int64(c.integer)>>)
  ELSE Return("NUMBER", ComponentsValue(c))

FinishNumber(c, ch) ==
  IF ch \in Word THEN RaiseError("UNEXPECTED_CHAR")
  ELSE IF "INTEGER" \in flags /\ c.isinteger
  THEN Return("INTEGER", <<"integer", Int64(IF c.positive THEN c.integer ELSE Uint(-c.integer))>>)
  ELSE IF "NUMBER_COMPONENTS" \in flags
  THEN Return("NUMBER", ComponentsValue(c))
  ELSE Return("NUMBER", <<"number", Double(c)>>)

-----------------------------------------------------------------------------
(* The parts of a numeral; ch is the byte at index, EOF at the end. *)

AfterDecimals(c, ch) ==
  IF ch \in ExpMark THEN Scan(c, "num.exp")
  ELSE FinishNumber([c EXCEPT !.isinteger = @ /\ (c.integer # 0 \/ c.positive)], ch)

\* Mutant: an exponent is only looked for behind decimals.
AfterIntegerNoExponent(c, ch) ==
  IF ch = Ascii.dot THEN Scan(c, "num.dot") ELSE FinishNumber(c, ch)

AfterInteger(c, ch) ==
  IF ch = Ascii.dot THEN Scan(c, "num.dot") ELSE AfterDecimals(c, ch)

\* Mutant: a dropped digit is not counted.
DroppedUncounted(c) == Scan(c, "num.big")

\* A digit that did not fit is dropped and counted in the exponent.
DroppedDigit(c) ==
  IF c.exponent = MaxU THEN RaiseError("RANGE")
  ELSE Scan([c EXCEPT !.exponent = @ + 1], "num.big")

IntegerDigit(c, digit) ==
  IF Overflows(c.integer, digit)
  THEN DroppedDigit([c EXCEPT !.isinteger = FALSE, !.integer = RoundUp(@, digit)])
  ELSE Scan([c EXCEPT !.integer = Shift10(@, digit)], "num.int")

FirstDigit(c, ch) ==
  IF ch = Ascii.zero THEN Scan(c, "num.zero")
  ELSE IF ch \in Digit THEN IntegerDigit(c, ch - Ascii.zero)
  ELSE RaiseError("EXPECTED_DIGIT")

DecimalDigit(c, digit) ==
  IF Overflows(c.decimal, digit) \/ c.decimal_places = MaxU
  THEN Scan([c EXCEPT !.decimal = RoundUp(@, digit)], "num.decmore")
  ELSE Scan([c EXCEPT !.decimal = Shift10(@, digit), !.decimal_places = @ + 1], "num.dec")

\* Mutant: an exponent may be empty.
ExponentDigitOptional(c, ch) ==
  IF ch \notin Digit THEN FinishNumber(c, ch)
  ELSE IF Overflows(c.exponent, ch - Ascii.zero)
  THEN Scan([c EXCEPT !.exponent = MaxU], "num.expinf")
  ELSE Scan([c EXCEPT !.exponent = Shift10(@, ch - Ascii.zero)], "num.expd")

ExponentDigit(c, ch) ==
  IF ch \notin Digit THEN RaiseError("EXPECTED_DIGIT")
  ELSE IF Overflows(c.exponent, ch - Ascii.zero)
  THEN Scan([c EXCEPT !.exponent = MaxU], "num.expinf")
  ELSE Scan([c EXCEPT !.exponent = Shift10(@, ch - Ascii.zero)], "num.expd")

-----------------------------------------------------------------------------
(* The scanner, one action per part. *)

NoComponents == [positive |-> TRUE, exponent_positive |-> TRUE, isinteger |-> TRUE,
                 integer |-> 0, decimal |-> 0, decimal_places |-> 0, exponent |-> 0]

BeginComponents(ch) ==
  IF ch = Ascii.minus THEN Scan([NoComponents EXCEPT !.positive = FALSE], "num.neg")
  ELSE FirstDigit(NoComponents, ch)

IntegerPart ==
  \/ At("num.neg") /\ \E ch \in CurrCh : FirstDigit(Held, ch)
  \/ /\ At("num.int")
     /\ \E ch \in CurrCh :
          IF ch \in Digit THEN IntegerDigit(Held, ch - Ascii.zero)
                          ELSE AfterInteger(Held, ch)
  \/ /\ At("num.big")
     /\ \E ch \in CurrCh :
          IF ch \in Digit THEN DroppedDigit(Held) ELSE AfterInteger(Held, ch)
  \/ At("num.zero") /\ \E ch \in CurrCh : AfterInteger(Held, ch)

DecimalPart ==
  \/ /\ At("num.dot")
     /\ \E ch \in CurrCh :
          IF ch \in Digit
          THEN DecimalDigit([Held EXCEPT !.isinteger = FALSE], ch - Ascii.zero)
          ELSE RaiseError("EXPECTED_DIGIT")
  \/ /\ At("num.dec")
     /\ \E ch \in CurrCh :
          IF ch \in Digit THEN DecimalDigit(Held, ch - Ascii.zero)
                          ELSE AfterDecimals(Held, ch)
  \/ /\ At("num.decmore")
     /\ \E ch \in CurrCh :
          IF ch \in Digit THEN Read("num.decmore") ELSE AfterDecimals(Held, ch)

ExponentPart ==
  \/ /\ At("num.exp")
     /\ \E ch \in CurrCh :
          LET c == [Held EXCEPT !.isinteger = FALSE]
          IN  CASE ch = Ascii.minus -> Scan([c EXCEPT !.exponent_positive = FALSE], "num.expneg")
                [] ch = Ascii.plus  -> Scan(c, "num.exppos")
                [] OTHER            -> ExponentDigit(c, ch)
  \/ /\ At("num.expneg") \/ At("num.exppos")
     /\ \E ch \in CurrCh : ExponentDigit(Held, ch)
  \/ /\ At("num.expd")
     /\ \E ch \in CurrCh :
          IF ch \in Digit THEN ExponentDigit(Held, ch) ELSE FinishNumber(Held, ch)
  \/ /\ At("num.expinf")
     /\ \E ch \in CurrCh :
          IF ch \in Digit THEN Read("num.expinf") ELSE FinishNumber(Held, ch)

-----------------------------------------------------------------------------
(* A numeral kept as text in the buffer (NUMBER_AS_STRING). *)

\* The first digit of a part; more digits are read at the label.
TextDigit(ch, label) ==
  IF ch \in Digit THEN PutC(ch, label) ELSE RaiseError("EXPECTED_DIGIT")

FirstTextDigit(ch) == TextDigit(ch, IF ch = Ascii.zero THEN "txt.zero" ELSE "txt.int")

\* The buffer is cleared first; ch is the first byte of the numeral.
BeginText(ch) ==
  LET label == CASE ch = Ascii.minus -> "txt.neg"
                 [] ch = Ascii.zero  -> "txt.zero"
                 [] OTHER            -> "txt.int"
  IN  StoreByte(<<>>, ch, Advance(label) /\ UNCHANGED value)

\* Mutant: the length counts the zero byte.
FinishTextLong(ch) ==
  IF ch \in Word THEN RaiseError("UNEXPECTED_CHAR")
  ELSE StoreByte(buffer, 0, Pop("NUMBER", <<"string", Used + 1>>))

FinishText(ch) ==
  IF ch \in Word THEN RaiseError("UNEXPECTED_CHAR")
  ELSE StoreByte(buffer, 0, Pop("NUMBER", <<"string", Used>>))

TextAfterDecimals(ch) ==
  IF ch \in ExpMark THEN PutC(ch, "txt.exp") ELSE FinishText(ch)

TextAfterInteger(ch) ==
  IF ch = Ascii.dot THEN PutC(ch, "txt.dot") ELSE TextAfterDecimals(ch)

TextInteger ==
  \/ At("txt.neg") /\ \E ch \in CurrCh : FirstTextDigit(ch)
  \/ /\ At("txt.int")
     /\ \E ch \in CurrCh :
          IF ch \in Digit THEN PutC(ch, "txt.int") ELSE TextAfterInteger(ch)
  \/ At("txt.zero") /\ \E ch \in CurrCh : TextAfterInteger(ch)

TextDecimals ==
  \/ At("txt.dot") /\ \E ch \in CurrCh : TextDigit(ch, "txt.frac")
  \/ /\ At("txt.frac")
     /\ \E ch \in CurrCh :
          IF ch \in Digit THEN PutC(ch, "txt.frac") ELSE TextAfterDecimals(ch)

TextExponent ==
  \/ /\ At("txt.exp")
     /\ \E ch \in CurrCh :
          IF ch \in {Ascii.minus, Ascii.plus} THEN PutC(ch, "txt.expsign")
                                             ELSE TextDigit(ch, "txt.expd")
  \/ At("txt.expsign") /\ \E ch \in CurrCh : TextDigit(ch, "txt.expd")
  \/ /\ At("txt.expd")
     /\ \E ch \in CurrCh :
          IF ch \in Digit THEN PutC(ch, "txt.expd") ELSE FinishText(ch)

BeginNumber(ch) ==
  IF "NUMBER_AS_STRING" \in flags THEN BeginText(ch) ELSE BeginComponents(ch)

NumberNext ==
  \/ IntegerPart \/ DecimalPart \/ ExponentPart
  \/ TextInteger \/ TextDecimals \/ TextExponent
=============================================================================
