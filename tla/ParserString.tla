---------------------------- MODULE ParserString ----------------------------
(***************************************************************************)
(* The string scanner of ajson_next_token(): plain bytes, the validation   *)
(* of UTF-8 input, Latin-1 input, escapes and UTF-16 surrogate pairs.      *)
(***************************************************************************)
EXTENDS ParserEngine

Utf8Value(bytes)  == <<"utf8", bytes>>
Utf16Value(units) == <<"utf16", units>>

\* Enter a string: index is at the opening quote.
BeginString ==
  /\ buffer' = <<>>
  /\ Advance("str")
  /\ UNCHANGED <<buffer_size, value>>

String == At("STRING") /\ BeginString

\* The first byte of a multi-byte UTF-8 sequence.
Utf8Lead(ch) ==
  LET Expect(label) == /\ Advance(label)
                       /\ value' = Utf8Value(<<ch>>)
                       /\ UNCHANGED bufferVars
  IN  CASE ch < 194         -> RaiseError("ILLEGAL_UNICODE")
        [] ch \in 194 .. 223 -> Expect("u2.2")
        [] ch \in 224 .. 239 -> Expect("u3.2")
        [] ch \in 240 .. 244 -> Expect("u4.2")
        [] OTHER            -> RaiseError("ILLEGAL_UNICODE")

StringByte ==
  /\ At("str")
  /\ \E ch \in CurrCh :
       \/ ch = Ascii.backslash /\ Read("esc")
       \/ ch = Ascii.quote /\ PutC(0, "str.close")
       \/ ch < 128 /\ ch \notin {Ascii.backslash, Ascii.quote} /\ PutC(ch, "str")
       \/ ch >= 128 /\ encoding = "UTF8" /\ Utf8Lead(ch)
       \/ ch >= 128 /\ encoding # "UTF8"
            /\ StoreCodepoint(ch, Advance("str") /\ UNCHANGED value)

\* Mutant: a sequence of three bytes ends behind the second.
Utf8NextShort(label) == CASE label = "u4.2" -> "u4.3"
                          [] label = "u4.3" -> "u4.4"
                          [] OTHER          -> "str"

\* The label behind the next byte of a sequence, "str" behind the last one.
Utf8Next(label) == CASE label = "u3.2" -> "u3.3"
                     [] label = "u4.2" -> "u4.3"
                     [] label = "u4.3" -> "u4.4"
                     [] OTHER          -> "str"

\* Second bytes that are continuations but make the sequence overlong or too large.
Utf8BadSecond(label, lead, ch) ==
  \/ label = "u3.2" /\ lead = 224 /\ ch < 160
  \/ label = "u4.2" /\ lead = 240 /\ ch < 144
  \/ label = "u4.2" /\ lead = 244 /\ ch >= 144

\* The next byte of a sequence; the last one puts the sequence into the buffer.
Utf8Continue(label, ch) ==
  LET bytes == Append(Held, ch)
      Go == Advance(Utf8Next(label)) /\ value' = Utf8Value(bytes)
  IN  IF ch \notin Continuation \/ Utf8BadSecond(label, Held[1], ch)
      THEN RaiseError("ILLEGAL_UNICODE")
      ELSE IF Utf8Next(label) = "str"
           THEN Store(buffer, bytes, SizeFor(Len(bytes)), Go)
           ELSE Go /\ UNCHANGED bufferVars

Utf8Byte ==
  \E label \in Utf8Labels : At(label) /\ \E ch \in CurrCh : Utf8Continue(label, ch)

EscapeByte ==
  /\ At("esc")
  /\ \E ch \in CurrCh :
       \/ ch \in Escapable /\ PutC(Unescape(ch), "str")
       \/ ch = Ascii.u /\ Read("hex1")
       \/ ch \notin Escapable \cup {Ascii.u} /\ RaiseError("ILLEGAL_ESCAPE")

\* What the k-th hexadecimal digit of an escape, or of a pair of them, stands for.
Weight == <<4096, 256, 16, 1, 4096, 256, 16, 1>>

\* Mutant: the fifth digit starts both units anew.
WithDigitFresh(k, digit) ==
  LET shifted == digit * Weight[k]
  IN  IF k <= 4
      THEN [unit1 |-> (IF k = 1 THEN 0 ELSE Held.unit1) + shifted, unit2 |-> 0]
      ELSE [unit1 |-> IF k = 5 THEN 0 ELSE Held.unit1,
            unit2 |-> (IF k = 5 THEN 0 ELSE Held.unit2) + shifted]

\* unit1 and unit2 with the k-th digit put in.
WithDigit(k, digit) ==
  LET shifted == digit * Weight[k]
  IN  IF k <= 4
      THEN [unit1 |-> (IF k = 1 THEN 0 ELSE Held.unit1) + shifted, unit2 |-> 0]
      ELSE [unit1 |-> Held.unit1, unit2 |-> (IF k = 5 THEN 0 ELSE Held.unit2) + shifted]

\* A unit is complete: a code point, the first half of a pair, or illegal.
UnitRead(k, units) ==
  LET Put(cp) == StoreCodepoint(cp, Advance("str") /\ value' = Utf16Value(units))
  IN  IF k = 4
      THEN IF units.unit1 \in HighSurrogate
           THEN Advance("sur.bs") /\ value' = Utf16Value(units) /\ UNCHANGED bufferVars
           ELSE IF units.unit1 \in LowSurrogate
                THEN RaiseError("ILLEGAL_UNICODE")
                ELSE Put(units.unit1)
      ELSE IF units.unit2 \in LowSurrogate
           THEN Put(Surrogates(units.unit1, units.unit2))
           ELSE RaiseError("ILLEGAL_UNICODE")

HexByte ==
  \E k \in 1 .. 8 :
    /\ At(HexLabel[k])
    /\ \E ch \in CurrCh :
         IF ch \notin HexDigit THEN RaiseError("EXPECTED_HEX")
         ELSE LET units == WithDigit(k, HexValue(ch))
              IN  IF k \in {4, 8} THEN UnitRead(k, units)
                  ELSE /\ Advance(HexLabel[k + 1])
                       /\ value' = Utf16Value(units)
                       /\ UNCHANGED bufferVars

\* Mutant: the second half of a pair is expected without its backslash.
SurrogateNoBackslash ==
  /\ At("sur.bs")
  /\ \E ch \in CurrCh :
       IF ch = Ascii.u THEN Read("hex5") ELSE RaiseError("ILLEGAL_UNICODE")

\* A high surrogate must be followed by another \u.
SurrogateBackslash ==
  /\ At("sur.bs")
  /\ \E ch \in CurrCh :
       IF ch = Ascii.backslash THEN Read("sur.u") ELSE RaiseError("ILLEGAL_UNICODE")

SurrogateU ==
  /\ At("sur.u")
  /\ \E ch \in CurrCh :
       IF ch = Ascii.u THEN Read("hex5") ELSE RaiseError("ILLEGAL_UNICODE")

\* Mutant: the length counts the zero byte.
EndStringLong == At("str.close") /\ Return("STRING", <<"string", Used>>)

EndString == At("str.close") /\ Return("STRING", <<"string", Used - 1>>)

StringNext ==
  \/ String \/ StringByte \/ Utf8Byte \/ EscapeByte
  \/ HexByte \/ SurrogateBackslash \/ SurrogateU \/ EndString
=============================================================================
