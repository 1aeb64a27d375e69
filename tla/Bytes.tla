------------------------------- MODULE Bytes -------------------------------
(***************************************************************************)
(* Bytes, the byte classes the parser tests with the macros of parser.c,   *)
(* and the conversions between code points, UTF-16 units and UTF-8 bytes.  *)
(* A byte is its number; EOF stands for "no byte, the end was signalled".  *)
(***************************************************************************)
EXTENDS Integers, Sequences

Byte == 0 .. 255
EOF  == -1

Ascii == [quote |-> 34, plus |-> 43, comma |-> 44, minus |-> 45, dot |-> 46,
          zero |-> 48, colon |-> 58, lbracket |-> 91, backslash |-> 92,
          rbracket |-> 93, lbrace |-> 123, rbrace |-> 125, a |-> 97, e |-> 101,
          f |-> 102, l |-> 108, n |-> 110, r |-> 114, s |-> 115, t |-> 116,
          u |-> 117]

\* isspace, isdigit and isword; the letters e and E of an exponent.
Space   == {32, 10, 13, 9, 12, 11}
Digit   == 48 .. 57
Word    == Digit \cup 65 .. 90 \cup 97 .. 122 \cup {95}
ExpMark == {69, 101}

\* The bytes READ_UNI_HEX accepts and the number each stands for.
HexDigit == Digit \cup 65 .. 70 \cup 97 .. 102
HexValue(ch) == CASE ch \in Digit    -> ch - 48
                  [] ch \in 65 .. 70 -> ch - 55
                  [] OTHER           -> ch - 87

\* The one-byte escapes (" / \ b f n r t) and the byte each stands for.
Escapable == {34, 47, 92, 98, 102, 110, 114, 116}
Unescape(ch) == CASE ch = 98  -> 8
                  [] ch = 102 -> 12
                  [] ch = 110 -> 10
                  [] ch = 114 -> 13
                  [] ch = 116 -> 9
                  [] OTHER    -> ch

MaxUnit       == 65535               \* the largest UTF-16 unit
HighSurrogate == 55296 .. 56319      \* 0xD800 .. 0xDBFF
LowSurrogate  == 56320 .. 57343      \* 0xDC00 .. 0xDFFF
MaxCodepoint  == 1114111             \* 0x10FFFF

\* The code point of a surrogate pair; 56613888 is 0x35FDC00.
Surrogates(unit1, unit2) == unit1 * 1024 + unit2 - 56613888

\* A continuation byte, (byte & 0xC0) == 0x80.
Continuation == 128 .. 191

\* The UTF-8 bytes of a code point (ajson_buffer_putcp).
Utf8(cp) ==
  LET Cont(n) == ((cp \div n) % 64) + 128
  IN  IF cp < 128 THEN <<cp>>
      ELSE IF cp <= 2047 THEN <<(cp \div 64) + 192, Cont(1)>>
      ELSE IF cp <= 65535 THEN <<(cp \div 4096) + 224, Cont(64), Cont(1)>>
      ELSE <<(cp \div 262144) + 240, Cont(4096), Cont(64), Cont(1)>>
=============================================================================
