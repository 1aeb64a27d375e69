----------------------------- MODULE Utf8Decoder -----------------------------
(***************************************************************************)
(* ajson_decode_utf8(): the first code point of a sequence of bytes, and   *)
(* the number of bytes it takes; the number is negative for an error, and  *)
(* then says at which byte.                                                *)
(***************************************************************************)
EXTENDS Bytes

\* The bytes of the sequence that starts with unit1; 0 if none does.
SequenceLength(unit1) ==
  CASE unit1 < 128        -> 1
    [] unit1 \in 194 .. 223 -> 2
    [] unit1 \in 224 .. 239 -> 3
    [] unit1 \in 240 .. 244 -> 4
    [] OTHER              -> 0

\* The second bytes that may follow, no overlong form and no code point above MaxCodepoint.
SecondUnits(unit1) ==
  CASE unit1 = 224 -> 160 .. 191
    [] unit1 = 240 -> 144 .. 191
    [] unit1 = 244 -> 128 .. 143
    [] OTHER       -> Continuation

\* What is returned for the bytes of a non-empty buffer.
DecodedCount(bytes) ==
  LET n == SequenceLength(bytes[1])
      Wrong(i) == bytes[i] \notin IF i = 2 THEN SecondUnits(bytes[1]) ELSE Continuation
  IN  IF n = 0 THEN -1
      ELSE IF Len(bytes) < n THEN -n
      ELSE IF n >= 2 /\ Wrong(2) THEN -2
      ELSE IF n >= 3 /\ Wrong(3) THEN -3
      ELSE IF n = 4 /\ Wrong(4) THEN -4
      ELSE n

\* The bits that mark the bytes of a sequence of a length (0x3080, 0xE2080, 0x3C82080).
Marks == <<0, 12416, 925824, 63447168>>

\* The code point of a sequence of n bytes.
DecodedCodepoint(bytes, n) ==
  LET second == bytes[1] * 64 + bytes[2]
      third == second * 64 + bytes[3]
  IN  (IF n = 1 THEN bytes[1]
       ELSE IF n = 2 THEN second
       ELSE IF n = 3 THEN third
       ELSE third * 64 + bytes[4]) - Marks[n]

\* Bytes are well formed if they can be cut into sequences that are decoded, up to their end.
WellFormed(bytes) ==
  \E cuts \in SUBSET (0 .. Len(bytes)) :
    /\ {0, Len(bytes)} \subseteq cuts
    /\ \A i \in cuts \ {Len(bytes)} :
         DecodedCount(SubSeq(bytes, i + 1, Len(bytes))) \in {n \in 1 .. 4 : i + n \in cuts}
=============================================================================
