------------------------------ MODULE JsonText ------------------------------
(***************************************************************************)
(* What the writer promises, stated without it: the text of a token, given *)
(* what is open when it is written, for a string given by its code points. *)
(* nest holds, for each open container, its kind and how many keys and     *)
(* values were written in it.                                              *)
(***************************************************************************)
EXTENDS Bytes, SequencesExt

CONSTANT NULL      \* the indentation string of text on one line

InObject(nest) == nest # <<>> /\ Last(nest).kind = "object"
InArray(nest) == nest # <<>> /\ Last(nest).kind = "array"
ExpectsKey(nest) == InObject(nest) /\ Last(nest).count % 2 = 0
ExpectsMember(nest) == InObject(nest) /\ Last(nest).count % 2 = 1

\* Whether a token may come next; several values may follow each other at the top.
Legal(nest, function) ==
  CASE function = "end_array"  -> InArray(nest)
    [] function = "end_object" -> ExpectsKey(nest)
    [] function = "string"     -> TRUE
    [] OTHER                   -> ~ExpectsKey(nest)

\* What is open after a token.
After(nest, function) ==
  LET counted == IF nest = <<>> THEN nest ELSE [nest EXCEPT ![Len(nest)].count = @ + 1]
  IN  CASE function \in {"end_array", "end_object"} -> Front(nest)
        [] function = "begin_array"  -> Append(counted, [kind |-> "array", count |-> 0])
        [] function = "begin_object" -> Append(counted, [kind |-> "object", count |-> 0])
        [] OTHER -> counted

-----------------------------------------------------------------------------
(* White space and punctuation in front of a token. *)

Newline(depth, indent) ==
  IF indent = NULL THEN <<>> ELSE <<10>> \o FlattenSeq([i \in 1 .. depth |-> indent])

Before(nest, function, indent) ==
  LET inside == nest # <<>> /\ Last(nest).count > 0
  IN  IF function \in {"end_array", "end_object"}
      THEN IF inside THEN Newline(Len(nest) - 1, indent) ELSE <<>>
      ELSE IF nest = <<>> THEN <<>>
      ELSE IF ExpectsMember(nest) THEN IF indent = NULL THEN <<58>> ELSE <<58, 32>>
      ELSE (IF inside THEN <<44>> ELSE <<>>) \o Newline(Len(nest), indent)

-----------------------------------------------------------------------------
(* Values. *)

HexDigits == <<48, 49, 50, 51, 52, 53, 54, 55, 56, 57, 97, 98, 99, 100, 101, 102>>
Power16 == <<1, 16, 256, 4096>>
Escape(unit) ==
  <<92, 117>> \o [i \in 1 .. 4 |-> HexDigits[1 + ((unit \div Power16[5 - i]) % 16)]]

\* The JSON escape of a code point, of one or two UTF-16 units.
Escapes(cp) ==
  IF cp <= MaxUnit THEN Escape(cp)
  ELSE Escape(55296 + ((cp - 65536) \div 1024)) \o Escape(56320 + ((cp - 65536) % 1024))

\* A letter of a string: control characters are never written as they are.
Letter(cp, ascii) ==
  LET short == {letter \in Escapable \ {47} : Unescape(letter) = cp}
  IN  IF short # {} THEN <<92, CHOOSE letter \in short : TRUE>>
      ELSE IF cp \in 0 .. 31 \cup 127 .. 159 \/ (ascii /\ cp > 127) THEN Escapes(cp)
      ELSE Utf8(cp)

\* A string that is well formed up to its end, or up to bytes it fails at.
StringText(points, wellformed, ascii) ==
  <<34>> \o FlattenSeq([i \in DOMAIN points |-> Letter(points[i], ascii)])
    \o IF wellformed THEN <<34>> ELSE <<>>

\* The last digits of a number, of the 20 that an integer of 64 bits has at most.
Power10[k \in 0 .. 20] == IF k = 0 THEN 1 ELSE 10 * Power10[k - 1]
LastDigits(n, digits) == [i \in 1 .. digits |-> 48 + ((n \div Power10[digits - i]) % 10)]

\* The numeral of an integer.
Numeral(n) ==
  LET magnitude == IF n < 0 THEN -n ELSE n
      Fits(d) == magnitude < Power10[d] /\ (d = 1 \/ magnitude >= Power10[d - 1])
  IN  (IF n < 0 THEN <<45>> ELSE <<>>)
        \o LastDigits(magnitude, CHOOSE d \in 1 .. 20 : Fits(d))

Bracket == [begin_array |-> <<91>>, end_array |-> <<93>>,
            begin_object |-> <<123>>, end_object |-> <<125>>]
=============================================================================
