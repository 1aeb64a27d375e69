---------------------------- MODULE TokenGrammar ----------------------------
(***************************************************************************)
(* What the answers of a parser promise to the program that takes them:    *)
(* they are the tokens of nested values.  Containers close in the order    *)
(* they were opened, an object alternates keys and values, END follows one *)
(* complete value, and after ERROR nothing but ERROR comes.  Feeding and   *)
(* asking for more data change nothing of it; only a reset starts anew.    *)
(***************************************************************************)
EXTENDS Integers, Sequences

VARIABLES
  nest,       \* what each open container, the innermost last, expects next
  answer      \* the last answer

\* "doc": the value of the document.  "end": nothing more.  "array": a value or
\* the end.  "key": a key or the end.  "val": the value of a key.
Expectations == {"doc", "end", "array", "key", "val", "failed"}

Scalars == {"NULL", "BOOLEAN", "NUMBER", "INTEGER", "STRING"}

Innermost == nest[Len(nest)]

\* What is expected once a value has been taken.
AfterValue(expected) ==
  CASE expected = "doc"   -> "end"
    [] expected = "array" -> "array"
    [] expected = "val"   -> "key"

ExpectsValue == Innermost \in {"doc", "array", "val"}
Taken == [nest EXCEPT ![Len(nest)] = AfterValue(@)]

GrammarInit == nest = <<"doc">> /\ answer = "INIT"

Scalar ==
  /\ ExpectsValue
  /\ answer' \in Scalars
  /\ nest' = Taken

Key ==
  /\ Innermost = "key"
  /\ answer' = "STRING"
  /\ nest' = [nest EXCEPT ![Len(nest)] = "val"]

Begin(token, expected) ==
  /\ ExpectsValue
  /\ answer' = token
  /\ nest' = Append(Taken, expected)

End(token, expected) ==
  /\ Innermost = expected
  /\ answer' = token
  /\ nest' = SubSeq(nest, 1, Len(nest) - 1)

Finish ==
  /\ nest = <<"end">>
  /\ answer' = "END"
  /\ UNCHANGED nest

Fail == answer' = "ERROR" /\ nest' = <<"failed">>

Wait ==
  /\ Innermost # "failed"
  /\ answer' = "NEED_DATA"
  /\ UNCHANGED nest

Feed == answer' \in {"FED", "ENOBUFS"} /\ UNCHANGED nest

Restart == answer' = "RESET" /\ nest' = <<"doc">>

GrammarNext ==
  \/ Scalar \/ Key \/ Finish \/ Fail \/ Wait \/ Feed \/ Restart
  \/ Begin("BEGIN_ARRAY", "array") \/ Begin("BEGIN_OBJECT", "key")
  \/ End("END_ARRAY", "array") \/ End("END_OBJECT", "key")

GrammarSpec == GrammarInit /\ [][GrammarNext]_<<nest, answer>>
=============================================================================
