-------------------------- MODULE ParserRefinement --------------------------
(***************************************************************************)
(* The parser implements TokenGrammar: what the abstract parser expects is *)
(* read off the labels on the stack.                                       *)
(***************************************************************************)
EXTENDS Parser

\* What is expected by a container (or the document) that is at a label.
Own(label) ==
  CASE label \in {"START", "start.ws"} -> "doc"
    [] label \in {"start.ret", "start.trail"} -> "end"
    [] label \in {"arr.emit", "arr.open", "arr.ret", "arr.ws", "arr.comma", "arr.close"} -> "array"
    [] label \in {"obj.emit", "obj.open", "obj.val", "obj.ws", "obj.comma", "obj.close"} -> "key"
    [] label \in {"obj.key", "obj.kws", "obj.colon"} -> "val"

ContainerLabels ==
  {"START", "start.ws", "start.ret", "start.trail",
   "arr.emit", "arr.open", "arr.ret", "arr.ws", "arr.comma", "arr.close",
   "obj.emit", "obj.open", "obj.val", "obj.ws", "obj.comma", "obj.close",
   "obj.key", "obj.kws", "obj.colon"}

\* What was expected where the code recursed into the scanner of a value or key.
Before(return) ==
  CASE return = "start.ret" -> "doc"
    [] return = "arr.ret"   -> "array"
    [] return = "obj.key"   -> "key"
    [] return = "obj.val"   -> "val"

\* An open container has been taken by those around it; a scalar not complete has not.
Expected ==
  IF Top = "ERROR" THEN <<"failed">>
  ELSE IF Top \in ContainerLabels
  THEN [i \in 1 .. stack_current + 1 |->
          IF i <= stack_current THEN Own(stack[i - 1]) ELSE Own(Top)]
  ELSE [i \in 1 .. stack_current |->
          IF i < stack_current THEN Own(stack[i - 1]) ELSE Before(stack[i - 1])]

Grammar == INSTANCE TokenGrammar WITH nest <- Expected, answer <- tok

\* The answers are the tokens of nested values, for every way the input is cut
\* and every order of calls.
ImplementsGrammar == Grammar!GrammarSpec
=============================================================================
