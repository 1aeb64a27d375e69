---------------------------- MODULE ParserGrammar ----------------------------
(***************************************************************************)
(* The parser implements TokenGrammar, for every stack and buffer size,    *)
(* every chunk, every order of calls and every outcome of realloc.  As far *)
(* as the grammar is concerned the steps of a call are seven shapes, which *)
(* say from which labels they come and to which they go.                   *)
(***************************************************************************)
EXTENDS ParserProof, ParserRefinement

-----------------------------------------------------------------------------
(* The shapes of the steps. *)

\* The labels inside of a string, of a numeral, and of any value or key.
StringLabels == {"STRING", "str", "esc", "sur.bs", "sur.u", "str.close"} \cup Utf8Labels \cup HexLabels
NumeralLabels == NumberLabels \cup TextLabels
Scanning == Labels \ (ContainerLabels \cup {"ERROR"})

\* A scanner goes on with what it scans; a string is begun with nothing in the buffer.
Kin(from, to) ==
  /\ from \in ContainerLabels => to \in ContainerLabels /\ Own(to) = Own(from)
  /\ from \notin ContainerLabels => to \in Scanning
  /\ from \in StringLabels => to \in StringLabels
  /\ to \in StringLabels => from \in StringLabels \/ (to = "str" /\ buffer' = <<>>)
  /\ to \in TextLabels => from \in TextLabels \/ "NUMBER_AS_STRING" \in flags
  /\ to \in NumberLabels => from \in NumberLabels \/ "NUMBER_AS_STRING" \notin flags
Scans == \E l \in Labels : Advance(l) /\ Kin(pc, l)

\* A container, or the document, begins what it expects.
Enters ==
  /\ pc \in ContainerLabels
  /\ \E return \in Inner \cup {"start.ret"} :
       /\ Own(pc) = Before(return)
       /\ Recurse(IF return = "obj.key" THEN "STRING" ELSE "VALUE", return)

Errs == \E e : Fail(e)

\* Which answers are returned from a label.
Gives(l, t) ==
  \/ l = "arr.close" /\ t = "END_ARRAY"
  \/ l = "obj.close" /\ t = "END_OBJECT"
  \/ l \in Scanning /\ t \in {"NULL", "BOOLEAN", "NUMBER", "INTEGER", "STRING"}
       /\ (l \in StringLabels <=> t = "STRING")

\* The member of the union that holds what is returned, where one does.
NumberMember == IF "NUMBER_COMPONENTS" \in flags THEN "components" ELSE "number"
Holds(l, t, v) ==
  /\ t = "STRING" => v[1] = "string"
  /\ t = "BOOLEAN" => v[1] = "boolean"
  /\ t = "INTEGER" => v[1] = "integer"
  /\ t = "NUMBER" =>
       \/ v[1] = "string" /\ (l \in TextLabels \/ "NUMBER_AS_STRING" \in flags)
       \/ v[1] = NumberMember /\ (l \in NumberLabels \/ "NUMBER_AS_STRING" \notin flags)

Closes == \E t, v : Gives(pc, t) /\ Holds(pc, t, v) /\ Pop(t, v)

Opens ==
  /\ pc = "VALUE"
  /\ Emit("BEGIN_ARRAY", "arr.emit") \/ Emit("BEGIN_OBJECT", "obj.emit")

Finishes == pc \in {"start.ret", "start.trail"} /\ Done

Shapes == Scans \/ Enters \/ Errs \/ Closes \/ Opens \/ Finishes \/ NeedData

-----------------------------------------------------------------------------
(* Labels. *)

\* What each container label expects.
LEMMA OwnFacts ==
  /\ Own("START") = "doc" /\ Own("start.ws") = "doc"
  /\ Own("start.ret") = "end" /\ Own("start.trail") = "end"
  /\ Own("arr.emit") = "array" /\ Own("arr.open") = "array" /\ Own("arr.ret") = "array"
  /\ Own("arr.ws") = "array" /\ Own("arr.comma") = "array" /\ Own("arr.close") = "array"
  /\ Own("obj.emit") = "key" /\ Own("obj.open") = "key" /\ Own("obj.val") = "key"
  /\ Own("obj.ws") = "key" /\ Own("obj.comma") = "key" /\ Own("obj.close") = "key"
  /\ Own("obj.key") = "val" /\ Own("obj.kws") = "val" /\ Own("obj.colon") = "val"
BY DEF Own

\* What was expected where a return label was pushed.
LEMMA BeforeFacts ==
  /\ Before("start.ret") = "doc" /\ Before("arr.ret") = "array"
  /\ Before("obj.key") = "key" /\ Before("obj.val") = "val"
BY DEF Before

\* The classes of labels.
LEMMA ScanningFacts ==
  /\ StringLabels \subseteq Scanning
  /\ NumeralLabels \subseteq Scanning \ StringLabels
  /\ LiteralLabels \cup LiteralEnds \cup {"VALUE"} \subseteq Scanning \ (StringLabels \cup NumeralLabels)
  /\ TextLabels \cup NumberLabels = NumeralLabels
  /\ ContainerLabels \subseteq Labels \ {"ERROR"}
  /\ Doc \cup Inner \subseteq ContainerLabels
BY DEF StringLabels, NumeralLabels, NumberLabels, TextLabels, Scanning, ContainerLabels, Labels,
       NeedLabels, MayLabels, JumpLabels, LiteralLabels, LiteralEnds, HexLabels, Utf8Labels, Doc, Inner

-----------------------------------------------------------------------------
(* The steps have these shapes. *)

\* RAISE_ERROR.
LEMMA RaiseErrs == ASSUME NEW e, RaiseError(e) PROVE Errs
BY DEF RaiseError, Errs

\* A container that goes on.
LEMMA ReadScans ==
  ASSUME NEW l \in ContainerLabels, pc \in ContainerLabels, Own(l) = Own(pc), Read(l),
         pc \notin StringLabels
  PROVE  Scans
BY ScanningFacts DEF Scans, Read, Kin, Scanning

\* The document's scanner.
LEMMA DocumentShapes ==
  ASSUME Start \/ Trail
  PROVE  Shapes
<1>1. CASE Start
  <2>1. pc \in {"START", "start.ws"} /\ (Read("start.ws") \/ Recurse("VALUE", "start.ret"))
    BY <1>1 DEF Start, At
  <2>2. pc \in ContainerLabels /\ pc \notin StringLabels /\ Own(pc) = "doc"
    BY <2>1, OwnFacts, ScanningFacts DEF ContainerLabels, Scanning
  <2>3. CASE Read("start.ws")
    BY <2>2, <2>3, ReadScans, OwnFacts DEF ContainerLabels, Shapes
  <2>4. CASE Recurse("VALUE", "start.ret")
    BY <2>2, <2>4, BeforeFacts DEF Enters, Shapes, Inner
  <2> QED BY <2>1, <2>3, <2>4
<1>2. CASE Trail
  <2>1. /\ pc \in {"start.ret", "start.trail"}
        /\ Done \/ Read("start.trail") \/ RaiseError("UNEXPECTED_CHAR")
    BY <1>2 DEF Trail, At
  <2>2. pc \in ContainerLabels /\ pc \notin StringLabels /\ Own(pc) = "end"
    BY <2>1, OwnFacts, ScanningFacts DEF ContainerLabels, Scanning
  <2>3. CASE Read("start.trail")
    BY <2>2, <2>3, ReadScans, OwnFacts DEF ContainerLabels, Shapes
  <2> QED BY <2>1, <2>3, RaiseErrs DEF Finishes, Shapes
<1> QED BY <1>1, <1>2

\* The scanner of literals.
LEMMA LiteralShapes ==
  ASSUME LiteralLetter \/ LiteralEnd
  PROVE  Shapes
<1>1. CASE LiteralLetter
  <2>1. PICK label \in LiteralLabels :
          pc = label /\ (Read(Spelled[label]) \/ RaiseError("UNEXPECTED_CHAR"))
    BY <1>1 DEF LiteralLetter, At
  <2>2. Spelled[label] \in LiteralLabels \cup LiteralEnds
    BY DEF LiteralLabels, LiteralEnds, Spelled
  <2>3. pc \in Scanning \ StringLabels /\ Spelled[label] \in Scanning
    BY <2>1, <2>2, ScanningFacts
  <2>4. CASE Read(Spelled[label])
    BY <2>2, <2>3, <2>4, ScanningFacts DEF Read, Scans, Kin, Scanning, Shapes
  <2> QED BY <2>1, <2>4, RaiseErrs DEF Shapes
<1>2. CASE LiteralEnd
  <2>1. PICK label \in LiteralEnds :
          /\ pc = label
          /\ \/ RaiseError("UNEXPECTED_CHAR")
             \/ Return("NULL", value)
             \/ Return("BOOLEAN", <<"boolean", label = "true">>)
    BY <1>2 DEF LiteralEnd, At
  <2>2. /\ Gives(pc, "NULL") /\ Gives(pc, "BOOLEAN")
        /\ Holds(pc, "NULL", value) /\ Holds(pc, "BOOLEAN", <<"boolean", pc = "true">>)
    BY <2>1, ScanningFacts DEF Gives, Holds
  <2> QED BY <2>1, <2>2, RaiseErrs DEF Return, Closes, Shapes
<1> QED BY <1>1, <1>2

\* The array scanner.
LEMMA ArrayShapes ==
  ASSUME ArrayEmitted \/ ArrayFirst \/ ArrayNext \/ ArrayMore \/ ArrayClosed
  PROVE  Shapes
<1> DEFINE Places == {"arr.emit", "arr.open", "arr.ret", "arr.ws", "arr.comma", "arr.close"}
<1>1. \A l \in Places : Own(l) = "array" /\ l \in ContainerLabels /\ l \notin StringLabels
  BY OwnFacts, ScanningFacts DEF ContainerLabels, Scanning
<1>2. ASSUME pc \in Places, NEW l \in Places, Read(l) PROVE Shapes
  BY <1>1, <1>2, ReadScans DEF Shapes
<1>3. ASSUME pc \in Places, Recurse("VALUE", "arr.ret") PROVE Shapes
  BY <1>1, <1>3, BeforeFacts DEF Enters, Shapes, Inner
<1>4. CASE ArrayEmitted
  BY <1>2, <1>4 DEF ArrayEmitted, At
<1>5. CASE ArrayFirst
  <2>1. pc = "arr.open" /\ (Read("arr.open") \/ Read("arr.close") \/ Recurse("VALUE", "arr.ret"))
    BY <1>5 DEF ArrayFirst, At
  <2> QED BY <1>2, <1>3, <2>1
<1>6. CASE ArrayNext
  <2>1. /\ pc \in {"arr.ret", "arr.ws"}
        /\ \/ Read("arr.ws") \/ Read("arr.comma") \/ Read("arr.close")
           \/ RaiseError("UNEXPECTED_EOF") \/ RaiseError("EXPECTED_COMMA_OR_ARRAY_END")
    BY <1>6 DEF ArrayNext, At
  <2> QED BY <1>2, <2>1, RaiseErrs DEF Shapes
<1>7. CASE ArrayMore
  <2>1. pc = "arr.comma" /\ (Read("arr.comma") \/ Recurse("VALUE", "arr.ret"))
    BY <1>7 DEF ArrayMore, At
  <2> QED BY <1>2, <1>3, <2>1
<1>8. CASE ArrayClosed
  BY <1>8 DEF ArrayClosed, At, Return, Closes, Gives, Holds, Shapes
<1> QED BY <1>4, <1>5, <1>6, <1>7, <1>8

\* The object scanner.
LEMMA ObjectShapes ==
  ASSUME \/ ObjectEmitted \/ ObjectFirst \/ ObjectColon \/ ObjectValue
         \/ ObjectNext \/ ObjectMore \/ ObjectClosed
  PROVE  Shapes
<1> DEFINE KeyPlaces == {"obj.emit", "obj.open", "obj.val", "obj.ws", "obj.comma", "obj.close"}
           ValPlaces == {"obj.key", "obj.kws", "obj.colon"}
<1>1. /\ \A l \in KeyPlaces : Own(l) = "key" /\ l \in ContainerLabels /\ l \notin StringLabels
      /\ \A l \in ValPlaces : Own(l) = "val" /\ l \in ContainerLabels /\ l \notin StringLabels
  BY OwnFacts, ScanningFacts DEF ContainerLabels, Scanning
<1>2. ASSUME NEW l, Read(l), \/ pc \in KeyPlaces /\ l \in KeyPlaces
                             \/ pc \in ValPlaces /\ l \in ValPlaces
      PROVE  Shapes
  BY <1>1, <1>2, ReadScans DEF Shapes
<1>3. ASSUME pc \in KeyPlaces, NEW ch, ObjectKey(ch) PROVE Shapes
  BY <1>1, <1>3, BeforeFacts, RaiseErrs DEF ObjectKey, Enters, Shapes, Inner
<1>4. CASE ObjectEmitted
  BY <1>2, <1>4 DEF ObjectEmitted, At
<1>5. CASE ObjectFirst \/ ObjectMore
  <2>1. /\ pc \in {"obj.open", "obj.comma"}
        /\ Read("obj.open") \/ Read("obj.comma") \/ Read("obj.close") \/ \E ch : ObjectKey(ch)
    BY <1>5 DEF ObjectFirst, ObjectMore, At
  <2> QED BY <1>2, <1>3, <2>1
<1>6. CASE ObjectColon
  <2>1. /\ pc \in {"obj.key", "obj.kws"}
        /\ \/ Read("obj.kws") \/ Read("obj.colon")
           \/ RaiseError("UNEXPECTED_EOF") \/ RaiseError("EXPECTED_COLON")
    BY <1>6 DEF ObjectColon, At
  <2> QED BY <1>2, <2>1, RaiseErrs DEF Shapes
<1>7. CASE ObjectValue
  <2>1. pc = "obj.colon" /\ (Read("obj.colon") \/ Recurse("VALUE", "obj.val"))
    BY <1>7 DEF ObjectValue, At
  <2>2. CASE Recurse("VALUE", "obj.val")
    BY <1>1, <2>1, <2>2, BeforeFacts DEF Enters, Shapes, Inner
  <2> QED BY <1>2, <2>1, <2>2
<1>8. CASE ObjectNext
  <2>1. /\ pc \in {"obj.val", "obj.ws"}
        /\ \/ Read("obj.ws") \/ Read("obj.comma") \/ Read("obj.close")
           \/ RaiseError("UNEXPECTED_EOF") \/ RaiseError("EXPECTED_COMMA_OR_OBJECT_END")
    BY <1>8 DEF ObjectNext, At
  <2> QED BY <1>2, <2>1, RaiseErrs DEF Shapes
<1>9. CASE ObjectClosed
  BY <1>9 DEF ObjectClosed, At, Return, Closes, Gives, Holds, Shapes
<1> QED BY <1>4, <1>5, <1>6, <1>7, <1>8, <1>9

-----------------------------------------------------------------------------
(* Strings and numerals. *)

\* A step inside of a string, of a numeral read into components, of one kept as text.
StringStep ==
  \/ Errs
  \/ \E l \in StringLabels : Advance(l)
  \/ \E v : v[1] = "string" /\ Pop("STRING", v)
NumberStep ==
  \/ Errs
  \/ \E l \in NumberLabels : Advance(l)
  \/ \E v : v[1] = NumberMember /\ Pop("NUMBER", v)
  \/ \E v : v[1] = "integer" /\ Pop("INTEGER", v)
TextStep ==
  \/ Errs
  \/ \E l \in TextLabels : Advance(l)
  \/ \E v : v[1] = "string" /\ Pop("NUMBER", v)

\* They have the shapes of a step of a scanner.
LEMMA StringStepShapes ==
  ASSUME pc \in StringLabels, StringStep
  PROVE  Shapes
<1>1. pc \in Scanning
  BY ScanningFacts
<1>2. ASSUME NEW l \in StringLabels, Advance(l) PROVE Shapes
  BY <1>1, <1>2, ScanningFacts DEF Scans, Kin, Scanning, Shapes
<1>3. ASSUME NEW v, v[1] = "string", Pop("STRING", v) PROVE Shapes
  BY <1>1, <1>3 DEF Closes, Gives, Holds, Shapes
<1> QED BY <1>2, <1>3 DEF StringStep, Shapes

\* The step of a numeral read into components, which is begun without NUMBER_AS_STRING.
LEMMA NumberStepShapes ==
  ASSUME pc \in NumberLabels \/ (pc = "VALUE" /\ "NUMBER_AS_STRING" \notin flags), NumberStep
  PROVE  Shapes
<1>1. pc \in Scanning \ StringLabels
  BY ScanningFacts
<1>2. ASSUME NEW l \in NumberLabels, Advance(l) PROVE Shapes
  <2>1. l \in Scanning \ StringLabels /\ l \notin TextLabels
    BY ScanningFacts DEF NumberLabels, TextLabels
  <2> QED BY <1>1, <1>2, <2>1 DEF Scans, Kin, Scanning, Shapes
<1>3. ASSUME NEW v, v[1] = NumberMember, Pop("NUMBER", v) PROVE Shapes
  BY <1>1, <1>3 DEF Closes, Gives, Holds, Shapes
<1>4. ASSUME NEW v, v[1] = "integer", Pop("INTEGER", v) PROVE Shapes
  BY <1>1, <1>4 DEF Closes, Gives, Holds, Shapes
<1> QED BY <1>2, <1>3, <1>4 DEF NumberStep, Shapes

\* The step of a numeral kept as text, which is begun with NUMBER_AS_STRING.
LEMMA TextStepShapes ==
  ASSUME pc \in TextLabels \/ (pc = "VALUE" /\ "NUMBER_AS_STRING" \in flags), TextStep
  PROVE  Shapes
<1>1. pc \in Scanning \ StringLabels
  BY ScanningFacts
<1>2. ASSUME NEW l \in TextLabels, Advance(l) PROVE Shapes
  <2>1. l \in Scanning \ StringLabels /\ l \notin NumberLabels
    BY ScanningFacts DEF NumberLabels, TextLabels
  <2> QED BY <1>1, <1>2, <2>1 DEF Scans, Kin, Scanning, Shapes
<1>3. ASSUME NEW v, v[1] = "string", Pop("NUMBER", v) PROVE Shapes
  BY <1>1, <1>3 DEF Closes, Gives, Holds, Shapes
<1> QED BY <1>2, <1>3 DEF TextStep, Shapes

\* Bytes that are stored are followed by a step, or the call fails.
LEMMA PutCStep ==
  ASSUME NEW ch, NEW l, PutC(ch, l)
  PROVE  Errs \/ Advance(l)
BY DEF PutC, StoreByte, Store, Errs

\* Storing a code point and going on in the string.
LEMMA CodepointStep ==
  ASSUME NEW cp, NEW v, StoreCodepoint(cp, Advance("str") /\ value' = v)
  PROVE  StringStep
BY DEF StoreCodepoint, Store, RaiseError, Errs, StringStep, StringLabels

\* The string scanner.
LEMMA StringShapes ==
  ASSUME StringNext
  PROVE  Shapes
<1>1. CASE String
  <2>1. pc = "STRING" /\ Advance("str")
    BY <1>1 DEF String, At, BeginString
  <2> QED BY <2>1, StringStepShapes DEF StringStep, StringLabels
<1>2. CASE StringByte
  <2>1. PICK ch \in CurrCh :
          \/ Read("esc") \/ PutC(0, "str.close") \/ PutC(ch, "str")
          \/ Utf8Lead(ch)
          \/ StoreCodepoint(ch, Advance("str") /\ UNCHANGED value)
    BY <1>2 DEF StringByte
  <2>2. pc \in StringLabels
    BY <1>2 DEF StringByte, At, StringLabels
  <2>3. CASE Utf8Lead(ch)
    <3>1. RaiseError("ILLEGAL_UNICODE") \/ \E l \in {"u2.2", "u3.2", "u4.2"} : Advance(l)
      BY <2>3 DEF Utf8Lead, RaiseError
    <3> QED BY <2>2, <3>1, RaiseErrs, StringStepShapes DEF StringStep, StringLabels, Utf8Labels
  <2>4. CASE StoreCodepoint(ch, Advance("str") /\ UNCHANGED value)
    <3>1. StoreCodepoint(ch, Advance("str") /\ value' = value)
      BY <2>4
    <3> QED BY <2>2, <3>1, CodepointStep, StringStepShapes
  <2>5. CASE Read("esc") \/ PutC(0, "str.close") \/ PutC(ch, "str")
    BY <2>2, <2>5, PutCStep, StringStepShapes DEF Read, StringStep, StringLabels
  <2> QED BY <2>1, <2>3, <2>4, <2>5
<1>3. CASE Utf8Byte
  <2>1. PICK label \in Utf8Labels, ch \in CurrCh : pc = label /\ Utf8Continue(label, ch)
    BY <1>3 DEF Utf8Byte, At
  <2>2. pc \in StringLabels
    BY <2>1 DEF StringLabels
  <2>3. Utf8Next(label) \in StringLabels
    BY DEF Utf8Next, StringLabels, Utf8Labels
  <2>4. Errs \/ Advance(Utf8Next(label))
    BY <2>1, RaiseErrs DEF Utf8Continue, Store, Errs
  <2> QED BY <2>2, <2>3, <2>4, StringStepShapes DEF StringStep
<1>4. CASE EscapeByte
  <2>1. /\ pc = "esc"
        /\ \E ch : PutC(ch, "str") \/ Read("hex1") \/ RaiseError("ILLEGAL_ESCAPE")
    BY <1>4 DEF EscapeByte, At
  <2> QED BY <2>1, PutCStep, RaiseErrs, StringStepShapes DEF Read, StringStep, StringLabels, HexLabels
<1>5. CASE HexByte
  <2>1. PICK k \in 1 .. 8 :
          /\ pc = HexLabel[k]
          /\ \/ RaiseError("EXPECTED_HEX")
             \/ \E units : UnitRead(k, units)
             \/ k \notin {4, 8} /\ Advance(HexLabel[k + 1])
    BY <1>5 DEF HexByte, At
  <2>2. pc \in StringLabels
    BY <2>1 DEF HexLabel, HexLabels, StringLabels
  <2>3. CASE k \notin {4, 8} /\ Advance(HexLabel[k + 1])
    <3>1. HexLabel[k + 1] \in StringLabels
      BY <2>3 DEF HexLabel, HexLabels, StringLabels
    <3> QED BY <2>2, <2>3, <3>1, StringStepShapes DEF StringStep
  <2>4. ASSUME NEW units, UnitRead(k, units) PROVE Shapes
    <3>1. \/ RaiseError("ILLEGAL_UNICODE") \/ Advance("sur.bs")
          \/ StoreCodepoint(units.unit1, Advance("str") /\ value' = Utf16Value(units))
          \/ StoreCodepoint(Surrogates(units.unit1, units.unit2),
                            Advance("str") /\ value' = Utf16Value(units))
      BY <2>4 DEF UnitRead
    <3> QED BY <2>2, <3>1, RaiseErrs, CodepointStep, StringStepShapes DEF StringStep, StringLabels
  <2> QED BY <2>1, <2>3, <2>4, RaiseErrs DEF Shapes
<1>6. CASE SurrogateBackslash \/ SurrogateU
  <2>1. /\ pc \in {"sur.bs", "sur.u"}
        /\ Read("sur.u") \/ Read("hex5") \/ RaiseError("ILLEGAL_UNICODE")
    BY <1>6 DEF SurrogateBackslash, SurrogateU, At
  <2> QED BY <2>1, RaiseErrs, StringStepShapes DEF Read, StringStep, StringLabels, HexLabels
<1>7. CASE EndString
  <2>1. pc = "str.close" /\ \E v : v[1] = "string" /\ Pop("STRING", v)
    <3>1. <<"string", Used - 1>>[1] = "string"
      OBVIOUS
    <3> QED BY <1>7, <3>1 DEF EndString, At, Return
  <2> QED BY <2>1, StringStepShapes DEF StringStep, StringLabels
<1> QED BY <1>1, <1>2, <1>3, <1>4, <1>5, <1>6, <1>7 DEF StringNext

\* The parts of a numeral.
LEMMA ScanStep ==
  ASSUME NEW c, NEW l \in NumberLabels, Scan(c, l)
  PROVE  NumberStep
BY DEF Scan, NumberStep

\* A numeral is finished as an integer, a double or its components.
LEMMA FinishStep ==
  ASSUME NEW c, NEW ch, FinishNumber(c, ch)
  PROVE  NumberStep
<1>1. \/ RaiseError("UNEXPECTED_CHAR")
      \/ \E i : Return("INTEGER", <<"integer", i>>)
      \/ "NUMBER_COMPONENTS" \in flags /\ Return("NUMBER", <<"components", c>>)
      \/ "NUMBER_COMPONENTS" \notin flags /\ Return("NUMBER", <<"number", Double(c)>>)
  BY DEF FinishNumber, ComponentsValue
<1>2. ASSUME NEW i, Return("INTEGER", <<"integer", i>>) PROVE NumberStep
  <2>1. <<"integer", i>>[1] = "integer"
    OBVIOUS
  <2> QED BY <1>2, <2>1 DEF Return, NumberStep
<1>3. ASSUME NEW v, v[1] = NumberMember, Return("NUMBER", v) PROVE NumberStep
  BY <1>3 DEF Return, NumberStep
<1>4. \A x : <<"components", x>>[1] = "components" /\ <<"number", x>>[1] = "number"
  OBVIOUS
<1> QED BY <1>1, <1>2, <1>3, <1>4, RaiseErrs DEF NumberStep, NumberMember

\* A numeral is finished as text.
LEMMA FinishTextStep ==
  ASSUME NEW ch, FinishText(ch)
  PROVE  TextStep
<1>1. \/ RaiseError("UNEXPECTED_CHAR") \/ Fail("MEMORY") \/ Pop("NUMBER", <<"string", Used>>)
  BY DEF FinishText, StoreByte, Store
<1>2. <<"string", Used>>[1] = "string"
  OBVIOUS
<1> QED BY <1>1, <1>2, RaiseErrs DEF Errs, TextStep

\* The three parts of a numeral kept as components.
LEMMA PartsStep ==
  ASSUME NEW c, NEW ch, NEW digit,
         \/ AfterInteger(c, ch) \/ AfterDecimals(c, ch) \/ DroppedDigit(c) \/ IntegerDigit(c, digit)
         \/ FirstDigit(c, ch) \/ DecimalDigit(c, digit) \/ ExponentDigit(c, ch)
  PROVE  NumberStep
<1>1. ASSUME NEW d, AfterDecimals(d, ch) PROVE NumberStep
  BY <1>1, ScanStep, FinishStep DEF AfterDecimals, NumberLabels
<1>2. CASE AfterInteger(c, ch)
  BY <1>1, <1>2, ScanStep DEF AfterInteger, NumberLabels
<1>3. ASSUME NEW d, DroppedDigit(d) PROVE NumberStep
  BY <1>3, ScanStep, RaiseErrs DEF DroppedDigit, NumberLabels, NumberStep
<1>4. ASSUME NEW n, IntegerDigit(c, n) PROVE NumberStep
  BY <1>3, <1>4, ScanStep DEF IntegerDigit, NumberLabels
<1>5. CASE FirstDigit(c, ch)
  BY <1>4, <1>5, ScanStep, RaiseErrs DEF FirstDigit, NumberLabels, NumberStep
<1>6. CASE DecimalDigit(c, digit)
  BY <1>6, ScanStep DEF DecimalDigit, NumberLabels
<1>7. CASE ExponentDigit(c, ch)
  BY <1>7, ScanStep, RaiseErrs DEF ExponentDigit, NumberLabels, NumberStep
<1> QED BY <1>1, <1>2, <1>3, <1>4, <1>5, <1>6, <1>7

\* The scanner of numerals read into their components.
LEMMA ComponentsShapes ==
  ASSUME IntegerPart \/ DecimalPart \/ ExponentPart
  PROVE  Shapes
<1>1. pc \in NumberLabels
  BY DEF IntegerPart, DecimalPart, ExponentPart, At, NumberLabels
<1>2. \/ \E c, ch, digit :
           \/ AfterInteger(c, ch) \/ AfterDecimals(c, ch) \/ DroppedDigit(c) \/ IntegerDigit(c, digit)
           \/ FirstDigit(c, ch) \/ DecimalDigit(c, digit) \/ ExponentDigit(c, ch)
           \/ FinishNumber(c, ch)
      \/ \E l \in NumberLabels : \E c : Scan(c, l)
      \/ \E l \in NumberLabels : Read(l)
      \/ RaiseError("EXPECTED_DIGIT")
  <2>1. CASE IntegerPart
    BY <2>1 DEF IntegerPart
  <2>2. CASE DecimalPart
    BY <2>2 DEF DecimalPart, NumberLabels
  <2>3. CASE ExponentPart
    <3> DEFINE c == [Held EXCEPT !.isinteger = FALSE]
    <3>1. \E ch : \/ Scan([c EXCEPT !.exponent_positive = FALSE], "num.expneg")
                  \/ Scan(c, "num.exppos")
                  \/ ExponentDigit(c, ch) \/ ExponentDigit(Held, ch)
                  \/ FinishNumber(Held, ch) \/ Read("num.expinf")
      BY <2>3 DEF ExponentPart
    <3> HIDE DEF c
    <3> QED BY <3>1 DEF NumberLabels
  <2> QED BY <2>1, <2>2, <2>3
<1>3. NumberStep
  BY <1>2, PartsStep, FinishStep, ScanStep, RaiseErrs DEF Read, NumberStep
<1> QED BY <1>1, <1>3, NumberStepShapes

\* The scanner of numerals kept as text.
LEMMA TextShapes ==
  ASSUME TextInteger \/ TextDecimals \/ TextExponent
  PROVE  Shapes
<1>1. pc \in TextLabels
  BY DEF TextInteger, TextDecimals, TextExponent, At, TextLabels
<1>2. ASSUME NEW ch, TextAfterInteger(ch) \/ TextAfterDecimals(ch)
      PROVE  FinishText(ch) \/ \E l \in TextLabels : PutC(ch, l)
  BY <1>2 DEF TextAfterInteger, TextAfterDecimals, TextLabels
<1>3. ASSUME NEW ch, NEW l \in TextLabels, TextDigit(ch, l)
      PROVE  PutC(ch, l) \/ RaiseError("EXPECTED_DIGIT")
  BY <1>3 DEF TextDigit
<1>4. \E ch : \/ FinishText(ch) \/ RaiseError("EXPECTED_DIGIT")
              \/ \E l \in TextLabels : PutC(ch, l)
  <2>1. CASE TextInteger
    BY <1>2, <1>3, <2>1 DEF TextInteger, FirstTextDigit, TextLabels
  <2>2. CASE TextDecimals
    BY <1>2, <1>3, <2>2 DEF TextDecimals, TextLabels
  <2>3. CASE TextExponent
    BY <1>3, <2>3 DEF TextExponent, TextLabels
  <2> QED BY <2>1, <2>2, <2>3
<1>5. TextStep
  BY <1>4, FinishTextStep, PutCStep, RaiseErrs DEF TextStep
<1> QED BY <1>1, <1>5, TextStepShapes

\* The first byte of a value.
LEMMA ValueShapes ==
  ASSUME Value
  PROVE  Shapes
<1>1. PICK ch \in CurrCh :
        \/ \E l \in {"t", "f", "n"} : Read(l)
        \/ BeginString
        \/ BeginNumber(ch)
        \/ Emit("BEGIN_ARRAY", "arr.emit")
        \/ Emit("BEGIN_OBJECT", "obj.emit")
        \/ RaiseError("UNEXPECTED_CHAR")
  BY DEF Value
<1>2. pc = "VALUE" /\ pc \in Scanning \ StringLabels
  BY ScanningFacts DEF Value, At
<1>3. ASSUME NEW l \in {"t", "f", "n"}, Read(l) PROVE Shapes
  BY <1>2, <1>3, ScanningFacts DEF Read, Scans, Kin, Scanning, LiteralLabels, Shapes
<1>4. CASE BeginString
  <2>1. "str" \in Scanning /\ "str" \notin NumeralLabels
    BY ScanningFacts DEF StringLabels
  <2> QED BY <1>2, <1>4, <2>1, ScanningFacts DEF BeginString, Scans, Kin, Scanning, Shapes
<1>5. CASE BeginNumber(ch)
  <2>1. CASE "NUMBER_AS_STRING" \in flags /\ BeginText(ch)
    <3>1. PICK l \in {"txt.neg", "txt.zero", "txt.int"} :
            StoreByte(<<>>, ch, Advance(l) /\ UNCHANGED value)
      BY <2>1 DEF BeginText
    <3> QED BY <1>2, <2>1, <3>1, TextStepShapes DEF StoreByte, Store, Errs, TextStep, TextLabels
  <2>2. CASE "NUMBER_AS_STRING" \notin flags /\ BeginComponents(ch)
    BY <1>2, <2>2, ScanStep, PartsStep, NumberStepShapes DEF BeginComponents, NumberLabels
  <2> QED BY <1>5, <2>1, <2>2 DEF BeginNumber
<1> QED BY <1>1, <1>2, <1>3, <1>4, <1>5, RaiseErrs DEF Opens, Shapes

\* Every step behind the dispatch.
LEMMA RunShapes ==
  ASSUME Run
  PROVE  Shapes
<1>1. CASE UnexpectedEof \/ ErrorState
  BY <1>1, RaiseErrs DEF UnexpectedEof, ErrorState, Shapes
<1> QED
  BY <1>1, DocumentShapes, ValueShapes, LiteralShapes, StringShapes, ComponentsShapes, TextShapes,
     ArrayShapes, ObjectShapes
  DEF Run, NumberNext, Shapes

-----------------------------------------------------------------------------
(* What is expected, as a function of the stack. *)

\* A label, the stack and its height as Frames knows them.
Framed(top, st, n) ==
  /\ n \in Nat
  /\ top \in Labels
  /\ n = 0 => top \in Doc \cup {"ERROR"}
  /\ n > 0 => top \notin Doc /\ st[0] = "start.ret"
  /\ \A i \in 1 .. n - 1 : st[i] \in Inner

\* How many containers expect something, the document included, and what the innermost one
\* expects.
Depth(top, n) == IF top = "ERROR" THEN 1 ELSE IF top \in ContainerLabels THEN n + 1 ELSE n
Inmost(top, st, n) ==
  IF top = "ERROR" THEN "failed"
  ELSE IF top \in ContainerLabels THEN Own(top) ELSE Before(st[n - 1])

\* Read that way, the stack is e.
ReadAs(top, st, n, e) ==
  /\ Depth(top, n) \in Nat \ {0}
  /\ e \in Seq(Grammar!Expectations)
  /\ Len(e) = Depth(top, n)
  /\ \A i \in 1 .. Depth(top, n) - 1 : e[i] = Own(st[i - 1])
  /\ e[Depth(top, n)] = Inmost(top, st, n)

\* A function over 1 .. n is a sequence of that length.
LEMMA FunctionIsSeq ==
  ASSUME NEW S, NEW n \in Nat, NEW e \in [1 .. n -> S]
  PROVE  e \in Seq(S) /\ Len(e) = n
<1>1. e \in Seq(S)
  BY SeqDef
<1> QED BY <1>1, LenProperties

\* A sequence of one element.
LEMMA OneIsSeq ==
  ASSUME NEW S, NEW x \in S
  PROVE  <<x>> \in Seq(S) /\ Len(<<x>>) = 1 /\ <<x>>[1] = x
OBVIOUS

\* The expectations of labels and frames.
LEMMA Expectable ==
  /\ \A l \in ContainerLabels : Own(l) \in Grammar!Expectations \ {"failed"}
  /\ \A r \in Inner \cup {"start.ret"} :
       Before(r) \in Grammar!Expectations \ {"failed"} /\ r \in ContainerLabels
BY OwnFacts, BeforeFacts DEF ContainerLabels, Inner, Grammar!Expectations

\* Expected is the reading of the stack.
LEMMA ExpectedIsRead ==
  ASSUME NEW top, NEW st, NEW n, Framed(top, st, n), NEW e,
         e = IF top = "ERROR" THEN <<"failed">>
             ELSE IF top \in ContainerLabels
             THEN [i \in 1 .. n + 1 |-> IF i <= n THEN Own(st[i - 1]) ELSE Own(top)]
             ELSE [i \in 1 .. n |-> IF i < n THEN Own(st[i - 1]) ELSE Before(st[i - 1])]
  PROVE  ReadAs(top, st, n, e)
<1>1. n \in Nat /\ (n > 0 => st[0] = "start.ret") /\ \A i \in 1 .. n - 1 : st[i] \in Inner
  BY DEF Framed
<1>2. \A i \in 1 .. n : st[i - 1] \in Inner \cup {"start.ret"}
  <2> SUFFICES ASSUME NEW i \in 1 .. n PROVE st[i - 1] \in Inner \cup {"start.ret"}
    OBVIOUS
  <2>1. CASE i = 1
    BY <1>1, <2>1
  <2>2. CASE i # 1
    <3>1. i - 1 \in 1 .. n - 1
      BY <1>1, <2>2
    <3> QED BY <1>1, <3>1
  <2> QED BY <2>1, <2>2
<1>3. \A i \in 1 .. n : /\ Own(st[i - 1]) \in Grammar!Expectations
                        /\ Before(st[i - 1]) \in Grammar!Expectations
  BY <1>2, Expectable
<1>4. CASE top = "ERROR"
  <2>1. e = <<"failed">> /\ "failed" \in Grammar!Expectations
    BY <1>4 DEF Grammar!Expectations
  <2>2. Depth(top, n) = 1 /\ Inmost(top, st, n) = "failed"
    BY <1>4 DEF Depth, Inmost
  <2>3. e \in Seq(Grammar!Expectations) /\ Len(e) = 1 /\ e[1] = "failed"
    BY <2>1, OneIsSeq
  <2>4. 1 \in Nat \ {0} /\ \A i \in 1 .. 1 - 1 : e[i] = Own(st[i - 1])
    OBVIOUS
  <2> QED BY <2>2, <2>3, <2>4 DEF ReadAs
<1>5. CASE top # "ERROR" /\ top \in ContainerLabels
  <2>1. e = [i \in 1 .. n + 1 |-> IF i <= n THEN Own(st[i - 1]) ELSE Own(top)]
    BY <1>5
  <2>2. Own(top) \in Grammar!Expectations
    BY <1>5, Expectable
  <2>3. e \in [1 .. n + 1 -> Grammar!Expectations]
    <3>1. \A i \in 1 .. n + 1 : i <= n => i \in 1 .. n
      BY <1>1
    <3>2. \A i \in 1 .. n + 1 :
            (IF i <= n THEN Own(st[i - 1]) ELSE Own(top)) \in Grammar!Expectations
      BY <1>3, <2>2, <3>1
    <3> QED BY <2>1, <3>2
  <2>4. e \in Seq(Grammar!Expectations) /\ Len(e) = n + 1
    BY <1>1, <2>3, FunctionIsSeq
  <2>5. Depth(top, n) = n + 1 /\ Inmost(top, st, n) = Own(top)
    BY <1>5 DEF Depth, Inmost
  <2>6. (\A i \in 1 .. n : e[i] = Own(st[i - 1])) /\ e[n + 1] = Own(top)
    BY <1>1, <2>1
  <2> QED BY <1>1, <2>4, <2>5, <2>6 DEF ReadAs
<1>6. CASE top # "ERROR" /\ top \notin ContainerLabels
  <2>1. e = [i \in 1 .. n |-> IF i < n THEN Own(st[i - 1]) ELSE Before(st[i - 1])]
    BY <1>6
  <2>2. n > 0
    BY <1>1, <1>6, ScanningFacts DEF Framed
  <2>3. e \in [1 .. n -> Grammar!Expectations]
    BY <1>1, <1>3, <2>1
  <2>4. e \in Seq(Grammar!Expectations) /\ Len(e) = n
    BY <1>1, <2>3, FunctionIsSeq
  <2>5. Depth(top, n) = n /\ Inmost(top, st, n) = Before(st[n - 1])
    BY <1>6 DEF Depth, Inmost
  <2>6. (\A i \in 1 .. n - 1 : e[i] = Own(st[i - 1])) /\ e[n] = Before(st[n - 1])
    <3>1. \A i \in 1 .. n - 1 : i \in 1 .. n /\ i < n
      BY <1>1
    <3>2. n \in 1 .. n /\ ~(n < n)
      BY <1>1, <2>2
    <3> QED BY <2>1, <3>1, <3>2
  <2> QED BY <1>1, <2>2, <2>4, <2>5, <2>6 DEF ReadAs
<1> QED BY <1>4, <1>5, <1>6

\* What the parser expects is read off its stack.
LEMMA ExpectedReads ==
  ASSUME IInv
  PROVE  /\ Framed(Top, stack, stack_current)
         /\ ReadAs(Top, stack, stack_current, Expected)
<1>1. Framed(Top, stack, stack_current)
  BY DEF IInv, TypeOK, Frames, Framed
<1> QED BY <1>1, ExpectedIsRead DEF Expected

\* The same behind a step.
LEMMA ExpectedReadsNext ==
  ASSUME IInv'
  PROVE  /\ Framed(Top', stack', stack_current')
         /\ ReadAs(Top', stack', stack_current', Expected')
<1>1. Framed(Top', stack', stack_current')
  <2>1. stack_size' \in Nat /\ stack_current' \in 0 .. stack_size' - 1 /\ Frames'
    BY DEF IInv, TypeOK
  <2>2. stack_current' \in Nat
    BY <2>1
  <2> QED BY <2>1, <2>2 DEF Frames, Framed
<1> QED BY <1>1, ExpectedIsRead DEF Expected

-----------------------------------------------------------------------------
(* How two readings compare. *)

\* Two stacks that are read alike.
LEMMA SameRead ==
  ASSUME NEW top, NEW st, NEW n, NEW e, ReadAs(top, st, n, e),
         NEW top2, NEW st2, NEW n2, NEW f, ReadAs(top2, st2, n2, f),
         Depth(top2, n2) = Depth(top, n), Inmost(top2, st2, n2) = Inmost(top, st, n),
         \A i \in 1 .. Depth(top, n) - 1 : st2[i - 1] = st[i - 1]
  PROVE  f = e
<1> DEFINE d == Depth(top, n)
<1>1. /\ d \in Nat \ {0}
      /\ e \in Seq(Grammar!Expectations) /\ Len(e) = d
      /\ f \in Seq(Grammar!Expectations) /\ Len(f) = d
      /\ \A i \in 1 .. d - 1 : e[i] = f[i]
      /\ e[d] = f[d]
  BY DEF ReadAs
<1> HIDE DEF d
<1>2. \A i \in 1 .. d : e[i] = f[i]
  BY <1>1
<1> QED BY <1>1, <1>2, SeqEqual

\* Two that differ in what the innermost container expects.
LEMMA TakenRead ==
  ASSUME NEW top, NEW st, NEW n, NEW e, ReadAs(top, st, n, e),
         NEW top2, NEW st2, NEW n2, NEW f, ReadAs(top2, st2, n2, f),
         Depth(top2, n2) = Depth(top, n),
         \A i \in 1 .. Depth(top, n) - 1 : st2[i - 1] = st[i - 1]
  PROVE  f = [e EXCEPT ![Len(e)] = Inmost(top2, st2, n2)]
<1> DEFINE d == Depth(top, n)
           x == Inmost(top2, st2, n2)
           g == [e EXCEPT ![d] = x]
<1>1. /\ d \in Nat \ {0}
      /\ e \in Seq(Grammar!Expectations) /\ Len(e) = d
      /\ f \in Seq(Grammar!Expectations) /\ Len(f) = d
      /\ \A i \in 1 .. d - 1 : e[i] = f[i]
      /\ f[d] = x
  BY DEF ReadAs
<1> HIDE DEF d, x
<1>2. d \in 1 .. Len(e) /\ d \in 1 .. Len(f)
  BY <1>1
<1>3. x \in Grammar!Expectations
  BY <1>1, <1>2, LenProperties
<1>4. /\ g \in Seq(Grammar!Expectations) /\ Len(g) = d
      /\ \A j \in 1 .. d : g[j] = IF j = d THEN x ELSE e[j]
  BY <1>1, <1>2, <1>3, ExceptSeq
<1> HIDE DEF g
<1>5. \A j \in 1 .. d : f[j] = g[j]
  BY <1>1, <1>4
<1>6. f = g
  BY <1>1, <1>4, <1>5, SeqEqual
<1> QED BY <1>1, <1>6 DEF g, x

\* One with a container more.
LEMMA AppendRead ==
  ASSUME NEW top, NEW st, NEW n, NEW e, ReadAs(top, st, n, e),
         NEW top2, NEW st2, NEW n2, NEW f, ReadAs(top2, st2, n2, f),
         Depth(top2, n2) = Depth(top, n) + 1,
         \A i \in 1 .. Depth(top, n) - 1 : st2[i - 1] = st[i - 1]
  PROVE  f = Append([e EXCEPT ![Len(e)] = Own(st2[Depth(top, n) - 1])], Inmost(top2, st2, n2))
<1> DEFINE d == Depth(top, n)
           x == Own(st2[d - 1])
           y == Inmost(top2, st2, n2)
           g == [e EXCEPT ![d] = x]
           h == Append(g, y)
<1>1. /\ d \in Nat \ {0}
      /\ e \in Seq(Grammar!Expectations) /\ Len(e) = d
      /\ f \in Seq(Grammar!Expectations) /\ Len(f) = d + 1
      /\ \A i \in 1 .. d - 1 : e[i] = Own(st[i - 1])
      /\ \A i \in 1 .. d + 1 - 1 : f[i] = Own(st2[i - 1])
      /\ f[d + 1] = y
  BY DEF ReadAs
<1> HIDE DEF d, y
<1>2. /\ d \in 1 .. d + 1 - 1 /\ d \in 1 .. Len(e) /\ d \in 1 .. Len(f) /\ d + 1 \in 1 .. Len(f)
      /\ \A i \in 1 .. d - 1 : i \in 1 .. d + 1 - 1
  BY <1>1
<1>3. f[d] = x /\ \A i \in 1 .. d - 1 : f[i] = e[i]
  BY <1>1, <1>2 DEF d
<1> HIDE DEF x
<1>4. x \in Grammar!Expectations /\ y \in Grammar!Expectations
  BY <1>1, <1>2, <1>3, LenProperties
<1>5. /\ g \in Seq(Grammar!Expectations) /\ Len(g) = d
      /\ \A j \in 1 .. d : g[j] = IF j = d THEN x ELSE e[j]
  BY <1>1, <1>2, <1>4, ExceptSeq
<1> HIDE DEF g
<1>6. /\ h \in Seq(Grammar!Expectations) /\ Len(h) = d + 1
      /\ \A j \in 1 .. d : h[j] = g[j]
      /\ h[d + 1] = y
  BY <1>4, <1>5, AppendProperties
<1> HIDE DEF h
<1>7. \A j \in 1 .. d + 1 : f[j] = h[j]
  BY <1>1, <1>3, <1>5, <1>6
<1>8. f = h
  BY <1>1, <1>6, <1>7, SeqEqual
<1> QED BY <1>1, <1>8 DEF h, g, x, y, d

\* One with a container less.
LEMMA DropRead ==
  ASSUME NEW top, NEW st, NEW n, NEW e, ReadAs(top, st, n, e),
         NEW top2, NEW st2, NEW n2, NEW f, ReadAs(top2, st2, n2, f),
         Depth(top, n) = Depth(top2, n2) + 1,
         Inmost(top2, st2, n2) = Own(st[Depth(top2, n2) - 1]),
         \A i \in 1 .. Depth(top2, n2) - 1 : st2[i - 1] = st[i - 1]
  PROVE  f = SubSeq(e, 1, Len(e) - 1)
<1> DEFINE d == Depth(top2, n2)
           g == SubSeq(e, 1, d)
<1>1. /\ d \in Nat \ {0}
      /\ e \in Seq(Grammar!Expectations) /\ Len(e) = d + 1
      /\ f \in Seq(Grammar!Expectations) /\ Len(f) = d
      /\ \A i \in 1 .. d + 1 - 1 : e[i] = Own(st[i - 1])
      /\ \A i \in 1 .. d - 1 : f[i] = Own(st[i - 1])
      /\ f[d] = Own(st[d - 1])
  BY DEF ReadAs
<1> HIDE DEF d
<1>2. \A i \in 1 .. d : /\ i \in 1 .. d + 1 - 1 /\ i \in 1 .. Len(e)
                        /\ i = d \/ i \in 1 .. d - 1
  BY <1>1
<1>3. \A i \in 1 .. d : f[i] = e[i]
  BY <1>1, <1>2
<1>4. \A i \in 1 .. d : e[i] \in Grammar!Expectations
  BY <1>1, <1>2, LenProperties
<1>5. /\ g \in Seq(Grammar!Expectations) /\ Len(g) = d
      /\ \A i \in 1 .. d : g[i] = e[i]
  <2>1. d \in Int /\ 1 \in Int /\ 1 <= d /\ d - 1 + 1 = d /\ \A i \in 1 .. d : 1 + i - 1 = i
    BY <1>1
  <2> QED BY <1>4, <2>1, SubSeqProperties
<1> HIDE DEF g
<1>6. f = g
  BY <1>1, <1>3, <1>5, SeqEqual
<1>7. Len(e) - 1 = d
  BY <1>1
<1> QED BY <1>6, <1>7 DEF g

-----------------------------------------------------------------------------
(* The steps of the grammar. *)

\* A key is scanned by the string scanner, and the document's frame is behind
\* its value once the value is complete.
Trailing == {"start.ret", "start.trail"}
KeyInv ==
  /\ stack_current > 0 /\ Top \in Scanning /\ stack[stack_current - 1] = "obj.key"
       => Top \in StringLabels
  /\ stack_current = 0 /\ Top \in Trailing => stack[0] \in Trailing

GrammarStep == Grammar!GrammarNext \/ UNCHANGED <<Expected, tok>>

\* A call that goes on is no step of the grammar, and one that returns is.
GrammarRun ==
  \/ pc' # "idle" /\ UNCHANGED <<Expected, tok>>
  \/ pc' = "idle" /\ Grammar!GrammarNext

\* The stack of a parser.
LEMMA StackFacts ==
  ASSUME IInv
  PROVE  /\ stack_current \in Nat
         /\ stack_current \in 0 .. stack_size - 1
         /\ \A i \in 0 .. stack_current - 1 : i \in 0 .. stack_size - 1
         /\ stack \in [0 .. stack_size - 1 -> Labels \cup {"uninit"}]
<1>1. /\ stack_size \in Nat /\ stack_current \in 0 .. stack_size - 1
      /\ stack \in [0 .. stack_size - 1 -> Labels \cup {"uninit"}]
  BY DEF IInv, TypeOK
<1>2. stack_current \in Nat /\ \A i \in 0 .. stack_current - 1 : i \in 0 .. stack_size - 1
  BY <1>1
<1> QED BY <1>1, <1>2

\* Where a value or key is resumed at once it is complete.
LEMMA ReturnFacts ==
  ASSUME NEW top, NEW st, NEW n, Framed(top, st, n), n > 0
  PROVE  /\ n - 1 \in Nat /\ n - 1 \in 0 .. n - 1
         /\ st[n - 1] \in Inner \cup {"start.ret"}
<1>1. n \in Nat /\ st[0] = "start.ret" /\ \A i \in 1 .. n - 1 : st[i] \in Inner
  BY DEF Framed
<1>2. n - 1 \in Nat /\ n - 1 \in 0 .. n - 1 /\ (n - 1 = 0 \/ n - 1 \in 1 .. n - 1)
  BY <1>1
<1> QED BY <1>1, <1>2

\* An error.
LEMMA ErrsStep ==
  ASSUME IInv, Errs
  PROVE  GrammarRun /\ KeyInv'
<1>1. PICK e : Fail(e)
  BY DEF Errs
<1>2. Top' = "ERROR" /\ tok' = "ERROR" /\ pc' = "idle"
  BY <1>1, StackFacts DEF Fail, Answer, Top
<1>3. Expected' = <<"failed">>
  BY <1>2 DEF Expected
<1>4. "ERROR" \notin Scanning \cup Trailing
  BY DEF Scanning, Trailing
<1> QED BY <1>2, <1>3, <1>4 DEF GrammarRun, Grammar!GrammarNext, Grammar!Fail, KeyInv

\* A scanner goes on.
LEMMA ScansStep ==
  ASSUME IInv, IInv', KeyInv, Scans, pc \in Labels \ {"ERROR"}
  PROVE  GrammarRun /\ KeyInv'
<1>1. PICK l \in Labels : Advance(l) /\ Kin(pc, l)
  BY DEF Scans
<1>2. /\ Top = pc /\ Top' = l /\ pc' # "idle"
      /\ stack' = stack /\ stack_current' = stack_current /\ tok' = tok
  BY <1>1, LabelFacts DEF Advance, stackVars, Top
<1>3. (pc \in ContainerLabels /\ l \in ContainerLabels) \/ (pc \in Scanning /\ l \in Scanning)
  BY <1>1 DEF Kin, Scanning
<1>4. Scanning \cap (ContainerLabels \cup {"ERROR"}) = {} /\ "ERROR" \notin ContainerLabels
  BY DEF Scanning, ContainerLabels
<1>5. /\ Depth(Top', stack_current') = Depth(Top, stack_current)
      /\ Inmost(Top', stack', stack_current') = Inmost(Top, stack, stack_current)
  BY <1>1, <1>2, <1>3, <1>4 DEF Depth, Inmost, Kin
<1>6. Expected' = Expected
  BY <1>2, <1>5, ExpectedReads, ExpectedReadsNext, SameRead
<1>7. KeyInv'
  <2>1. l \in Scanning => pc \in Scanning /\ (pc \in StringLabels => l \in StringLabels)
    BY <1>1, <1>3, <1>4 DEF Kin
  <2>2. l \in Trailing => pc \in Trailing
    <3>1. \A k \in ContainerLabels : Own(k) = "end" <=> k \in Trailing
      BY OwnFacts DEF ContainerLabels, Trailing
    <3>2. Trailing \subseteq ContainerLabels
      BY DEF ContainerLabels, Trailing
    <3> QED BY <1>1, <1>3, <1>4, <3>1, <3>2 DEF Kin
  <2> QED BY <1>2, <2>1, <2>2 DEF KeyInv
<1> QED BY <1>2, <1>6, <1>7 DEF GrammarRun

\* A container recurses into the scanner of what it expects.
LEMMA EntersStep ==
  ASSUME IInv, IInv', Enters, pc \in Labels \ {"ERROR"}
  PROVE  GrammarRun /\ KeyInv'
<1>1. PICK return \in Inner \cup {"start.ret"} :
        /\ Own(pc) = Before(return)
        /\ Recurse(IF return = "obj.key" THEN "STRING" ELSE "VALUE", return)
  BY DEF Enters
<1> DEFINE enter == IF return = "obj.key" THEN "STRING" ELSE "VALUE"
           full == stack_current + 1 = stack_size
           newsize == IF full THEN stack_size + STACK_SIZE ELSE stack_size
<1>2. CASE RaiseError("MEMORY")
  BY <1>2, RaiseErrs, ErrsStep
<1>3. CASE ~RaiseError("MEMORY")
  <2>1. /\ stack' = [i \in 0 .. newsize - 1 |->
                       IF i = stack_current THEN return
                       ELSE IF i < stack_size THEN stack[i] ELSE "uninit"]
        /\ stack_current' = stack_current + 1
        /\ pc' = enter
        /\ tok' = tok
    BY <1>1, <1>3 DEF Recurse
  <2>2. stack_size \in Nat /\ stack_current \in 0 .. stack_size - 1 /\ newsize \in Nat /\ newsize >= stack_size
    <3>1. stack_size \in Nat /\ stack_current \in 0 .. stack_size - 1
      BY DEF IInv, TypeOK
    <3> QED BY <3>1, MemoryAssumption
  <2> HIDE DEF newsize
  <2>3. /\ stack'[stack_current] = return
        /\ \A i \in 1 .. stack_current + 1 - 1 : stack'[i - 1] = stack[i - 1]
    <3>1. stack_current \in 0 .. newsize - 1
      BY <2>2
    <3>2. \A i \in 1 .. stack_current + 1 - 1 :
            i - 1 \in 0 .. newsize - 1 /\ i - 1 # stack_current /\ i - 1 < stack_size
      BY <2>2
    <3> QED BY <2>1, <3>1, <3>2
  <2>4. enter \in Scanning /\ enter # "idle" /\ (enter = "VALUE" \/ enter \in StringLabels)
    BY ScanningFacts, LabelFacts DEF StringLabels, Scanning
  <2>5. Top = pc /\ Top' = enter /\ pc' # "idle"
    BY <2>1, <2>4, LabelFacts DEF Top
  <2> HIDE DEF enter
  <2>6. pc \in ContainerLabels /\ enter \notin ContainerLabels \cup {"ERROR"} /\ pc # "ERROR"
    BY <2>4 DEF Enters, Scanning
  <2>7. stack_current' - 1 = stack_current /\ stack_current + 1 > 0
    BY <2>1, <2>2
  <2>8. /\ Depth(Top, stack_current) = stack_current + 1
        /\ Depth(Top', stack_current') = stack_current + 1
        /\ Inmost(Top, stack, stack_current) = Own(pc)
        /\ Inmost(Top', stack', stack_current') = Before(return)
    <3>1. Depth(Top, stack_current) = stack_current + 1 /\ Inmost(Top, stack, stack_current) = Own(pc)
      BY <2>5, <2>6 DEF Depth, Inmost
    <3>2. Depth(Top', stack_current') = stack_current + 1
      BY <2>1, <2>5, <2>6 DEF Depth
    <3>3. Inmost(Top', stack', stack_current') = Before(stack'[stack_current' - 1])
      BY <2>5, <2>6 DEF Inmost
    <3> QED BY <2>3, <2>7, <3>1, <3>2, <3>3
  <2>9. Expected' = Expected
    <3>1. \A i \in 1 .. Depth(Top, stack_current) - 1 : stack'[i - 1] = stack[i - 1]
      <4>1. Depth(Top, stack_current) - 1 = stack_current + 1 - 1
        BY <2>2, <2>8
      <4> QED BY <2>3, <4>1
    <3>2. /\ Depth(Top', stack_current') = Depth(Top, stack_current)
          /\ Inmost(Top', stack', stack_current') = Inmost(Top, stack, stack_current)
      BY <1>1, <2>8
    <3> QED BY <3>1, <3>2, ExpectedReads, ExpectedReadsNext, SameRead
  <2>10. KeyInv'
    <3>1. return = "obj.key" => enter \in StringLabels
      BY ScanningFacts DEF enter, StringLabels
    <3>2. stack_current' # 0
      BY <2>1, <2>2
    <3> QED BY <2>3, <2>5, <2>7, <3>1, <3>2 DEF KeyInv
  <2> QED BY <2>1, <2>5, <2>9, <2>10 DEF GrammarRun
<1> QED BY <1>2, <1>3

\* The chunk is used up.
LEMMA NeedDataStep ==
  ASSUME IInv, IInv', KeyInv, NeedData
  PROVE  GrammarRun /\ KeyInv'
<1>1. /\ pc \in Labels \ {"ERROR"} /\ Top = pc
      /\ stack' = [stack EXCEPT ![stack_current] = pc]
      /\ stack_current' = stack_current
      /\ pc' = "idle" /\ tok' = "NEED_DATA"
  <2>1. pc \in NeedLabels \cup MayLabels
    BY DEF NeedData
  <2>2. pc \in Labels \ {"ERROR"} /\ pc # "idle"
    BY <2>1, LabelFacts DEF Checked, JumpLabels
  <2> QED BY <2>2 DEF NeedData, Answer, Top
<1>2. Top' = Top
  BY <1>1, StackFacts DEF Top
<1>3. \A i \in 0 .. stack_current - 1 : stack'[i] = stack[i]
  <2>1. \A i \in 0 .. stack_current - 1 : i # stack_current /\ i \in 0 .. stack_size - 1
    BY StackFacts
  <2> QED BY <1>1, <2>1, StackFacts
<1>4. Framed(Top, stack, stack_current) /\ ReadAs(Top, stack, stack_current, Expected)
  BY ExpectedReads
<1>5. Inmost(Top', stack', stack_current') = Inmost(Top, stack, stack_current)
  <2>1. CASE Top \in ContainerLabels
    BY <1>2, <2>1 DEF Inmost
  <2>2. CASE Top \notin ContainerLabels
    <3>1. stack_current > 0
      BY <1>1, <1>4, <2>2, ScanningFacts, StackFacts DEF Framed
    <3>2. stack'[stack_current - 1] = stack[stack_current - 1]
      BY <1>3, <1>4, <3>1, ReturnFacts
    <3> QED BY <1>1, <1>2, <2>2, <3>2 DEF Inmost
  <2> QED BY <2>1, <2>2
<1>6. /\ Depth(Top', stack_current') = Depth(Top, stack_current)
      /\ \A i \in 1 .. Depth(Top, stack_current) - 1 : stack'[i - 1] = stack[i - 1]
  <2>1. Depth(Top', stack_current') = Depth(Top, stack_current)
    BY <1>1, <1>2
  <2>2. Depth(Top, stack_current) \in {1, stack_current, stack_current + 1}
    BY DEF Depth
  <2>3. \A i \in 1 .. Depth(Top, stack_current) - 1 : i - 1 \in 0 .. stack_current - 1
    BY <2>2, StackFacts
  <2> QED BY <1>3, <2>1, <2>3
<1>7. Expected' = Expected
  BY <1>4, <1>5, <1>6, ExpectedReadsNext, SameRead
<1>8. Grammar!Innermost # "failed"
  <2>1. Grammar!Innermost = Inmost(Top, stack, stack_current)
    BY <1>4 DEF Grammar!Innermost, ReadAs
  <2>2. CASE Top \in ContainerLabels
    BY <1>1, <2>1, <2>2, Expectable DEF Inmost
  <2>3. CASE Top \notin ContainerLabels
    <3>1. stack_current > 0
      BY <1>1, <1>4, <2>3, ScanningFacts, StackFacts DEF Framed
    <3>2. stack[stack_current - 1] \in Inner \cup {"start.ret"}
      BY <1>4, <3>1, ReturnFacts
    <3> QED BY <1>1, <2>1, <2>3, <3>2, Expectable DEF Inmost
  <2> QED BY <2>2, <2>3
<1>9. KeyInv'
  <2>1. stack_current > 0 => stack'[stack_current - 1] = stack[stack_current - 1]
    BY <1>3, <1>4, ReturnFacts
  <2>2. stack_current' = 0 /\ Top' \in Trailing => stack'[0] \in Trailing
    BY <1>1, <1>2, StackFacts
  <2> QED BY <1>1, <1>2, <2>1, <2>2 DEF KeyInv
<1> QED BY <1>1, <1>7, <1>8, <1>9 DEF GrammarRun, Grammar!GrammarNext, Grammar!Wait

\* A value, a key or a container is complete.
LEMMA ClosesStep ==
  ASSUME IInv, IInv', KeyInv, Closes, pc \in Labels \ {"ERROR"}
  PROVE  GrammarRun /\ KeyInv'
<1>1. PICK t, v : Gives(pc, t) /\ Pop(t, v)
  BY DEF Closes
<1>2. CASE stack_current = 0
  BY <1>1, <1>2, ErrsStep DEF Pop, Errs
<1>3. CASE stack_current # 0
  <2> DEFINE return == stack[stack_current - 1]
  <2>1. /\ tok' = t /\ pc' = "idle"
        /\ stack' = stack /\ stack_current' = stack_current - 1
        /\ Top = pc
    BY <1>1, <1>3, LabelFacts DEF Pop, Answer, Top
  <2>2. Top' = return
    BY <2>1 DEF Top
  <2>3. /\ Framed(Top, stack, stack_current)
        /\ ReadAs(Top, stack, stack_current, Expected)
        /\ ReadAs(Top', stack', stack_current', Expected')
    BY ExpectedReads, ExpectedReadsNext
  <2>4. /\ return \in Inner \cup {"start.ret"}
        /\ return \in ContainerLabels
    <3>1. stack_current > 0
      BY <1>3, StackFacts
    <3> QED BY <2>3, <3>1, ReturnFacts, Expectable
  <2> HIDE DEF return
  <2>5. Scanning \cap ContainerLabels = {} /\ "ERROR" \notin ContainerLabels \cup Scanning
    BY DEF Scanning, ContainerLabels
  <2>6. stack_current \in Nat /\ stack_current - 1 + 1 = stack_current
    BY StackFacts
  <2>7. /\ Depth(Top', stack_current') = stack_current - 1 + 1
        /\ Inmost(Top', stack', stack_current') = Own(return)
    BY <2>1, <2>2, <2>4, <2>5 DEF Depth, Inmost
  <2>8. /\ Expected[Len(Expected)] = Inmost(Top, stack, stack_current)
    BY <2>3 DEF ReadAs
  <2>9. KeyInv'
    <3>1. Top' \notin Scanning
      BY <2>2, <2>4, <2>5
    <3>2. stack_current' = 0 => Top' = stack'[0]
      BY <2>1 DEF Top
    <3> QED BY <3>1, <3>2 DEF KeyInv
  <2>10. CASE pc \in Scanning
    <3>1. /\ Depth(Top, stack_current) = stack_current
          /\ Inmost(Top, stack, stack_current) = Before(return)
      BY <2>1, <2>5, <2>10 DEF Depth, Inmost, return
    <3>2. Depth(Top', stack_current') = Depth(Top, stack_current)
      BY <2>6, <2>7, <3>1
    <3>3. Expected' = [Expected EXCEPT ![Len(Expected)] = Own(return)]
      BY <2>1, <2>3, <2>7, <3>2, TakenRead
    <3>4. /\ t \in {"NULL", "BOOLEAN", "NUMBER", "INTEGER", "STRING"}
          /\ pc \in StringLabels => t = "STRING"
      <4>1. pc \notin {"arr.close", "obj.close"}
        BY <2>5, <2>10 DEF ContainerLabels
      <4> QED BY <1>1, <4>1 DEF Gives
    <3>5. CASE return = "obj.key"
      <4>1. stack_current > 0
        BY <1>3, <2>6
      <4>2. t = "STRING"
        BY <2>1, <2>10, <3>4, <3>5, <4>1 DEF KeyInv, return
      <4>3. Grammar!Key
        BY <2>1, <2>8, <3>1, <3>3, <3>5, <4>2, OwnFacts, BeforeFacts DEF Grammar!Key, Grammar!Innermost
      <4> QED BY <2>1, <2>9, <4>3 DEF GrammarRun, Grammar!GrammarNext
    <3>6. CASE return # "obj.key"
      <4>1. /\ Before(return) \in {"doc", "array", "val"}
            /\ Grammar!AfterValue(Before(return)) = Own(return)
        BY <2>4, <3>6, OwnFacts, BeforeFacts DEF Inner, Grammar!AfterValue
      <4>2. Grammar!Taken = [Expected EXCEPT ![Len(Expected)] = Own(return)]
        BY <2>8, <3>1, <4>1 DEF Grammar!Taken
      <4>3. Grammar!Scalar
        BY <2>1, <2>8, <3>1, <3>3, <3>4, <4>1, <4>2
        DEF Grammar!Scalar, Grammar!ExpectsValue, Grammar!Innermost, Grammar!Scalars
      <4> QED BY <2>1, <2>9, <4>3 DEF GrammarRun, Grammar!GrammarNext
    <3> QED BY <3>5, <3>6
  <2>11. CASE pc \notin Scanning
    <3>1. \/ pc = "arr.close" /\ t = "END_ARRAY" /\ Own(pc) = "array"
          \/ pc = "obj.close" /\ t = "END_OBJECT" /\ Own(pc) = "key"
      BY <1>1, <2>11, OwnFacts DEF Gives
    <3>2. pc \in ContainerLabels /\ pc # "ERROR"
      BY <2>5, <3>1 DEF ContainerLabels
    <3>3. /\ Depth(Top, stack_current) = Depth(Top', stack_current') + 1
          /\ Inmost(Top, stack, stack_current) = Own(pc)
      BY <2>1, <2>6, <2>7, <3>2 DEF Depth, Inmost
    <3>4. Inmost(Top', stack', stack_current') = Own(stack[Depth(Top', stack_current') - 1])
      <4>1. Depth(Top', stack_current') - 1 = stack_current - 1
        BY <2>6, <2>7
      <4> QED BY <2>7, <4>1 DEF return
    <3>5. Expected' = SubSeq(Expected, 1, Len(Expected) - 1)
      BY <2>1, <2>3, <3>3, <3>4, DropRead
    <3>6. Grammar!End("END_ARRAY", "array") \/ Grammar!End("END_OBJECT", "key")
      BY <2>1, <2>8, <3>1, <3>3, <3>5 DEF Grammar!End, Grammar!Innermost
    <3> QED BY <2>1, <2>9, <3>6 DEF GrammarRun, Grammar!GrammarNext
  <2> QED BY <2>10, <2>11
<1> QED BY <1>2, <1>3

\* A container begins.
LEMMA OpensStep ==
  ASSUME IInv, IInv', KeyInv, Opens
  PROVE  GrammarRun /\ KeyInv'
<1> DEFINE return == stack[stack_current - 1]
<1>1. PICK t, l : /\ Emit(t, l)
                  /\ \/ t = "BEGIN_ARRAY" /\ l = "arr.emit"
                     \/ t = "BEGIN_OBJECT" /\ l = "obj.emit"
  BY DEF Opens
<1>2. /\ pc = "VALUE" /\ Top = "VALUE"
      /\ tok' = t /\ pc' = "idle"
      /\ stack' = [stack EXCEPT ![stack_current] = l] /\ stack_current' = stack_current
  BY <1>1 DEF Opens, Emit, Answer, Top
<1>3. Top' = l
  BY <1>2, StackFacts DEF Top
<1>4. /\ "VALUE" \in Scanning \ StringLabels
      /\ "VALUE" \notin ContainerLabels \cup {"ERROR"} \cup Doc
      /\ l \in ContainerLabels /\ l # "ERROR" /\ l \notin Scanning \cup Trailing
  BY <1>1, ScanningFacts DEF Scanning, ContainerLabels, Doc, Trailing
<1>5. /\ Framed(Top, stack, stack_current)
      /\ ReadAs(Top, stack, stack_current, Expected)
      /\ ReadAs(Top', stack', stack_current', Expected')
  BY ExpectedReads, ExpectedReadsNext
<1>6. stack_current > 0
  BY <1>2, <1>4, <1>5, StackFacts DEF Framed
<1>7. return \in Inner \cup {"start.ret"} /\ return # "obj.key"
  BY <1>2, <1>4, <1>5, <1>6, ReturnFacts DEF KeyInv
<1>8. \A i \in 1 .. stack_current : stack'[i - 1] = stack[i - 1]
  <2>1. \A i \in 1 .. stack_current : i - 1 \in 0 .. stack_size - 1 /\ i - 1 # stack_current
    BY StackFacts
  <2> QED BY <1>2, <2>1, StackFacts
<1>9. /\ Depth(Top, stack_current) = stack_current
      /\ Inmost(Top, stack, stack_current) = Before(return)
      /\ Depth(Top', stack_current') = stack_current + 1
      /\ Inmost(Top', stack', stack_current') = Own(l)
  BY <1>2, <1>3, <1>4 DEF Depth, Inmost
<1>10. stack'[stack_current - 1] = return
  BY <1>6, <1>8, StackFacts
<1> HIDE DEF return
<1>11. Expected' = Append([Expected EXCEPT ![Len(Expected)] = Own(return)], Own(l))
  <2>1. \A i \in 1 .. Depth(Top, stack_current) - 1 : stack'[i - 1] = stack[i - 1]
    <3>1. \A i \in 1 .. stack_current - 1 : i \in 1 .. stack_current
      BY StackFacts
    <3> QED BY <1>8, <1>9, <3>1
  <2>2. Depth(Top', stack_current') = Depth(Top, stack_current) + 1
    BY <1>9
  <2>3. Expected' = Append([Expected EXCEPT ![Len(Expected)] =
                              Own(stack'[Depth(Top, stack_current) - 1])],
                           Inmost(Top', stack', stack_current'))
    BY <1>5, <2>1, <2>2, AppendRead
  <2> QED BY <1>9, <1>10, <2>3
<1>12. /\ Before(return) \in {"doc", "array", "val"}
       /\ Grammar!AfterValue(Before(return)) = Own(return)
  BY <1>7, OwnFacts, BeforeFacts DEF Inner, Grammar!AfterValue
<1>13. Expected[Len(Expected)] = Before(return)
  BY <1>5, <1>9 DEF ReadAs
<1>14. Grammar!Taken = [Expected EXCEPT ![Len(Expected)] = Own(return)]
  BY <1>12, <1>13 DEF Grammar!Taken
<1>15. Grammar!Begin("BEGIN_ARRAY", "array") \/ Grammar!Begin("BEGIN_OBJECT", "key")
  BY <1>1, <1>2, <1>11, <1>12, <1>13, <1>14, OwnFacts
  DEF Grammar!Begin, Grammar!ExpectsValue, Grammar!Innermost
<1>16. KeyInv'
  BY <1>3, <1>4 DEF KeyInv
<1> QED BY <1>2, <1>15, <1>16 DEF GrammarRun, Grammar!GrammarNext

\* A reading of one container.
LEMMA OneRead ==
  ASSUME NEW top, NEW st, NEW n, NEW e, ReadAs(top, st, n, e), Depth(top, n) = 1
  PROVE  e = <<Inmost(top, st, n)>>
<1> DEFINE x == Inmost(top, st, n)
<1>1. e \in Seq(Grammar!Expectations) /\ Len(e) = 1 /\ e[1] = x
  BY DEF ReadAs
<1> HIDE DEF x
<1>2. x \in Grammar!Expectations
  BY <1>1, LenProperties
<1>3. \A i \in 1 .. 1 : e[i] = <<x>>[i]
  BY <1>1
<1>4. e = <<x>>
  BY <1>1, <1>2, <1>3, OneIsSeq, SeqEqual
<1> QED BY <1>4 DEF x

\* The document is complete.
LEMMA FinishesStep ==
  ASSUME IInv, IInv', KeyInv, Finishes
  PROVE  GrammarRun /\ KeyInv'
<1>1. /\ pc \in Trailing /\ Top = pc
      /\ tok' = "END" /\ pc' = "idle" /\ stack' = stack /\ stack_current' = stack_current
  BY DEF Finishes, Done, Answer, stackVars, Top, Trailing
<1>2. /\ Framed(Top, stack, stack_current)
      /\ ReadAs(Top, stack, stack_current, Expected)
      /\ ReadAs(Top', stack', stack_current', Expected')
  BY ExpectedReads, ExpectedReadsNext
<1>3. /\ Trailing \subseteq Doc /\ Trailing \subseteq ContainerLabels
      /\ "ERROR" \notin Trailing /\ \A l \in Trailing : Own(l) = "end"
  BY OwnFacts DEF Trailing, Doc, ContainerLabels
<1>4. stack_current = 0
  BY <1>1, <1>2, <1>3, StackFacts DEF Framed
<1>5. Top' = stack[0] /\ stack[0] \in Trailing
  BY <1>1, <1>4 DEF Top, KeyInv
<1>6. /\ Depth(Top, stack_current) = 1 /\ Inmost(Top, stack, stack_current) = "end"
      /\ Depth(Top', stack_current') = 1 /\ Inmost(Top', stack', stack_current') = "end"
  BY <1>1, <1>3, <1>4, <1>5 DEF Depth, Inmost
<1>7. Expected = <<"end">> /\ Expected' = <<"end">>
  BY <1>2, <1>6, OneRead
<1>8. KeyInv'
  BY <1>1, <1>4, <1>5 DEF KeyInv
<1> QED BY <1>1, <1>7, <1>8 DEF GrammarRun, Grammar!GrammarNext, Grammar!Finish

\* Every step behind the dispatch is a step of the grammar, or none.
LEMMA RunStep ==
  ASSUME IInv, IInv', KeyInv, Run
  PROVE  GrammarRun /\ KeyInv'
<1>1. Moves /\ Shapes
  BY RunMoves, RunShapes
<1>2. CASE Fails
  BY <1>2, ErrsStep DEF Fails, Errs
<1>3. CASE ~Fails
  <2>1. pc \in Labels \ {"ERROR"}
    BY <1>1, <1>3, LabelFacts
    DEF Moves, Goes, Calls, Returns, Emits, Concludes, NeedData, Running, Checked, JumpLabels
  <2> QED
    BY <1>1, <2>1, ScansStep, EntersStep, ErrsStep, ClosesStep, OpensStep, FinishesStep, NeedDataStep
    DEF Shapes
<1> QED BY <1>2, <1>3

\* The dispatch, and calls that leave the stack alone.
LEMMA SamePlace ==
  ASSUME KeyInv, Top' = Top, UNCHANGED stackVars
  PROVE  Expected' = Expected /\ KeyInv'
<1>1. stack' = stack /\ stack_current' = stack_current
  BY DEF stackVars
<1>2. Expected' = Expected
  BY <1>1 DEF Expected
<1>3. KeyInv'
  BY <1>1 DEF KeyInv
<1> QED BY <1>2, <1>3

\* ajson_reset().
LEMMA ResetStep ==
  ASSUME IInv, IInv', Reset
  PROVE  GrammarStep /\ KeyInv'
<1>1. /\ stack' = [stack EXCEPT ![0] = "START"] /\ stack_current' = 0
      /\ pc' = "idle" /\ tok' = "RESET"
  BY DEF Reset
<1>2. 0 \in 0 .. stack_size - 1
  <2>1. stack_size \in Nat /\ stack_current \in 0 .. stack_size - 1
    BY DEF IInv, TypeOK
  <2> QED BY <2>1
<1>3. Top' = "START"
  BY <1>1, <1>2, StackFacts DEF Top
<1>4. "START" \in ContainerLabels /\ "START" \notin Scanning \cup Trailing
  BY DEF ContainerLabels, Scanning, Trailing
<1>5. Depth(Top', stack_current') = 1 /\ Inmost(Top', stack', stack_current') = "doc"
  BY <1>1, <1>3, <1>4, OwnFacts DEF Depth, Inmost
<1>6. Expected' = <<"doc">>
  BY <1>5, ExpectedReadsNext, OneRead
<1>7. KeyInv'
  BY <1>3, <1>4 DEF KeyInv
<1> QED BY <1>1, <1>6, <1>7 DEF GrammarStep, Grammar!GrammarNext, Grammar!Restart

\* A parser that was just made expects a document.
LEMMA InitGrammar ==
  ASSUME Init
  PROVE  Grammar!GrammarInit /\ KeyInv
<1>1. /\ Top = "START" /\ stack_current = 0 /\ tok = "INIT"
  BY MemoryAssumption DEF Init, Top
<1>2. "START" \in ContainerLabels /\ "START" \notin Scanning \cup Trailing
  BY DEF ContainerLabels, Scanning, Trailing
<1>3. Depth(Top, stack_current) = 1 /\ Inmost(Top, stack, stack_current) = "doc"
  BY <1>1, <1>2, OwnFacts DEF Depth, Inmost
<1>4. Expected = <<"doc">>
  BY <1>3, InitIInv, ExpectedReads, OneRead
<1>5. KeyInv
  BY <1>1, <1>2 DEF KeyInv
<1> QED BY <1>1, <1>4, <1>5 DEF Grammar!GrammarInit

\* Every step of the parser is a step of the grammar, or none.
LEMMA StepGrammar ==
  ASSUME IInv, IInv', KeyInv, [Next]_vars
  PROVE  GrammarStep /\ KeyInv'
<1>1. CASE Run
  BY <1>1, RunStep DEF GrammarRun, GrammarStep
<1>2. CASE NextToken
  <2>1. Top' = Top /\ UNCHANGED <<stackVars, tok>>
    BY <1>2 DEF NextToken, Top, stackVars
  <2> QED BY <2>1, SamePlace DEF GrammarStep
<1>3. CASE Reset
  BY <1>3, ResetStep
<1>4. ASSUME NEW chunk \in Chunks, Feed(chunk) PROVE GrammarStep /\ KeyInv'
  <2>1. Top' = Top /\ UNCHANGED stackVars /\ tok' \in {"FED", "ENOBUFS"}
    BY <1>4 DEF Feed, Top, stackVars
  <2> QED BY <2>1, SamePlace DEF GrammarStep, Grammar!GrammarNext, Grammar!Feed
<1>5. CASE UNCHANGED vars
  <2>1. Top' = Top /\ UNCHANGED <<stackVars, tok>>
    BY <1>5 DEF vars, Top, stackVars
  <2> QED BY <2>1, SamePlace DEF GrammarStep
<1> QED BY <1>1, <1>2, <1>3, <1>4, <1>5 DEF Next

-----------------------------------------------------------------------------
(* The theorem. *)

\* The answers of the parser are the tokens of nested values: what TokenGrammar
\* allows, read off the stack, for all sizes of the stack and of the buffer, all
\* chunks, all orders of the calls, and whatever realloc answers.
THEOREM GrammarIsImplemented == Spec => ImplementsGrammar
<1>1. Init => Grammar!GrammarInit /\ KeyInv
  BY InitGrammar
<1>2. IInv /\ IInv' /\ KeyInv /\ [Next]_vars => GrammarStep /\ KeyInv'
  BY StepGrammar
<1>3. GrammarStep <=> [Grammar!GrammarNext]_<<Expected, tok>>
  BY DEF GrammarStep
<1> QED
  BY <1>1, <1>2, <1>3, Invariance, PTL DEF Spec, ImplementsGrammar, Grammar!GrammarSpec

-----------------------------------------------------------------------------
(* What is answered, and what an answer finds in the union. *)

\* The member that is live when an answer is returned.
Suits(t, v) ==
  /\ t = "ERROR" => v[1] = "error"
  /\ t = "STRING" => v[1] = "string"
  /\ t = "BOOLEAN" => v[1] = "boolean"
  /\ t = "INTEGER" => v[1] = "integer"
  /\ t = "NUMBER" => v[1] = IF "NUMBER_AS_STRING" \in flags THEN "string" ELSE NumberMember
Suited == pc = "idle" => Suits(tok, value)

\* Numerals are kept as text if and only if that was asked for.
Numerals ==
  /\ Top \in TextLabels => "NUMBER_AS_STRING" \in flags
  /\ Top \in NumberLabels => "NUMBER_AS_STRING" \notin flags

\* The answers of ajson_next_token().
Replies ==
  {"NEED_DATA", "NULL", "BOOLEAN", "NUMBER", "INTEGER", "STRING", "BEGIN_ARRAY",
   "END_ARRAY", "BEGIN_OBJECT", "END_OBJECT", "END", "ERROR"}

\* What the callback parser needs to know of a step of a call.
Replied ==
  /\ Numerals'
  /\ Suited'
  /\ pc' = "idle" => tok' \in Replies /\ (tok' # "ERROR" => Top' # "ERROR")
  /\ pc' # "idle" => tok' = tok
  /\ input' = input /\ Position' >= Position
  /\ Top = "ERROR" => Top' = "ERROR"

\* Numerals have labels of their own.
LEMMA NumeralFacts ==
  /\ NumeralLabels = NumberLabels \cup TextLabels
  /\ NumeralLabels \cap (ContainerLabels \cup {"ERROR", "VALUE", "STRING", "START", "idle"}) = {}
BY DEF NumeralLabels, NumberLabels, TextLabels, ContainerLabels

\* An error is answered.
LEMMA ErrsReplied ==
  ASSUME IInv, Errs, pc # "idle"
  PROVE  Replied
<1>1. PICK e : Fail(e)
  BY DEF Errs
<1>2. /\ Top' = "ERROR" /\ tok' = "ERROR" /\ pc' = "idle" /\ value' = <<"error", e>>
      /\ input' = input /\ input_current' = index
  BY <1>1, StackFacts DEF Fail, Answer, Top
<1>3. index \in Nat
  BY DEF IInv, TypeOK
<1>4. Position' >= Position
  BY <1>2, <1>3 DEF Position
<1>5. Numerals'
  BY <1>2, NumeralFacts DEF Numerals
<1>6. Suited'
  <2>1. value'[1] = "error"
    BY <1>2
  <2> QED BY <1>2, <2>1 DEF Suited, Suits
<1> QED BY <1>2, <1>4, <1>5, <1>6 DEF Replied, Replies

\* Any other answer that is returned at once: the position is taken over.
LEMMA AnswerReplied ==
  ASSUME IInv, pc \in Labels \ {"ERROR"}, NEW t \in Replies \ {"ERROR"}, Answer(t),
         Suits(t, value'), flags' = flags,
         Top' \in ContainerLabels \/ Top' = pc, Numerals
  PROVE  Replied
<1>1. /\ pc' = "idle" /\ tok' = t /\ input' = input /\ input_current' = index
      /\ Top = pc /\ pc # "idle"
  BY LabelFacts DEF Answer, Top
<1>2. index \in Nat
  BY DEF IInv, TypeOK
<1>3. Position' >= Position
  BY <1>1, <1>2 DEF Position
<1>4. Top' # "ERROR" /\ Top # "ERROR"
  BY <1>1, ScanningFacts
<1>5. Numerals'
  BY <1>1, NumeralFacts DEF Numerals
<1>6. Suited'
  BY <1>1 DEF Suited, Suits, NumberMember
<1> QED BY <1>1, <1>3, <1>4, <1>5, <1>6 DEF Replied

\* A call goes on.
LEMMA OnReplied ==
  ASSUME IInv, pc \in Labels \ {"ERROR"}, pc' \in Labels \ {"ERROR"},
         input' = input, index' \in {index, index + 1}, tok' = tok, Numerals'
  PROVE  Replied
<1>1. pc # "idle" /\ pc' # "idle" /\ Top = pc
  BY LabelFacts DEF Top
<1>2. index \in Nat
  BY DEF IInv, TypeOK
<1>3. Position' >= Position
  BY <1>1, <1>2 DEF Position
<1> QED BY <1>1, <1>3 DEF Replied, Suited

\* The steps of a call.
LEMMA RunReplied ==
  ASSUME IInv, IInv', KeyInv, Numerals, Run
  PROVE  Replied
<1>1. Moves /\ Shapes /\ flags' = flags
  BY RunMoves, RunShapes DEF Run, configVars
<1>2. CASE Fails
  BY <1>2, ErrsReplied, LabelFacts DEF Fails, Errs
<1>3. CASE ~Fails
  <2>1. pc \in Labels \ {"ERROR"}
    BY <1>1, <1>3, LabelFacts
    DEF Moves, Goes, Calls, Returns, Emits, Concludes, NeedData, Running, Checked, JumpLabels
  <2>2. Top = pc /\ pc # "idle"
    BY <2>1, LabelFacts DEF Top
  <2>3. CASE Scans
    <3>1. PICK l \in Labels : Advance(l) /\ Kin(pc, l)
      BY <2>3 DEF Scans
    <3>2. pc' = l /\ l # "idle" /\ Top' = l /\ index' = index + 1 /\ input' = input /\ tok' = tok
      BY <3>1, LabelFacts DEF Advance, inputVars, Top
    <3>3. l # "ERROR"
      BY <3>1, <2>1, ScanningFacts DEF Kin, Scanning
    <3>4. Numerals'
      BY <1>1, <2>2, <3>1, <3>2 DEF Kin, Numerals
    <3> QED BY <2>1, <3>2, <3>3, <3>4, OnReplied
  <2>4. CASE Enters
    <3>1. PICK enter \in {"VALUE", "STRING"}, return \in Inner \cup {"start.ret"} :
            Recurse(enter, return)
      BY <2>4 DEF Enters
    <3>2. CASE RaiseError("MEMORY")
      BY <2>2, <3>2, RaiseErrs, ErrsReplied
    <3>3. CASE ~RaiseError("MEMORY")
      <4>1. pc' = enter /\ index' = index /\ input' = input /\ tok' = tok
        BY <3>1, <3>3 DEF Recurse, inputVars
      <4>2. enter \in Labels \ {"ERROR"} /\ enter # "idle" /\ enter \notin NumeralLabels
        BY LabelFacts, NumeralFacts
      <4>3. Numerals'
        BY <4>1, <4>2, NumeralFacts DEF Numerals, Top
      <4> QED BY <2>1, <4>1, <4>2, <4>3, OnReplied
    <3> QED BY <3>2, <3>3
  <2>5. CASE Errs
    BY <2>2, <2>5, ErrsReplied
  <2>6. CASE Closes
    <3>1. PICK t, v : Gives(pc, t) /\ Holds(pc, t, v) /\ Pop(t, v)
      BY <2>6 DEF Closes
    <3>2. CASE stack_current = 0
      BY <2>2, <3>1, <3>2, ErrsReplied DEF Pop, Errs
    <3>3. CASE stack_current # 0
      <4>1. /\ Answer(t) /\ value' = v
            /\ stack' = stack /\ stack_current' = stack_current - 1
        BY <3>1, <3>3 DEF Pop
      <4>2. t \in Replies \ {"ERROR", "NEED_DATA", "END"}
        BY <3>1 DEF Gives, Replies
      <4>3. Top' = stack[stack_current - 1]
        BY <4>1 DEF Answer, Top
      <4>4. Framed(Top, stack, stack_current)
        BY ExpectedReads
      <4>5. stack_current > 0
        BY <3>3, StackFacts
      <4>6. Top' \in ContainerLabels
        BY <4>3, <4>4, <4>5, ReturnFacts, Expectable
      <4>7. Suits(t, v)
        <5>1. t = "NUMBER" => v[1] = IF "NUMBER_AS_STRING" \in flags THEN "string" ELSE NumberMember
          BY <2>2, <3>1 DEF Holds, Numerals
        <5> QED BY <3>1, <4>2, <5>1 DEF Holds, Suits
      <4> QED BY <1>1, <2>1, <4>1, <4>2, <4>6, <4>7, AnswerReplied
    <3> QED BY <3>2, <3>3
  <2>7. CASE Opens
    <3>1. PICK t \in {"BEGIN_ARRAY", "BEGIN_OBJECT"}, l \in {"arr.emit", "obj.emit"} : Emit(t, l)
      BY <2>7 DEF Opens
    <3>2. Answer(t) /\ stack' = [stack EXCEPT ![stack_current] = l] /\ stack_current' = stack_current
      BY <3>1 DEF Emit
    <3>3. Top' = l
      BY <3>2, StackFacts DEF Answer, Top
    <3>4. l \in ContainerLabels /\ t \in Replies \ {"ERROR"} /\ Suits(t, value')
      BY DEF ContainerLabels, Replies, Suits
    <3> QED BY <1>1, <2>1, <3>2, <3>3, <3>4, AnswerReplied
  <2>8. CASE Finishes
    <3>1. Answer("END") /\ stack' = stack /\ stack_current' = stack_current /\ pc \in Trailing
      BY <2>8 DEF Finishes, Done, stackVars, Trailing
    <3>2. Framed(Top, stack, stack_current)
      BY ExpectedReads
    <3>3. stack_current = 0
      BY <2>2, <3>1, <3>2, StackFacts DEF Framed, Trailing, Doc
    <3>4. Top' \in Trailing
      BY <2>2, <3>1, <3>3 DEF Answer, Top, KeyInv
    <3>5. Trailing \subseteq ContainerLabels /\ "END" \in Replies \ {"ERROR"} /\ Suits("END", value')
      BY DEF Trailing, ContainerLabels, Replies, Suits
    <3> QED BY <1>1, <2>1, <3>1, <3>4, <3>5, AnswerReplied
  <2>9. CASE NeedData
    <3>1. /\ Answer("NEED_DATA")
          /\ stack' = [stack EXCEPT ![stack_current] = pc] /\ stack_current' = stack_current
      BY <2>9 DEF NeedData
    <3>2. Top' = pc
      BY <3>1, StackFacts DEF Answer, Top
    <3>3. "NEED_DATA" \in Replies \ {"ERROR"} /\ Suits("NEED_DATA", value')
      BY DEF Replies, Suits
    <3> QED BY <1>1, <2>1, <3>1, <3>2, <3>3, AnswerReplied
  <2> QED BY <1>1, <2>3, <2>4, <2>5, <2>6, <2>7, <2>8, <2>9 DEF Shapes
<1> QED BY <1>2, <1>3

\* The parser of a program that does nothing, or dispatches.
LEMMA ParserStays ==
  ASSUME IInv, KeyInv, Numerals, Suited, UNCHANGED vars
  PROVE  /\ IInv' /\ KeyInv' /\ Numerals' /\ Suited'
         /\ Top' = Top /\ Position' = Position /\ Size' = Size
<1>1. IInv'
  BY StepIInv
<1>2. KeyInv'
  BY <1>1, StepGrammar
<1>3. Numerals' /\ Suited' /\ Top' = Top /\ Position' = Position /\ Size' = Size
  BY DEF vars, configVars, inputVars, stackVars, bufferVars, Numerals, Suited, Suits, NumberMember,
         Top, Position, Size
<1> QED BY <1>1, <1>2, <1>3

\* A chunk that is fed is taken, or bytes of the last one are left.
LEMMA FeedStays ==
  ASSUME IInv, KeyInv, Numerals, NEW chunk \in Seq(Byte), Feed(chunk)
  PROVE  /\ IInv' /\ KeyInv' /\ Numerals' /\ Suited'
         /\ pc' = "idle" /\ Top' = Top
         /\ tok' = "ENOBUFS" => ~(Position >= Size) /\ Position' = Position /\ Size' = Size
<1>1. IInv'
  BY FeedIInv
<1>2. /\ pc = "idle" /\ pc' = pc /\ UNCHANGED <<configVars, stackVars>>
      /\ tok' = "ENOBUFS" => input_current < Size /\ UNCHANGED inputVars
      /\ tok' \in {"ENOBUFS", "FED"}
  BY DEF Feed
<1>3. Top' = Top
  BY <1>2 DEF Top, stackVars
<1>4. KeyInv'
  BY <1>2, <1>3, SamePlace
<1>5. Numerals' /\ Suited'
  BY <1>2, <1>3 DEF Numerals, Suited, Suits, configVars
<1>6. ASSUME tok' = "ENOBUFS"
      PROVE  ~(Position >= Size) /\ Position' = Position /\ Size' = Size
  <2>1. Position = input_current /\ Position' = Position /\ Size' = Size
    BY <1>2, <1>6 DEF Position, Size, inputVars
  <2>2. input_current \in Nat /\ Size \in Nat
    BY LenProperties DEF IInv, TypeOK, Size
  <2> QED BY <1>2, <1>6, <2>1, <2>2
<1> QED BY <1>1, <1>2, <1>3, <1>4, <1>5, <1>6
-----------------------------------------------------------------------------
(***************************************************************************)
(* What the parser hands out as a string ajson_decode_utf8() decodes to    *)
(* its end.  First, what is known of well formed bytes: a sequence may be  *)
(* put behind them, and what follows their first sequence is well formed;  *)
(* then that the string scanner only ever puts sequences behind what it    *)
(* has, and that every other step leaves a string alone.                   *)
(***************************************************************************)

-----------------------------------------------------------------------------
(* Well formed bytes. *)

\* What is decoded is the sequence at the start, whatever follows it.
LEMMA DecodedStart ==
  ASSUME NEW x \in Seq(Byte), x # <<>>, DecodedCount(x) > 0
  PROVE  /\ DecodedCount(x) \in 1 .. 4 /\ DecodedCount(x) <= Len(x)
         /\ \A y \in Seq(Byte) :
              (Len(y) >= DecodedCount(x) /\ \A k \in 1 .. DecodedCount(x) : y[k] = x[k])
                => y # <<>> /\ DecodedCount(y) = DecodedCount(x)
<1> DEFINE n == SequenceLength(x[1])
<1>1. x[1] \in Byte /\ Len(x) \in Nat /\ Len(x) >= 1
  OBVIOUS
<1>2. n \in 0 .. 4
  BY <1>1 DEF SequenceLength, Byte
<1>3. /\ DecodedCount(x) = n /\ n # 0 /\ Len(x) >= n
      /\ n >= 2 => x[2] \in SecondUnits(x[1])
      /\ n >= 3 => x[3] \in Continuation
      /\ n = 4 => x[4] \in Continuation
  BY <1>1, <1>2 DEF DecodedCount
<1>4. ASSUME NEW y \in Seq(Byte), Len(y) >= n, \A k \in 1 .. n : y[k] = x[k]
      PROVE  y # <<>> /\ DecodedCount(y) = n
  <2>1. /\ y[1] = x[1] /\ Len(y) \in Nat
        /\ n >= 2 => y[2] = x[2]
        /\ n >= 3 => y[3] = x[3]
        /\ n = 4 => y[4] = x[4]
    BY <1>2, <1>3, <1>4
  <2>2. y # <<>>
    BY <1>2, <1>3, <1>4
  <2> QED BY <1>2, <1>3, <1>4, <2>1, <2>2 DEF DecodedCount
<1>5. DecodedCount(x) \in 1 .. 4 /\ DecodedCount(x) <= Len(x)
  BY <1>2, <1>3
<1> HIDE DEF n
<1> QED BY <1>3, <1>4, <1>5

\* The end of a sequence of bytes.
LEMMA EndOf ==
  ASSUME NEW b \in Seq(Byte), NEW i \in 0 .. Len(b)
  PROVE  /\ SubSeq(b, i + 1, Len(b)) \in Seq(Byte)
         /\ Len(SubSeq(b, i + 1, Len(b))) = Len(b) - i
         /\ \A k \in 1 .. Len(b) - i : SubSeq(b, i + 1, Len(b))[k] = b[i + k]
OBVIOUS

\* No bytes are well formed.
LEMMA EmptyIsWellFormed == WellFormed(<<>>)
<1>1. {0} \in SUBSET (0 .. Len(<<>>)) /\ {0, Len(<<>>)} \subseteq {0} /\ {0} \ {Len(<<>>)} = {}
  OBVIOUS
<1> QED BY <1>1, Zenon DEF WellFormed

\* A sequence may be put behind well formed bytes.
LEMMA WellFormedAppend ==
  ASSUME NEW b \in Seq(Byte), WellFormed(b),
         NEW s \in Seq(Byte), s # <<>>, DecodedCount(s) = Len(s)
  PROVE  WellFormed(b \o s)
<1> DEFINE c == b \o s
<1>1. PICK cuts \in SUBSET (0 .. Len(b)) :
        /\ {0, Len(b)} \subseteq cuts
        /\ \A i \in cuts \ {Len(b)} :
             DecodedCount(SubSeq(b, i + 1, Len(b))) \in {n \in 1 .. 4 : i + n \in cuts}
  BY Zenon DEF WellFormed
<1>2. /\ c \in Seq(Byte) /\ Len(c) = Len(b) + Len(s)
      /\ Len(b) \in Nat /\ Len(s) \in Nat /\ Len(s) > 0
      /\ \A k \in 1 .. Len(b) : c[k] = b[k]
      /\ \A k \in 1 .. Len(s) : c[Len(b) + k] = s[k]
  BY ConcatProperties, LenProperties, EmptySeq
<1> DEFINE all == cuts \cup {Len(c)}
<1> HIDE DEF c
<1>3. all \in SUBSET (0 .. Len(c)) /\ {0, Len(c)} \subseteq all
  <2>1. cuts \subseteq 0 .. Len(b) /\ 0 \in cuts
    BY <1>1
  <2>2. 0 .. Len(b) \subseteq 0 .. Len(c) /\ Len(c) \in 0 .. Len(c)
    BY <1>2
  <2> QED BY <2>1, <2>2
<1>4. ASSUME NEW i \in all \ {Len(c)}
      PROVE  DecodedCount(SubSeq(c, i + 1, Len(c))) \in {n \in 1 .. 4 : i + n \in all}
  <2> DEFINE y == SubSeq(c, i + 1, Len(c))
  <2>1. i \in cuts /\ i \in 0 .. Len(b) /\ i \in 0 .. Len(c)
    BY <1>1, <1>2, <1>4
  <2>2. /\ y \in Seq(Byte) /\ Len(y) = Len(c) - i
        /\ \A k \in 1 .. Len(c) - i : y[k] = c[i + k]
    BY <1>2, <2>1, EndOf
  <2>3. CASE i = Len(b)
    <3>1. Len(y) = Len(s) /\ \A k \in 1 .. Len(s) : y[k] = s[k]
      BY <1>2, <2>2, <2>3
    <3>2. Len(s) \in 1 .. 4 /\ DecodedCount(y) = Len(s)
      <4> HIDE DEF y
      <4> QED BY <1>2, <2>2, <3>1, DecodedStart
    <3>3. i + Len(s) \in all
      BY <1>2, <2>3
    <3> QED BY <3>2, <3>3
  <2>4. CASE i # Len(b)
    <3> DEFINE x == SubSeq(b, i + 1, Len(b))
               m == DecodedCount(x)
    <3>1. m \in 1 .. 4 /\ i + m \in cuts
      BY <1>1, <2>1, <2>4
    <3>2. /\ x \in Seq(Byte) /\ Len(x) = Len(b) - i
          /\ \A k \in 1 .. Len(b) - i : x[k] = b[i + k]
      BY <2>1, EndOf
    <3> HIDE DEF x
    <3>3. x # <<>>
      <4>1. Len(x) # 0
        BY <1>2, <2>1, <2>4, <3>2
      <4> QED BY <4>1, EmptySeq
    <3>4. m <= Len(x)
      BY <3>1, <3>2, <3>3, DecodedStart
    <3>5. Len(y) >= m /\ \A k \in 1 .. m : y[k] = x[k]
      <4> HIDE DEF m, y
      <4>1. Len(y) >= m
        BY <1>2, <2>1, <2>2, <3>1, <3>2, <3>4
      <4>2. ASSUME NEW k \in 1 .. m PROVE y[k] = x[k]
        <5>1. k \in 1 .. Len(c) - i /\ k \in 1 .. Len(b) - i /\ i + k \in 1 .. Len(b)
          BY <1>2, <2>1, <2>2, <3>1, <3>2, <3>4
        <5> QED BY <1>2, <2>2, <3>2, <5>1
      <4> QED BY <4>1, <4>2
    <3>6. DecodedCount(y) = m
      <4> HIDE DEF y
      <4> QED BY <2>2, <3>1, <3>2, <3>3, <3>5, DecodedStart
    <3> QED BY <3>1, <3>6
  <2> QED BY <2>3, <2>4
<1> HIDE DEF all
<1>5. WellFormed(c)
  BY <1>3, <1>4, Zenon DEF WellFormed
<1> QED BY <1>5 DEF c

\* Well formed bytes start with a sequence, and what follows it is well formed.
LEMMA WellFormedRest ==
  ASSUME NEW b \in Seq(Byte), WellFormed(b), b # <<>>
  PROVE  /\ DecodedCount(b) \in 1 .. 4 /\ DecodedCount(b) <= Len(b)
         /\ WellFormed(SubSeq(b, DecodedCount(b) + 1, Len(b)))
<1>1. PICK cuts \in SUBSET (0 .. Len(b)) :
        /\ {0, Len(b)} \subseteq cuts
        /\ \A i \in cuts \ {Len(b)} :
             DecodedCount(SubSeq(b, i + 1, Len(b))) \in {n \in 1 .. 4 : i + n \in cuts}
  BY Zenon DEF WellFormed
<1>2. Len(b) \in Nat /\ Len(b) > 0
  OBVIOUS
<1> DEFINE m == DecodedCount(b)
           c == SubSeq(b, m + 1, Len(b))
           rest == {j \in 0 .. Len(b) - m : m + j \in cuts}
<1>3. m \in 1 .. 4 /\ m \in cuts
  <2>1. SubSeq(b, 0 + 1, Len(b)) = b
    OBVIOUS
  <2>2. 0 \in cuts \ {Len(b)}
    BY <1>1, <1>2
  <2>3. DecodedCount(SubSeq(b, 0 + 1, Len(b))) \in {n \in 1 .. 4 : 0 + n \in cuts}
    BY <1>1, <2>2
  <2>4. m \in {n \in 1 .. 4 : 0 + n \in cuts}
    BY <2>1, <2>3, Zenon
  <2> HIDE DEF m
  <2>5. m \in 1 .. 4 /\ 0 + m \in cuts
    BY <2>4
  <2> QED BY <2>5
<1>4. m \in 0 .. Len(b)
  BY <1>1, <1>3
<1> HIDE DEF m
<1>5. /\ c \in Seq(Byte) /\ Len(c) = Len(b) - m
      /\ \A k \in 1 .. Len(b) - m : c[k] = b[m + k]
  BY <1>4, EndOf
<1> HIDE DEF c
<1>6. rest \in SUBSET (0 .. Len(c)) /\ {0, Len(c)} \subseteq rest
  BY <1>1, <1>2, <1>3, <1>4, <1>5
<1>7. ASSUME NEW i \in rest \ {Len(c)}
      PROVE  DecodedCount(SubSeq(c, i + 1, Len(c))) \in {n \in 1 .. 4 : i + n \in rest}
  <2> DEFINE x == SubSeq(b, m + i + 1, Len(b))
             y == SubSeq(c, i + 1, Len(c))
             d == DecodedCount(x)
  <2>1. /\ i \in 0 .. Len(c) /\ i # Len(c)
        /\ m + i \in cuts \ {Len(b)} /\ m + i \in 0 .. Len(b)
    BY <1>1, <1>2, <1>4, <1>5, <1>7
  <2>2. d \in 1 .. 4 /\ m + i + d \in cuts /\ m + i + d \in 0 .. Len(b)
    <3>1. d \in {n \in 1 .. 4 : m + i + n \in cuts}
      BY <1>1, <2>1, Zenon
    <3> HIDE DEF d
    <3> QED BY <1>1, <3>1
  <2> HIDE DEF d
  <2>3. i + d \in rest
    <3>1. i + d \in 0 .. Len(b) - m /\ m + (i + d) = m + i + d
      BY <1>2, <1>4, <1>5, <2>1, <2>2
    <3> QED BY <2>2, <3>1
  <2>4. y = x
    <3>1. /\ x \in Seq(Byte) /\ Len(x) = Len(b) - (m + i)
          /\ \A k \in 1 .. Len(b) - (m + i) : x[k] = b[m + i + k]
      BY <2>1, EndOf
    <3>2. /\ y \in Seq(Byte) /\ Len(y) = Len(c) - i
          /\ \A k \in 1 .. Len(c) - i : y[k] = c[i + k]
      BY <1>5, <2>1, EndOf
    <3> HIDE DEF x, y
    <3>3. Len(x) = Len(y)
      BY <1>2, <1>4, <1>5, <2>1, <3>1, <3>2
    <3>4. \A k \in 1 .. Len(x) : x[k] = y[k]
      <4> SUFFICES ASSUME NEW k \in 1 .. Len(x) PROVE x[k] = y[k]
        OBVIOUS
      <4>1. /\ k \in 1 .. Len(b) - (m + i) /\ k \in 1 .. Len(c) - i
            /\ i + k \in 1 .. Len(b) - m /\ m + (i + k) = m + i + k
        BY <1>2, <1>4, <1>5, <2>1, <3>1, <3>2, <3>3
      <4> QED BY <1>5, <3>1, <3>2, <4>1
    <3> QED BY <3>1, <3>2, <3>3, <3>4, SeqEqual
  <2>5. DecodedCount(y) = d
    BY <2>4, Zenon DEF d
  <2>6. d \in {n \in 1 .. 4 : i + n \in rest}
    <3> HIDE DEF rest
    <3> QED BY <2>2, <2>3
  <2> QED BY <2>5, <2>6, Zenon DEF y
<1> HIDE DEF rest
<1>8. WellFormed(c)
  BY <1>6, <1>7, Zenon DEF WellFormed
<1>9. m <= Len(b)
  BY <1>2, <1>4
<1> QED BY <1>3, <1>8, <1>9 DEF m, c

-----------------------------------------------------------------------------
(* Sequences. *)

\* The sequences of one to four bytes that are decoded.
LEMMA SequencesDecoded ==
  ASSUME NEW s
  PROVE  /\ Len(s) = 1 /\ s[1] \in 0 .. 127 => DecodedCount(s) = 1
         /\ Len(s) = 2 /\ s[1] \in 194 .. 223 /\ s[2] \in Continuation => DecodedCount(s) = 2
         /\ Len(s) = 3 /\ s[1] \in 224 .. 239 /\ s[2] \in SecondUnits(s[1])
              /\ s[3] \in Continuation => DecodedCount(s) = 3
         /\ Len(s) = 4 /\ s[1] \in 240 .. 244 /\ s[2] \in SecondUnits(s[1])
              /\ s[3] \in Continuation /\ s[4] \in Continuation => DecodedCount(s) = 4
<1>1. CASE Len(s) = 1 /\ s[1] \in 0 .. 127
  BY <1>1 DEF DecodedCount, SequenceLength
<1>2. CASE Len(s) = 2 /\ s[1] \in 194 .. 223 /\ s[2] \in Continuation
  <2>1. SequenceLength(s[1]) = 2 /\ SecondUnits(s[1]) = Continuation
    BY <1>2 DEF SequenceLength, SecondUnits
  <2> QED BY <1>2, <2>1 DEF DecodedCount
<1>3. CASE Len(s) = 3 /\ s[1] \in 224 .. 239 /\ s[2] \in SecondUnits(s[1]) /\ s[3] \in Continuation
  <2>1. SequenceLength(s[1]) = 3
    BY <1>3 DEF SequenceLength
  <2> QED BY <1>3, <2>1 DEF DecodedCount
<1>4. CASE /\ Len(s) = 4 /\ s[1] \in 240 .. 244 /\ s[2] \in SecondUnits(s[1])
           /\ s[3] \in Continuation /\ s[4] \in Continuation
  <2>1. SequenceLength(s[1]) = 4
    BY <1>4 DEF SequenceLength
  <2> QED BY <1>4, <2>1 DEF DecodedCount
<1> QED BY <1>1, <1>2, <1>3, <1>4

\* What ajson_buffer_putcp() writes is decoded.
LEMMA Utf8Decoded ==
  ASSUME NEW cp \in Nat, cp <= MaxCodepoint
  PROVE  Utf8(cp) # <<>> /\ DecodedCount(Utf8(cp)) = Len(Utf8(cp))
<1>1. cp <= 1114111
  BY DEF MaxCodepoint
<1> DEFINE c1 == ((cp \div 1) % 64) + 128
           c2 == ((cp \div 64) % 64) + 128
           c3 == ((cp \div 4096) % 64) + 128
<1>2. /\ c1 \in Continuation /\ c2 \in Continuation /\ c3 \in Continuation
  BY SMT DEF Continuation
<1>3. CASE cp < 128
  <2>1. Utf8(cp) = <<cp>> /\ cp \in 0 .. 127
    BY <1>3 DEF Utf8
  <2>2. <<cp>> # <<>> /\ Len(<<cp>>) = 1 /\ DecodedCount(<<cp>>) = 1
    BY <2>1, SequencesDecoded
  <2> QED BY <2>1, <2>2
<1>4. CASE cp >= 128 /\ cp <= 2047
  <2> DEFINE a == (cp \div 64) + 192
  <2>1. Utf8(cp) = <<a, c1>>
    BY <1>4 DEF Utf8
  <2>2. a \in 194 .. 223
    BY <1>4
  <2> HIDE DEF a, c1, c2, c3
  <2>3. <<a, c1>> # <<>> /\ Len(<<a, c1>>) = 2 /\ <<a, c1>>[1] = a /\ <<a, c1>>[2] = c1
    OBVIOUS
  <2>4. DecodedCount(<<a, c1>>) = 2
    BY <1>2, <2>2, <2>3, SequencesDecoded
  <2> QED BY <2>1, <2>3, <2>4
<1>5. CASE cp > 2047 /\ cp <= 65535
  <2> DEFINE a == (cp \div 4096) + 224
             s == <<a, c2, c1>>
  <2>1. Utf8(cp) = s
    BY <1>5 DEF Utf8
  <2>2. a \in 224 .. 239
    BY <1>5
  <2>3. a = 224 => c2 \in 160 .. 191
    BY <1>5
  <2>4. c2 \in SecondUnits(a)
    <3> HIDE DEF a, c1, c2, c3
    <3> QED BY <1>2, <2>2, <2>3 DEF SecondUnits
  <2> HIDE DEF a, c1, c2, c3
  <2>5. s # <<>> /\ Len(s) = 3
    OBVIOUS
  <2>6. DecodedCount(s) = 3
    <3>1. s[1] = a /\ s[2] = c2 /\ s[3] = c1
      OBVIOUS
    <3> HIDE DEF s
    <3>2. s[2] \in SecondUnits(s[1])
      BY <2>4, <3>1, Zenon
    <3>3. s[1] \in 224 .. 244 /\ s[3] \in Continuation
      BY <1>2, <2>2, <3>1
    <3> QED BY <1>2, <2>2, <2>5, <3>1, <3>2, <3>3, SequencesDecoded
  <2> QED BY <2>1, <2>5, <2>6
<1>6. CASE cp > 65535
  <2> DEFINE a == (cp \div 262144) + 240
             s == <<a, c3, c2, c1>>
  <2>1. Utf8(cp) = s
    BY <1>6 DEF Utf8
  <2>2. a \in 240 .. 244
    BY <1>1, <1>6
  <2>3. a = 240 => c3 \in 144 .. 191
    BY <1>6
  <2>4. a = 244 => c3 \in 128 .. 143
    BY <1>1, <1>6
  <2>5. c3 \in SecondUnits(a)
    <3> HIDE DEF a, c1, c2, c3
    <3> QED BY <1>2, <2>2, <2>3, <2>4 DEF SecondUnits
  <2> HIDE DEF a, c1, c2, c3
  <2>6. s # <<>> /\ Len(s) = 4
    OBVIOUS
  <2>7. DecodedCount(s) = 4
    <3>1. s[1] = a /\ s[2] = c3 /\ s[3] = c2 /\ s[4] = c1
      OBVIOUS
    <3> HIDE DEF s
    <3>2. s[2] \in SecondUnits(s[1])
      BY <2>5, <3>1, Zenon
    <3>3. s[1] \in 224 .. 244 /\ s[3] \in Continuation
      BY <1>2, <2>2, <3>1
    <3> QED BY <1>2, <2>2, <2>6, <3>1, <3>2, <3>3, SequencesDecoded
  <2> QED BY <2>1, <2>6, <2>7
<1> QED BY <1>3, <1>4, <1>5, <1>6

-----------------------------------------------------------------------------
(* The invariant of the string buffer. *)

\* The labels at which what is in the buffer is the string so far.
Inside == StringLabels \ {"STRING", "str.close"}

\* The bytes of a sequence that were read may start one.
Begun(label, held) ==
  /\ label = "u2.2" => held[1] \in 194 .. 223
  /\ label \in {"u3.2", "u3.3"} => held[1] \in 224 .. 239
  /\ label \in {"u4.2", "u4.3", "u4.4"} => held[1] \in 240 .. 244
  /\ label \in {"u3.3", "u4.3", "u4.4"} => held[2] \in SecondUnits(held[1])
  /\ label = "u4.4" => held[3] \in Continuation

\* The string so far is well formed, the zero byte behind it not counted.
TextInv ==
  /\ Top \in Inside => WellFormed(buffer)
  /\ Top = "str.close" => WellFormed(SubSeq(buffer, 1, Used - 1))
  /\ Begun(Top, Held)
  /\ StringsAreDecodable

\* Outside of a string nothing is asked.
LEMMA OutsideText ==
  ASSUME NEW l, l \notin StringLabels
  PROVE  l \notin Inside /\ l # "str.close" /\ \A held : Begun(l, held)
BY DEF Inside, StringLabels, Utf8Labels, Begun

\* Where no string is, and none was returned, there is nothing to show.
LEMMA OutsideKept ==
  ASSUME Top' \notin StringLabels, tok' # "STRING"
  PROVE  TextInv'
BY OutsideText DEF TextInv, StringsAreDecodable

\* The call goes on at a label.
LEMMA TextGoes ==
  ASSUME NEW l \in Labels, Advance(l),
         l \in Inside => WellFormed(buffer'),
         l = "str.close" => WellFormed(SubSeq(buffer', 1, Used' - 1)),
         Begun(l, value'[2])
  PROVE  TextInv'
<1>1. Top' = l /\ pc' # "idle" /\ Held' = value'[2]
  BY LabelFacts DEF Advance, Top, Held
<1> QED BY <1>1 DEF TextInv, StringsAreDecodable

\* An error ends the string.
LEMMA ErrsText ==
  ASSUME IInv, Errs
  PROVE  TextInv'
<1>1. Top' = "ERROR" /\ tok' = "ERROR"
  BY StackFacts DEF Errs, Fail, Answer, Top
<1>2. "ERROR" \notin StringLabels
  BY ScanningFacts DEF Scanning
<1> QED BY <1>1, <1>2, OutsideKept

\* A sequence is put behind the string so far.
LEMMA StoreText ==
  ASSUME IInv, WellFormed(buffer), NEW bytes \in Seq(Byte), bytes # <<>>,
         DecodedCount(bytes) = Len(bytes), NEW newsize, NEW v,
         Store(buffer, bytes, newsize, Advance("str") /\ value' = v)
  PROVE  TextInv'
<1>1. CASE Fail("MEMORY")
  BY <1>1, ErrsText DEF Errs
<1>2. CASE buffer' = buffer \o bytes /\ Advance("str")
  <2>1. WellFormed(buffer')
    BY <1>2, WellFormedAppend DEF IInv, TypeOK
  <2>2. "str" \in Labels /\ Begun("str", value'[2])
    BY ScanningFacts DEF StringLabels, Scanning, Begun
  <2> QED BY <1>2, <2>1, <2>2, TextGoes
<1> QED BY <1>1, <1>2 DEF Store

\* A code point is.
LEMMA CodepointText ==
  ASSUME IInv, WellFormed(buffer), NEW cp \in Nat, NEW v,
         StoreCodepoint(cp, Advance("str") /\ value' = v)
  PROVE  TextInv'
<1>1. CASE cp <= MaxCodepoint
  <2>1. Store(buffer, Utf8(cp), SizeFor(Len(Utf8(cp))), Advance("str") /\ value' = v)
    BY <1>1 DEF StoreCodepoint
  <2> QED BY <1>1, <2>1, Utf8Bytes, Utf8Decoded, StoreText
<1>2. CASE ~(cp <= MaxCodepoint)
  BY <1>2, ErrsText DEF StoreCodepoint, RaiseError, Errs
<1> QED BY <1>1, <1>2

\* A plain byte is.
LEMMA PutText ==
  ASSUME IInv, WellFormed(buffer), NEW ch \in 0 .. 127, PutC(ch, "str")
  PROVE  TextInv'
<1>1. /\ <<ch>> \in Seq(Byte) /\ <<ch>> # <<>>
      /\ DecodedCount(<<ch>>) = Len(<<ch>>)
  <2>1. DecodedCount(<<ch>>) = 1
    BY SequencesDecoded
  <2> QED BY <2>1 DEF Byte
<1>2. \E n : Store(buffer, <<ch>>, n, Advance("str") /\ value' = value)
  BY DEF PutC, StoreByte
<1> QED BY <1>1, <1>2, StoreText

-----------------------------------------------------------------------------
(* The steps of the string scanner. *)

\* A byte of a string outside of escapes and sequences.
LEMMA StringByteText ==
  ASSUME IInv, TextInv, StringByte
  PROVE  TextInv'
<1>1. At("str") /\ pc = "str" /\ "str" \in Labels \ {"ERROR"} /\ "str" \in Inside
  BY ScanningFacts DEF StringByte, At, Inside, StringLabels, Scanning
<1>2. Running /\ Top = "str" /\ WellFormed(buffer) /\ ~AtEof
  BY <1>1, AtFacts DEF TextInv, StringByte, At, JumpLabels, MayLabels, LiteralEnds, AtEof, Size, IInv, TypeOK
<1>3. PICK ch \in CurrCh :
        \/ Read("esc")
        \/ PutC(0, "str.close")
        \/ ch < 128 /\ PutC(ch, "str")
        \/ Utf8Lead(ch)
        \/ StoreCodepoint(ch, Advance("str") /\ UNCHANGED value)
  BY DEF StringByte
<1>4. ch \in Byte /\ ch \in Nat
  BY <1>2, CurrChFacts DEF Running, Byte
<1>5. CASE Read("esc")
  <2>1. "esc" \in Labels /\ Begun("esc", value'[2])
    BY ScanningFacts DEF StringLabels, Scanning, Begun
  <2>2. Advance("esc") /\ buffer' = buffer
    BY <1>5 DEF Read, bufferVars
  <2> QED BY <1>2, <2>1, <2>2, TextGoes
<1>6. CASE PutC(0, "str.close")
  <2>1. Errs \/ (buffer' = buffer \o <<0>> /\ Advance("str.close"))
    BY <1>6 DEF PutC, StoreByte, Store, Errs
  <2>2. CASE buffer' = buffer \o <<0>> /\ Advance("str.close")
    <3>1. SubSeq(buffer', 1, Used' - 1) = buffer
      <4>1. buffer \in Seq(Byte)
        BY DEF IInv, TypeOK
      <4> QED BY <2>2, <4>1 DEF Used
    <3>2. "str.close" \in Labels \ Inside /\ Begun("str.close", value'[2])
      BY ScanningFacts DEF StringLabels, Scanning, Inside, Begun
    <3> QED BY <1>2, <2>2, <3>1, <3>2, TextGoes
  <2> QED BY <2>1, <2>2, ErrsText
<1>7. CASE ch < 128 /\ PutC(ch, "str")
  <2>1. ch \in 0 .. 127
    BY <1>4, <1>7
  <2> QED BY <1>2, <1>7, <2>1, PutText
<1>8. CASE Utf8Lead(ch)
  <2>1. \/ RaiseError("ILLEGAL_UNICODE")
        \/ \E l \in {"u2.2", "u3.2", "u4.2"} :
             /\ Advance(l) /\ value' = Utf8Value(<<ch>>) /\ UNCHANGED bufferVars
             /\ l = "u2.2" => ch \in 194 .. 223
             /\ l = "u3.2" => ch \in 224 .. 239
             /\ l = "u4.2" => ch \in 240 .. 244
    BY <1>4, <1>8 DEF Utf8Lead
  <2>2. ASSUME NEW l \in {"u2.2", "u3.2", "u4.2"},
               Advance(l), value' = Utf8Value(<<ch>>), UNCHANGED bufferVars,
               l = "u2.2" => ch \in 194 .. 223,
               l = "u3.2" => ch \in 224 .. 239,
               l = "u4.2" => ch \in 240 .. 244
        PROVE  TextInv'
    <3>1. value'[2] = <<ch>> /\ <<ch>>[1] = ch
      BY <2>2 DEF Utf8Value
    <3>2. Begun(l, value'[2])
      BY <2>2, <3>1 DEF Begun
    <3>3. l \in Labels /\ l # "str.close" /\ buffer' = buffer
      BY <2>2, ScanningFacts DEF StringLabels, Utf8Labels, Scanning, bufferVars
    <3> QED BY <1>2, <2>2, <3>2, <3>3, TextGoes
  <2> QED BY <2>1, <2>2, RaiseErrs, ErrsText
<1>9. CASE StoreCodepoint(ch, Advance("str") /\ UNCHANGED value)
  <2>1. StoreCodepoint(ch, Advance("str") /\ value' = value)
    BY <1>9
  <2> QED BY <1>2, <1>4, <2>1, CodepointText
<1> QED BY <1>3, <1>5, <1>6, <1>7, <1>8, <1>9

\* A second byte that is accepted.
LEMMA AcceptedSecond ==
  ASSUME NEW lead \in Int, NEW ch \in 128 .. 191, lead = 224 => ch >= 160,
         lead = 240 => ch >= 144, lead = 244 => ch < 144
  PROVE  ch \in SecondUnits(lead)
BY DEF SecondUnits, Continuation

\* A byte of a sequence that is accepted.
LEMMA AcceptedByte ==
  ASSUME NEW held \in Seq(Byte), NEW label \in Utf8Labels, Begun(label, held), NEW ch \in Continuation,
         ~Utf8BadSecond(label, held[1], ch),
         label \in {"u2.2", "u3.2", "u4.2"} => Len(held) = 1,
         label \in {"u3.3", "u4.3"} => Len(held) = 2,
         label = "u4.4" => Len(held) = 3
  PROVE  /\ Append(held, ch) \in Seq(Byte) /\ Append(held, ch) # <<>>
         /\ Utf8Next(label) # "str" => Begun(Utf8Next(label), Append(held, ch))
         /\ Utf8Next(label) = "str" => DecodedCount(Append(held, ch)) = Len(Append(held, ch))
<1>0. PICK lead : lead = held[1]
  OBVIOUS
<1> DEFINE bytes == Append(held, ch)
<1>1. ch \in Byte /\ ch \in 128 .. 191
  BY DEF Continuation, Byte
<1>2. /\ bytes \in Seq(Byte) /\ Len(bytes) = Len(held) + 1 /\ Len(held) \in Nat
      /\ bytes[Len(held) + 1] = ch
      /\ \A i \in 1 .. Len(held) : bytes[i] = held[i]
  BY <1>1
<1>3. bytes # <<>>
  <2> HIDE DEF bytes
  <2> QED BY <1>2
<1> HIDE DEF bytes
<1>4. ASSUME label = "u2.2"
      PROVE  /\ Utf8Next(label) # "str" => Begun(Utf8Next(label), bytes)
             /\ Utf8Next(label) = "str" => DecodedCount(bytes) = Len(bytes)
  <2>1. lead \in 194 .. 223 /\ Len(held) = 1
    BY <1>0, <1>4 DEF Begun
  <2>2. bytes[1] = lead /\ bytes[2] = ch /\ Len(bytes) = 2
    BY <1>0, <1>2, <2>1
  <2>3. DecodedCount(bytes) = 2
    BY <2>1, <2>2, SequencesDecoded
  <2>4. Utf8Next(label) = "str"
    BY <1>4 DEF Utf8Next
  <2> QED BY <2>2, <2>3, <2>4
<1>5. ASSUME label = "u3.2"
      PROVE  /\ Utf8Next(label) # "str" => Begun(Utf8Next(label), bytes)
             /\ Utf8Next(label) = "str" => DecodedCount(bytes) = Len(bytes)
  <2>1. lead \in 224 .. 239 /\ Len(held) = 1
    BY <1>0, <1>5 DEF Begun
  <2>2. bytes[1] = lead /\ bytes[2] = ch
    BY <1>0, <1>2, <2>1
  <2>3. lead = 224 => ch >= 160
    BY <1>0, <1>1, <1>5 DEF Utf8BadSecond
  <2>4. ch \in SecondUnits(lead)
    <3>1. lead \in Int /\ ch \in 128 .. 191
      BY <1>1, <2>1
    <3>2. (lead = 224 => ch >= 160) /\ (lead = 240 => ch >= 144) /\ (lead = 244 => ch < 144)
      BY <2>1, <2>3
    <3> QED BY <3>1, <3>2, AcceptedSecond, Zenon
  <2>5. Utf8Next(label) = "u3.3"
    BY <1>5 DEF Utf8Next
  <2>6. Begun("u3.3", bytes)
    BY <2>1, <2>2, <2>4 DEF Begun
  <2> QED BY <1>2, <1>3, <2>5, <2>6
<1>6. ASSUME label = "u3.3"
      PROVE  /\ Utf8Next(label) # "str" => Begun(Utf8Next(label), bytes)
             /\ Utf8Next(label) = "str" => DecodedCount(bytes) = Len(bytes)
  <2>1. lead \in 224 .. 239 /\ held[2] \in SecondUnits(lead) /\ Len(held) = 2
    BY <1>0, <1>6 DEF Begun
  <2>2. bytes[1] = lead /\ bytes[2] = held[2] /\ bytes[3] = ch /\ Len(bytes) = 3
    BY <1>0, <1>2, <2>1
  <2>3. DecodedCount(bytes) = 3
    BY <2>1, <2>2, SequencesDecoded
  <2>4. Utf8Next(label) = "str"
    BY <1>6 DEF Utf8Next
  <2> QED BY <2>2, <2>3, <2>4
<1>7. ASSUME label = "u4.2"
      PROVE  /\ Utf8Next(label) # "str" => Begun(Utf8Next(label), bytes)
             /\ Utf8Next(label) = "str" => DecodedCount(bytes) = Len(bytes)
  <2>1. lead \in 240 .. 244 /\ Len(held) = 1
    BY <1>0, <1>7 DEF Begun
  <2>2. bytes[1] = lead /\ bytes[2] = ch
    BY <1>0, <1>2, <2>1
  <2>3. (lead = 240 => ch >= 144) /\ (lead = 244 => ch < 144)
    BY <1>0, <1>1, <1>7 DEF Utf8BadSecond
  <2>4. ch \in SecondUnits(lead)
    <3>1. lead \in Int /\ ch \in 128 .. 191
      BY <1>1, <2>1
    <3>2. (lead = 224 => ch >= 160) /\ (lead = 240 => ch >= 144) /\ (lead = 244 => ch < 144)
      BY <2>1, <2>3
    <3> QED BY <3>1, <3>2, AcceptedSecond, Zenon
  <2>5. Utf8Next(label) = "u4.3"
    BY <1>7 DEF Utf8Next
  <2>6. Begun("u4.3", bytes)
    BY <2>1, <2>2, <2>4 DEF Begun
  <2> QED BY <1>2, <1>3, <2>5, <2>6
<1>8. ASSUME label = "u4.3"
      PROVE  /\ Utf8Next(label) # "str" => Begun(Utf8Next(label), bytes)
             /\ Utf8Next(label) = "str" => DecodedCount(bytes) = Len(bytes)
  <2>1. lead \in 240 .. 244 /\ held[2] \in SecondUnits(lead) /\ Len(held) = 2
    BY <1>0, <1>8 DEF Begun
  <2>2. bytes[1] = lead /\ bytes[2] = held[2] /\ bytes[3] = ch
    BY <1>0, <1>2, <2>1
  <2>3. Utf8Next(label) = "u4.4"
    BY <1>8 DEF Utf8Next
  <2>4. Begun("u4.4", bytes)
    BY <2>1, <2>2 DEF Begun
  <2> QED BY <1>2, <1>3, <2>3, <2>4
<1>9. ASSUME label = "u4.4"
      PROVE  /\ Utf8Next(label) # "str" => Begun(Utf8Next(label), bytes)
             /\ Utf8Next(label) = "str" => DecodedCount(bytes) = Len(bytes)
  <2>1. /\ lead \in 240 .. 244 /\ held[2] \in SecondUnits(lead)
        /\ held[3] \in Continuation /\ Len(held) = 3
    BY <1>0, <1>9 DEF Begun
  <2>2. /\ bytes[1] = lead /\ bytes[2] = held[2] /\ bytes[3] = held[3] /\ bytes[4] = ch
        /\ Len(bytes) = 4
    BY <1>0, <1>2, <2>1
  <2>3. DecodedCount(bytes) = 4
    BY <2>1, <2>2, SequencesDecoded
  <2>4. Utf8Next(label) = "str"
    BY <1>9 DEF Utf8Next
  <2> QED BY <2>2, <2>3, <2>4
<1>10. /\ Utf8Next(label) # "str" => Begun(Utf8Next(label), bytes)
       /\ Utf8Next(label) = "str" => DecodedCount(bytes) = Len(bytes)
  BY <1>4, <1>5, <1>6, <1>7, <1>8, <1>9 DEF Utf8Labels
<1> QED BY <1>2, <1>3, <1>10, Zenon DEF bytes

\* A continuation byte.
LEMMA Utf8ByteText ==
  ASSUME IInv, TextInv, Utf8Byte
  PROVE  TextInv'
<1>1. PICK label \in Utf8Labels, ch \in CurrCh : At(label) /\ Utf8Continue(label, ch)
  BY DEF Utf8Byte
<1>2. label \in Labels \ {"ERROR"} /\ label \in Inside
  BY ScanningFacts DEF StringLabels, Scanning, Inside, Utf8Labels
<1>3. Top = label /\ WellFormed(buffer) /\ Begun(label, Held) /\ ScratchOf(label, value)
  BY <1>1, <1>2, AtFacts DEF TextInv, IInv, ScratchKept
<1>4. /\ value[2] = Held /\ Held \in Seq(Byte)
      /\ label \in {"u2.2", "u3.2", "u4.2"} => Len(Held) = 1
      /\ label \in {"u3.3", "u4.3"} => Len(Held) = 2
      /\ label = "u4.4" => Len(Held) = 3
  <2>1. Live = "utf8"
    BY <1>3 DEF ScratchOf, Utf8Labels, Live
  <2> QED BY <1>3, <2>1 DEF IInv, TypeOK, ValueOK, ScratchOf, Held
<1> DEFINE bytes == Append(Held, ch)
<1>5. CASE RaiseError("ILLEGAL_UNICODE")
  BY <1>5, RaiseErrs, ErrsText
<1>6. CASE /\ ch \in Continuation /\ ~Utf8BadSecond(label, Held[1], ch)
           /\ Utf8Next(label) = "str"
           /\ Store(buffer, bytes, SizeFor(Len(bytes)),
                    Advance(Utf8Next(label)) /\ value' = Utf8Value(bytes))
  <2>1. bytes \in Seq(Byte) /\ bytes # <<>> /\ DecodedCount(bytes) = Len(bytes)
    BY <1>3, <1>4, <1>6, AcceptedByte
  <2>2. Store(buffer, bytes, SizeFor(Len(bytes)), Advance("str") /\ value' = Utf8Value(bytes))
    BY <1>6
  <2> HIDE DEF bytes
  <2> QED BY <1>3, <2>1, <2>2, StoreText
<1>7. CASE /\ ch \in Continuation /\ ~Utf8BadSecond(label, Held[1], ch)
           /\ Utf8Next(label) # "str"
           /\ Advance(Utf8Next(label)) /\ value' = Utf8Value(bytes) /\ UNCHANGED bufferVars
  <2>1. Begun(Utf8Next(label), bytes)
    BY <1>3, <1>4, <1>7, AcceptedByte
  <2>2. Utf8Next(label) \in Labels /\ Utf8Next(label) # "str.close"
    BY <1>7, ScanningFacts DEF Utf8Next, StringLabels, Utf8Labels, Scanning
  <2>3. value'[2] = bytes /\ buffer' = buffer
    BY <1>7 DEF Utf8Value, bufferVars
  <2> HIDE DEF bytes
  <2> QED BY <1>3, <1>7, <2>1, <2>2, <2>3, TextGoes
<1> QED BY <1>1, <1>5, <1>6, <1>7 DEF Utf8Continue

\* The byte behind a backslash.
LEMMA EscapeByteText ==
  ASSUME IInv, TextInv, EscapeByte
  PROVE  TextInv'
<1>1. At("esc") /\ "esc" \in Labels \ {"ERROR"} /\ "esc" \in Inside
  BY ScanningFacts DEF EscapeByte, Inside, StringLabels, Scanning
<1>2. WellFormed(buffer)
  BY <1>1, AtFacts DEF TextInv
<1>3. PICK ch \in CurrCh : \/ ch \in Escapable /\ PutC(Unescape(ch), "str")
                           \/ Read("hex1") \/ RaiseError("ILLEGAL_ESCAPE")
  BY DEF EscapeByte
<1>4. CASE ch \in Escapable /\ PutC(Unescape(ch), "str")
  <2>1. Unescape(ch) \in 0 .. 127
    BY <1>4 DEF Escapable, Unescape
  <2> QED BY <1>2, <1>4, <2>1, PutText
<1>5. CASE Read("hex1")
  <2>1. "hex1" \in Labels /\ Begun("hex1", value'[2])
    BY ScanningFacts DEF StringLabels, HexLabels, Scanning, Begun
  <2> QED BY <1>2, <1>5, <2>1, TextGoes DEF Read, bufferVars
<1> QED BY <1>3, <1>4, <1>5, RaiseErrs, ErrsText

\* A digit of a \u escape.
LEMMA HexByteText ==
  ASSUME IInv, TextInv, HexByte
  PROVE  TextInv'
<1>1. PICK k \in 1 .. 8, ch \in CurrCh :
        /\ At(HexLabel[k])
        /\ IF ch \notin HexDigit THEN RaiseError("EXPECTED_HEX")
           ELSE IF k \in {4, 8} THEN UnitRead(k, WithDigit(k, HexValue(ch)))
           ELSE /\ Advance(HexLabel[k + 1])
                /\ value' = Utf16Value(WithDigit(k, HexValue(ch)))
                /\ UNCHANGED bufferVars
  BY DEF HexByte
<1>2. HexLabel[k] \in HexLabels /\ HexLabel[k] \in Labels \ {"ERROR"} /\ HexLabel[k] \in Inside
  <2>1. HexLabel[k] \in HexLabels
    BY DEF HexLabel, HexLabels
  <2>2. "STRING" \notin HexLabels /\ "str.close" \notin HexLabels
    BY DEF HexLabels
  <2> QED BY <2>1, <2>2, ScanningFacts DEF Scanning, Inside, StringLabels
<1>3. Running /\ pc = HexLabel[k] /\ WellFormed(buffer)
  BY <1>1, <1>2, AtFacts DEF TextInv
<1> DEFINE units == WithDigit(k, HexValue(ch))
<1>4. CASE ch \notin HexDigit
  BY <1>1, <1>4, RaiseErrs, ErrsText
<1>5. CASE ch \in HexDigit /\ k \notin {4, 8}
  <2>1. HexLabel[k + 1] \in HexLabels
    BY <1>5 DEF HexLabel, HexLabels
  <2>2. /\ HexLabel[k + 1] \in Labels /\ HexLabel[k + 1] # "str.close"
        /\ Begun(HexLabel[k + 1], value'[2])
    BY <2>1, ScanningFacts DEF Scanning, StringLabels, HexLabels, Begun
  <2>3. Advance(HexLabel[k + 1]) /\ buffer' = buffer
    BY <1>1, <1>5 DEF bufferVars
  <2> QED BY <1>3, <2>2, <2>3, TextGoes
<1>6. CASE ch \in HexDigit /\ k \in {4, 8}
  <2>1. HexValue(ch) \in Nat /\ HexValue(ch) <= 15
    BY <1>6 DEF HexDigit, HexValue, Digit
  <2>2. units \in Units /\ (k > 4 => units.unit1 \in HighSurrogate)
    BY <1>3, <2>1, DigitFacts
  <2>3. UnitRead(k, units)
    BY <1>1, <1>6
  <2> HIDE DEF units
  <2>4. units.unit1 \in Nat /\ units.unit2 \in Nat
    BY <2>2 DEF Units
  <2>5. k = 8 /\ units.unit2 \in LowSurrogate => Surrogates(units.unit1, units.unit2) \in Nat
    BY <2>2, SurrogatesFact
  <2>6. \/ RaiseError("ILLEGAL_UNICODE")
        \/ Advance("sur.bs") /\ UNCHANGED bufferVars
        \/ \E cp \in Nat : StoreCodepoint(cp, Advance("str") /\ value' = Utf16Value(units))
    BY <1>6, <2>3, <2>4, <2>5 DEF UnitRead
  <2>7. CASE Advance("sur.bs") /\ UNCHANGED bufferVars
    <3>1. "sur.bs" \in Labels /\ Begun("sur.bs", value'[2])
      BY ScanningFacts DEF StringLabels, Scanning, Begun
    <3> QED BY <1>3, <2>7, <3>1, TextGoes DEF bufferVars
  <2>8. ASSUME NEW cp \in Nat, StoreCodepoint(cp, Advance("str") /\ value' = Utf16Value(units))
        PROVE  TextInv'
    BY <1>3, <2>8, CodepointText
  <2> QED BY <2>6, <2>7, <2>8, RaiseErrs, ErrsText
<1> QED BY <1>4, <1>5, <1>6

\* The surrogate pair: a backslash and the letter u.
LEMMA SurrogateText ==
  ASSUME IInv, TextInv, SurrogateBackslash \/ SurrogateU
  PROVE  TextInv'
<1>1. PICK l \in {"sur.u", "hex5"} :
        (At("sur.bs") \/ At("sur.u")) /\ (Read(l) \/ RaiseError("ILLEGAL_UNICODE"))
  BY DEF SurrogateBackslash, SurrogateU
<1>2. {"sur.bs", "sur.u"} \subseteq Inside \cap (Labels \ {"ERROR"})
  BY ScanningFacts DEF StringLabels, Scanning, Inside
<1>3. WellFormed(buffer)
  BY <1>1, <1>2, AtFacts DEF TextInv
<1>4. CASE Read(l)
  <2>1. l \in Labels /\ Begun(l, value'[2])
    BY ScanningFacts DEF StringLabels, HexLabels, Scanning, Begun
  <2> QED BY <1>3, <1>4, <2>1, TextGoes DEF Read, bufferVars
<1> QED BY <1>1, <1>4, RaiseErrs, ErrsText

\* The closing quote: the string is handed out without its zero byte.
LEMMA EndStringText ==
  ASSUME IInv, TextInv, EndString
  PROVE  TextInv'
<1>1. At("str.close") /\ Return("STRING", <<"string", Used - 1>>)
  BY DEF EndString
<1>2. "str.close" \in Labels \ {"ERROR"}
  BY ScanningFacts DEF StringLabels, Scanning
<1>3. Top = "str.close" /\ WellFormed(SubSeq(buffer, 1, Used - 1))
  BY <1>1, <1>2, AtFacts DEF TextInv
<1>4. CASE Fail("EMPTY_SATCK")
  BY <1>4, ErrsText DEF Errs
<1>5. CASE /\ stack_current # 0 /\ Answer("STRING") /\ value' = <<"string", Used - 1>>
           /\ stack_current' = stack_current - 1 /\ UNCHANGED stack /\ UNCHANGED bufferVars
  <2>1. Top' = stack[stack_current - 1] /\ Held' = Used - 1 /\ buffer' = buffer
    BY <1>5 DEF Top, Answer, Held, bufferVars
  <2>2. stack[stack_current - 1] \in Inner \cup {"start.ret"}
    <3>1. stack_current \in Nat /\ stack_current > 0
      BY <1>5, StackFacts
    <3>2. stack_current - 1 = 0 \/ stack_current - 1 \in 1 .. stack_current - 1
      BY <3>1
    <3> QED BY <3>1, <3>2 DEF IInv, Frames
  <2>3. Top' \notin StringLabels
    BY <2>1, <2>2, ScanningFacts DEF Scanning, Doc
  <2> QED BY <1>3, <2>1, <2>3, OutsideText DEF TextInv, StringsAreDecodable
<1> QED BY <1>1, <1>4, <1>5 DEF Return, Pop

\* The string scanner.
LEMMA StringText ==
  ASSUME IInv, TextInv, StringNext
  PROVE  TextInv'
<1>1. CASE String
  <2>1. Advance("str") /\ buffer' = <<>>
    BY <1>1 DEF String, BeginString
  <2>2. "str" \in Labels /\ Begun("str", value'[2])
    BY ScanningFacts DEF StringLabels, Scanning, Begun
  <2> QED BY <2>1, <2>2, EmptyIsWellFormed, TextGoes
<1> QED
  BY <1>1, StringByteText, Utf8ByteText, EscapeByteText, HexByteText, SurrogateText, EndStringText
  DEF StringNext

-----------------------------------------------------------------------------
(* The other steps, and the theorem. *)

\* Only the string scanner runs at the labels of a string.
LEMMA StringScanned ==
  ASSUME Run, pc \in StringLabels
  PROVE  StringNext \/ NeedData \/ UnexpectedEof
<1>1. pc \notin NumeralLabels \cup LiteralLabels \cup LiteralEnds \cup {"VALUE", "ERROR"} \cup ContainerLabels
  BY ScanningFacts DEF Scanning
<1>2. ~ErrorState
  BY ScanningFacts DEF ErrorState, Scanning
<1>3. ~Start /\ ~Trail /\ ~Value /\ ~LiteralLetter /\ ~LiteralEnd
  BY <1>1 DEF Start, Trail, Value, LiteralLetter, LiteralEnd, At, ContainerLabels
<1>4. ~IntegerPart /\ ~DecimalPart /\ ~ExponentPart
  BY <1>1 DEF IntegerPart, DecimalPart, ExponentPart, At, NumeralLabels, NumberLabels
<1>5. ~TextInteger /\ ~TextDecimals /\ ~TextExponent
  BY <1>1 DEF TextInteger, TextDecimals, TextExponent, At, NumeralLabels, TextLabels
<1>6. ~ArrayEmitted /\ ~ArrayFirst /\ ~ArrayNext /\ ~ArrayMore /\ ~ArrayClosed
  BY <1>1 DEF ArrayEmitted, ArrayFirst, ArrayNext, ArrayMore, ArrayClosed, At, ContainerLabels
<1>7. /\ ~ObjectEmitted /\ ~ObjectFirst /\ ~ObjectColon /\ ~ObjectValue
      /\ ~ObjectNext /\ ~ObjectMore /\ ~ObjectClosed
  BY <1>1 DEF ObjectEmitted, ObjectFirst, ObjectColon, ObjectValue, ObjectNext, ObjectMore,
              ObjectClosed, At, ContainerLabels
<1> QED BY <1>2, <1>3, <1>4, <1>5, <1>6, <1>7 DEF Run, NumberNext

\* Nothing changes but, maybe, the answer.
LEMMA TextSame ==
  ASSUME TextInv, Top' = Top, UNCHANGED <<buffer, value>>,
         tok' # "STRING" \/ pc' # "idle" \/ UNCHANGED <<tok, pc>>
  PROVE  TextInv'
BY DEF TextInv, StringsAreDecodable, Used, Held

\* The other scanners begin a string, or stay out of it.
LEMMA OtherText ==
  ASSUME IInv, IInv', TextInv, pc \in Labels, pc \notin StringLabels, Shapes
  PROVE  TextInv'
<1>1. Top = pc
  BY LabelFacts DEF Top
<1>2. ContainerLabels \cap StringLabels = {} /\ "ERROR" \notin StringLabels
  BY ScanningFacts DEF Scanning
<1>3. CASE Scans
  <2>1. PICK l \in Labels : Advance(l) /\ Kin(pc, l)
    BY <1>3 DEF Scans
  <2>2. CASE l \in StringLabels
    <3>1. l = "str" /\ buffer' = <<>>
      BY <2>1, <2>2 DEF Kin
    <3> QED BY <2>1, <3>1, EmptyIsWellFormed, TextGoes DEF Begun
  <2>3. CASE l \notin StringLabels
    <3>1. l \notin Inside /\ l # "str.close" /\ Begun(l, value'[2])
      BY <2>3, OutsideText
    <3> QED BY <2>1, <3>1, TextGoes
  <2> QED BY <2>2, <2>3
<1>4. CASE Enters
  <2>1. PICK enter, return : enter \in {"VALUE", "STRING"} /\ Recurse(enter, return)
    BY <1>4 DEF Enters
  <2>2. Errs \/ (pc' = enter /\ pc' # "idle")
    BY <2>1 DEF Recurse, RaiseError, Errs
  <2>3. CASE pc' = enter /\ pc' # "idle"
    <3>1. Top' = enter
      BY <2>3 DEF Top
    <3>2. enter \notin Inside /\ enter # "str.close" /\ \A held : Begun(enter, held)
      BY <2>1, ScanningFacts DEF Inside, Begun
    <3> QED BY <2>3, <3>1, <3>2 DEF TextInv, StringsAreDecodable
  <2> QED BY <2>2, <2>3, ErrsText
<1>5. CASE Closes
  <2>1. PICK t, v : Gives(pc, t) /\ Pop(t, v)
    BY <1>5 DEF Closes
  <2>2. t # "STRING"
    BY <2>1 DEF Gives
  <2>3. \/ Errs
        \/ /\ stack_current # 0 /\ tok' = t /\ pc' = "idle"
           /\ stack_current' = stack_current - 1 /\ stack' = stack
    BY <2>1 DEF Pop, Answer, Errs
  <2>4. CASE /\ stack_current # 0 /\ tok' = t /\ pc' = "idle"
             /\ stack_current' = stack_current - 1 /\ stack' = stack
    <3>1. Top' = stack[stack_current - 1]
      BY <2>4 DEF Top
    <3>2. stack[stack_current - 1] \in Inner \cup {"start.ret"}
      <4>1. stack_current \in Nat /\ stack_current > 0
        BY <2>4, StackFacts
      <4>2. stack_current - 1 = 0 \/ stack_current - 1 \in 1 .. stack_current - 1
        BY <4>1
      <4> QED BY <4>1, <4>2 DEF IInv, Frames
    <3>3. Top' \notin StringLabels
      BY <1>2, <3>1, <3>2, ScanningFacts DEF Doc
    <3> QED BY <2>2, <2>4, <3>3, OutsideKept
  <2> QED BY <2>3, <2>4, ErrsText
<1>6. CASE Opens
  <2>1. PICK l \in {"arr.emit", "obj.emit"}, t \in {"BEGIN_ARRAY", "BEGIN_OBJECT"} : Emit(t, l)
    BY <1>6 DEF Opens
  <2>2. Top' = l /\ tok' = t
    BY <2>1, StackFacts DEF Emit, Answer, Top
  <2>3. l \notin StringLabels
    BY <1>2 DEF ContainerLabels
  <2> QED BY <2>2, <2>3, OutsideKept
<1>7. CASE Finishes
  <2>1. /\ Top' = stack[stack_current] /\ tok' = "END" /\ pc' = "idle" /\ pc \in Doc
        /\ stack' = stack /\ stack_current' = stack_current
    BY <1>7 DEF Finishes, Done, Answer, Top, stackVars, Doc
  <2>2. stack_current = 0
    BY <1>1, <2>1, StackFacts DEF IInv, Frames
  <2>3. Top' \in Doc \cup {"ERROR"}
    BY <2>1, <2>2 DEF IInv, Frames
  <2> QED BY <1>2, <2>1, <2>3, ScanningFacts, OutsideKept
<1>8. CASE NeedData
  <2>1. Top' = pc /\ tok' = "NEED_DATA" /\ UNCHANGED <<buffer, value>>
    BY <1>8, StackFacts DEF NeedData, Answer, Top, bufferVars
  <2> QED BY <1>1, <2>1, TextSame
<1> QED BY <1>3, <1>4, <1>5, <1>6, <1>7, <1>8, ErrsText DEF Shapes

\* Every step preserves it.
LEMMA StepText ==
  ASSUME IInv, IInv', TextInv, [Next]_vars
  PROVE  TextInv'
<1>1. CASE Run
  <2>1. CASE pc \in StringLabels
    <3>1. CASE NeedData
      <4>1. Top' = pc /\ tok' = "NEED_DATA" /\ UNCHANGED <<buffer, value>>
        BY <3>1, StackFacts DEF NeedData, Answer, Top, bufferVars
      <4>2. Top = pc
        BY <2>1, ScanningFacts, LabelFacts DEF Top, Scanning
      <4> QED BY <4>1, <4>2, TextSame
    <3> QED BY <1>1, <2>1, <3>1, StringScanned, StringText, RaiseErrs, ErrsText DEF UnexpectedEof
  <2>2. CASE pc \notin StringLabels
    <3>1. Moves /\ Shapes
      BY <1>1, RunMoves, RunShapes
    <3>2. pc \in Labels
      BY <3>1, LabelFacts
      DEF Moves, Goes, Calls, Fails, Returns, Emits, Concludes, NeedData, Running, Checked
    <3> QED BY <2>2, <3>1, <3>2, OtherText
  <2> QED BY <2>1, <2>2
<1>2. CASE NextToken
  <2>1. Top' = Top /\ UNCHANGED <<buffer, value>>
    BY <1>2 DEF NextToken, Top, bufferVars, stackVars
  <2>2. pc' # "idle"
    <3>1. pc' = Top
      BY <1>2 DEF NextToken, Top
    <3> QED BY <3>1, LabelFacts DEF IInv, Frames
  <2> QED BY <2>1, <2>2, TextSame
<1>3. CASE Reset
  <2>1. Top' = "START" /\ tok' = "RESET"
    <3>1. 0 \in 0 .. stack_size - 1
      <4>1. stack_size \in Nat /\ stack_current \in 0 .. stack_size - 1
        BY DEF IInv, TypeOK
      <4> QED BY <4>1
    <3> QED BY <1>3, <3>1, StackFacts DEF Reset, Top
  <2>2. "START" \notin StringLabels
    BY ScanningFacts DEF Scanning, ContainerLabels
  <2> QED BY <2>1, <2>2, OutsideKept
<1>4. ASSUME NEW chunk \in Chunks, Feed(chunk) PROVE TextInv'
  <2>1. Top' = Top /\ UNCHANGED <<buffer, value>> /\ tok' \in {"FED", "ENOBUFS"}
    BY <1>4 DEF Feed, Top, stackVars, bufferVars
  <2> QED BY <2>1, TextSame
<1>5. CASE UNCHANGED vars
  <2>1. Top' = Top /\ UNCHANGED <<buffer, value, tok, pc>>
    BY <1>5 DEF vars, Top, stackVars, bufferVars
  <2> QED BY <2>1, TextSame
<1> QED BY <1>1, <1>2, <1>3, <1>4, <1>5 DEF Next

\* A parser that was just made is at its start.
LEMMA InitText ==
  ASSUME Init
  PROVE  TextInv
<1>1. Top = "START" /\ tok = "INIT"
  BY MemoryAssumption DEF Init, Top
<1>2. "START" \notin StringLabels
  BY ScanningFacts DEF Scanning, ContainerLabels
<1> QED BY <1>1, <1>2, OutsideText DEF TextInv, StringsAreDecodable

\* What is handed out as a string is decoded to its end by ajson_decode_utf8(), for every
\* encoding, all chunks, all orders of the calls and all outcomes of realloc: the checks
\* of the scanner are those of the decoder the writer takes the bytes with.
THEOREM StringsDecode == Spec => []StringsAreDecodable
<1>1. Init => TextInv
  BY InitText
<1>2. IInv /\ IInv' /\ TextInv /\ [Next]_vars => TextInv'
  BY StepText
<1>3. TextInv => StringsAreDecodable
  BY DEF TextInv
<1> QED BY <1>1, <1>2, <1>3, Invariance, PTL DEF Spec
=============================================================================
