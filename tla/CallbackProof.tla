---------------------------- MODULE CallbackProof ----------------------------
(***************************************************************************)
(* The theorems about the callback parser: what its run checks on a small  *)
(* document holds for every document, every way reads cut it or fail, every*)
(* order of the drivers, all functions set and all sizes of the parser.    *)
(***************************************************************************)
EXTENDS CallbackParser, ParserGrammar

-----------------------------------------------------------------------------
(* The inductive invariant of the callback parser. *)

\* A program reads bytes: what may follow bytes of the document are bytes.
BytesOnly == \A d \in Seq(Byte) : More(d) \subseteq Seq(Byte)

Between == phase \in {"program", "read"}

\* What was called is a sequence, and doc one of bytes.
Recorded == doc \in Seq(Byte) /\ \E S : calls \in Seq(S)

\* A call of ajson_next_token() runs only inside of ajson_cb_dispatch(), and what it
\* answers is dispatched; only the answer ERROR leaves the parser in its error state.
Phases ==
  /\ phase # "call" => pc = "idle"
  /\ phase = "call" /\ pc = "idle" =>
       tok \in Replies /\ (tok # "ERROR" => Top # "ERROR")

\* Nothing of a chunk is left when the dispatch ends, unless in an error.
NothingLeft ==
  Between \/ driver = "dispatch" => Position >= Size \/ Top = "ERROR"

\* An error the parser stays in has been reported.
Reported ==
  Between /\ Top = "ERROR" /\ "error" \in handlers =>
    calls # <<>> /\ calls[Len(calls)][1] = "error"

\* A driver fails in an error, or for a read.
FailsInError ==
  phase = "program" /\ result = -1 /\ ~readFailed => Top = "ERROR"

CInv ==
  /\ IInv /\ KeyInv /\ Numerals /\ Suited
  /\ Recorded /\ Phases /\ NothingLeft /\ Reported /\ FailsInError

\* Feeding what was read.
LEMMA FeedOrReturnCInv ==
  ASSUME CInv, Between, NEW chunk \in Seq(Byte), FeedOrReturn(chunk),
         Recorded', calls' = calls, handlers' = handlers, driver' # "dispatch"
  PROVE  CInv'
<1>1. /\ Feed(chunk)
      /\ \/ tok' = "ENOBUFS" /\ phase' = "program" /\ result' = -1
         \/ tok' # "ENOBUFS" /\ phase' = "dispatch"
  BY DEF FeedOrReturn
<1>2. /\ IInv' /\ KeyInv' /\ Numerals' /\ Suited'
      /\ pc' = "idle" /\ Top' = Top
      /\ tok' = "ENOBUFS" => ~(Position >= Size)
  BY <1>1, FeedStays DEF CInv
<1>3. tok' = "ENOBUFS" => Top = "ERROR"
  BY <1>2 DEF CInv, NothingLeft
<1>4. Phases'
  BY <1>1, <1>2 DEF Phases
<1>5. NothingLeft' /\ FailsInError'
  BY <1>1, <1>2, <1>3 DEF NothingLeft, FailsInError, Between
<1>6. Reported'
  BY <1>1, <1>2 DEF CInv, Reported, Between
<1> QED BY <1>2, <1>4, <1>5, <1>6 DEF CInv

\* The chunks a read may bring are bytes.
LEMMA ReadBytes ==
  ASSUME CInv, BytesOnly, NEW chunk \in More(doc) \cup {<<>>}
  PROVE  chunk \in Seq(Byte) /\ doc \o chunk \in Seq(Byte)
<1>1. doc \in Seq(Byte)
  BY DEF CInv, Recorded
<1>2. chunk \in Seq(Byte)
  <2>1. More(doc) \subseteq Seq(Byte)
    BY <1>1, Zenon DEF BytesOnly
  <2>2. <<>> \in Seq(Byte)
    OBVIOUS
  <2> QED BY <2>1, <2>2
<1> QED BY <1>1, <1>2

\* The drivers read.
LEMMA ReadCInv ==
  ASSUME CInv, BytesOnly, ReadFd \/ ReadFile
  PROVE  CInv'
<1>1. /\ phase = "read" /\ driver \in {"fd", "file"}
      /\ UNCHANGED <<handlers, driver, made, calls>>
  BY DEF ReadFd, ReadFile
<1>2. PICK chunk \in More(doc) \cup {<<>>} :
        \/ doc' \in {doc, doc \o chunk} /\ ReadFails /\ UNCHANGED vars
        \/ doc' = doc \o chunk /\ FeedOrReturn(chunk)
  BY DEF ReadFd, ReadFile
<1>3. Recorded'
  BY <1>1, <1>2, ReadBytes DEF CInv, Recorded
<1>4. CASE FeedOrReturn(chunk)
  BY <1>1, <1>3, <1>4, ReadBytes, FeedOrReturnCInv DEF Between
<1>5. CASE ReadFails /\ UNCHANGED vars
  <2>1. phase' = "program" /\ readFailed' = TRUE
    BY <1>5 DEF ReadFails
  <2>2. /\ IInv' /\ KeyInv' /\ Numerals' /\ Suited'
        /\ Top' = Top /\ Position' = Position /\ Size' = Size
    BY <1>5, ParserStays DEF CInv
  <2>3. Phases' /\ FailsInError'
    BY <1>1, <1>5, <2>1 DEF CInv, Phases, FailsInError, vars
  <2>4. NothingLeft' /\ Reported'
    BY <1>1, <2>1, <2>2 DEF CInv, NothingLeft, Reported, Between
  <2> QED BY <1>3, <2>2, <2>3, <2>4 DEF CInv
<1> QED BY <1>2, <1>4, <1>5

\* The program calls.
LEMMA ProgramCInv ==
  ASSUME CInv, BytesOnly, ParseStream \/ ParseBuf \/ Dispatch
  PROVE  CInv'
<1>1. CASE ParseBuf
  <2>1. /\ phase = "program" /\ driver' = "buf"
        /\ UNCHANGED <<handlers, calls>>
    BY <1>1 DEF ParseBuf, Called
  <2>2. PICK chunk \in More(doc) \cup {<<>>} :
          FeedOrReturn(chunk) /\ doc' \in {doc, doc \o chunk}
    BY <1>1 DEF ParseBuf
  <2>3. Recorded'
    BY <2>1, <2>2, ReadBytes DEF CInv, Recorded
  <2> QED BY <2>1, <2>2, <2>3, ReadBytes, FeedOrReturnCInv DEF Between
<1>2. CASE ParseStream \/ Dispatch
  <2>1. /\ phase = "program" /\ phase' \in {"read", "dispatch"}
        /\ UNCHANGED <<vars, handlers, doc, calls>>
    BY <1>2 DEF ParseStream, Dispatch, Called
  <2>2. /\ IInv' /\ KeyInv' /\ Numerals' /\ Suited'
        /\ Top' = Top /\ Position' = Position /\ Size' = Size
    BY <2>1, ParserStays DEF CInv
  <2>3. Phases' /\ FailsInError' /\ Recorded'
    BY <2>1 DEF CInv, Phases, FailsInError, Recorded, vars
  <2>4. NothingLeft' /\ Reported'
    BY <2>1, <2>2 DEF CInv, NothingLeft, Reported, Between
  <2> QED BY <2>2, <2>3, <2>4 DEF CInv
<1> QED BY <1>1, <1>2

\* ajson_next_token() is called.
LEMMA CallNextTokenCInv ==
  ASSUME CInv, CallNextToken
  PROVE  CInv'
<1>1. /\ NextToken /\ phase = "dispatch" /\ phase' = "call"
      /\ UNCHANGED <<handlers, driver, doc, calls>>
  BY DEF CallNextToken
<1>2. IInv' /\ KeyInv'
  <2>1. IInv'
    BY <1>1, NextTokenIInv DEF CInv
  <2> QED BY <1>1, <2>1, StepGrammar DEF CInv, Next
<1>3. /\ pc = "idle" /\ Top' = Top /\ Position' = Position /\ Size' = Size /\ pc' # "idle"
      /\ flags' = flags
  <2>1. /\ pc = "idle" /\ pc' = Top /\ index' = input_current
        /\ UNCHANGED <<configVars, inputVars, stackVars>>
    BY <1>1 DEF NextToken, Top
  <2>2. Top \in Labels
    BY DEF CInv, IInv, Frames
  <2> QED BY <2>1, <2>2, LabelFacts DEF Top, Position, Size, inputVars, configVars
<1>4. Numerals' /\ Suited'
  BY <1>3 DEF CInv, Numerals, Suited
<1>5. Recorded' /\ Phases'
  BY <1>1, <1>3 DEF CInv, Recorded, Phases
<1>6. NothingLeft' /\ Reported' /\ FailsInError'
  BY <1>1, <1>3 DEF CInv, NothingLeft, Reported, FailsInError, Between
<1> QED BY <1>2, <1>4, <1>5, <1>6 DEF CInv

\* The call runs.
LEMMA RunCallCInv ==
  ASSUME CInv, RunCall
  PROVE  CInv'
<1>1. Run /\ phase = "call" /\ UNCHANGED callVars
  BY DEF RunCall
<1>2. IInv' /\ KeyInv'
  <2>1. IInv'
    BY <1>1, StepIInv DEF CInv, Next
  <2> QED BY <1>1, <2>1, StepGrammar DEF CInv, Next
<1>3. Replied
  BY <1>1, <1>2, RunReplied DEF CInv
<1>4. Recorded' /\ Phases' /\ Reported' /\ FailsInError'
  BY <1>1, <1>3 DEF CInv, Recorded, Phases, Reported, FailsInError, Between, Replied, callVars
<1>5. NothingLeft'
  <2>1. Size' = Size /\ driver' = driver /\ phase' = phase
    BY <1>1, <1>3 DEF Replied, Size, callVars
  <2>2. Position \in Nat /\ Position' \in Nat /\ Size \in Nat
    BY <1>2, LenProperties DEF CInv, IInv, TypeOK, Position, Size
  <2>3. Position >= Size => Position' >= Size'
    BY <1>3, <2>1, <2>2 DEF Replied
  <2> QED BY <1>1, <1>3, <2>1, <2>3 DEF CInv, NothingLeft, Between, Replied
<1> QED BY <1>2, <1>3, <1>4, <1>5 DEF CInv, Replied

\* A callback is made.
LEMMA CallbackRecorded ==
  ASSUME NEW S, calls \in Seq(S), NEW c, calls' = Append(calls, c)
  PROVE  (\E T : calls' \in Seq(T)) /\ calls' # <<>> /\ calls'[Len(calls')] = c
<1>1. calls \in Seq(S \cup {c})
  BY SeqDef
<1>2. c \in S \cup {c}
  OBVIOUS
<1>3. /\ calls' \in Seq(S \cup {c}) /\ calls' # <<>>
      /\ Len(calls') = Len(calls) + 1 /\ calls'[Len(calls) + 1] = c
  BY <1>1, <1>2, AppendProperties
<1> QED BY <1>3

\* A token is dispatched.
LEMMA DispatchTokenCInv ==
  ASSUME CInv, DispatchToken
  PROVE  CInv'
<1>1. /\ phase = "call" /\ pc = "idle" /\ UNCHANGED <<vars, handlers, driver, doc, readFailed>>
      /\ IF tok = "NEED_DATA" THEN UNCHANGED calls ELSE Callback
      /\ \/ phase' = "dispatch"
         \/ /\ phase' \in {"read", "program"} /\ tok \in {"END", "ERROR", "NEED_DATA"}
            /\ result' = -1 /\ phase' = "program" => tok = "ERROR"
  <2>1. /\ phase = "call" /\ pc = "idle" /\ UNCHANGED <<vars, handlers, driver, doc, readFailed>>
        /\ IF tok = "NEED_DATA" THEN UNCHANGED calls ELSE Callback
    BY DEF DispatchToken
  <2>2. \/ phase' = "dispatch"
        \/ /\ phase' \in {"read", "program"} /\ tok \in {"END", "ERROR", "NEED_DATA"}
           /\ result' = -1 /\ phase' = "program" => tok = "ERROR"
    BY DEF DispatchToken, DispatchReturns
  <2> QED BY <2>1, <2>2
<1>2. /\ IInv' /\ KeyInv' /\ Numerals' /\ Suited'
      /\ Top' = Top /\ Position' = Position /\ Size' = Size
  BY <1>1, ParserStays DEF CInv
<1>3. tok \in {"END", "NEED_DATA"} => Position >= Size
  BY <1>1 DEF CInv, IInv, FeedAccepted, Position
<1>4. tok = "ERROR" <=> Top = "ERROR"
  BY <1>1 DEF CInv, IInv, ErrorStays, Phases
<1>5. Recorded'
  BY <1>1, CallbackRecorded DEF CInv, Recorded, Callback
<1>6. Phases' /\ FailsInError'
  BY <1>1, <1>2, <1>4 DEF CInv, Phases, FailsInError, vars
<1>7. NothingLeft'
  BY <1>1, <1>2, <1>3, <1>4 DEF CInv, NothingLeft, Between
<1>8. Reported'
  <2> SUFFICES ASSUME phase' \in {"program", "read"}, Top = "ERROR", "error" \in handlers
               PROVE  calls' # <<>> /\ calls'[Len(calls')][1] = "error"
    BY <1>1, <1>2 DEF Reported, Between
  <2>1. tok = "ERROR"
    BY <1>4
  <2>2. Func = "error"
    BY <2>1 DEF Func
  <2>3. calls' = Append(calls, <<"error", Argument>>)
    BY <1>1, <2>1, <2>2 DEF Callback
  <2>4. calls' # <<>> /\ calls'[Len(calls')] = <<"error", Argument>>
    BY <2>3, CallbackRecorded DEF CInv, Recorded
  <2> QED BY <2>4
<1> QED BY <1>2, <1>5, <1>6, <1>7, <1>8 DEF CInv

\* The program starts with a new parser.
LEMMA InitCInv ==
  ASSUME CbInit
  PROVE  CInv
<1>1. Init /\ phase = "program" /\ result = 0 /\ doc = <<>> /\ calls = <<>>
  BY DEF CbInit
<1>2. IInv /\ KeyInv
  BY <1>1, InitIInv, InitGrammar
<1>3. Top = "START" /\ pc = "idle" /\ tok = "INIT" /\ Position = 0 /\ Size = 0
  BY <1>1, MemoryAssumption DEF Init, Top, Position, Size
<1>4. Numerals /\ Suited
  BY <1>3, NumeralFacts DEF Numerals, Suited, Suits
<1>5. Recorded
  BY <1>1 DEF Recorded
<1>6. Phases /\ NothingLeft /\ Reported /\ FailsInError
  BY <1>1, <1>3 DEF Phases, NothingLeft, Reported, FailsInError
<1> QED BY <1>2, <1>4, <1>5, <1>6 DEF CInv

-----------------------------------------------------------------------------
(* The theorems. *)

\* CInv holds initially and every step preserves it.
THEOREM CallbackInvariance == ASSUME BytesOnly PROVE CbSpec => []CInv
<1>1. CbInit => CInv
  BY InitCInv
<1>2. CInv /\ [CbNext]_cbVars => CInv'
  <2> SUFFICES ASSUME CInv, [CbNext]_cbVars PROVE CInv'
    OBVIOUS
  <2>1. CASE DriverStep
    BY <2>1, CallNextTokenCInv, RunCallCInv, DispatchTokenCInv, ReadCInv DEF DriverStep
  <2>2. CASE ParseStream \/ ParseBuf \/ Dispatch
    BY <2>2, ProgramCInv
  <2>3. CASE UNCHANGED cbVars
    <3>1. UNCHANGED <<vars, callVars>>
      BY <2>3 DEF cbVars
    <3>2. /\ IInv' /\ KeyInv' /\ Numerals' /\ Suited'
          /\ Top' = Top /\ Position' = Position /\ Size' = Size
      BY <3>1, ParserStays DEF CInv
    <3>3. Recorded' /\ Phases' /\ FailsInError' /\ NothingLeft' /\ Reported'
      BY <3>1, <3>2
      DEF CInv, Recorded, Phases, FailsInError, NothingLeft, Reported, Between, vars, callVars
    <3> QED BY <3>2, <3>3 DEF CInv
  <2> QED BY <2>1, <2>2, <2>3 DEF CbNext, Exit
<1> QED
  BY <1>1, <1>2, PTL DEF CbSpec

\* Every callback reads its argument from the member of the union that was stored
\* last, whatever flags the parser was given (ajson_cb_dispatch()).
THEOREM ArgumentsLive == ASSUME BytesOnly PROVE CbSpec => []ArgumentsAreLive
<1>1. CInv => ArgumentsAreLive
  <2> SUFFICES ASSUME CInv, phase = "call", pc = "idle", tok # "NEED_DATA"
               PROVE  Member \in {"none", Live}
    BY DEF ArgumentsAreLive
  <2>1. tok \in Replies \ {"NEED_DATA"} /\ Suits(tok, value)
    BY DEF CInv, Phases, Suited
  <2>2. CASE tok = "NUMBER"
    <3>1. Live = IF "NUMBER_AS_STRING" \in flags THEN "string" ELSE NumberMember
      BY <2>1, <2>2 DEF Suits, Live
    <3>2. Member = IF "NUMBER_AS_STRING" \in flags THEN "string" ELSE NumberMember
      BY <2>2 DEF Member, Func, NumberFunc, NumberMember
    <3> QED BY <3>1, <3>2
  <2>3. CASE tok \in {"ERROR", "STRING", "BOOLEAN", "INTEGER"}
    BY <2>1, <2>3 DEF Suits, Live, Member, Func
  <2>4. CASE tok \notin {"NUMBER", "ERROR", "STRING", "BOOLEAN", "INTEGER"}
    <3>1. Member = "none"
      BY <2>1, <2>4 DEF Replies, Member, Func
    <3> QED BY <3>1
  <2> QED BY <2>2, <2>3, <2>4
<1> QED
  BY <1>1, CallbackInvariance, PTL

\* A driver that returns -1 has reported an error or met a failed read, also when it
\* is called again after an error and its chunk is refused.
THEOREM FailuresReported == ASSUME BytesOnly PROVE CbSpec => []FailuresAreReported
<1>1. CInv => FailuresAreReported
  BY DEF CInv, Reported, FailsInError, Between, FailuresAreReported, Last
<1> QED
  BY <1>1, CallbackInvariance, PTL

\* ajson_cb_dispatch() called alone reads no byte of a chunk whose driver has returned.
THEOREM StaleInputIsUnread == ASSUME BytesOnly PROVE CbSpec => []StaleInputUnread
<1>1. CInv => StaleInputUnread
  <2> SUFFICES ASSUME CInv, driver = "dispatch", pc \notin {"idle", "ERROR"}
               PROVE  index >= Size
    BY DEF StaleInputUnread
  <2>1. Top = pc /\ Position = index
    BY DEF Top, Position
  <2> QED BY <2>1 DEF CInv, NothingLeft
<1> QED
  BY <1>1, CallbackInvariance, PTL
=============================================================================
