--------------------------- MODULE CallbackParser ---------------------------
(***************************************************************************)
(* The callback parser: ajson_cb_dispatch() hands the tokens of a parser   *)
(* to the functions a program has set, and three drivers feed it from a    *)
(* file descriptor, a stream or a buffer.  The program calls them in any   *)
(* order for one document; doc is what was read of it, or given in a       *)
(* buffer.                                                                 *)
(***************************************************************************)
EXTENDS Parser, SequencesExt

CONSTANTS
  More(_),      \* the chunks that may follow the bytes read so far
  Failures,     \* whether reads may fail: {FALSE} or BOOLEAN
  HandlerSets,  \* the functions a program may have set, others are NULL
  MaxCalls      \* calls a program makes (bound of the model)

ASSUME CallbackAssumption == Failures \in SUBSET BOOLEAN /\ MaxCalls \in Nat

VARIABLES
  handlers,     \* the functions set
  phase,        \* "program", "read", "dispatch" or "call" (of ajson_next_token())
  driver,       \* the function the program called last
  result,       \* what it returned
  made,         \* calls made
  doc,
  calls,        \* the callbacks made, with their arguments
  ferror,       \* the error indicator of the stream
  readFailed    \* whether the last call ended in a failed read

callVars == <<handlers, phase, driver, result, made, doc, calls, ferror, readFailed>>
cbVars == <<vars, callVars>>

CbInit ==
  /\ Init
  /\ handlers \in HandlerSets
  /\ phase = "program"
  /\ driver = "none"
  /\ result = 0
  /\ made = 0
  /\ doc = <<>>
  /\ calls = <<>>
  /\ ferror = FALSE
  /\ readFailed = FALSE

-----------------------------------------------------------------------------
(* ajson_cb_dispatch(). *)

\* Mutant: components are not told from doubles.
NumberFuncPlain ==
  IF "NUMBER_AS_STRING" \in flags THEN "number_as_string" ELSE "number"

NumberFunc ==
  CASE "NUMBER_AS_STRING" \in flags -> "number_as_string"
    [] "NUMBER_AS_STRING" \notin flags /\ "NUMBER_COMPONENTS" \in flags -> "components"
    [] OTHER -> "number"

\* The function called for a token.
Func ==
  IF tok = "NUMBER" THEN NumberFunc
  ELSE [NULL |-> "null", BOOLEAN |-> "boolean", INTEGER |-> "integer", STRING |-> "string",
        BEGIN_ARRAY |-> "begin_array", END_ARRAY |-> "end_array",
        BEGIN_OBJECT |-> "begin_object", END_OBJECT |-> "end_object",
        END |-> "end", ERROR |-> "error"][tok]

\* The member of the union its argument is read from.
Member ==
  CASE Func \in {"string", "number_as_string"} -> "string"
    [] Func \in {"boolean", "number", "components", "integer", "error"} -> Func
    [] OTHER -> "none"

Argument ==
  CASE Member = "none" -> "none"
    [] Member = "string" -> SubSeq(buffer, 1, Held)
    [] OTHER -> Held

Callback == calls' = IF Func \in handlers THEN Append(calls, <<Func, Argument>>) ELSE calls

\* What the caller of ajson_cb_dispatch() does with its result.
DispatchReturns(r) ==
  IF r = 0 /\ driver \in {"fd", "file"} /\ ~AtEof
  THEN phase' = "read" /\ UNCHANGED result
  ELSE phase' = "program" /\ result' = r

CallNextToken ==
  /\ phase = "dispatch"
  /\ NextToken
  /\ phase' = "call"
  /\ UNCHANGED <<handlers, driver, result, made, doc, calls, ferror, readFailed>>

RunCall == phase = "call" /\ Run /\ UNCHANGED callVars

\* Mutant: one token is dispatched.
DispatchOne ==
  /\ phase = "call" /\ pc = "idle"
  /\ IF tok = "NEED_DATA" THEN UNCHANGED calls ELSE Callback
  /\ DispatchReturns(IF tok = "ERROR" THEN -1 ELSE 0)
  /\ UNCHANGED <<vars, handlers, driver, made, doc, ferror, readFailed>>

\* Mutant: the function for errors is not called.
DispatchSilently ==
  /\ phase = "call" /\ pc = "idle"
  /\ IF tok \in {"ERROR", "NEED_DATA"} THEN UNCHANGED calls ELSE Callback
  /\ IF tok \in {"END", "ERROR", "NEED_DATA"}
     THEN DispatchReturns(IF tok = "ERROR" THEN -1 ELSE 0)
     ELSE phase' = "dispatch" /\ UNCHANGED result
  /\ UNCHANGED <<vars, handlers, driver, made, doc, ferror, readFailed>>

\* Mutant: the loop is only left at the end and for an error.
DispatchOn ==
  /\ phase = "call" /\ pc = "idle"
  /\ IF tok = "NEED_DATA" THEN UNCHANGED calls ELSE Callback
  /\ IF tok \in {"END", "ERROR"}
     THEN DispatchReturns(IF tok = "ERROR" THEN -1 ELSE 0)
     ELSE phase' = "dispatch" /\ UNCHANGED result
  /\ UNCHANGED <<vars, handlers, driver, made, doc, ferror, readFailed>>

\* The switch on a token.
DispatchToken ==
  /\ phase = "call" /\ pc = "idle"
  /\ IF tok = "NEED_DATA" THEN UNCHANGED calls ELSE Callback
  /\ IF tok \in {"END", "ERROR", "NEED_DATA"}
     THEN DispatchReturns(IF tok = "ERROR" THEN -1 ELSE 0)
     ELSE phase' = "dispatch" /\ UNCHANGED result
  /\ UNCHANGED <<vars, handlers, driver, made, doc, ferror, readFailed>>

-----------------------------------------------------------------------------
(* The drivers. *)

\* ajson_feed(), and its result.
FeedOrReturn(chunk) ==
  /\ Feed(chunk)
  /\ IF tok' = "ENOBUFS"
     THEN phase' = "program" /\ result' = -1
     ELSE phase' = "dispatch" /\ UNCHANGED result

ReadFails ==
  /\ phase' = "program"
  /\ result' = -1
  /\ readFailed' = TRUE

\* read() of ajson_cb_parse_fd(), which takes nothing when it fails.
ReadFd ==
  /\ phase = "read" /\ driver = "fd"
  /\ \/ TRUE \in Failures /\ ReadFails /\ UNCHANGED <<vars, doc>>
     \/ \E chunk \in More(doc) \cup {<<>>} :
          FeedOrReturn(chunk) /\ doc' = doc \o chunk /\ UNCHANGED readFailed
  /\ UNCHANGED <<handlers, driver, made, calls, ferror>>

\* fread() of ajson_cb_parse_file(); the bytes of a failed read are dropped.
ReadFile ==
  /\ phase = "read" /\ driver = "file"
  /\ \E chunk \in More(doc) \cup {<<>>}, failed \in Failures :
       /\ doc' = doc \o chunk
       /\ ferror' = (ferror \/ failed)
       /\ IF ferror' THEN ReadFails /\ UNCHANGED vars
                     ELSE FeedOrReturn(chunk) /\ UNCHANGED readFailed
  /\ UNCHANGED <<handlers, driver, made, calls>>

-----------------------------------------------------------------------------
(* The program. *)

Called(function) ==
  /\ phase = "program" /\ made < MaxCalls
  /\ driver' = function
  /\ made' = made + 1
  /\ readFailed' = FALSE

ParseStream ==
  /\ \E function \in {"fd", "file"} : Called(function)
  /\ phase' = "read"
  /\ UNCHANGED <<vars, handlers, result, doc, calls, ferror>>

ParseBuf ==
  /\ Called("buf")
  /\ \E chunk \in More(doc) \cup {<<>>} :
       /\ FeedOrReturn(chunk)
       /\ doc' = IF tok' = "ENOBUFS" THEN doc ELSE doc \o chunk
  /\ UNCHANGED <<handlers, calls, ferror>>

\* ajson_cb_dispatch() without a driver.
Dispatch ==
  /\ Called("dispatch")
  /\ phase' = "dispatch"
  /\ UNCHANGED <<vars, handlers, result, doc, calls, ferror>>

Exit == phase = "program" /\ made >= MaxCalls /\ UNCHANGED cbVars

DriverStep == CallNextToken \/ RunCall \/ DispatchToken \/ ReadFd \/ ReadFile

CbNext == DriverStep \/ ParseStream \/ ParseBuf \/ Dispatch \/ Exit

\* A call of the program runs on, and reads return; the program need not call.
CbSpec == CbInit /\ [][CbNext]_cbVars /\ WF_cbVars(DriverStep)

-----------------------------------------------------------------------------
(* Properties. *)

\* The argument of a callback is read from the member of the union the parser
\* stored last, for all flags ajson_init() accepts (ajson_cb_dispatch()).
ArgumentsAreLive ==
  phase = "call" /\ pc = "idle" /\ tok # "NEED_DATA" => Member \in {"none", Live}

\* A chunk is not read when the driver that fed it has returned, and its array is
\* gone: ajson_cb_dispatch() called after it meets no byte left, or the error.
StaleInputUnread ==
  driver = "dispatch" /\ pc \notin {"idle", "ERROR"} => index >= Size

\* When a driver returns -1, the function for errors has been called last or a read
\* has failed: also when it is called again after an error, with no reset.
FailuresAreReported ==
  phase = "program" /\ result = -1 /\ "error" \in handlers /\ ~readFailed =>
    calls # <<>> /\ Last(calls)[1] = "error"

\* Every call of a driver returns once its file has ended or a read has failed.
DriversReturn == phase # "program" ~> phase = "program"
=============================================================================
