---------------------------- MODULE TokenizeProof ----------------------------
(***************************************************************************)
(* The theorems about the token loop: what its runs check for short files  *)
(* holds for files of any length and number, however reads cut them or     *)
(* fail, and for all sizes of the parser: that the chunks it reads are     *)
(* taken, that the numbers it answers are the numerals in the file, and    *)
(* that a file is only refused where it cannot be a numeral.               *)
(***************************************************************************)
EXTENDS NumeralProof

\* fread() reads bytes: what may follow bytes of a file are bytes.
FreadBytes ==
  \A e \in Encodings, file \in Nat, d \in Seq(Byte) : Fread(e, file, d) \subseteq Seq(Byte)

-----------------------------------------------------------------------------
(* The inductive invariant of the loop. *)

\* A call of ajson_next_token() runs only inside of the loop, and what it returns is
\* one of its answers.
LoopPhases ==
  /\ phase # "call" => pc = "idle"
  /\ phase = "call" /\ pc = "idle" => tok \in Replies

\* The loop comes back to fread() when the chunk is used up.
ChunkUsed == phase = "read" => Position >= Size

\* The inductive invariant of the loop.
TInv ==
  /\ IInv /\ KeyInv /\ Numerals /\ Suited
  /\ doc \in Seq(Byte) /\ files \in Nat
  /\ LoopPhases /\ ChunkUsed
  /\ NeverRefused

\* The chunk that is read is fed to a parser that has used up the last one.
LEMMA ReadChunkTInv ==
  ASSUME TInv, FreadBytes, ReadChunk
  PROVE  TInv'
<1>1. /\ phase = "read" /\ phase' \in {"done", "tokens"} /\ files' = files
      /\ tok' = "ENOBUFS" \/ phase' = "tokens"
  BY DEF ReadChunk
<1>2. PICK chunk \in Fread(encoding, files, doc) \cup {<<>>} : Feed(chunk) /\ doc' = doc \o chunk
  BY DEF ReadChunk
<1>3. chunk \in Seq(Byte)
  <2>1. encoding \in Encodings /\ files \in Nat /\ doc \in Seq(Byte)
    BY DEF TInv, IInv, TypeOK
  <2>2. Fread(encoding, files, doc) \subseteq Seq(Byte)
    BY <2>1, Zenon DEF FreadBytes
  <2>3. <<>> \in Seq(Byte)
    OBVIOUS
  <2> QED BY <2>2, <2>3
<1>4. /\ IInv' /\ KeyInv' /\ Numerals' /\ Suited' /\ pc' = "idle"
      /\ tok' = "ENOBUFS" => ~(Position >= Size)
  BY <1>2, <1>3, FeedStays DEF TInv
<1>5. doc' \in Seq(Byte)
  BY <1>2, <1>3 DEF TInv
<1>6. NeverRefused'
  BY <1>1, <1>4 DEF TInv, ChunkUsed, NeverRefused
<1>7. LoopPhases' /\ ChunkUsed'
  BY <1>1, <1>4 DEF LoopPhases, ChunkUsed
<1> QED BY <1>1, <1>4, <1>5, <1>6, <1>7 DEF TInv

\* ajson_next_token() is called.
LEMMA CallNextTokenTInv ==
  ASSUME TInv, CallNextToken
  PROVE  TInv'
<1>1. NextToken /\ phase' = "call" /\ UNCHANGED <<doc, files, tok>>
  BY DEF CallNextToken, NextToken
<1>2. IInv' /\ KeyInv'
  <2>1. IInv'
    BY <1>1, NextTokenIInv DEF TInv
  <2> QED BY <1>1, <2>1, StepGrammar DEF TInv, Next
<1>3. Top' = Top /\ pc' # "idle" /\ flags' = flags
  <2>1. pc = "idle" /\ pc' = Top /\ UNCHANGED <<configVars, stackVars>>
    BY <1>1 DEF NextToken, Top
  <2>2. Top \in Labels
    BY DEF TInv, IInv, Frames
  <2> QED BY <2>1, <2>2, LabelFacts DEF Top, configVars
<1>4. Numerals' /\ Suited'
  BY <1>3 DEF TInv, Numerals, Suited
<1> QED BY <1>1, <1>2, <1>3, <1>4 DEF TInv, LoopPhases, ChunkUsed, NeverRefused

\* The call runs.
LEMMA RunCallTInv ==
  ASSUME TInv, RunCall
  PROVE  TInv'
<1>1. Run /\ phase = "call" /\ UNCHANGED driverVars
  BY DEF RunCall
<1>2. IInv' /\ KeyInv'
  <2>1. IInv'
    BY <1>1, StepIInv DEF TInv, Next
  <2> QED BY <1>1, <2>1, StepGrammar DEF TInv, Next
<1>3. Replied
  BY <1>1, <1>2, RunReplied DEF TInv
<1>4. doc' \in Seq(Byte) /\ files' \in Nat /\ LoopPhases' /\ ChunkUsed'
  BY <1>1, <1>3 DEF TInv, LoopPhases, ChunkUsed, Replied, driverVars
<1>5. NeverRefused'
  BY <1>3 DEF TInv, NeverRefused, Replied, Replies
<1> QED BY <1>2, <1>3, <1>4, <1>5 DEF TInv, Replied

\* A token is printed; more is read where the parser asked for it, or has seen the end.
LEMMA PrintTokenTInv ==
  ASSUME TInv, PrintToken
  PROVE  TInv'
<1>1. /\ phase = "call" /\ pc = "idle" /\ UNCHANGED <<vars, doc, files>>
      /\ phase' \in {"done", "read", "tokens"}
      /\ phase' = "read" => tok \in {"END", "NEED_DATA"}
  <2>1. /\ phase = "call" /\ pc = "idle" /\ UNCHANGED <<vars, doc, files>>
        /\ \/ tok = "ERROR" /\ phase' = "done"
           \/ tok \in {"END", "NEED_DATA"} /\ ChunkDone
           \/ phase' = "tokens"
    BY DEF PrintToken
  <2> QED BY <2>1 DEF ChunkDone
<1>2. /\ IInv' /\ KeyInv' /\ Numerals' /\ Suited'
      /\ Position' = Position /\ Size' = Size
  BY <1>1, ParserStays DEF TInv
<1>3. tok \in {"END", "NEED_DATA"} => Position >= Size
  BY <1>1 DEF TInv, IInv, FeedAccepted, Position
<1>4. LoopPhases' /\ ChunkUsed' /\ NeverRefused'
  BY <1>1, <1>2, <1>3 DEF TInv, LoopPhases, ChunkUsed, NeverRefused, vars
<1> QED BY <1>1, <1>2, <1>4 DEF TInv

\* The parser is reset for the next file.
LEMMA NextFileTInv ==
  ASSUME TInv, NextFile
  PROVE  TInv'
<1>1. Reset /\ phase' = "read" /\ doc' = <<>> /\ files' = files + 1
  BY DEF NextFile
<1>2. IInv'
  BY <1>1, ResetIInv DEF TInv
<1>3. KeyInv'
  BY <1>1, <1>2, ResetStep DEF TInv
<1>4. pc' = "idle" /\ tok' = "RESET" /\ Top' = "START" /\ Position' = 0 /\ Size' = 0
  <2>1. /\ pc' = "idle" /\ tok' = "RESET" /\ input' = <<>> /\ input_current' = 0
        /\ stack' = [stack EXCEPT ![0] = "START"] /\ stack_current' = 0
    BY <1>1 DEF Reset
  <2>2. 0 \in 0 .. stack_size - 1 /\ stack \in [0 .. stack_size - 1 -> Labels \cup {"uninit"}]
    <3>1. stack_size \in Nat /\ stack_current \in 0 .. stack_size - 1
      BY DEF TInv, IInv, TypeOK
    <3> QED BY <3>1 DEF TInv, IInv, TypeOK
  <2>3. stack'[0] = "START"
    BY <2>1, <2>2
  <2> QED BY <2>1, <2>3 DEF Top, Position, Size
<1>5. Numerals' /\ Suited'
  BY <1>4, NumeralFacts DEF Numerals, Suited, Suits
<1>6. doc' \in Seq(Byte) /\ files' \in Nat
  BY <1>1 DEF TInv
<1>7. LoopPhases' /\ ChunkUsed' /\ NeverRefused'
  BY <1>1, <1>4 DEF LoopPhases, ChunkUsed, NeverRefused
<1> QED BY <1>2, <1>3, <1>5, <1>6, <1>7 DEF TInv

\* The program starts with a new parser and its first file.
LEMMA InitTInv ==
  ASSUME TokenizeInit
  PROVE  TInv
<1>1. Init /\ phase = "read" /\ doc = <<>> /\ files = 1
  BY DEF TokenizeInit
<1>2. IInv /\ KeyInv
  BY <1>1, InitIInv, InitGrammar
<1>3. Top = "START" /\ pc = "idle" /\ tok = "INIT" /\ Position = 0 /\ Size = 0
  BY <1>1, MemoryAssumption DEF Init, Top, Position, Size
<1>4. Numerals /\ Suited
  BY <1>3, NumeralFacts DEF Numerals, Suited, Suits
<1>5. doc \in Seq(Byte) /\ files \in Nat /\ LoopPhases /\ ChunkUsed /\ NeverRefused
  BY <1>1, <1>3 DEF LoopPhases, ChunkUsed, NeverRefused
<1> QED BY <1>2, <1>4, <1>5 DEF TInv

-----------------------------------------------------------------------------
(* The theorem about the chunks. *)

\* TInv holds initially and every step preserves it.
THEOREM TokenizeInvariance == ASSUME FreadBytes PROVE TokenizeSpec => []TInv
<1>1. TokenizeInit => TInv
  BY InitTInv
<1>2. TInv /\ [TokenizeNext]_allVars => TInv'
  <2> SUFFICES ASSUME TInv, [TokenizeNext]_allVars PROVE TInv'
    OBVIOUS
  <2>1. CASE ReadChunk \/ CallNextToken \/ RunCall \/ PrintToken \/ NextFile
    BY <2>1, ReadChunkTInv, CallNextTokenTInv, RunCallTInv, PrintTokenTInv, NextFileTInv
  <2>2. CASE UNCHANGED allVars
    <3>1. UNCHANGED <<vars, driverVars>>
      BY <2>2 DEF allVars
    <3>2. /\ IInv' /\ KeyInv' /\ Numerals' /\ Suited'
          /\ Position' = Position /\ Size' = Size
      BY <3>1, ParserStays DEF TInv
    <3> QED BY <3>1, <3>2 DEF TInv, LoopPhases, ChunkUsed, NeverRefused, vars, driverVars
  <2> QED BY <2>1, <2>2 DEF TokenizeNext, Exit
<1> QED
  BY <1>1, <1>2, PTL DEF TokenizeSpec

\* The chunk a program reads is always taken: ajson_feed() never answers ENOBUFS to the
\* loop of tokenize(), for a file of any length, in whatever chunks it is read, whether
\* or not reads fail, and for any number of files.
THEOREM ChunksAreTaken == ASSUME FreadBytes PROVE TokenizeSpec => []NeverRefused
<1>1. TInv => NeverRefused
  BY DEF TInv
<1> QED
  BY <1>1, TokenizeInvariance, PTL

-----------------------------------------------------------------------------
(* The inductive invariant of a numeral that is read. *)

\* What was taken of the file, as of now, and the numeral at its end.
Consumed == SubSeq(doc, 1, Len(doc) - Size + Position)
LastRead == LastWord(Consumed)

\* Where a value may begin; where what was read is said something of.
Fresh == {"START", "start.ws", "VALUE", "arr.open", "arr.comma", "obj.colon"}
Watched == Fresh \cup {"arr.emit"} \cup NumberLabels \cup TextLabels

\* The chunk is the end of what was read of the file.
ChunkIsTail ==
  /\ Size <= Len(doc)
  /\ \A k \in 1 .. Size : input[k] = doc[Len(doc) - Size + k]

\* Where the parser is, that is what was read: nothing of a numeral in front of a value,
\* a bracket still to be taken behind the one answered, and in a numeral what was read of it,
\* held in the components or in the buffer.
WordSoFar ==
  /\ Top \in Watched => Position <= Size
  /\ Top \in Fresh => LastRead = <<>>
  /\ Top = "arr.emit" => Position < Size /\ input[Position + 1] = Ascii.lbracket
  /\ Top \in NumberLabels => Shaped(Top, LastRead) /\ ReadSoFar(Top, Parts(LastRead), Held)
  /\ Top \in TextLabels => Shaped(Top, LastRead) /\ buffer = LastRead

\* The properties of NumberGrammar.
NumberAnswers ==
  /\ AcceptsOnlyNumerals /\ ComponentsAreTheNumerals /\ IntegersInRange
  /\ DoublesAreTheNumerals /\ TextIsKept

\* The inductive invariant of numbers.
NInv ==
  /\ AcceptedFlags(flags)
  /\ ChunkIsTail
  /\ WordSoFar
  /\ NumberAnswers

-----------------------------------------------------------------------------
(* Bytes of the file. *)

\* The first bytes of a text, and one more.
LEMMA Prefix ==
  ASSUME NEW s \in Seq(Byte), NEW n \in 0 .. Len(s)
  PROVE  /\ SubSeq(s, 1, n) \in Seq(Byte)
         /\ n < Len(s) => SubSeq(s, 1, n + 1) = Append(SubSeq(s, 1, n), s[n + 1])
<1>1. SubSeq(s, 1, n) \in Seq(Byte)
  <2>1. \A i \in 1 .. n : s[i] \in Byte
    OBVIOUS
  <2> QED BY <2>1, SubSeqProperties
<1>2. ASSUME n < Len(s) PROVE SubSeq(s, 1, n + 1) = Append(SubSeq(s, 1, n), s[n + 1])
  <2> DEFINE m == n + 1
             a == SubSeq(s, 1, n)
             e == s[m]
  <2>1. 1 \in 1 .. Len(s) /\ m \in 1 .. Len(s) /\ m - 1 = n
    BY <1>2
  <2>2. e \in Byte
    BY <2>1
  <2> HIDE DEF m
  <2>3. SubSeq(s, 1, m) = SubSeq(s, 1, m - 1) \o <<s[m]>>
    BY <2>1, SubSeqRecursiveSecond
  <2>4. SubSeq(s, 1, m - 1) = a
    BY <2>1
  <2> HIDE DEF a, e
  <2>5. a \in Seq(Byte)
    BY <1>1 DEF a
  <2>6. a \o <<e>> = Append(a, e)
    BY <2>2, <2>5
  <2> QED BY <2>3, <2>4, <2>6 DEF a, e, m
<1> QED BY <1>1, <1>2

\* What was read are bytes, and the chunk is the end of it.
LEMMA ReadFacts ==
  ASSUME TInv, ChunkIsTail
  PROVE  /\ doc \in Seq(Byte) /\ input \in Seq(Byte) /\ Size \in Nat /\ Size <= Len(doc)
         /\ Position \in Nat /\ index \in Nat /\ buffer \in Seq(Byte)
         /\ Position <= Size => LastRead \in Seq(Byte)
<1>1. /\ doc \in Seq(Byte) /\ input \in Seq(Byte) /\ Position \in Nat /\ index \in Nat
      /\ buffer \in Seq(Byte)
  BY DEF TInv, IInv, TypeOK, Position
<1>2. Size \in Nat /\ Size <= Len(doc)
  BY <1>1, LenProperties DEF Size, ChunkIsTail
<1>3. ASSUME Position <= Size PROVE LastRead \in Seq(Byte)
  <2> DEFINE n == Len(doc) - Size + Position
  <2>1. n \in 0 .. Len(doc)
    <3>1. Len(doc) \in Nat
      BY <1>1
    <3> QED BY <1>1, <1>2, <1>3, <3>1
  <2> HIDE DEF n
  <2>2. SubSeq(doc, 1, n) \in Seq(Byte)
    BY <1>1, <2>1, Prefix
  <2>3. LastRead = LastWord(SubSeq(doc, 1, n))
    BY DEF LastRead, Consumed, n
  <2>4. \E ch : ch \in Byte
    BY DEF Byte
  <2> QED BY <2>2, <2>3, <2>4, WordGrows
<1> QED BY <1>1, <1>2, <1>3

\* A byte is taken: the numeral read last goes on, or is ended.
LEMMA OneTaken ==
  ASSUME TInv, ChunkIsTail, index < Size, Position = index,
         doc' = doc, input' = input, Position' = index + 1
  PROVE  /\ ChunkIsTail' /\ Position' <= Size' /\ input[index + 1] \in Byte
         /\ LastRead' = IF input[index + 1] \in NumeralBytes
                        THEN Append(LastRead, input[index + 1]) ELSE <<>>
<1> DEFINE ch == input[index + 1]
           n == Len(doc) - Size + index
           a == SubSeq(doc, 1, n)
<1>1. /\ doc \in Seq(Byte) /\ input \in Seq(Byte) /\ Size \in Nat /\ Size <= Len(doc)
      /\ index \in Nat /\ Len(doc) \in Nat /\ Size = Len(input)
  BY ReadFacts DEF Size
<1>2. ChunkIsTail' /\ Size' = Size
  BY DEF ChunkIsTail, Size
<1>3. n \in 0 .. Len(doc) /\ n < Len(doc) /\ n + 1 = Len(doc) - Size + (index + 1)
  BY <1>1
<1>4. ch \in Byte /\ ch = doc[n + 1]
  <2>1. index + 1 \in 1 .. Size
    BY <1>1
  <2>2. input[index + 1] = doc[Len(doc) - Size + (index + 1)]
    BY <2>1 DEF ChunkIsTail
  <2> QED BY <1>1, <1>3, <2>1, <2>2
<1> HIDE DEF ch, n
<1>5. a \in Seq(Byte) /\ SubSeq(doc, 1, n + 1) = Append(a, ch)
  <2>1. SubSeq(doc, 1, n + 1) = Append(a, doc[n + 1]) /\ a \in Seq(Byte)
    BY <1>1, <1>3, Prefix
  <2> QED BY <1>4, <2>1
<1>6. LastRead = LastWord(a)
  BY DEF LastRead, Consumed, n
<1>7. LastRead' = LastWord(SubSeq(doc, 1, n + 1))
  <2>1. Consumed' = SubSeq(doc, 1, Len(doc) - Size + (index + 1))
    BY <1>2 DEF Consumed
  <2> QED BY <1>3, <2>1 DEF LastRead
<1> HIDE DEF a
<1>8. /\ ch \in NumeralBytes => LastWord(Append(a, ch)) = Append(LastWord(a), ch)
      /\ ch \notin NumeralBytes => LastWord(Append(a, ch)) = <<>>
  BY <1>4, <1>5, WordGrows
<1>9. LastRead' = IF ch \in NumeralBytes THEN Append(LastRead, ch) ELSE <<>>
  BY <1>5, <1>6, <1>7, <1>8
<1>10. Position' <= Size'
  BY <1>1, <1>2
<1> QED BY <1>2, <1>4, <1>9, <1>10 DEF ch

\* CURR_CH is the byte of the chunk at index unless it is the end.
LEMMA CurrentByte ==
  ASSUME TInv, Running, NEW ch \in CurrCh, ch # EOF
  PROVE  ~AtEof /\ index < Size /\ ch = input[index + 1] /\ ch \in Byte
<1>1. IInv /\ Readable
  BY DEF TInv, Running
<1>2. ~AtEof /\ ch \in Byte
  BY <1>1, CurrChFacts
<1>3. index < Size
  BY <1>1, <1>2 DEF Readable
<1> QED BY <1>2, <1>3 DEF CurrCh

\* A byte is taken.
LEMMA Taking ==
  ASSUME TInv, ChunkIsTail, Running, NEW ch \in CurrCh, ch # EOF, NEW l \in Labels, Advance(l),
         doc' = doc
  PROVE  /\ Top' = l /\ Position' <= Size' /\ ChunkIsTail' /\ ~Answered'
         /\ LastRead' = IF ch \in NumeralBytes THEN Append(LastRead, ch) ELSE <<>>
         /\ LastRead \in Seq(Byte)
<1>1. pc \in Labels /\ pc # "idle" /\ l # "idle"
  BY LabelFacts DEF Running
<1>2. index < Size /\ ch = input[index + 1]
  BY CurrentByte
<1>3. pc' = l /\ index' = index + 1 /\ input' = input
  BY DEF Advance, inputVars
<1>4. Position = index /\ Position' = index + 1 /\ Top' = l /\ ~Answered'
  BY <1>1, <1>3 DEF Position, Top, Answered
<1>5. /\ ChunkIsTail' /\ Position' <= Size'
      /\ LastRead' = IF ch \in NumeralBytes THEN Append(LastRead, ch) ELSE <<>>
  BY <1>2, <1>3, <1>4, OneTaken
<1>6. LastRead \in Seq(Byte)
  <2>1. Position <= Size
    BY <1>2, <1>4, ReadFacts
  <2> QED BY <2>1, ReadFacts
<1> QED BY <1>4, <1>5, <1>6

-----------------------------------------------------------------------------
(* Steps of a call that are none of a numeral. *)

\* A step of a call that runs in the loop.
Going == TInv /\ NInv /\ flags' = flags /\ doc' = doc

\* Labels that are told apart.
LEMMA WatchedFacts ==
  /\ Fresh \subseteq Watched /\ "arr.emit" \in Watched /\ "VALUE" \in Fresh
  /\ NumberLabels \cup TextLabels \subseteq Watched
  /\ (Inner \cup (Doc \ {"START", "start.ws"})) \cap Watched = {}
  /\ {"ERROR", "STRING", "idle", "obj.emit"} \cap Watched = {}
  /\ Fresh \cap ({"arr.emit"} \cup NumberLabels \cup TextLabels) = {}
  /\ "arr.emit" \notin NumberLabels \cup TextLabels
  /\ NumberLabels \cap TextLabels = {}
  /\ StringLabels \cap Watched = {}
BY DEF Watched, Fresh, Inner, Doc, NumberLabels, TextLabels, StringLabels, Utf8Labels, HexLabels

\* Nothing is said of a step that does not answer a number.
LEMMA Unanswered ==
  ASSUME Going, ChunkIsTail', WordSoFar', ~Answered'
  PROVE  NInv'
<1>1. NumberAnswers'
  BY DEF NumberAnswers, AcceptsOnlyNumerals, ComponentsAreTheNumerals, IntegersInRange,
         DoublesAreTheNumerals, TextIsKept
<1>2. AcceptedFlags(flags)'
  BY DEF Going, NInv
<1> QED BY <1>1, <1>2 DEF NInv

\* Nor of one that leads to a label nothing is said of.
LEMMA Unwatched ==
  ASSUME Going, ChunkIsTail', Top' \notin Watched, ~Answered'
  PROVE  NInv'
<1>1. WordSoFar'
  BY WatchedFacts DEF WordSoFar
<1> QED BY <1>1, Unanswered

\* An answer leaves the place in the file.
LEMMA Answering ==
  ASSUME Going, pc # "idle", NEW t, Answer(t)
  PROVE  /\ ChunkIsTail' /\ Position' = Position /\ Size' = Size /\ LastRead' = LastRead
         /\ pc' = "idle" /\ tok' = t /\ Numeral' = LastRead /\ input' = input
         /\ input_current' = index /\ Position = index
<1>1. /\ input_current' = index /\ pc' = "idle" /\ tok' = t /\ input' = input /\ doc' = doc
  BY DEF Answer, Going
<1>2. Position = index /\ Position' = index /\ Size' = Size
  BY <1>1 DEF Position, Size
<1>3. ChunkIsTail'
  BY <1>1, <1>2 DEF Going, NInv, ChunkIsTail
<1>4. LastRead' = LastRead
  BY <1>1, <1>2 DEF LastRead, Consumed
<1>5. Numeral' = LastRead
  BY <1>1, <1>2 DEF Numeral, Taken, LastRead, Consumed
<1> QED BY <1>1, <1>2, <1>3, <1>4, <1>5

\* An error is answered.
LEMMA ErrsNInv ==
  ASSUME Going, pc # "idle", Errs
  PROVE  NInv'
<1>1. PICK e : Fail(e)
  BY DEF Errs
<1>2. Answer("ERROR") /\ stack' = [stack EXCEPT ![stack_current] = "ERROR"] /\ stack_current' = stack_current
  BY <1>1 DEF Fail
<1>3. ChunkIsTail' /\ pc' = "idle" /\ tok' = "ERROR"
  BY <1>2, Answering
<1>4. Top' = "ERROR"
  BY <1>2, <1>3, StackFacts DEF Top, Going, TInv
<1> QED BY <1>3, <1>4, Unwatched, WatchedFacts DEF Answered

\* RETURN of a value that is no number.
LEMMA PopNInv ==
  ASSUME Going, pc # "idle", NEW t, t \notin {"NUMBER", "INTEGER"}, NEW v, Pop(t, v)
  PROVE  NInv'
<1>1. CASE stack_current = 0
  BY <1>1, ErrsNInv DEF Pop, Errs
<1>2. CASE stack_current # 0
  <2>1. Answer(t) /\ stack' = stack /\ stack_current' = stack_current - 1
    BY <1>2 DEF Pop
  <2>2. ChunkIsTail' /\ pc' = "idle" /\ tok' = t
    BY <2>1, Answering
  <2>3. Framed(Top, stack, stack_current) /\ stack_current > 0
    BY <1>2, ExpectedReads, StackFacts DEF Going, TInv
  <2>4. Top' \in Inner \cup {"start.ret"}
    BY <2>1, <2>2, <2>3, ReturnFacts DEF Top
  <2>5. Top' \notin Watched
    BY <2>4, WatchedFacts DEF Doc
  <2> QED BY <2>2, <2>5, Unwatched DEF Answered
<1> QED BY <1>1, <1>2

\* The end of the document is answered.
LEMMA DoneNInv ==
  ASSUME Going, pc \in Trailing, Done
  PROVE  NInv'
<1>1. /\ Answer("END") /\ stack' = stack /\ stack_current' = stack_current
      /\ pc # "idle" /\ Top = pc
  BY DEF Done, stackVars, Trailing, Top
<1>2. ChunkIsTail' /\ pc' = "idle" /\ tok' = "END"
  BY <1>1, Answering
<1>3. Framed(Top, stack, stack_current)
  BY ExpectedReads DEF Going, TInv
<1>4. stack_current = 0
  BY <1>1, <1>3, StackFacts DEF Framed, Trailing, Doc, Going, TInv
<1>5. Top' \in Trailing
  BY <1>1, <1>2, <1>4 DEF Top, KeyInv, Going, TInv
<1>6. Top' \notin Watched
  BY <1>5, WatchedFacts DEF Trailing, Doc
<1> QED BY <1>2, <1>6, Unwatched DEF Answered

\* More data is asked for: the parser stays where it is.
LEMMA NeedDataNInv ==
  ASSUME Going, NeedData
  PROVE  NInv'
<1>1. /\ pc \in NeedLabels \cup MayLabels /\ Answer("NEED_DATA")
      /\ stack' = [stack EXCEPT ![stack_current] = pc] /\ stack_current' = stack_current
      /\ buffer' = buffer /\ value' = value
  BY DEF NeedData, bufferVars
<1>2. pc # "idle" /\ pc # "arr.emit"
  BY <1>1, LabelFacts DEF Checked, JumpLabels
<1>3. /\ ChunkIsTail' /\ Position' = Position /\ Size' = Size /\ LastRead' = LastRead
      /\ pc' = "idle" /\ tok' = "NEED_DATA" /\ input' = input
  BY <1>1, <1>2, Answering
<1>4. Top' = pc /\ Top = pc
  BY <1>1, <1>2, <1>3, StackFacts DEF Top, Going, TInv
<1>5. Held' = Held
  BY <1>1 DEF Held
<1>6. WordSoFar'
  BY <1>1, <1>2, <1>3, <1>4, <1>5 DEF Going, NInv, WordSoFar
<1> QED BY <1>3, <1>6, Unanswered DEF Answered

\* A byte is taken that is none of a numeral, or where no numeral can begin.
LEMMA TakeNInv ==
  ASSUME Going, Running, NEW ch \in CurrCh, ch # EOF, NEW l \in Labels, Advance(l),
         l \notin Watched \/ (l \in Fresh /\ ch \notin NumeralBytes)
  PROVE  NInv'
<1>1. /\ Top' = l /\ Position' <= Size' /\ ChunkIsTail' /\ ~Answered'
      /\ LastRead' = IF ch \in NumeralBytes THEN Append(LastRead, ch) ELSE <<>>
  BY Taking DEF Going, NInv
<1>2. CASE l \notin Watched
  BY <1>1, <1>2, Unwatched
<1>3. CASE l \in Fresh /\ ch \notin NumeralBytes
  <2>1. WordSoFar'
    BY <1>1, <1>3, WatchedFacts DEF WordSoFar
  <2> QED BY <1>1, <2>1, Unanswered
<1> QED BY <1>2, <1>3

\* A value is begun where nothing was read of it, or a key.
LEMMA RecurseNInv ==
  ASSUME Going, Running, NEW enter \in {"VALUE", "STRING"}, NEW return, Recurse(enter, return),
         enter = "VALUE" => pc \in Fresh
  PROVE  NInv'
<1>1. pc # "idle" /\ Top = pc
  BY LabelFacts DEF Running, Top
<1>2. CASE RaiseError("MEMORY")
  BY <1>1, <1>2, RaiseErrs, ErrsNInv
<1>3. CASE ~RaiseError("MEMORY")
  <2>1. pc' = enter /\ index' = index /\ input' = input /\ doc' = doc
    BY <1>3 DEF Recurse, inputVars, Going
  <2>2. /\ Position' = Position /\ Size' = Size /\ Top' = enter /\ ~Answered'
    BY <1>1, <2>1 DEF Position, Size, Top, Answered
  <2>3. ChunkIsTail' /\ LastRead' = LastRead
    BY <2>1, <2>2 DEF Going, NInv, ChunkIsTail, LastRead, Consumed
  <2>4. CASE enter = "STRING"
    BY <2>2, <2>3, <2>4, Unwatched, WatchedFacts
  <2>5. CASE enter = "VALUE"
    <3>1. LastRead = <<>> /\ Position <= Size
      BY <1>1, <2>5, WatchedFacts DEF Going, NInv, WordSoFar
    <3>2. WordSoFar'
      BY <2>2, <2>3, <2>5, <3>1, WatchedFacts DEF WordSoFar
    <3> QED BY <2>2, <2>3, <3>2, Unanswered
  <2> QED BY <2>4, <2>5
<1> QED BY <1>2, <1>3

\* A bracket is answered and stays in front.
LEMMA EmitNInv ==
  ASSUME Going, Running, NEW ch \in CurrCh, ch # EOF,
         \/ Emit("BEGIN_ARRAY", "arr.emit") /\ ch = Ascii.lbracket
         \/ Emit("BEGIN_OBJECT", "obj.emit")
  PROVE  NInv'
<1>1. pc # "idle"
  BY LabelFacts DEF Running
<1>2. PICK t \in {"BEGIN_ARRAY", "BEGIN_OBJECT"}, l \in {"arr.emit", "obj.emit"} :
        /\ Emit(t, l)
        /\ l = "arr.emit" => ch = Ascii.lbracket
  OBVIOUS
<1>3. /\ Answer(t) /\ stack' = [stack EXCEPT ![stack_current] = l] /\ stack_current' = stack_current
  BY <1>2 DEF Emit
<1>4. /\ ChunkIsTail' /\ Position' = Position /\ Size' = Size
      /\ pc' = "idle" /\ tok' = t /\ input' = input /\ Position = index
  BY <1>1, <1>3, Answering
<1>5. Top' = l
  BY <1>3, <1>4, StackFacts DEF Top, Going, TInv
<1>6. index < Size /\ ch = input[index + 1]
  BY CurrentByte DEF Going
<1>7. Position' < Size' /\ (l = "arr.emit" => input'[Position' + 1] = Ascii.lbracket)
  BY <1>2, <1>4, <1>6
<1>8. Position' <= Size'
  <2>1. Position \in Nat /\ Size \in Nat
    BY ReadFacts DEF Going, NInv
  <2> QED BY <1>4, <1>7, <2>1
<1>9. WordSoFar'
  BY <1>5, <1>7, <1>8, WatchedFacts DEF WordSoFar
<1> QED BY <1>4, <1>9, Unanswered DEF Answered

\* White space, brackets and separators are no bytes of numerals.
LEMMA Separators ==
  /\ (Space \cup {Ascii.comma, Ascii.colon, Ascii.quote, Ascii.lbracket, Ascii.rbracket,
                  Ascii.lbrace, Ascii.rbrace}) \cap (NumeralBytes \cup {EOF}) = {}
  /\ EOF \notin NumeralBytes
  /\ Digit \cup ExpMark \cup {Ascii.minus, Ascii.plus, Ascii.dot} = NumeralBytes
  /\ NumeralBytes \subseteq Byte
BY SMT DEF Space, NumeralBytes, Digit, ExpMark, Ascii, EOF, Byte

\* The letters of the literals.
LEMMA Letters ==
  \A label \in LiteralLabels :
    Letter[label] # EOF /\ Spelled[label] \in Labels \ Watched
<1> SUFFICES ASSUME NEW label \in LiteralLabels
             PROVE  Letter[label] # EOF /\ Spelled[label] \in Labels \ Watched
  OBVIOUS
<1>1. Letter[label] # EOF
  BY DEF LiteralLabels, Letter, Ascii, EOF
<1>2. Spelled[label] \in LiteralLabels \cup LiteralEnds
  BY DEF LiteralLabels, LiteralEnds, Spelled
<1>3. LiteralLabels \cup LiteralEnds \subseteq Labels \ Watched
  BY DEF Labels, NeedLabels, MayLabels, LiteralLabels, LiteralEnds, Watched, Fresh, NumberLabels, TextLabels
<1> QED BY <1>1, <1>2, <1>3

\* A step that is none of a numeral: a byte is taken, a value or a key is begun, an error
\* is answered, or a token other than a number.
PlainStep(label, ch) ==
  \/ \E l \in Labels :
       /\ Read(l) /\ ch # EOF
       /\ l \notin Watched \/ (l \in Fresh /\ ch \notin NumeralBytes)
  \/ \E enter \in {"VALUE", "STRING"} : \E return :
       Recurse(enter, return) /\ (enter = "VALUE" => label \in Fresh)
  \/ \E e : RaiseError(e)
  \/ \E t, v : t \notin {"NUMBER", "INTEGER"} /\ Return(t, v)

\* Each of those steps keeps what is said of numbers.
LEMMA PlainNInv ==
  ASSUME Going, NEW label \in Labels \ {"ERROR"}, At(label), NEW ch \in CurrCh, PlainStep(label, ch)
  PROVE  NInv'
<1>1. Running /\ pc = label
  BY AtFacts DEF Going, TInv
<1>2. pc # "idle"
  BY <1>1, LabelFacts
<1>3. CASE \E l \in Labels :
             /\ Read(l) /\ ch # EOF
             /\ l \notin Watched \/ (l \in Fresh /\ ch \notin NumeralBytes)
  BY <1>1, <1>3, TakeNInv DEF Read
<1>4. CASE \E enter \in {"VALUE", "STRING"} : \E return :
             Recurse(enter, return) /\ (enter = "VALUE" => label \in Fresh)
  BY <1>1, <1>4, RecurseNInv
<1>5. CASE \E e : RaiseError(e)
  BY <1>2, <1>5, RaiseErrs, ErrsNInv
<1>6. CASE \E t, v : t \notin {"NUMBER", "INTEGER"} /\ Return(t, v)
  BY <1>2, <1>6, PopNInv DEF Return
<1> QED BY <1>3, <1>4, <1>5, <1>6 DEF PlainStep

\* The labels containers wait at.
LEMMA ContainersUnwatched ==
  /\ {"start.ws", "start.trail", "arr.open", "arr.ws", "arr.comma", "arr.close", "obj.open", "obj.kws",
      "obj.colon", "obj.ws", "obj.comma", "obj.close", "START", "start.ret", "arr.emit", "arr.ret",
      "obj.emit", "obj.key", "obj.val", "VALUE"} \subseteq Labels \ {"ERROR"}
  /\ {"start.trail", "arr.ws", "arr.close", "obj.open", "obj.kws", "obj.ws", "obj.comma",
      "obj.close"} \cap Watched = {}
  /\ {"start.ws", "arr.open", "arr.comma", "obj.colon", "START"} \subseteq Fresh
BY DEF Labels, NeedLabels, MayLabels, JumpLabels, Watched, Fresh, NumberLabels, TextLabels

\* The steps of the document.
LEMMA DocumentNInv ==
  ASSUME Going, Start \/ Trail
  PROVE  NInv'
<1>1. CASE Start
  <2>1. PICK label \in {"START", "start.ws"}, ch \in CurrCh :
          /\ At(label)
          /\ IF ch \in Space THEN Read("start.ws") ELSE Recurse("VALUE", "start.ret")
    BY <1>1 DEF Start
  <2>2. label \in Labels \ {"ERROR"} /\ label \in Fresh /\ "start.ws" \in Labels
    BY ContainersUnwatched
  <2>3. PlainStep(label, ch)
    BY <2>1, <2>2, Separators, ContainersUnwatched DEF PlainStep
  <2> QED BY <2>1, <2>2, <2>3, PlainNInv
<1>2. CASE Trail
  <2>1. PICK label \in {"start.ret", "start.trail"}, ch \in CurrCh :
          /\ At(label)
          /\ \/ ch = EOF /\ Done
             \/ ch \in Space /\ Read("start.trail")
             \/ RaiseError("UNEXPECTED_CHAR")
    BY <1>2 DEF Trail
  <2>2. label \in Labels \ {"ERROR"} /\ "start.trail" \in Labels
    BY ContainersUnwatched
  <2>3. CASE Done
    BY <2>1, <2>3, DoneNInv DEF At, Trailing
  <2>4. CASE (ch \in Space /\ Read("start.trail")) \/ RaiseError("UNEXPECTED_CHAR")
    <3>1. PlainStep(label, ch)
      BY <2>4, <2>2, Separators, ContainersUnwatched DEF PlainStep
    <3> QED BY <2>1, <2>2, <3>1, PlainNInv
  <2> QED BY <2>1, <2>3, <2>4
<1> QED BY <1>1, <1>2

\* The steps of the literals.
LEMMA LiteralNInv ==
  ASSUME Going, LiteralLetter \/ LiteralEnd
  PROVE  NInv'
<1>1. CASE LiteralLetter
  <2>1. PICK label \in LiteralLabels, ch \in CurrCh :
          /\ At(label)
          /\ IF ch = Letter[label] THEN Read(Spelled[label]) ELSE RaiseError("UNEXPECTED_CHAR")
    BY <1>1 DEF LiteralLetter
  <2>2. label \in Labels \ {"ERROR"}
    BY DEF Labels, NeedLabels, LiteralLabels
  <2>3. PlainStep(label, ch)
    BY <2>1, Letters DEF PlainStep
  <2> QED BY <2>1, <2>2, <2>3, PlainNInv
<1>2. CASE LiteralEnd
  <2>1. PICK label \in LiteralEnds, ch \in CurrCh :
          /\ At(label)
          /\ \/ RaiseError("UNEXPECTED_CHAR")
             \/ Return("NULL", value)
             \/ Return("BOOLEAN", <<"boolean", label = "true">>)
    BY <1>2 DEF LiteralEnd
  <2>2. label \in Labels \ {"ERROR"}
    BY DEF Labels, MayLabels, LiteralEnds
  <2>3. PlainStep(label, ch)
    BY <2>1 DEF PlainStep
  <2> QED BY <2>1, <2>2, <2>3, PlainNInv
<1> QED BY <1>1, <1>2

\* The steps of an array.
LEMMA ArrayNInv ==
  ASSUME Going, ArrayFirst \/ ArrayNext \/ ArrayMore \/ ArrayClosed
  PROVE  NInv'
<1>0. /\ {"arr.open", "arr.ret", "arr.ws", "arr.comma", "arr.close"} \subseteq Labels \ {"ERROR"}
      /\ "arr.open" \in Fresh /\ "arr.comma" \in Fresh
      /\ "arr.ws" \notin Watched /\ "arr.close" \notin Watched
  BY ContainersUnwatched
<1>1. CASE ArrayFirst
  <2>1. PICK ch \in CurrCh :
          /\ At("arr.open")
          /\ \/ ch \in Space /\ Read("arr.open")
             \/ ch = Ascii.rbracket /\ Read("arr.close")
             \/ Recurse("VALUE", "arr.ret")
    BY <1>1 DEF ArrayFirst
  <2>2. PlainStep("arr.open", ch)
    BY <1>0, <2>1, Separators DEF PlainStep
  <2> QED BY <1>0, <2>1, <2>2, PlainNInv
<1>2. CASE ArrayNext
  <2>1. PICK label \in {"arr.ret", "arr.ws"}, ch \in CurrCh :
          /\ At(label)
          /\ \/ \E e : RaiseError(e)
             \/ ch \in Space /\ Read("arr.ws")
             \/ ch = Ascii.comma /\ Read("arr.comma")
             \/ ch = Ascii.rbracket /\ Read("arr.close")
    BY <1>2 DEF ArrayNext
  <2>2. PlainStep(label, ch)
    BY <1>0, <2>1, Separators DEF PlainStep
  <2> QED BY <1>0, <2>1, <2>2, PlainNInv
<1>3. CASE ArrayMore
  <2>1. PICK ch \in CurrCh :
          /\ At("arr.comma")
          /\ IF ch \in Space THEN Read("arr.comma") ELSE Recurse("VALUE", "arr.ret")
    BY <1>3 DEF ArrayMore
  <2>2. PlainStep("arr.comma", ch)
    BY <1>0, <2>1, Separators DEF PlainStep
  <2> QED BY <1>0, <2>1, <2>2, PlainNInv
<1>4. CASE ArrayClosed
  <2>1. At("arr.close") /\ Return("END_ARRAY", value)
    BY <1>4 DEF ArrayClosed
  <2>2. pc # "idle"
    BY <2>1, <1>0, LabelFacts DEF At
  <2> QED BY <2>1, <2>2, PopNInv DEF Return
<1> QED BY <1>1, <1>2, <1>3, <1>4

\* The steps of an object.
LEMMA ObjectNInv ==
  ASSUME Going, \/ ObjectFirst \/ ObjectColon \/ ObjectValue
                \/ ObjectNext \/ ObjectMore \/ ObjectClosed
  PROVE  NInv'
<1>0. /\ {"obj.open", "obj.key", "obj.kws", "obj.colon", "obj.val", "obj.ws", "obj.comma", "obj.close"}
           \subseteq Labels \ {"ERROR"}
      /\ "obj.colon" \in Fresh
      /\ {"obj.open", "obj.kws", "obj.ws", "obj.comma", "obj.close"} \cap Watched = {}
  BY ContainersUnwatched
<1>1. CASE ObjectFirst
  <2>1. PICK ch \in CurrCh :
          /\ At("obj.open")
          /\ \/ ch \in Space /\ Read("obj.open")
             \/ ch = Ascii.rbrace /\ Read("obj.close")
             \/ Recurse("STRING", "obj.key")
             \/ RaiseError("EXPECTED_STRING")
    BY <1>1 DEF ObjectFirst, ObjectKey
  <2>2. PlainStep("obj.open", ch)
    BY <1>0, <2>1, Separators DEF PlainStep
  <2> QED BY <1>0, <2>1, <2>2, PlainNInv
<1>2. CASE ObjectColon
  <2>1. PICK label \in {"obj.key", "obj.kws"}, ch \in CurrCh :
          /\ At(label)
          /\ \/ \E e : RaiseError(e)
             \/ ch \in Space /\ Read("obj.kws")
             \/ ch = Ascii.colon /\ Read("obj.colon")
    BY <1>2 DEF ObjectColon
  <2>2. PlainStep(label, ch)
    BY <1>0, <2>1, Separators DEF PlainStep
  <2> QED BY <1>0, <2>1, <2>2, PlainNInv
<1>3. CASE ObjectValue
  <2>1. PICK ch \in CurrCh :
          /\ At("obj.colon")
          /\ IF ch \in Space THEN Read("obj.colon") ELSE Recurse("VALUE", "obj.val")
    BY <1>3 DEF ObjectValue
  <2>2. PlainStep("obj.colon", ch)
    BY <1>0, <2>1, Separators DEF PlainStep
  <2> QED BY <1>0, <2>1, <2>2, PlainNInv
<1>4. CASE ObjectNext
  <2>1. PICK label \in {"obj.val", "obj.ws"}, ch \in CurrCh :
          /\ At(label)
          /\ \/ \E e : RaiseError(e)
             \/ ch \in Space /\ Read("obj.ws")
             \/ ch = Ascii.comma /\ Read("obj.comma")
             \/ ch = Ascii.rbrace /\ Read("obj.close")
    BY <1>4 DEF ObjectNext
  <2>2. PlainStep(label, ch)
    BY <1>0, <2>1, Separators DEF PlainStep
  <2> QED BY <1>0, <2>1, <2>2, PlainNInv
<1>5. CASE ObjectMore
  <2>1. PICK ch \in CurrCh :
          /\ At("obj.comma")
          /\ \/ ch \in Space /\ Read("obj.comma")
             \/ Recurse("STRING", "obj.key")
             \/ RaiseError("EXPECTED_STRING")
    BY <1>5 DEF ObjectMore, ObjectKey
  <2>2. PlainStep("obj.comma", ch)
    BY <1>0, <2>1, Separators DEF PlainStep
  <2> QED BY <1>0, <2>1, <2>2, PlainNInv
<1>6. CASE ObjectClosed
  <2>1. At("obj.close") /\ Return("END_OBJECT", value)
    BY <1>6 DEF ObjectClosed
  <2>2. pc # "idle"
    BY <2>1, <1>0, LabelFacts DEF At
  <2> QED BY <2>1, <2>2, PopNInv DEF Return
<1> QED BY <1>1, <1>2, <1>3, <1>4, <1>5, <1>6

\* A bracket that was answered is taken.
LEMMA EmittedNInv ==
  ASSUME Going, ArrayEmitted \/ ObjectEmitted
  PROVE  NInv'
<1>1. PICK label \in {"arr.emit", "obj.emit"}, l \in {"arr.open", "obj.open"} :
        /\ At(label) /\ Read(l)
        /\ label = "arr.emit" <=> l = "arr.open"
  BY DEF ArrayEmitted, ObjectEmitted
<1>2. label \in Labels \ {"ERROR"} /\ l # "idle"
  BY ContainersUnwatched
<1>3. Running /\ pc = label /\ Top = label /\ pc # "idle"
  BY <1>1, <1>2, AtFacts, LabelFacts DEF Going, TInv
<1>4. pc' = l /\ index' = index + 1 /\ input' = input /\ doc' = doc
  BY <1>1 DEF Read, Advance, inputVars, Going
<1>5. Position = index /\ Position' = index + 1 /\ Top' = l /\ Size' = Size /\ ~Answered'
  BY <1>2, <1>3, <1>4 DEF Position, Top, Answered, Size
<1>6. ChunkIsTail'
  BY <1>4, <1>5 DEF Going, NInv, ChunkIsTail
<1>7. CASE l = "obj.open"
  BY <1>5, <1>6, <1>7, Unwatched, ContainersUnwatched
<1>8. CASE l = "arr.open"
  <2>1. index < Size /\ input[index + 1] = Ascii.lbracket
    BY <1>1, <1>3, <1>5, <1>8 DEF Going, NInv, WordSoFar
  <2>2. Position' <= Size' /\ LastRead' = <<>>
    BY <1>4, <1>5, <2>1, OneTaken, Separators DEF Going, NInv
  <2>3. WordSoFar'
    BY <1>5, <1>8, <2>2, WatchedFacts, ContainersUnwatched DEF WordSoFar
  <2> QED BY <1>5, <1>6, <2>3, Unanswered
<1> QED BY <1>7, <1>8

\* The steps of a string: they stay inside of it, or answer it.
LEMMA StringNInv ==
  ASSUME Going, StringNext
  PROVE  NInv'
<1>1. Shapes
  BY StringShapes
<1>2. pc \in StringLabels
  <2>1. \E label \in StringLabels : At(label)
    <3>1. \A k \in 1 .. 8 : HexLabel[k] \in HexLabels
      BY DEF HexLabel, HexLabels
    <3> QED BY <3>1 DEF StringNext, String, StringByte, Utf8Byte, EscapeByte, HexByte, SurrogateBackslash,
               SurrogateU, EndString, StringLabels
  <2> QED BY <2>1 DEF At
<1>3. pc # "idle" /\ pc \notin ContainerLabels /\ pc # "VALUE"
  <2>1. pc \in Scanning
    BY <1>2, ScanningFacts
  <2> QED BY <1>2, <2>1, ScanningFacts, LabelFacts DEF Scanning
<1>4. CASE Scans
  <2>1. PICK l \in Labels : Advance(l) /\ Kin(pc, l)
    BY <1>4 DEF Scans
  <2>2. l \in StringLabels /\ l # "idle"
    BY <1>2, <2>1, LabelFacts DEF Kin
  <2>3. pc' = l /\ input' = input
    BY <2>1 DEF Advance, inputVars
  <2>4. Top' = l /\ ~Answered' /\ ChunkIsTail'
    BY <2>2, <2>3 DEF Top, Answered, Going, NInv, ChunkIsTail, Size
  <2> QED BY <2>2, <2>4, Unwatched, WatchedFacts
<1>5. CASE Errs
  BY <1>3, <1>5, ErrsNInv
<1>6. CASE Closes
  <2>1. PICK t, v : Gives(pc, t) /\ Pop(t, v)
    BY <1>6 DEF Closes
  <2>2. t = "STRING"
    BY <1>2, <1>3, <2>1 DEF Gives, ContainerLabels
  <2> QED BY <1>3, <2>1, <2>2, PopNInv
<1>7. CASE NeedData
  BY <1>7, NeedDataNInv
<1>8. ~Enters /\ ~Opens /\ ~Finishes
  BY <1>3 DEF Enters, Opens, Finishes, ContainerLabels
<1> QED BY <1>1, <1>4, <1>5, <1>6, <1>7, <1>8 DEF Shapes

-----------------------------------------------------------------------------
(* Steps of a numeral. *)

\* What is known where a numeral is read into components.
Reading(l, c) ==
  /\ Running
  /\ LastRead \in Seq(Byte)
  /\ Shape(l, Parts(LastRead)) /\ ReadSoFar(l, Parts(LastRead), c)
  /\ c \in Components
  /\ "NUMBER_AS_STRING" \notin flags

\* What is known at a label of the number scanner.
LEMMA AtNumber ==
  ASSUME Going, NEW l \in NumberLabels, At(l)
  PROVE  Reading(l, Held) /\ Shaped(l, LastRead) /\ LastRead # <<>>
<1>1. l \in Labels \ {"ERROR"} /\ l # "idle"
  BY PlainFacts, LabelFacts, NumeralFacts DEF NumeralLabels
<1>2. Running /\ pc = l /\ Top = l
  BY <1>1, AtFacts DEF Going, TInv
<1>3. /\ Position <= Size /\ Shaped(l, LastRead) /\ ReadSoFar(l, Parts(LastRead), Held)
  BY <1>2, WatchedFacts DEF Going, NInv, WordSoFar
<1>4. LastRead \in Seq(Byte)
  BY <1>3, ReadFacts DEF Going, NInv
<1>5. Held \in Components
  BY <1>2 DEF Going, TInv, IInv, TypeOK, ValueOK, ScratchKept, ScratchOf, Live, Held
<1>6. "NUMBER_AS_STRING" \notin flags
  BY <1>2 DEF Going, TInv, Numerals
<1> QED BY <1>2, <1>3, <1>4, <1>5, <1>6 DEF Reading, Shaped

\* What is known at a label of the scanner that keeps the text.
LEMMA AtText ==
  ASSUME Going, NEW l \in TextLabels, At(l)
  PROVE  /\ Running /\ LastRead \in Seq(Byte) /\ buffer = LastRead /\ "NUMBER_AS_STRING" \in flags
         /\ Shaped(l, LastRead) /\ Shape(l, Parts(LastRead)) /\ LastRead # <<>>
<1>1. l \in Labels \ {"ERROR"} /\ l # "idle"
  BY LabelFacts, NumeralFacts DEF NumeralLabels, Labels, NeedLabels, MayLabels, TextLabels
<1>2. Running /\ pc = l /\ Top = l
  BY <1>1, AtFacts DEF Going, TInv
<1>3. /\ Position <= Size /\ Shaped(l, LastRead) /\ buffer = LastRead
  BY <1>2, WatchedFacts DEF Going, NInv, WordSoFar
<1>4. LastRead \in Seq(Byte)
  BY <1>3, ReadFacts DEF Going, NInv
<1>5. "NUMBER_AS_STRING" \in flags
  BY <1>2 DEF Going, TInv, Numerals
<1> QED BY <1>2, <1>3, <1>4, <1>5 DEF Shaped

\* A byte is taken and the components are set.
LEMMA ScanNInv ==
  ASSUME Going, Running, NEW ch \in CurrCh, ch \in NumeralBytes, NEW l \in NumberLabels, NEW c,
         Advance(l), Held' = c,
         Shaped(l, Append(LastRead, ch)), ReadSoFar(l, Parts(Append(LastRead, ch)), c)
  PROVE  NInv'
<1>1. l \in Labels /\ ch # EOF
  BY PlainFacts, LabelFacts, Separators
<1>2. /\ Top' = l /\ Position' <= Size' /\ ChunkIsTail' /\ ~Answered'
      /\ LastRead' = Append(LastRead, ch)
  BY <1>1, Taking DEF Going, NInv
<1>3. WordSoFar'
  BY <1>2, WatchedFacts DEF WordSoFar
<1> QED BY <1>2, <1>3, Unanswered

\* A byte is taken and put behind the text.
LEMMA TextNInv ==
  ASSUME Going, Running, NEW ch \in CurrCh, ch \in NumeralBytes, NEW l \in TextLabels,
         StoreByte(LastRead, ch, Advance(l) /\ UNCHANGED value),
         Shaped(l, Append(LastRead, ch))
  PROVE  NInv'
<1>1. l \in Labels /\ ch # EOF /\ ch \in Byte
  BY LabelFacts, Separators DEF Labels, NeedLabels, MayLabels, TextLabels
<1>2. pc # "idle"
  BY LabelFacts DEF Running
<1>3. \/ Fail("MEMORY")
      \/ buffer' = LastRead \o <<ch>> /\ Advance(l)
  BY DEF StoreByte, Store
<1>4. CASE Fail("MEMORY")
  BY <1>2, <1>4, ErrsNInv DEF Errs
<1>5. CASE buffer' = LastRead \o <<ch>> /\ Advance(l)
  <2>1. /\ Top' = l /\ Position' <= Size' /\ ChunkIsTail' /\ ~Answered'
        /\ LastRead' = Append(LastRead, ch) /\ LastRead \in Seq(Byte)
    BY <1>1, <1>5, Taking DEF Going, NInv
  <2>2. buffer' = LastRead'
    BY <1>1, <1>5, <2>1
  <2>3. WordSoFar'
    BY <2>1, <2>2, WatchedFacts DEF WordSoFar
  <2> QED BY <2>1, <2>3, Unanswered
<1> QED BY <1>3, <1>4, <1>5

-----------------------------------------------------------------------------
(* The end of a numeral. *)

\* What is right where a number is answered.
LEMMA NumberAnswered ==
  ASSUME Going, Running, NEW ch \in CurrCh, ch \notin Word,
         NEW t \in {"NUMBER", "INTEGER"}, NEW v, Pop(t, v), stack_current # 0
  PROVE  /\ ChunkIsTail' /\ WordSoFar' /\ Answered' /\ tok' = t /\ value' = v
         /\ Numeral' = LastRead
         /\ IsNumeral(Parts(LastRead)) => AcceptsOnlyNumerals'
<1>1. pc # "idle"
  BY LabelFacts DEF Running
<1>2. Answer(t) /\ stack' = stack /\ stack_current' = stack_current - 1 /\ value' = v
  BY DEF Pop
<1>3. /\ ChunkIsTail' /\ pc' = "idle" /\ tok' = t /\ Numeral' = LastRead /\ Size' = Size
      /\ input' = input /\ input_current' = index
  BY <1>1, <1>2, Answering
<1>4. Framed(Top, stack, stack_current) /\ stack_current > 0
  BY ExpectedReads, StackFacts DEF Going, TInv
<1>5. Top' \in Inner \cup {"start.ret"}
  BY <1>2, <1>3, <1>4, ReturnFacts DEF Top
<1>6. Top' \notin Watched
  BY <1>5, WatchedFacts DEF Doc
<1>7. WordSoFar'
  BY <1>6, WatchedFacts DEF WordSoFar
<1>8. Answered'
  BY <1>3 DEF Answered
<1>9. AtEof' = AtEof
  BY <1>3 DEF AtEof
<1>10. ~AtEof => index < Size /\ input[index + 1] \notin Word
  <2>1. ASSUME ~AtEof PROVE ch # EOF
    <3>1. IInv /\ Readable
      BY DEF Going, TInv, Running
    <3>2. index < Size /\ ch = input[index + 1]
      BY <2>1, <3>1 DEF Readable, CurrCh
    <3>3. index + 1 \in 1 .. Len(input)
      BY <3>2, ReadFacts DEF Going, NInv, Size
    <3>4. ch \in Byte
      BY <3>2, <3>3, ReadFacts DEF Going, NInv
    <3> QED BY <3>4 DEF EOF, Byte
  <2> QED BY <2>1, CurrentByte DEF Going
<1>11. ASSUME IsNumeral(Parts(LastRead)) PROVE AcceptsOnlyNumerals'
  <2>1. ~AtEof' => input_current' < Size' /\ input'[input_current' + 1] \notin Word
    BY <1>3, <1>9, <1>10
  <2> QED BY <1>3, <1>11, <2>1 DEF AcceptsOnlyNumerals
<1> QED BY <1>2, <1>3, <1>7, <1>8, <1>11

\* A number is answered with what its components hold.
LEMMA FinishNumberNInv ==
  ASSUME Going, Running, NEW ch \in CurrCh, NEW c \in Components, LastRead \in Seq(Byte),
         AllDigits(Parts(LastRead)), Complete(Parts(LastRead), c),
         "NUMBER_AS_STRING" \notin flags, FinishNumber(c, ch)
  PROVE  NInv'
<1> DEFINE p == Parts(LastRead)
           n == Int64(IF c.positive THEN c.integer ELSE Uint(-c.integer))
<1>1. pc # "idle" /\ p \in PartsSet
  BY LabelFacts, PartsFacts DEF Running
<1>2. /\ IsNumeral(p)
      /\ c.isinteger <=> IsInteger(p) /\ Fits64(p.int)
  BY DEF Complete
<1>3. \/ RaiseError("UNEXPECTED_CHAR")
      \/ /\ ch \notin Word
         /\ \/ "INTEGER" \in flags /\ c.isinteger /\ Pop("INTEGER", <<"integer", n>>)
            \/ /\ ~("INTEGER" \in flags /\ c.isinteger)
               /\ \/ Pop("NUMBER", <<"components", c>>)
                  \/ Pop("NUMBER", <<"number", Double(c)>>)
  BY DEF FinishNumber, Return, ComponentsValue
<1>4. /\ (~Fits64(p.int) /\ (p.hasExp \/ p.hasFrac)) \/ ReadAsComponents(p, c)
      /\ c.isinteger /\ NumberOf(p.int) <= MaxU \div 2 => n = Signed(p)
      /\ Fits64(p.int) /\ Fits64(p.frac) /\ Double(c).class # "nan" => ReadAsDouble(p, Double(c))
  <2>1. (~Fits64(p.int) /\ (p.hasExp \/ p.hasFrac)) \/ ReadAsComponents(p, c)
    BY <1>1, CompleteComponents
  <2>2. c.isinteger /\ NumberOf(p.int) <= MaxU \div 2 => n = Signed(p)
    BY CompleteInteger
  <2>3. Fits64(p.int) /\ Fits64(p.frac) /\ Double(c).class # "nan" => ReadAsDouble(p, Double(c))
    BY <1>1, CompleteDouble
  <2> QED BY <2>1, <2>2, <2>3
<1>5. CASE RaiseError("UNEXPECTED_CHAR")
  BY <1>1, <1>5, RaiseErrs, ErrsNInv
<1>6. ASSUME stack_current = 0, NEW t, NEW v, Pop(t, v) PROVE NInv'
  BY <1>1, <1>6, ErrsNInv DEF Pop, Errs
<1> HIDE DEF n
<1>7. ASSUME ch \notin Word, stack_current # 0, NEW t \in {"NUMBER", "INTEGER"}, NEW v, Pop(t, v),
             t = "INTEGER" <=> "INTEGER" \in flags /\ c.isinteger,
             t = "INTEGER" => v = <<"integer", n>>,
             t = "NUMBER" => v = <<"components", c>> \/ v = <<"number", Double(c)>>
      PROVE  NInv'
  <2>1. /\ ChunkIsTail' /\ WordSoFar' /\ tok' = t /\ value' = v /\ Parts(Numeral') = p
        /\ AcceptsOnlyNumerals'
    BY <1>2, <1>7, NumberAnswered
  <2>2. Live' = v[1] /\ Held' = v[2] /\ flags' = flags
    BY <2>1 DEF Live, Held, Going
  <2> HIDE DEF p
  <2>7. /\ v[1] = "components" => v[2] = c
        /\ v[1] = "number" => v[2] = Double(c)
    <3> DEFINE d == Double(c)
    <3>1. \/ v = <<"integer", n>>
          \/ v = <<"components", c>>
          \/ v = <<"number", d>>
      BY <1>7
    <3> HIDE DEF d
    <3>2. CASE v = <<"integer", n>>
      BY <3>2
    <3>3. CASE v = <<"components", c>>
      BY <3>3
    <3>4. CASE v = <<"number", d>>
      BY <3>4 DEF d
    <3> QED BY <3>1, <3>2, <3>3, <3>4
  <2>3. ComponentsAreTheNumerals'
    <3>1. SUFFICES ASSUME tok' = "NUMBER", Live' = "components"
                   PROVE  (~Fits64(p.int) /\ (p.hasExp \/ p.hasFrac)) \/ ReadAsComponents(p, Held')
      BY <2>1 DEF ComponentsAreTheNumerals
    <3>2. Held' = c
      BY <2>2, <2>7, <3>1
    <3> QED BY <1>4, <3>2
  <2>4. IntegersInRange'
    <3>1. tok' = "INTEGER" <=> ("INTEGER" \in flags /\ IsInteger(p) /\ Fits64(p.int))
      BY <1>2, <1>7, <2>1
    <3>2. ASSUME tok' = "INTEGER", NumberOf(p.int) <= MaxU \div 2 PROVE Held' = Signed(p)
      <4>1. Held' = n /\ c.isinteger
        BY <1>7, <2>1, <2>2, <3>2
      <4> QED BY <1>4, <3>2, <4>1
    <3> QED BY <2>1, <2>2, <3>1, <3>2 DEF IntegersInRange
  <2>5. DoublesAreTheNumerals'
    <3>1. SUFFICES ASSUME Live' = "number", Fits64(p.int), Fits64(p.frac), Held'.class # "nan"
                   PROVE  ReadAsDouble(p, Held')
      BY <2>1 DEF DoublesAreTheNumerals
    <3>2. Held' = Double(c)
      BY <2>2, <2>7, <3>1
    <3> QED BY <1>4, <3>1, <3>2
  <2>6. TextIsKept'
    BY <2>2 DEF TextIsKept
  <2> QED BY <2>1, <2>2, <2>3, <2>4, <2>5, <2>6 DEF NInv, NumberAnswers, AcceptedFlags
<1>8. CASE ch \notin Word /\ "INTEGER" \in flags /\ c.isinteger /\ Pop("INTEGER", <<"integer", n>>)
  BY <1>6, <1>7, <1>8
<1>9. CASE ch \notin Word /\ ~("INTEGER" \in flags /\ c.isinteger) /\ Pop("NUMBER", <<"components", c>>)
  BY <1>6, <1>7, <1>9
<1>10. CASE ch \notin Word /\ ~("INTEGER" \in flags /\ c.isinteger) /\ Pop("NUMBER", <<"number", Double(c)>>)
  BY <1>6, <1>7, <1>10
<1> QED BY <1>3, <1>5, <1>8, <1>9, <1>10 DEF n

\* A numeral kept as text is answered.
LEMMA FinishTextNInv ==
  ASSUME Going, Running, NEW ch \in CurrCh, LastRead \in Seq(Byte), buffer = LastRead,
         IsNumeral(Parts(LastRead)), "NUMBER_AS_STRING" \in flags, FinishText(ch)
  PROVE  NInv'
<1>1. pc # "idle" /\ "INTEGER" \notin flags
  BY LabelFacts DEF Running, Going, NInv, AcceptedFlags
<1>2. \/ \E e : Fail(e)
      \/ ch \notin Word /\ buffer' = buffer \o <<0>> /\ Pop("NUMBER", <<"string", Used>>)
  BY DEF FinishText, RaiseError, StoreByte, Store
<1>3. CASE \E e : Fail(e)
  BY <1>1, <1>3, ErrsNInv DEF Errs
<1>4. CASE stack_current = 0 /\ Pop("NUMBER", <<"string", Used>>)
  BY <1>1, <1>4, ErrsNInv DEF Pop, Errs
<1>5. CASE stack_current # 0 /\ ch \notin Word /\ buffer' = buffer \o <<0>>
           /\ Pop("NUMBER", <<"string", Used>>)
  <2>1. /\ ChunkIsTail' /\ WordSoFar' /\ tok' = "NUMBER" /\ value' = <<"string", Used>>
        /\ Numeral' = LastRead /\ AcceptsOnlyNumerals'
    BY <1>5, NumberAnswered
  <2>2. Live' = "string" /\ Held' = Len(buffer) /\ flags' = flags
    BY <2>1 DEF Live, Held, Used, Going
  <2>3. SubSeq(buffer', 1, Len(buffer)) = buffer
    <3>1. buffer \in Seq(Byte) /\ <<0>> \in Seq(Byte)
      BY DEF Byte
    <3> QED BY <1>5, <3>1
  <2>4. TextIsKept'
    BY <2>1, <2>2, <2>3 DEF TextIsKept
  <2>5. ComponentsAreTheNumerals' /\ DoublesAreTheNumerals'
    BY <2>2 DEF ComponentsAreTheNumerals, DoublesAreTheNumerals
  <2>6. IntegersInRange'
    BY <1>1, <2>1, <2>2 DEF IntegersInRange
  <2>7. AcceptedFlags(flags)'
    BY <2>2 DEF Going, NInv, AcceptedFlags
  <2> QED BY <2>1, <2>4, <2>5, <2>6, <2>7 DEF NInv, NumberAnswers
<1> QED BY <1>2, <1>3, <1>4, <1>5

\* Scan() takes a byte and sets the components.
LEMMA ScanIsNInv ==
  ASSUME Going, Running, NEW ch \in CurrCh, ch \in NumeralBytes, NEW l \in NumberLabels, NEW c,
         Scan(c, l),
         Shaped(l, Append(LastRead, ch)), ReadSoFar(l, Parts(Append(LastRead, ch)), c)
  PROVE  NInv'
<1>1. Advance(l) /\ Held' = c
  BY DEF Scan, ComponentsValue, Held
<1> QED BY <1>1, ScanNInv

\* The labels of the parts.
LEMMA PartLabels ==
  /\ NegLabels \cup ZeroLabels \cup IntLabels \cup DotLabels \cup FracLabels \cup ExpLabels
       \cup SignLabels \cup ExpDigitLabels = NumberLabels \cup TextLabels
  /\ "num.neg" \in NegLabels /\ "num.zero" \in ZeroLabels /\ {"num.int", "num.big"} \subseteq IntLabels
  /\ "num.dot" \in DotLabels /\ {"num.dec", "num.decmore"} \subseteq FracLabels
  /\ "num.exp" \in ExpLabels /\ {"num.expneg", "num.exppos"} \subseteq SignLabels
  /\ {"num.expd", "num.expinf"} \subseteq ExpDigitLabels
  /\ "txt.neg" \in NegLabels /\ "txt.zero" \in ZeroLabels /\ "txt.int" \in IntLabels
  /\ "txt.dot" \in DotLabels /\ "txt.frac" \in FracLabels
  /\ "txt.exp" \in ExpLabels /\ "txt.expsign" \in SignLabels /\ "txt.expd" \in ExpDigitLabels
BY DEF NegLabels, ZeroLabels, IntLabels, DotLabels, FracLabels, ExpLabels, SignLabels,
       ExpDigitLabels, NumberLabels, TextLabels

\* The labels of the number scanner.
LEMMA NumberLabelsAre ==
  {"num.neg", "num.int", "num.big", "num.zero", "num.dot", "num.dec", "num.decmore",
   "num.exp", "num.expneg", "num.exppos", "num.expd", "num.expinf"} \subseteq NumberLabels
BY DEF NumberLabels

\* AfterDecimals(): the exponent, or the end.
LEMMA AfterDecimalsNInv ==
  ASSUME Going, NEW ch \in CurrCh, NEW c, AfterDecimals(c, ch), LastRead # <<>>,
         NEW l \in {"num.zero", "num.int", "num.big", "num.dec", "num.decmore"}, Reading(l, c)
  PROVE  NInv'
<1> DEFINE u == LastRead
           p == Parts(u)
<1>1. /\ Running /\ u \in Seq(Byte) /\ Shape(l, p) /\ ReadSoFar(l, p, c) /\ c \in Components
      /\ "NUMBER_AS_STRING" \notin flags /\ AllDigits(p)
  BY DEF Reading, Shape
<1>2. CASE ch \in ExpMark
  <2>1. Scan(c, "num.exp")
    BY <1>2 DEF AfterDecimals
  <2>2. l \in ZeroLabels \cup IntLabels \cup FracLabels
    BY PartLabels
  <2> DEFINE t == Append(u, ch)
             q == Parts(t)
  <2> HIDE DEF p, q, u, t
  <2>3. Rest(p, q) /\ SameDigits(p, q) /\ p.exp = <<>> /\ \A m \in ExpLabels : Shaped(m, t)
    BY <1>1, <1>2, <2>2, MarkStep DEF u, p, t, q
  <2>4. ReadSoFar("num.exp", q, c)
    BY <1>1, <2>3, MarkHeld
  <2>5. Shaped("num.exp", t)
    BY <2>3, PartLabels
  <2> QED BY <1>1, <1>2, <2>1, <2>4, <2>5, ScanIsNInv, Separators, NumberLabelsAre DEF u, q, t
<1>3. CASE ch \notin ExpMark
  <2>1. FinishNumber(NotMinusZero(c), ch)
    BY <1>3 DEF AfterDecimals, NotMinusZero
  <2>2. NotMinusZero(c) \in Components
    BY <1>1, NotMinusZeroIs
  <2>3. Complete(p, NotMinusZero(c))
    BY <1>1, NumberEnds
  <2> QED BY <1>1, <2>1, <2>2, <2>3, FinishNumberNInv
<1> QED BY <1>2, <1>3

\* AfterInteger(): the decimals, the exponent, or the end.
LEMMA AfterIntegerNInv ==
  ASSUME Going, NEW ch \in CurrCh, NEW c, AfterInteger(c, ch), LastRead # <<>>,
         NEW l \in {"num.zero", "num.int", "num.big"}, Reading(l, c)
  PROVE  NInv'
<1>1. CASE ch = Ascii.dot
  <2> DEFINE u == LastRead
             p == Parts(u)
             t == Append(u, ch)
             q == Parts(t)
  <2>1. Scan(c, "num.dot")
    BY <1>1 DEF AfterInteger
  <2>2. Running /\ u \in Seq(Byte) /\ Shape(l, p) /\ ReadSoFar(l, p, c) /\ u # <<>>
    BY DEF Reading
  <2>3. l \in ZeroLabels \cup IntLabels
    BY PartLabels
  <2> HIDE DEF p, q, u, t
  <2>4. Rest(p, q) /\ SameDigits(p, q) /\ \A m \in DotLabels : Shaped(m, t)
    BY <1>1, <2>2, <2>3, DotStep DEF p, q, t
  <2>5. ReadSoFar("num.dot", q, c)
    BY <2>2, <2>4, DotHeld
  <2>6. Shaped("num.dot", t)
    BY <2>4, PartLabels
  <2> QED BY <1>1, <2>1, <2>2, <2>5, <2>6, ScanIsNInv, Separators, NumberLabelsAre DEF u, q, t
<1>2. CASE ch # Ascii.dot
  BY <1>2, AfterDecimalsNInv DEF AfterInteger
<1> QED BY <1>1, <1>2

\* IntegerDigit(): a digit that fits, or the first that does not.
LEMMA IntegerDigitNInv ==
  ASSUME Going, NEW ch \in CurrCh, ch \in Digit, NEW c,
         NEW l \in {"num.neg", "num.int"}, Reading(l, c), l = "num.neg" => ch # Ascii.zero,
         IntegerDigit(c, ch - Ascii.zero)
  PROVE  NInv'
<1> DEFINE u == LastRead
           p == Parts(u)
           t == Append(u, ch)
           q == Parts(t)
           d == ch - Ascii.zero
           b == [c EXCEPT !.integer = Shift10(@, d)]
           o == [c EXCEPT !.isinteger = FALSE, !.integer = RoundUp(@, d)]
           e == [o EXCEPT !.exponent = @ + 1]
<1>1. /\ Running /\ u \in Seq(Byte) /\ Shape(l, p) /\ ReadSoFar(l, p, c) /\ c \in Components
      /\ AllDigits(p) /\ ch \in NumeralBytes /\ pc # "idle"
  BY Separators, LabelFacts DEF Reading, Shape, Running
<1>2. /\ Overflows(c.integer, d) => DroppedDigit(o)
      /\ ~Overflows(c.integer, d) => Scan(b, "num.int")
  BY DEF IntegerDigit
<1>3. DroppedDigit(o) => Errs \/ Scan(e, "num.big")
  BY RaiseErrs DEF DroppedDigit
<1> HIDE DEF u, p, t, q, d, b, o, e
<1>4. GrownInt(p, q, ch) /\ \A m \in IntLabels : Shaped(m, t)
  <2>1. CASE l = "num.neg"
    BY <1>1, <2>1, PartLabels, FirstDigitStep DEF p, t, q
  <2>2. CASE l = "num.int"
    BY <1>1, <2>2, PartLabels, IntDigitStep DEF p, t, q
  <2> QED BY <2>1, <2>2
<1>5. /\ ~Overflows(c.integer, d) => ReadSoFar("num.int", q, b)
      /\ Overflows(c.integer, d) => ReadSoFar("num.big", q, e)
  BY <1>1, <1>4, IntegerDigitHeld DEF b, e, o, d
<1>6. Shaped("num.int", t) /\ Shaped("num.big", t)
  BY <1>4, PartLabels
<1>7. Errs \/ (Scan(b, "num.int") /\ ReadSoFar("num.int", q, b))
           \/ (Scan(e, "num.big") /\ ReadSoFar("num.big", q, e))
  BY <1>2, <1>3, <1>5, Zenon
<1>8. CASE Errs
  BY <1>1, <1>8, ErrsNInv
<1>9. CASE Scan(b, "num.int") /\ ReadSoFar("num.int", q, b)
  BY <1>1, <1>6, <1>9, ScanIsNInv, NumberLabelsAre DEF u, q, t
<1>10. CASE Scan(e, "num.big") /\ ReadSoFar("num.big", q, e)
  BY <1>1, <1>6, <1>10, ScanIsNInv, NumberLabelsAre DEF u, q, t
<1> QED BY <1>7, <1>8, <1>9, <1>10

\* DroppedDigit(): one more that does not, as long as they can be counted.
LEMMA BigDigitNInv ==
  ASSUME Going, NEW ch \in CurrCh, ch \in Digit, NEW c, Reading("num.big", c), DroppedDigit(c)
  PROVE  NInv'
<1> DEFINE u == LastRead
           p == Parts(u)
           t == Append(u, ch)
           q == Parts(t)
           e == [c EXCEPT !.exponent = @ + 1]
<1>1. /\ Running /\ u \in Seq(Byte) /\ Shape("num.big", p) /\ ReadSoFar("num.big", p, c)
      /\ c \in Components /\ AllDigits(p) /\ ch \in NumeralBytes /\ pc # "idle"
  BY Separators, LabelFacts DEF Reading, Shape, Running
<1>2. Errs \/ Scan(e, "num.big")
  BY RaiseErrs DEF DroppedDigit
<1> HIDE DEF u, p, t, q, e
<1>3. GrownInt(p, q, ch) /\ \A m \in IntLabels : Shaped(m, t)
  BY <1>1, PartLabels, IntDigitStep DEF p, t, q
<1>4. ReadSoFar("num.big", q, e)
  BY <1>1, <1>3, BigDigitHeld DEF e
<1>5. Shaped("num.big", t)
  BY <1>3, PartLabels
<1>6. CASE Errs
  BY <1>1, <1>6, ErrsNInv
<1>7. CASE Scan(e, "num.big")
  BY <1>1, <1>4, <1>5, <1>7, ScanIsNInv, NumberLabelsAre DEF u, q, t
<1> QED BY <1>2, <1>6, <1>7

\* FirstDigit(): a zero is the whole integer part.
LEMMA FirstDigitNInv ==
  ASSUME Going, NEW ch \in CurrCh, NEW c, Reading("num.neg", c), FirstDigit(c, ch)
  PROVE  NInv'
<1>1. CASE ch = Ascii.zero
  <2> DEFINE u == LastRead
             p == Parts(u)
             t == Append(u, ch)
             q == Parts(t)
  <2>1. Scan(c, "num.zero")
    BY <1>1 DEF FirstDigit
  <2>2. /\ Running /\ u \in Seq(Byte) /\ Shape("num.neg", p) /\ ReadSoFar("num.neg", p, c)
        /\ c \in Components
    BY DEF Reading
  <2>3. ch \in Digit /\ ch \in NumeralBytes
    BY <1>1, Separators DEF Ascii, Digit
  <2> HIDE DEF p, q, u, t
  <2>4. Blank(p) /\ GrownInt(p, q, ch) /\ \A m \in ZeroLabels : Shaped(m, t)
    BY <1>1, <2>2, <2>3, PartLabels, FirstDigitStep DEF p, q, t
  <2>5. ReadSoFar("num.zero", q, c)
    BY <1>1, <2>2, <2>4, ZeroDigitHeld
  <2>6. Shaped("num.zero", t)
    BY <2>4, PartLabels
  <2> QED BY <2>1, <2>2, <2>3, <2>5, <2>6, ScanIsNInv, NumberLabelsAre DEF u, q, t
<1>2. CASE ch # Ascii.zero /\ ch \in Digit
  BY <1>2, IntegerDigitNInv DEF FirstDigit
<1>3. CASE ch # Ascii.zero /\ ch \notin Digit
  BY <1>3, RaiseErrs, ErrsNInv, LabelFacts DEF FirstDigit, Reading, Running
<1> QED BY <1>1, <1>2, <1>3

\* The integer part of a numeral.
LEMMA IntegerPartNInv ==
  ASSUME Going, IntegerPart
  PROVE  NInv'
<1>1. CASE At("num.neg") /\ \E ch \in CurrCh : FirstDigit(Held, ch)
  BY <1>1, AtNumber, NumberLabelsAre, FirstDigitNInv
<1>2. CASE At("num.int") /\ \E ch \in CurrCh :
             IF ch \in Digit THEN IntegerDigit(Held, ch - Ascii.zero) ELSE AfterInteger(Held, ch)
  <2>1. Reading("num.int", Held) /\ LastRead # <<>>
    BY <1>2, AtNumber, NumberLabelsAre
  <2> QED BY <1>2, <2>1, IntegerDigitNInv, AfterIntegerNInv
<1>3. CASE At("num.big") /\ \E ch \in CurrCh :
             IF ch \in Digit THEN DroppedDigit(Held) ELSE AfterInteger(Held, ch)
  <2>1. Reading("num.big", Held) /\ LastRead # <<>>
    BY <1>3, AtNumber, NumberLabelsAre
  <2> QED BY <1>3, <2>1, BigDigitNInv, AfterIntegerNInv
<1>4. CASE At("num.zero") /\ \E ch \in CurrCh : AfterInteger(Held, ch)
  <2>1. Reading("num.zero", Held) /\ LastRead # <<>>
    BY <1>4, AtNumber, NumberLabelsAre
  <2> QED BY <1>4, <2>1, AfterIntegerNInv
<1> QED BY <1>1, <1>2, <1>3, <1>4 DEF IntegerPart

\* DecimalDigit(): a digit that is counted, or the first that is not.
LEMMA DecimalDigitNInv ==
  ASSUME Going, NEW ch \in CurrCh, ch \in Digit, NEW l \in {"num.dot", "num.dec"}, NEW c \in Components,
         Running, LastRead \in Seq(Byte), Shape(l, Parts(LastRead)),
         ReadSoFar("num.dec", Parts(LastRead), c), DecimalDigit(c, ch - Ascii.zero)
  PROVE  NInv'
<1> DEFINE u == LastRead
           p == Parts(u)
           t == Append(u, ch)
           q == Parts(t)
           d == ch - Ascii.zero
           o == [c EXCEPT !.decimal = RoundUp(@, d)]
           b == [c EXCEPT !.decimal = Shift10(@, d), !.decimal_places = @ + 1]
<1>1. /\ u \in Seq(Byte) /\ Shape(l, p) /\ ReadSoFar("num.dec", p, c)
      /\ AllDigits(p) /\ ch \in NumeralBytes /\ l \in DotLabels \cup FracLabels
  BY Separators, PartLabels DEF Shape
<1>2. IF Overflows(c.decimal, d) \/ c.decimal_places = MaxU
      THEN Scan(o, "num.decmore") ELSE Scan(b, "num.dec")
  BY DEF DecimalDigit
<1> HIDE DEF u, p, t, q, d, b, o
<1>3. GrownFrac(p, q, ch) /\ \A m \in FracLabels : Shaped(m, t)
  BY <1>1, FracDigitStep DEF p, t, q
<1>4. IF Overflows(c.decimal, d) \/ c.decimal_places = MaxU
      THEN ReadSoFar("num.decmore", q, o) ELSE ReadSoFar("num.dec", q, b)
  BY <1>1, <1>3, DecimalDigitHeld DEF b, o, d
<1>5. Shaped("num.dec", t) /\ Shaped("num.decmore", t)
  BY <1>3, PartLabels
<1>6. CASE Scan(o, "num.decmore") /\ ReadSoFar("num.decmore", q, o)
  BY <1>1, <1>5, <1>6, ScanIsNInv, NumberLabelsAre DEF u, q, t
<1>7. CASE Scan(b, "num.dec") /\ ReadSoFar("num.dec", q, b)
  BY <1>1, <1>5, <1>7, ScanIsNInv, NumberLabelsAre DEF u, q, t
<1> QED BY <1>2, <1>4, <1>6, <1>7, Zenon

\* More digits are read where they make no difference.
LEMMA MoreNInv ==
  ASSUME Going, NEW ch \in CurrCh, ch \in Digit, NEW l \in {"num.decmore", "num.expinf"},
         Reading(l, Held), Read(l)
  PROVE  NInv'
<1> DEFINE u == LastRead
           p == Parts(u)
           t == Append(u, ch)
           q == Parts(t)
<1>1. /\ Running /\ u \in Seq(Byte) /\ Shape(l, p) /\ ReadSoFar(l, p, Held) /\ Held \in Components
      /\ AllDigits(p) /\ ch \in NumeralBytes
  BY Separators DEF Reading, Shape
<1>2. Advance(l) /\ Held' = Held
  BY DEF Read, Held
<1> HIDE DEF u, p, t, q
<1>3. Shaped(l, t) /\ ReadSoFar(l, q, Held)
  <2>1. CASE l = "num.decmore"
    <3>1. GrownFrac(p, q, ch) /\ \A m \in FracLabels : Shaped(m, t)
      BY <1>1, <2>1, FracDigitStep, PartLabels DEF p, t, q
    <3> QED BY <1>1, <2>1, <3>1, DecimalDropped, PartLabels
  <2>2. CASE l = "num.expinf"
    <3>1. GrownExp(p, q, ch) /\ \A m \in ExpDigitLabels : Shaped(m, t)
      BY <1>1, <2>2, ExpDigitStep, PartLabels DEF p, t, q
    <3> QED BY <1>1, <2>2, <3>1, ExponentDropped, PartLabels
  <2> QED BY <2>1, <2>2
<1> QED BY <1>1, <1>2, <1>3, ScanNInv, NumberLabelsAre DEF u, q, t

\* The decimals of a numeral.
LEMMA DecimalPartNInv ==
  ASSUME Going, DecimalPart
  PROVE  NInv'
<1>1. CASE At("num.dot") /\ \E ch \in CurrCh :
             IF ch \in Digit THEN DecimalDigit([Held EXCEPT !.isinteger = FALSE], ch - Ascii.zero)
             ELSE RaiseError("EXPECTED_DIGIT")
  <2>1. PICK ch \in CurrCh :
             IF ch \in Digit THEN DecimalDigit([Held EXCEPT !.isinteger = FALSE], ch - Ascii.zero)
             ELSE RaiseError("EXPECTED_DIGIT")
    BY <1>1
  <2>2. Reading("num.dot", Held)
    BY <1>1, AtNumber, NumberLabelsAre
  <2> DEFINE p == Parts(LastRead)
             b == [Held EXCEPT !.isinteger = FALSE]
  <2>3. /\ Running /\ LastRead \in Seq(Byte) /\ Shape("num.dot", p) /\ ReadSoFar("num.dot", p, Held)
        /\ Held \in Components /\ pc # "idle"
    BY <2>2, LabelFacts DEF Reading, Running
  <2>4. b \in Components
    BY <2>3 DEF Components
  <2>5. p.frac = <<>>
    BY <2>3, PartLabels DEF Shape, DotRead
  <2>6. ReadSoFar("num.dec", p, b)
    BY <2>3, <2>5, DotDigitHeld
  <2>7. CASE ch \in Digit
    <3>1. DecimalDigit(b, ch - Ascii.zero)
      BY <2>1, <2>7
    <3> HIDE DEF b
    <3> QED BY <2>3, <2>4, <2>6, <2>7, <3>1, DecimalDigitNInv
  <2>8. CASE ch \notin Digit
    BY <2>1, <2>3, <2>8, RaiseErrs, ErrsNInv
  <2> QED BY <2>7, <2>8
<1>2. CASE At("num.dec") /\ \E ch \in CurrCh :
             IF ch \in Digit THEN DecimalDigit(Held, ch - Ascii.zero) ELSE AfterDecimals(Held, ch)
  <2>1. Reading("num.dec", Held) /\ LastRead # <<>>
    BY <1>2, AtNumber, NumberLabelsAre
  <2> QED BY <1>2, <2>1, DecimalDigitNInv, AfterDecimalsNInv DEF Reading
<1>3. CASE At("num.decmore") /\ \E ch \in CurrCh :
             IF ch \in Digit THEN Read("num.decmore") ELSE AfterDecimals(Held, ch)
  <2>1. Reading("num.decmore", Held) /\ LastRead # <<>>
    BY <1>3, AtNumber, NumberLabelsAre
  <2> QED BY <1>3, <2>1, MoreNInv, AfterDecimalsNInv
<1> QED BY <1>1, <1>2, <1>3 DEF DecimalPart

\* ExponentDigit(): a digit that fits, or the first that does not.
LEMMA ExponentDigitNInv ==
  ASSUME Going, NEW ch \in CurrCh, NEW l \in {"num.exp", "num.expneg", "num.exppos", "num.expd"},
         NEW m \in {"num.expneg", "num.exppos", "num.expd"}, NEW c \in Components,
         Running, LastRead \in Seq(Byte), Shape(l, Parts(LastRead)),
         ReadSoFar(m, Parts(LastRead), c), ExponentDigit(c, ch)
  PROVE  NInv'
<1> DEFINE u == LastRead
           p == Parts(u)
           t == Append(u, ch)
           q == Parts(t)
           d == ch - Ascii.zero
           o == [c EXCEPT !.exponent = MaxU]
           b == [c EXCEPT !.exponent = Shift10(@, d)]
<1>1. /\ u \in Seq(Byte) /\ Shape(l, p) /\ ReadSoFar(m, p, c)
      /\ AllDigits(p) /\ l \in ExpLabels \cup SignLabels \cup ExpDigitLabels /\ pc # "idle"
  BY LabelFacts, PartLabels DEF Shape, Running
<1>2. CASE ch \notin Digit
  BY <1>1, <1>2, RaiseErrs, ErrsNInv DEF ExponentDigit
<1>3. CASE ch \in Digit
  <2>1. IF Overflows(c.exponent, d) THEN Scan(o, "num.expinf") ELSE Scan(b, "num.expd")
    BY <1>3 DEF ExponentDigit
  <2>2. ch \in NumeralBytes
    BY <1>3, Separators
  <2> HIDE DEF u, p, t, q, d, b, o
  <2>3. GrownExp(p, q, ch) /\ \A k \in ExpDigitLabels : Shaped(k, t)
    BY <1>1, <1>3, ExpDigitStep DEF p, t, q
  <2>4. IF Overflows(c.exponent, d) THEN ReadSoFar("num.expinf", q, o) ELSE ReadSoFar("num.expd", q, b)
    BY <1>1, <1>3, <2>3, ExponentDigitHeld DEF b, o, d
  <2>5. Shaped("num.expd", t) /\ Shaped("num.expinf", t)
    BY <2>3, PartLabels
  <2>6. CASE Scan(o, "num.expinf") /\ ReadSoFar("num.expinf", q, o)
    BY <1>1, <2>2, <2>5, <2>6, ScanIsNInv, NumberLabelsAre DEF u, q, t
  <2>7. CASE Scan(b, "num.expd") /\ ReadSoFar("num.expd", q, b)
    BY <1>1, <2>2, <2>5, <2>7, ScanIsNInv, NumberLabelsAre DEF u, q, t
  <2> QED BY <2>1, <2>4, <2>6, <2>7, Zenon
<1> QED BY <1>2, <1>3

\* The sign of the exponent.
LEMMA ExponentSignNInv ==
  ASSUME Going, NEW ch \in CurrCh, NEW c, c = [Held EXCEPT !.isinteger = FALSE],
         Reading("num.exp", Held), Shaped("num.exp", LastRead),
         \/ ch = Ascii.minus /\ Scan([c EXCEPT !.exponent_positive = FALSE], "num.expneg")
         \/ ch = Ascii.plus /\ Scan(c, "num.exppos")
  PROVE  NInv'
<1> DEFINE u == LastRead
           p == Parts(u)
           t == Append(u, ch)
           q == Parts(t)
           b == [c EXCEPT !.exponent_positive = FALSE]
<1>1. /\ Running /\ u \in Seq(Byte) /\ Shaped("num.exp", u) /\ ReadSoFar("num.exp", p, Held)
      /\ Held \in Components
  BY DEF Reading
<1>2. /\ ch \in {Ascii.minus, Ascii.plus} /\ ch \in NumeralBytes
      /\ Ascii.minus # Ascii.plus
      /\ ch = Ascii.minus => Scan(b, "num.expneg")
      /\ ch # Ascii.minus => Scan(c, "num.exppos")
  BY Separators DEF Ascii
<1> HIDE DEF u, p, t, q
<1>3. /\ SameDigits(p, q) /\ (q.minus <=> p.minus) /\ ~p.expMinus
      /\ q.expMinus <=> ch = Ascii.minus
      /\ \A m \in SignLabels : Shaped(m, t)
  BY <1>1, <1>2, PartLabels, SignStep DEF p, t, q
<1>4. /\ ~q.expMinus => ReadSoFar("num.exppos", q, c)
      /\ q.expMinus => ReadSoFar("num.expneg", q, b)
  BY <1>1, <1>3, SignHeld
<1> HIDE DEF b
<1>5. Shaped("num.expneg", t) /\ Shaped("num.exppos", t)
  BY <1>3, PartLabels
<1>6. CASE ch = Ascii.minus
  <2>1. Scan(b, "num.expneg") /\ ReadSoFar("num.expneg", q, b)
    BY <1>2, <1>3, <1>4, <1>6
  <2> QED BY <1>1, <1>2, <1>5, <2>1, ScanIsNInv, NumberLabelsAre DEF u, q, t
<1>7. CASE ch # Ascii.minus
  <2>1. Scan(c, "num.exppos") /\ ReadSoFar("num.exppos", q, c)
    BY <1>2, <1>3, <1>4, <1>7
  <2> QED BY <1>1, <1>2, <1>5, <2>1, ScanIsNInv, NumberLabelsAre DEF u, q, t
<1> QED BY <1>6, <1>7

\* The exponent of a numeral.
LEMMA ExponentPartNInv ==
  ASSUME Going, ExponentPart
  PROVE  NInv'
<1>1. CASE At("num.exp") /\ \E ch \in CurrCh :
             LET c == [Held EXCEPT !.isinteger = FALSE]
             IN  CASE ch = Ascii.minus -> Scan([c EXCEPT !.exponent_positive = FALSE], "num.expneg")
                   [] ch = Ascii.plus  -> Scan(c, "num.exppos")
                   [] OTHER            -> ExponentDigit(c, ch)
  <2> DEFINE c == [Held EXCEPT !.isinteger = FALSE]
             p == Parts(LastRead)
  <2>1. PICK ch \in CurrCh :
          \/ ch = Ascii.minus /\ Scan([c EXCEPT !.exponent_positive = FALSE], "num.expneg")
          \/ ch = Ascii.plus /\ Scan(c, "num.exppos")
          \/ ExponentDigit(c, ch)
    BY <1>1
  <2>2. Reading("num.exp", Held) /\ Shaped("num.exp", LastRead)
    BY <1>1, AtNumber, NumberLabelsAre
  <2>3. CASE \/ ch = Ascii.minus /\ Scan([c EXCEPT !.exponent_positive = FALSE], "num.expneg")
             \/ ch = Ascii.plus /\ Scan(c, "num.exppos")
    BY <2>2, <2>3, ExponentSignNInv
  <2>4. CASE ExponentDigit(c, ch)
    <3>1. /\ Running /\ LastRead \in Seq(Byte) /\ Shape("num.exp", p)
          /\ ReadSoFar("num.exp", p, Held) /\ Held \in Components
      BY <2>2 DEF Reading
    <3>2. ~p.expMinus
      BY <3>1, PartLabels DEF Shape
    <3> HIDE DEF p
    <3>3. ReadSoFar("num.exppos", p, c) /\ c \in Components
      <4>1. SameDigits(p, p) /\ (p.minus <=> p.minus)
        BY DEF SameDigits
      <4> QED BY <3>1, <3>2, <4>1, SignHeld
    <3> HIDE DEF c
    <3> QED BY <2>4, <3>1, <3>3, ExponentDigitNInv DEF p
  <2> QED BY <2>1, <2>3, <2>4
<1>2. CASE (At("num.expneg") \/ At("num.exppos")) /\ \E ch \in CurrCh : ExponentDigit(Held, ch)
  <2>1. PICK l \in {"num.expneg", "num.exppos"} : At(l)
    BY <1>2
  <2>2. Reading(l, Held)
    BY <2>1, AtNumber, NumberLabelsAre
  <2> QED BY <1>2, <2>2, ExponentDigitNInv DEF Reading
<1>3. CASE At("num.expd") /\ \E ch \in CurrCh :
             IF ch \in Digit THEN ExponentDigit(Held, ch) ELSE FinishNumber(Held, ch)
  <2>1. Reading("num.expd", Held)
    BY <1>3, AtNumber, NumberLabelsAre
  <2>2. Complete(Parts(LastRead), Held) /\ AllDigits(Parts(LastRead))
    BY <2>1, NumberEnds DEF Reading, Shape
  <2> QED BY <1>3, <2>1, <2>2, ExponentDigitNInv, FinishNumberNInv DEF Reading
<1>4. CASE At("num.expinf") /\ \E ch \in CurrCh :
             IF ch \in Digit THEN Read("num.expinf") ELSE FinishNumber(Held, ch)
  <2>1. Reading("num.expinf", Held)
    BY <1>4, AtNumber, NumberLabelsAre
  <2>2. Complete(Parts(LastRead), Held) /\ AllDigits(Parts(LastRead))
    BY <2>1, NumberEnds DEF Reading, Shape
  <2> QED BY <1>4, <2>1, <2>2, MoreNInv, FinishNumberNInv DEF Reading
<1> QED BY <1>1, <1>2, <1>3, <1>4 DEF ExponentPart

\* The labels of the scanner that keeps the text.
LEMMA TextLabelsAre ==
  {"txt.neg", "txt.zero", "txt.int", "txt.dot", "txt.frac", "txt.exp", "txt.expsign", "txt.expd"}
    \subseteq TextLabels
BY DEF TextLabels

\* A byte of a numeral kept as text is taken.
LEMMA PutNInv ==
  ASSUME Going, NEW l \in TextLabels, At(l), NEW ch \in CurrCh, NEW m \in TextLabels, PutC(ch, m),
         \/ ch \in Digit /\ l \in NegLabels
              /\ m \in (IF ch = Ascii.zero THEN ZeroLabels ELSE IntLabels)
         \/ ch \in Digit /\ l \in IntLabels /\ m \in IntLabels
         \/ ch = Ascii.dot /\ l \in ZeroLabels \cup IntLabels /\ m \in DotLabels
         \/ ch \in Digit /\ l \in DotLabels \cup FracLabels /\ m \in FracLabels
         \/ ch \in ExpMark /\ l \in ZeroLabels \cup IntLabels \cup FracLabels /\ m \in ExpLabels
         \/ ch \in {Ascii.minus, Ascii.plus} /\ l \in ExpLabels /\ m \in SignLabels
         \/ ch \in Digit /\ l \in ExpLabels \cup SignLabels \cup ExpDigitLabels /\ m \in ExpDigitLabels
  PROVE  NInv'
<1> DEFINE u == LastRead
           t == Append(u, ch)
<1>1. /\ Running /\ u \in Seq(Byte) /\ buffer = u /\ Shaped(l, u) /\ Shape(l, Parts(u)) /\ u # <<>>
  BY AtText
<1>2. StoreByte(u, ch, Advance(m) /\ UNCHANGED value)
  BY <1>1 DEF PutC
<1>3. ch \in NumeralBytes
  BY Separators
<1> HIDE DEF u, t
<1>4. Shaped(m, t)
  <2>1. CASE ch \in Digit /\ l \in NegLabels /\ m \in (IF ch = Ascii.zero THEN ZeroLabels ELSE IntLabels)
    <3>1. /\ ch = Ascii.zero => \A k \in ZeroLabels : Shaped(k, t)
          /\ ch # Ascii.zero => \A k \in IntLabels : Shaped(k, t)
      BY <1>1, <2>1, FirstDigitStep DEF t
    <3> QED BY <2>1, <3>1
  <2>2. CASE ch \in Digit /\ l \in IntLabels /\ m \in IntLabels
    BY <1>1, <2>2, IntDigitStep DEF t
  <2>3. CASE ch = Ascii.dot /\ l \in ZeroLabels \cup IntLabels /\ m \in DotLabels
    BY <1>1, <2>3, DotStep DEF t
  <2>4. CASE ch \in Digit /\ l \in DotLabels \cup FracLabels /\ m \in FracLabels
    BY <1>1, <2>4, FracDigitStep DEF t
  <2>5. CASE ch \in ExpMark /\ l \in ZeroLabels \cup IntLabels \cup FracLabels /\ m \in ExpLabels
    BY <1>1, <2>5, MarkStep DEF t
  <2>6. CASE ch \in {Ascii.minus, Ascii.plus} /\ l \in ExpLabels /\ m \in SignLabels
    BY <1>1, <2>6, SignStep DEF t
  <2>7. CASE ch \in Digit /\ l \in ExpLabels \cup SignLabels \cup ExpDigitLabels /\ m \in ExpDigitLabels
    BY <1>1, <2>7, ExpDigitStep DEF t
  <2> QED BY <2>1, <2>2, <2>3, <2>4, <2>5, <2>6, <2>7
<1> QED BY <1>1, <1>2, <1>3, <1>4, TextNInv DEF u, t

\* Where a numeral can end it is one.
LEMMA ShapeEnds ==
  ASSUME NEW p, NEW l, Shape(l, p),
         l \in ZeroLabels \cup IntLabels \cup FracLabels \cup ExpDigitLabels
  PROVE  IsNumeral(p)
<1>1. CASE l \in ZeroLabels
  <2>1. p.int = <<Ascii.zero>> /\ ~p.hasFrac /\ ~p.hasExp
    BY <1>1 DEF Shape, ZeroRead, NoFrac, NoExp
  <2>2. IsDigits(<<Ascii.zero>>)
    BY DEF IsDigits, Digit, Ascii
  <2> QED BY <2>1, <2>2 DEF IsNumeral
<1>2. CASE l \in IntLabels
  BY <1>2 DEF Shape, WholeRead, NoFrac, NoExp, IsNumeral
<1>3. CASE l \in FracLabels
  BY <1>3 DEF Shape, FracRead, IntRead, NoExp, IsNumeral
<1>4. CASE l \in ExpDigitLabels
  BY <1>4 DEF Shape, ExpRead, MantissaRead, IntRead, IsNumeral
<1> QED BY <1>1, <1>2, <1>3, <1>4

\* The text is answered where a numeral may end.
LEMMA FinishNInv ==
  ASSUME Going, NEW l \in TextLabels, At(l), NEW ch \in CurrCh, FinishText(ch),
         l \in ZeroLabels \cup IntLabels \cup FracLabels \cup ExpDigitLabels
  PROVE  NInv'
BY AtText, ShapeEnds, FinishTextNInv

\* A byte that is none of a numeral is refused.
LEMMA RaiseNInv ==
  ASSUME Going, NEW l \in TextLabels \cup {"VALUE"}, At(l), NEW e, RaiseError(e)
  PROVE  NInv'
<1>1. pc # "idle"
  BY DEF At, TextLabels
<1> QED BY <1>1, RaiseErrs, ErrsNInv

\* The integer part of a numeral kept as text.
LEMMA TextIntegerNInv ==
  ASSUME Going, TextInteger
  PROVE  NInv'
<1> USE TextLabelsAre, PartLabels
<1>1. CASE At("txt.neg") /\ \E ch \in CurrCh : FirstTextDigit(ch)
  <2>1. PICK ch \in CurrCh :
          \/ ch \in Digit /\ ch = Ascii.zero /\ PutC(ch, "txt.zero")
          \/ ch \in Digit /\ ch # Ascii.zero /\ PutC(ch, "txt.int")
          \/ \E e : RaiseError(e)
    BY <1>1 DEF FirstTextDigit, TextDigit
  <2>2. CASE ch \in Digit /\ ch = Ascii.zero /\ PutC(ch, "txt.zero")
    BY <1>1, <2>2, PutNInv
  <2>3. CASE ch \in Digit /\ ch # Ascii.zero /\ PutC(ch, "txt.int")
    BY <1>1, <2>3, PutNInv
  <2> QED BY <1>1, <2>1, <2>2, <2>3, RaiseNInv
<1>2. CASE (At("txt.int") \/ At("txt.zero")) /\ \E ch \in CurrCh :
             (pc = "txt.int" /\ ch \in Digit /\ PutC(ch, "txt.int")) \/ TextAfterInteger(ch)
  <2>1. PICK l \in {"txt.int", "txt.zero"}, ch \in CurrCh :
          /\ At(l) /\ pc = l
          /\ \/ l = "txt.int" /\ ch \in Digit /\ PutC(ch, "txt.int")
             \/ ch = Ascii.dot /\ PutC(ch, "txt.dot")
             \/ ch \in ExpMark /\ PutC(ch, "txt.exp")
             \/ FinishText(ch)
    BY <1>2 DEF TextAfterInteger, TextAfterDecimals, At
  <2>2. CASE l = "txt.int" /\ ch \in Digit /\ PutC(ch, "txt.int")
    BY <2>1, <2>2, PutNInv
  <2>3. CASE ch = Ascii.dot /\ PutC(ch, "txt.dot")
    BY <2>1, <2>3, PutNInv
  <2>4. CASE ch \in ExpMark /\ PutC(ch, "txt.exp")
    BY <2>1, <2>4, PutNInv
  <2>5. CASE FinishText(ch)
    BY <2>1, <2>5, FinishNInv
  <2> QED BY <2>1, <2>2, <2>3, <2>4, <2>5
<1> QED BY <1>1, <1>2 DEF TextInteger, At

\* Its decimals.
LEMMA TextDecimalsNInv ==
  ASSUME Going, TextDecimals
  PROVE  NInv'
<1> USE TextLabelsAre, PartLabels
<1>1. PICK l \in {"txt.dot", "txt.frac"}, ch \in CurrCh :
        /\ At(l)
        /\ \/ ch \in Digit /\ PutC(ch, "txt.frac")
           \/ \E e : RaiseError(e)
           \/ l = "txt.frac" /\ ch \in ExpMark /\ PutC(ch, "txt.exp")
           \/ l = "txt.frac" /\ FinishText(ch)
  BY DEF TextDecimals, TextDigit, TextAfterDecimals
<1>2. CASE ch \in Digit /\ PutC(ch, "txt.frac")
  BY <1>1, <1>2, PutNInv
<1>3. CASE l = "txt.frac" /\ ch \in ExpMark /\ PutC(ch, "txt.exp")
  BY <1>1, <1>3, PutNInv
<1>4. CASE l = "txt.frac" /\ FinishText(ch)
  BY <1>1, <1>4, FinishNInv
<1> QED BY <1>1, <1>2, <1>3, <1>4, RaiseNInv

\* Its exponent.
LEMMA TextExponentNInv ==
  ASSUME Going, TextExponent
  PROVE  NInv'
<1> USE TextLabelsAre, PartLabels
<1>1. PICK l \in {"txt.exp", "txt.expsign", "txt.expd"}, ch \in CurrCh :
        /\ At(l)
        /\ \/ l = "txt.exp" /\ ch \in {Ascii.minus, Ascii.plus} /\ PutC(ch, "txt.expsign")
           \/ ch \in Digit /\ PutC(ch, "txt.expd")
           \/ \E e : RaiseError(e)
           \/ l = "txt.expd" /\ FinishText(ch)
  BY DEF TextExponent, TextDigit
<1>2. CASE l = "txt.exp" /\ ch \in {Ascii.minus, Ascii.plus} /\ PutC(ch, "txt.expsign")
  BY <1>1, <1>2, PutNInv
<1>3. CASE ch \in Digit /\ PutC(ch, "txt.expd")
  BY <1>1, <1>3, PutNInv
<1>4. CASE l = "txt.expd" /\ FinishText(ch)
  BY <1>1, <1>4, FinishNInv
<1> QED BY <1>1, <1>2, <1>3, <1>4, RaiseNInv

-----------------------------------------------------------------------------
(* The begin of a value. *)

\* The components a numeral starts with hold what nothing read is.
LEMMA NothingRead ==
  /\ Shape("num.neg", Parts(<<>>)) /\ Shape("txt.neg", Parts(<<>>))
  /\ ReadSoFar("num.neg", Parts(<<>>), NoComponents)
  /\ NoComponents \in Components
<1> DEFINE p == Parts(<<>>)
           c == NoComponents
<1>1. /\ p.int = <<>> /\ p.frac = <<>> /\ p.exp = <<>> /\ ~p.minus /\ ~p.hasFrac /\ ~p.hasExp
      /\ ~p.expMinus
  BY PartsOfNothing DEF EmptyParts
<1>2. c \in Components
  BY NumberAssumption DEF NoComponents, Components
<1>3. /\ c.positive /\ c.exponent_positive /\ c.isinteger
      /\ c.integer = 0 /\ c.decimal = 0 /\ c.decimal_places = 0 /\ c.exponent = 0
  BY DEF NoComponents
<1> HIDE DEF p, c
<1>4. Blank(p) /\ AllDigits(p)
  BY <1>1 DEF Blank, NoFrac, NoExp, AllDigits
<1>5. Fits64(<<>>)
  BY NumberFacts, NumberAssumption DEF Fits64
<1>6. SignsHeld(p, c) /\ IntHeld(p, c) /\ DecHeld(p, c)
  BY <1>1, <1>3, <1>5, NumberFacts DEF SignsHeld, IntHeld, DecHeld, DecExact
<1>7. ReadSoFar("num.neg", p, c)
  BY <1>1, <1>3, <1>5, <1>6, ReadSoFarIs
<1> QED BY <1>2, <1>4, <1>7, ShapeIs, PartLabels DEF p, c

\* A minus is read as the first byte.
LEMMA MinusRead ==
  LET t == Append(<<>>, Ascii.minus)
      c == [NoComponents EXCEPT !.positive = FALSE]
  IN  Shaped("num.neg", t) /\ Shaped("txt.neg", t) /\ ReadSoFar("num.neg", Parts(t), c)
<1> DEFINE t == Append(<<>>, Ascii.minus)
           q == Parts(t)
           c == [NoComponents EXCEPT !.positive = FALSE]
<1>1. AllDigits(q) /\ Blank(q) /\ q.minus
  BY MinusParts
<1>2. t # <<>>
  OBVIOUS
<1>3. /\ ~c.positive /\ c.exponent_positive /\ c.isinteger
      /\ c.integer = 0 /\ c.decimal = 0 /\ c.decimal_places = 0 /\ c.exponent = 0
  BY DEF NoComponents
<1> HIDE DEF t, q, c
<1>4. Shaped("num.neg", t) /\ Shaped("txt.neg", t)
  BY <1>1, <1>2, ShapeIs, ShapedIs, PartLabels DEF q
<1>5. /\ q.int = <<>> /\ q.frac = <<>> /\ ~q.expMinus
  BY <1>1 DEF Blank, NoFrac, NoExp
<1>6. Fits64(<<>>)
  BY NumberFacts, NumberAssumption DEF Fits64
<1>7. SignsHeld(q, c) /\ IntHeld(q, c) /\ DecHeld(q, c)
  BY <1>1, <1>3, <1>5, <1>6, NumberFacts DEF SignsHeld, IntHeld, DecHeld, DecExact
<1>8. ReadSoFar("num.neg", q, c)
  BY <1>3, <1>5, <1>6, <1>7, ReadSoFarIs
<1> QED BY <1>4, <1>8 DEF t, q, c

\* The first byte of a numeral, a digit or a minus.
LEMMA BeginNumberNInv ==
  ASSUME Going, At("VALUE"), NEW ch \in CurrCh, ch \in Digit \cup {Ascii.minus}, BeginNumber(ch)
  PROVE  NInv'
<1>1. "VALUE" \in Labels \ {"ERROR"} /\ "VALUE" # "idle"
  BY ContainersUnwatched
<1>2. Running /\ Top = "VALUE"
  BY <1>1, AtFacts DEF Going, TInv
<1>3. LastRead = <<>> /\ ch \in NumeralBytes
  BY <1>2, WatchedFacts, Separators DEF Going, NInv, WordSoFar
<1>4. CASE "NUMBER_AS_STRING" \in flags
  <2>1. BeginText(ch)
    BY <1>4 DEF BeginNumber
  <2>2. \/ ch = Ascii.minus /\ StoreByte(<<>>, ch, Advance("txt.neg") /\ UNCHANGED value)
        \/ ch \in Digit /\ ch = Ascii.zero /\ StoreByte(<<>>, ch, Advance("txt.zero") /\ UNCHANGED value)
        \/ ch \in Digit /\ ch # Ascii.zero /\ StoreByte(<<>>, ch, Advance("txt.int") /\ UNCHANGED value)
    <3>1. Ascii.minus # Ascii.zero
      BY DEF Ascii
    <3> QED BY <2>1, <3>1 DEF BeginText
  <2>3. CASE ch = Ascii.minus /\ StoreByte(<<>>, ch, Advance("txt.neg") /\ UNCHANGED value)
    BY <1>2, <1>3, <2>3, MinusRead, TextNInv, TextLabelsAre
  <2>4. ASSUME ch \in Digit
        PROVE  /\ ch = Ascii.zero => Shaped("txt.zero", Append(<<>>, ch))
               /\ ch # Ascii.zero => Shaped("txt.int", Append(<<>>, ch))
    <3> DEFINE u == <<>>
    <3>1. u \in Seq(Byte) /\ Shape("txt.neg", Parts(u))
      BY NothingRead
    <3> HIDE DEF u
    <3>2. /\ ch = Ascii.zero => Shaped("txt.zero", Append(u, ch))
          /\ ch # Ascii.zero => Shaped("txt.int", Append(u, ch))
      BY <2>4, <3>1, FirstDigitStep, PartLabels
    <3> QED BY <3>2 DEF u
  <2>5. CASE ch \in Digit /\ ch = Ascii.zero /\ StoreByte(<<>>, ch, Advance("txt.zero") /\ UNCHANGED value)
    BY <1>2, <1>3, <2>4, <2>5, TextNInv, TextLabelsAre
  <2>6. CASE ch \in Digit /\ ch # Ascii.zero /\ StoreByte(<<>>, ch, Advance("txt.int") /\ UNCHANGED value)
    BY <1>2, <1>3, <2>4, <2>6, TextNInv, TextLabelsAre
  <2> QED BY <2>2, <2>3, <2>5, <2>6
<1>5. CASE "NUMBER_AS_STRING" \notin flags
  <2>1. BeginComponents(ch)
    BY <1>5 DEF BeginNumber
  <2>2. CASE ch = Ascii.minus /\ Scan([NoComponents EXCEPT !.positive = FALSE], "num.neg")
    BY <1>2, <1>3, <2>2, MinusRead, ScanIsNInv, NumberLabelsAre
  <2>3. CASE FirstDigit(NoComponents, ch)
    <3>1. Reading("num.neg", NoComponents)
      BY <1>2, <1>3, <1>5, NothingRead DEF Reading
    <3> QED BY <2>3, <3>1, FirstDigitNInv
  <2> QED BY <2>1, <2>2, <2>3 DEF BeginComponents
<1> QED BY <1>4, <1>5

\* The first byte of a value.
LEMMA ValueNInv ==
  ASSUME Going, Value
  PROVE  NInv'
<1>1. PICK ch \in CurrCh :
        \/ ch # EOF /\ \E l \in {"t", "f", "n"} : Read(l)
        \/ ch # EOF /\ BeginString
        \/ ch \in Digit \cup {Ascii.minus} /\ BeginNumber(ch)
        \/ ch # EOF /\ ch = Ascii.lbracket /\ Emit("BEGIN_ARRAY", "arr.emit")
        \/ ch # EOF /\ Emit("BEGIN_OBJECT", "obj.emit")
        \/ RaiseError("UNEXPECTED_CHAR")
  BY DEF Value, Ascii, EOF
<1>2. At("VALUE") /\ "VALUE" \in Labels \ {"ERROR"} /\ "VALUE" # "idle"
  BY ContainersUnwatched DEF Value
<1>3. Running /\ pc = "VALUE"
  BY <1>2, AtFacts DEF Going, TInv
<1>4. CASE ch # EOF /\ \E l \in {"t", "f", "n"} : Read(l)
  <2>1. {"t", "f", "n"} \subseteq Labels \ Watched
    BY DEF Labels, NeedLabels, LiteralLabels, Watched, Fresh, NumberLabels, TextLabels
  <2> QED BY <1>3, <1>4, <2>1, TakeNInv DEF Read
<1>5. CASE ch # EOF /\ BeginString
  <2>1. "str" \in Labels \ Watched
    BY DEF Labels, NeedLabels, Watched, Fresh, NumberLabels, TextLabels
  <2> QED BY <1>3, <1>5, <2>1, TakeNInv DEF BeginString
<1>6. CASE ch \in Digit \cup {Ascii.minus} /\ BeginNumber(ch)
  BY <1>2, <1>6, BeginNumberNInv
<1>7. CASE ch # EOF /\ ch = Ascii.lbracket /\ Emit("BEGIN_ARRAY", "arr.emit")
  BY <1>3, <1>7, EmitNInv
<1>8. CASE ch # EOF /\ Emit("BEGIN_OBJECT", "obj.emit")
  BY <1>3, <1>8, EmitNInv
<1>9. CASE RaiseError("UNEXPECTED_CHAR")
  BY <1>2, <1>3, <1>9, RaiseErrs, ErrsNInv
<1> QED BY <1>1, <1>4, <1>5, <1>6, <1>7, <1>8, <1>9

-----------------------------------------------------------------------------
(* Every step of the loop. *)

\* A step of ajson_next_token().
LEMMA RunNInv ==
  ASSUME TInv, NInv, Run, doc' = doc
  PROVE  NInv'
<1>1. Going
  BY DEF Going, Run, configVars
<1>2. CASE NeedData
  BY <1>1, <1>2, NeedDataNInv
<1>3. CASE UnexpectedEof
  <2>1. pc # "idle" /\ RaiseError("UNEXPECTED_EOF")
    BY <1>3, LabelFacts DEF UnexpectedEof, Labels
  <2> QED BY <1>1, <2>1, RaiseErrs, ErrsNInv
<1>4. CASE ErrorState
  BY <1>1, <1>4, RaiseErrs, ErrsNInv DEF ErrorState
<1>5. CASE Start \/ Trail \/ Value \/ LiteralLetter \/ LiteralEnd \/ StringNext
  BY <1>1, <1>5, DocumentNInv, ValueNInv, LiteralNInv, StringNInv
<1>6. CASE NumberNext
  BY <1>1, <1>6, IntegerPartNInv, DecimalPartNInv, ExponentPartNInv, TextIntegerNInv,
     TextDecimalsNInv, TextExponentNInv DEF NumberNext
<1>7. CASE ArrayEmitted \/ ArrayFirst \/ ArrayNext \/ ArrayMore \/ ArrayClosed
  BY <1>1, <1>7, EmittedNInv, ArrayNInv
<1>8. CASE \/ ObjectEmitted \/ ObjectFirst \/ ObjectColon \/ ObjectValue
           \/ ObjectNext \/ ObjectMore \/ ObjectClosed
  BY <1>1, <1>8, EmittedNInv, ObjectNInv
<1> QED BY <1>2, <1>3, <1>4, <1>5, <1>6, <1>7, <1>8 DEF Run

\* What fread() brings continues what was read.
LEMMA ReadChunkNInv ==
  ASSUME TInv, NInv, FreadBytes, ReadChunk
  PROVE  NInv'
<1>1. phase = "read" /\ pc = "idle" /\ Position >= Size /\ Position = input_current
  BY DEF ReadChunk, TInv, LoopPhases, ChunkUsed, Position
<1>2. PICK chunk \in Fread(encoding, files, doc) \cup {<<>>} : Feed(chunk) /\ doc' = doc \o chunk
  BY DEF ReadChunk
<1>3. chunk \in Seq(Byte)
  <2>1. encoding \in Encodings /\ files \in Nat /\ doc \in Seq(Byte)
    BY DEF TInv, IInv, TypeOK
  <2>2. Fread(encoding, files, doc) \subseteq Seq(Byte)
    BY <2>1, Zenon DEF FreadBytes
  <2>3. <<>> \in Seq(Byte)
    OBVIOUS
  <2> QED BY <2>2, <2>3
<1>4. doc \in Seq(Byte) /\ input \in Seq(Byte) /\ Size \in Nat /\ Position \in Nat /\ Len(doc) \in Nat
  BY ReadFacts DEF NInv
<1>5. /\ tok' = "FED" /\ input' = chunk /\ input_current' = 0 /\ pc' = "idle"
      /\ UNCHANGED <<flags, stack, stack_current, buffer, value>>
  <2>1. ~(input_current < Size)
    BY <1>1, <1>4
  <2> QED BY <1>1, <1>2, <2>1 DEF Feed, configVars, stackVars, bufferVars
<1>6. Top' = Top /\ Held' = Held /\ Position' = 0 /\ Size' = Len(chunk) /\ ~Answered'
  BY <1>1, <1>5 DEF Top, Held, Position, Size, Answered
<1>7. Len(chunk) \in Nat /\ Len(doc') = Len(doc) + Len(chunk)
  BY <1>2, <1>3, <1>4, ConcatProperties, LenProperties
<1>8. ChunkIsTail'
  <2>1. Size' <= Len(doc')
    BY <1>4, <1>6, <1>7
  <2>2. ASSUME NEW k \in 1 .. Len(chunk) PROVE input'[k] = doc'[Len(doc') - Size' + k]
    <3>1. Len(doc') - Size' + k = Len(doc) + k
      BY <1>4, <1>6, <1>7
    <3>2. (doc \o chunk)[Len(doc) + k] = chunk[k]
      BY <1>3, <1>4
    <3> QED BY <1>2, <1>5, <3>1, <3>2
  <2> QED BY <1>6, <2>1, <2>2 DEF ChunkIsTail
<1>9. Consumed' = doc
  <2>1. Consumed' = SubSeq(doc \o chunk, 1, Len(doc))
    <3>1. Len(doc') - Size' + Position' = Len(doc)
      BY <1>4, <1>6, <1>7
    <3> QED BY <1>2, <3>1 DEF Consumed
  <2>2. SubSeq(doc \o chunk, 1, Len(doc)) = doc
    BY <1>3, <1>4
  <2> QED BY <2>1, <2>2
<1>10. ASSUME Top \in Watched PROVE Top # "arr.emit" /\ LastRead' = LastRead
  <2>1. Position = Size
    BY <1>1, <1>4, <1>10 DEF NInv, WordSoFar
  <2>2. Top # "arr.emit"
    BY <1>4, <2>1 DEF NInv, WordSoFar
  <2>3. Consumed = doc
    <3>1. Len(doc) - Size + Position = Len(doc)
      BY <1>4, <2>1
    <3>2. SubSeq(doc, 1, Len(doc)) = doc
      BY <1>4
    <3> QED BY <3>1, <3>2 DEF Consumed
  <2> QED BY <1>9, <2>2, <2>3 DEF LastRead
<1>11. Position' <= Size'
  BY <1>6, <1>7
<1>12. WordSoFar'
  <2>1. CASE Top \notin Watched
    BY <1>6, <2>1, WatchedFacts DEF WordSoFar
  <2>2. CASE Top \in Watched
    BY <1>5, <1>6, <1>10, <1>11, <2>2 DEF NInv, WordSoFar
  <2> QED BY <2>1, <2>2
<1>13. NumberAnswers'
  BY <1>6 DEF NumberAnswers, AcceptsOnlyNumerals, ComponentsAreTheNumerals, IntegersInRange,
         DoublesAreTheNumerals, TextIsKept
<1> QED BY <1>5, <1>8, <1>12, <1>13 DEF NInv, AcceptedFlags

\* The call starts where the last one stopped.
LEMMA CallNextTokenNInv ==
  ASSUME TInv, NInv, CallNextToken
  PROVE  NInv'
<1>1. /\ pc = "idle" /\ pc' = stack[stack_current] /\ index' = input_current
      /\ UNCHANGED <<flags, input, input_current, stack, stack_current, buffer, value, doc>>
  BY DEF CallNextToken, NextToken, configVars, inputVars, stackVars, bufferVars
<1>2. Top \in Labels
  BY DEF TInv, IInv, Frames
<1>3. pc' # "idle" /\ Top' = Top /\ Position' = Position /\ Size' = Size /\ Held' = Held
  BY <1>1, <1>2, LabelFacts DEF Top, Position, Size, Held
<1>4. ChunkIsTail' /\ LastRead' = LastRead
  BY <1>1, <1>3 DEF NInv, ChunkIsTail, LastRead, Consumed
<1>5. WordSoFar'
  BY <1>1, <1>3, <1>4 DEF NInv, WordSoFar
<1>6. NumberAnswers'
  BY <1>3 DEF Answered, NumberAnswers, AcceptsOnlyNumerals, ComponentsAreTheNumerals, IntegersInRange,
         DoublesAreTheNumerals, TextIsKept
<1> QED BY <1>1, <1>4, <1>5, <1>6 DEF NInv, AcceptedFlags

\* Nothing changes.
LEMMA SameNInv ==
  ASSUME NInv, UNCHANGED <<vars, doc>>
  PROVE  NInv'
<1>1. UNCHANGED <<flags, input, input_current, stack, stack_current, buffer, value, index, pc, tok, doc>>
  BY DEF vars, configVars, inputVars, stackVars, bufferVars
<1>2. /\ Top' = Top /\ Position' = Position /\ Size' = Size /\ Held' = Held /\ Live' = Live
      /\ AtEof' = AtEof /\ Answered' = Answered
  BY <1>1 DEF Top, Position, Size, Held, Live, AtEof, Answered
<1>3. LastRead' = LastRead /\ Numeral' = Numeral
  BY <1>1, <1>2 DEF LastRead, Consumed, Numeral, Taken
<1>4. ChunkIsTail' /\ WordSoFar' /\ AcceptedFlags(flags)'
  BY <1>1, <1>2, <1>3 DEF NInv, ChunkIsTail, WordSoFar, AcceptedFlags
<1>5. AcceptsOnlyNumerals' /\ ComponentsAreTheNumerals' /\ IntegersInRange'
  BY <1>1, <1>2, <1>3 DEF NInv, NumberAnswers, AcceptsOnlyNumerals, ComponentsAreTheNumerals, IntegersInRange
<1>6. DoublesAreTheNumerals' /\ TextIsKept'
  BY <1>1, <1>2, <1>3 DEF NInv, NumberAnswers, DoublesAreTheNumerals, TextIsKept
<1> QED BY <1>4, <1>5, <1>6 DEF NInv, NumberAnswers

\* Nothing was read of a file.
LEMMA FreshNInv ==
  ASSUME AcceptedFlags(flags)', input' = <<>>, doc' = <<>>, Top' = "START", Position' = 0, ~Answered'
  PROVE  NInv'
<1>1. Size' = 0
  BY DEF Size
<1>2. ChunkIsTail'
  BY <1>1 DEF ChunkIsTail
<1>3. LastRead' = <<>>
  <2>1. Consumed' = <<>>
    BY <1>1 DEF Consumed
  <2> QED BY <2>1, WordOfNothing DEF LastRead
<1>4. "START" \in Fresh /\ "START" # "arr.emit" /\ "START" \notin NumberLabels \cup TextLabels
  BY DEF Fresh, NumberLabels, TextLabels
<1>5. WordSoFar'
  BY <1>1, <1>3, <1>4 DEF WordSoFar
<1>6. NumberAnswers'
  BY DEF NumberAnswers, AcceptsOnlyNumerals, ComponentsAreTheNumerals, IntegersInRange,
         DoublesAreTheNumerals, TextIsKept
<1> QED BY <1>2, <1>5, <1>6 DEF NInv

\* The parser is reset for the next file.
LEMMA NextFileNInv ==
  ASSUME TInv, NInv, NextFile
  PROVE  NInv'
<1>1. Reset /\ doc' = <<>>
  BY DEF NextFile
<1>2. /\ pc' = "idle" /\ tok' = "RESET" /\ input' = <<>> /\ input_current' = 0 /\ flags' = flags
      /\ stack' = [stack EXCEPT ![0] = "START"] /\ stack_current' = 0
  BY <1>1 DEF Reset, configVars
<1>3. Position' = 0 /\ ~Answered'
  BY <1>2 DEF Position, Answered
<1>4. Top' = "START"
  <2>1. 0 \in 0 .. stack_size - 1
    <3>1. stack_size \in Nat /\ stack_current \in 0 .. stack_size - 1
      BY DEF TInv, IInv, TypeOK
    <3> QED BY <3>1
  <2>2. stack'[0] = "START"
    BY <1>2, <2>1, StackFacts DEF TInv
  <2> QED BY <1>2, <2>2 DEF Top
<1>5. AcceptedFlags(flags)'
  BY <1>2 DEF NInv, AcceptedFlags
<1> QED BY <1>1, <1>2, <1>3, <1>4, <1>5, FreshNInv

\* Nothing was read when the program starts.
LEMMA InitNInv ==
  ASSUME TokenizeInit
  PROVE  NInv
<1>1. Init /\ doc = <<>>
  BY DEF TokenizeInit
<1>2. /\ AcceptedFlags(flags) /\ input = <<>> /\ input_current = 0 /\ tok = "INIT" /\ pc = "idle"
  BY <1>1 DEF Init
<1>3. Size = 0 /\ Position = 0 /\ ~Answered
  BY <1>2 DEF Size, Position, Answered
<1>4. Top = "START"
  BY <1>1, MemoryAssumption DEF Init, Top
<1>5. ChunkIsTail
  BY <1>1, <1>3 DEF ChunkIsTail
<1>6. LastRead = <<>>
  <2>1. Consumed = <<>>
    BY <1>1, <1>3 DEF Consumed
  <2> QED BY <2>1, WordOfNothing DEF LastRead
<1>7. "START" \in Fresh /\ "START" # "arr.emit" /\ "START" \notin NumberLabels \cup TextLabels
  BY DEF Fresh, NumberLabels, TextLabels
<1>8. WordSoFar
  BY <1>3, <1>4, <1>6, <1>7 DEF WordSoFar
<1>9. NumberAnswers
  BY <1>3 DEF NumberAnswers, AcceptsOnlyNumerals, ComponentsAreTheNumerals, IntegersInRange,
         DoublesAreTheNumerals, TextIsKept
<1> QED BY <1>2, <1>5, <1>8, <1>9 DEF NInv

-----------------------------------------------------------------------------
(* The theorems about numbers. *)

\* NInv holds initially and every step of the loop preserves it.
THEOREM NumberInvariance == ASSUME FreadBytes PROVE TokenizeSpec => []NInv
<1>1. TokenizeInit => NInv
  BY InitNInv
<1>2. TInv /\ NInv /\ [TokenizeNext]_allVars => NInv'
  <2> SUFFICES ASSUME TInv, NInv, [TokenizeNext]_allVars PROVE NInv'
    OBVIOUS
  <2>1. CASE ReadChunk
    BY <2>1, ReadChunkNInv
  <2>2. CASE CallNextToken
    BY <2>2, CallNextTokenNInv
  <2>3. CASE RunCall
    BY <2>3, RunNInv DEF RunCall, driverVars
  <2>4. CASE PrintToken
    BY <2>4, SameNInv DEF PrintToken
  <2>5. CASE NextFile
    BY <2>5, NextFileNInv
  <2>6. CASE UNCHANGED allVars
    BY <2>6, SameNInv DEF allVars, driverVars
  <2> QED BY <2>1, <2>2, <2>3, <2>4, <2>5, <2>6 DEF TokenizeNext, Exit
<1> QED
  BY <1>1, <1>2, TokenizeInvariance, PTL DEF TokenizeSpec

\* A number is answered only for a numeral of RFC 8259 that is complete: for files of any
\* length, in whatever chunks they are read, and for every width of the components.
THEOREM NumbersAreNumerals == ASSUME FreadBytes PROVE TokenizeSpec => []AcceptsOnlyNumerals
<1>1. NInv => AcceptsOnlyNumerals
  BY DEF NInv, NumberAnswers
<1> QED
  BY <1>1, NumberInvariance, PTL

\* The components answered are those of the numeral, also of one that was cut into chunks
\* anywhere, with digits that did not fit rounded away.
THEOREM ComponentsAreRead == ASSUME FreadBytes PROVE TokenizeSpec => []ComponentsAreTheNumerals
<1>1. NInv => ComponentsAreTheNumerals
  BY DEF NInv, NumberAnswers
<1> QED
  BY <1>1, NumberInvariance, PTL

\* INTEGER is answered, if it was asked for, to exactly the integers that fit, with the
\* value of the numeral up to the largest int64_t.
THEOREM IntegersAreRead == ASSUME FreadBytes PROVE TokenizeSpec => []IntegersInRange
<1>1. NInv => IntegersInRange
  BY DEF NInv, NumberAnswers
<1> QED
  BY <1>1, NumberInvariance, PTL

\* The double that is answered is made of the sign, the digits and the exponent of the
\* numeral, and it is infinite or zero only for an exponent out of the range of pow().
THEOREM DoublesAreRead == ASSUME FreadBytes PROVE TokenizeSpec => []DoublesAreTheNumerals
<1>1. NInv => DoublesAreTheNumerals
  BY DEF NInv, NumberAnswers
<1> QED
  BY <1>1, NumberInvariance, PTL

\* A numeral kept as text is answered as it stands in the file.
THEOREM TextIsRead == ASSUME FreadBytes PROVE TokenizeSpec => []TextIsKept
<1>1. NInv => TextIsKept
  BY DEF NInv, NumberAnswers
<1> QED
  BY <1>1, NumberInvariance, PTL

-----------------------------------------------------------------------------
(* The inductive invariant of what is refused. *)

\* How many bytes were taken of the file.
Count == Len(doc) - Size + Position

\* A byte was taken that numerals do not have; one that was not only a space behind the first byte.
Spoilt == \E i \in DOMAIN doc : i <= Count /\ doc[i] \notin NumeralBytes
Lost == \E i \in DOMAIN doc : i <= Count /\ doc[i] \notin NumeralBytes /\ (i = 1 \/ doc[i] # 32)

\* The file is no numeral, or none can begin like it, up to the byte the parser is at.
NoNumeral ==
  IF AtEof THEN ~IsNumeralText(Stripped(doc)) ELSE ~IsViable(SubSeq(doc, 1, Count + 1))

\* A value was not begun, a bracket was answered, a numeral is read, it was answered, and there
\* is white space behind it.
Unbegun == Top \in {"START", "VALUE"} /\ Count = 0
Bracket ==
  /\ Top \in {"arr.emit", "obj.emit"} /\ Count = 0
  /\ Position < Size /\ input[Position + 1] \notin NumeralBytes
InNumeral ==
  /\ Top \in NumberLabels \cup TextLabels /\ ~Spoilt
  /\ Top \in SignLabels => SignOf(LastRead)
BehindNumeral ==
  /\ Top = "start.ret" /\ ~Spoilt /\ Position <= Size
  /\ AtEof \/ input[Position + 1] \in Space \/ NoNumeral
InSpace == Top = "start.trail" /\ Spoilt

\* Where the parser is in a file that can still be a numeral.
Fits == stack_current <= 1 /\ (Unbegun \/ Bracket \/ InNumeral \/ BehindNumeral \/ InSpace)

\* The last answer, nothing follows it.
Ended == pc = "idle" /\ tok \in {"END", "ERROR"}
Failed == pc = "idle" /\ tok = "ERROR"

\* The inductive invariant of what is refused.
RInv ==
  /\ Ended => phase \in {"call", "done"}
  /\ Ended => Failed \/ AtEof
  /\ Failed /\ Held \notin {"MEMORY", "RANGE"} => NoNumeral
  /\ ~Ended => Top # "ERROR" /\ (Lost \/ Fits)
  /\ phase = "read" /\ AtEof => Top = "START"

\* How many bytes were taken, and which one is next.
LEMMA CountFacts ==
  ASSUME TInv, ChunkIsTail
  PROVE  /\ doc \in Seq(Byte) /\ Len(doc) \in Nat /\ DOMAIN doc = 1 .. Len(doc) /\ input \in Seq(Byte)
         /\ Size \in Nat /\ Position \in Nat /\ Count \in Nat /\ (AtEof <=> Size = 0)
         /\ Position <= Size => /\ Count <= Len(doc) /\ Consumed \in Seq(Byte)
                                /\ Consumed = SubSeq(doc, 1, Count)
                                /\ Len(Consumed) = Count
                                /\ \A i \in 1 .. Count : Consumed[i] = doc[i]
         /\ Position < Size => /\ ~AtEof /\ Count + 1 \in 1 .. Len(doc)
                               /\ input[Position + 1] = doc[Count + 1] /\ doc[Count + 1] \in Byte
                               /\ SubSeq(doc, 1, Count + 1) = Append(Consumed, doc[Count + 1])
<1>1. /\ doc \in Seq(Byte) /\ input \in Seq(Byte) /\ Size \in Nat /\ Size <= Len(doc) /\ Position \in Nat
  BY ReadFacts
<1>2. Len(doc) \in Nat /\ DOMAIN doc = 1 .. Len(doc)
  BY <1>1
<1>3. Count \in Nat
  BY <1>1, <1>2 DEF Count
<1>4. Consumed = SubSeq(doc, 1, Count)
  BY DEF Consumed, Count
<1>5. ASSUME Position <= Size
      PROVE  /\ Count <= Len(doc) /\ Consumed \in Seq(Byte) /\ Len(Consumed) = Count
             /\ \A i \in 1 .. Count : Consumed[i] = doc[i]
  <2>1. Count <= Len(doc)
    BY <1>1, <1>2, <1>5 DEF Count
  <2>2. Consumed \in Seq(Byte)
    BY <1>1, <1>2, <1>3, <1>4, <2>1, Prefix
  <2>3. \A i \in 1 .. Count : doc[i] \in Byte
    <3>1. ASSUME NEW i \in 1 .. Count PROVE i \in 1 .. Len(doc)
      BY <1>2, <1>3, <2>1
    <3> QED BY <1>1, <1>2, <3>1
  <2> DEFINE c == Count
             s == SubSeq(doc, 1, c)
  <2>4. c \in Int /\ \A i \in 1 .. c : doc[i] \in Byte
    BY <1>3, <2>3
  <2> HIDE DEF c
  <2>5. Len(s) = (IF 1 <= c THEN c - 1 + 1 ELSE 0) /\ \A i \in 1 .. c - 1 + 1 : s[i] = doc[1 + i - 1]
    BY <2>4, SubSeqProperties
  <2> HIDE DEF s
  <2>6. Len(s) = c /\ \A i \in 1 .. c : s[i] = doc[i]
    <3>1. c \in Nat
      BY <1>3 DEF c
    <3> QED BY <2>5, <3>1
  <2> QED BY <1>4, <2>1, <2>2, <2>6 DEF s, c
<1>6. ASSUME Position < Size
      PROVE  /\ ~AtEof /\ Count + 1 \in 1 .. Len(doc)
             /\ input[Position + 1] = doc[Count + 1] /\ doc[Count + 1] \in Byte
             /\ SubSeq(doc, 1, Count + 1) = Append(Consumed, doc[Count + 1])
  <2>1. ~AtEof /\ Count < Len(doc) /\ Count + 1 \in 1 .. Len(doc) /\ Count + 1 = Len(doc) - Size + (Position + 1)
        /\ Position + 1 \in 1 .. Size
    BY <1>1, <1>2, <1>3, <1>6 DEF Count, AtEof
  <2>2. input[Position + 1] = doc[Len(doc) - Size + (Position + 1)]
    BY <2>1 DEF ChunkIsTail
  <2>3. doc[Count + 1] \in Byte
    BY <1>1, <1>2, <2>1
  <2>4. Count \in 0 .. Len(doc)
    BY <1>2, <1>3, <2>1
  <2> HIDE DEF Count
  <2>5. SubSeq(doc, 1, Count + 1) = Append(SubSeq(doc, 1, Count), doc[Count + 1])
    BY <1>1, <2>1, <2>4, Prefix
  <2> QED BY <1>4, <2>1, <2>2, <2>3, <2>5
<1> QED BY <1>1, <1>2, <1>3, <1>4, <1>5, <1>6 DEF AtEof

\* As long as only bytes of numerals were taken, they are the numeral read last.
LEMMA AllTaken ==
  ASSUME TInv, ChunkIsTail, Position <= Size, ~Spoilt
  PROVE  LastRead = Consumed
<1>1. /\ Consumed \in Seq(Byte) /\ Len(Consumed) = Count /\ Count \in Nat
      /\ \A i \in 1 .. Count : Consumed[i] = doc[i]
      /\ Count <= Len(doc) /\ DOMAIN doc = 1 .. Len(doc) /\ Len(doc) \in Nat
  BY CountFacts
<1>2. \A i \in 1 .. Len(Consumed) : Consumed[i] \in NumeralBytes
  BY <1>1 DEF Spoilt
<1> DEFINE s == 0
<1>3. s \in 0 .. Len(Consumed) /\ ~(s > 0) /\ \A i \in s + 1 .. Len(Consumed) : Consumed[i] \in NumeralBytes
  BY <1>1, <1>2
<1>4. LastWord(Consumed) = SubSeq(Consumed, s + 1, Len(Consumed))
  <2> HIDE DEF s
  <2> QED BY <1>1, <1>3, WordIs
<1>5. SubSeq(Consumed, 1, Len(Consumed)) = Consumed
  BY <1>1
<1> QED BY <1>4, <1>5 DEF LastRead

\* A file with a byte that numerals do not have is none, nor is its beginning.
LEMMA LostIsNone ==
  ASSUME TInv, ChunkIsTail, AtEof \/ Position < Size, Lost \/ (Spoilt /\ ~AtEof)
  PROVE  NoNumeral
<1>1. /\ doc \in Seq(Byte) /\ Len(doc) \in Nat /\ DOMAIN doc = 1 .. Len(doc) /\ Count \in Nat
      /\ Position < Size => /\ ~AtEof /\ Count + 1 \in 1 .. Len(doc)
  BY CountFacts
<1>2. PICK i \in 1 .. Len(doc) : i <= Count /\ doc[i] \notin NumeralBytes /\ (AtEof => i = 1 \/ doc[i] # 32)
  BY <1>1 DEF Lost, Spoilt
<1>3. CASE AtEof
  BY <1>1, <1>2, <1>3, OtherByte DEF NoNumeral
<1>4. CASE ~AtEof
  <2> DEFINE c == Count + 1
             s == SubSeq(doc, 1, c)
  <2>1. c \in 1 .. Len(doc) /\ i \in 1 .. c /\ i < c
    BY <1>1, <1>2, <1>4
  <2>2. \A k \in 1 .. c : doc[k] \in Byte
    BY <1>1, <2>1
  <2> HIDE DEF c
  <2>3. s \in Seq(Byte) /\ Len(s) = (IF 1 <= c THEN c - 1 + 1 ELSE 0) /\ \A k \in 1 .. c - 1 + 1 : s[k] = doc[1 + k - 1]
    BY <2>1, <2>2, SubSeqProperties
  <2> HIDE DEF s
  <2>4. s \in Seq(Byte) /\ Len(s) = c /\ s[i] = doc[i]
    BY <1>1, <2>1, <2>3
  <2>5. ~IsViable(s)
    BY <1>2, <2>1, <2>4, OtherByte
  <2> QED BY <1>4, <2>5 DEF NoNumeral, s, c
<1> QED BY <1>3, <1>4

\* What was taken stays taken.
LEMMA StaysLost ==
  ASSUME doc \in Seq(Byte), doc' = doc, Count \in Nat, Count' \in Nat, Count <= Count'
  PROVE  (Lost => Lost') /\ (Spoilt => Spoilt')
<1>1. ASSUME NEW i \in DOMAIN doc, i <= Count PROVE i \in DOMAIN doc' /\ i <= Count' /\ doc'[i] = doc[i]
  <2>1. i \in Nat
    <3>1. DOMAIN doc = 1 .. Len(doc) /\ Len(doc) \in Nat
      OBVIOUS
    <3> QED BY <3>1
  <2> QED BY <1>1, <2>1
<1>2. Lost => Lost'
  BY <1>1 DEF Lost
<1>3. Spoilt => Spoilt'
  BY <1>1 DEF Spoilt
<1> QED BY <1>2, <1>3

-----------------------------------------------------------------------------
(* A step of a call. *)

\* A step of ajson_next_token() in the loop.
Calling == Going /\ RInv /\ phase = "call" /\ phase' = "call" /\ pc # "idle"

\* What is known in a call.
LEMMA CallFacts ==
  ASSUME Calling
  PROVE  /\ TInv /\ NInv /\ IInv /\ ChunkIsTail /\ doc' = doc
         /\ Top = pc /\ Position = index /\ pc \in Labels \ {"ERROR"} /\ (Lost \/ Fits)
<1>1. TInv /\ NInv /\ RInv /\ doc' = doc /\ pc # "idle"
  BY DEF Calling, Going
<1>2. IInv /\ ChunkIsTail
  BY <1>1 DEF TInv, NInv
<1>3. Top = pc /\ Position = index /\ ~Ended
  BY <1>1 DEF Top, Position, Ended
<1>4. Top \in Labels
  BY <1>2 DEF IInv, Frames
<1> QED BY <1>1, <1>2, <1>3, <1>4 DEF RInv

\* The call goes on, or answers a token.
LEMMA GoesOn ==
  ASSUME Calling, ~Ended', Top' # "ERROR", Lost' \/ Fits'
  PROVE  RInv'
<1>1. ~Failed'
  BY DEF Failed, Ended
<1>2. phase' # "read"
  BY DEF Calling
<1> QED BY <1>1, <1>2 DEF RInv

\* An error is answered, for want of memory or range or to what is no numeral.
LEMMA Refused ==
  ASSUME Calling, NEW e, Fail(e), e \in {"MEMORY", "RANGE"} \/ NoNumeral
  PROVE  RInv'
<1>1. Going /\ pc # "idle" /\ doc' = doc /\ phase' = "call"
  BY DEF Calling, Going
<1>2. Answer("ERROR") /\ value' = <<"error", e>>
  BY DEF Fail
<1>3. pc' = "idle" /\ tok' = "ERROR" /\ Position' = Position /\ Size' = Size
  BY <1>1, <1>2, Answering
<1>4. Held' = e /\ AtEof' = AtEof /\ Count' = Count
  BY <1>1, <1>2, <1>3 DEF Held, AtEof, Count
<1>5. NoNumeral' = NoNumeral
  BY <1>1, <1>4 DEF NoNumeral
<1>6. Failed' /\ Ended'
  BY <1>3 DEF Failed, Ended
<1> QED BY <1>1, <1>4, <1>5, <1>6 DEF RInv

\* The end is answered at the end.
LEMMA Concluded ==
  ASSUME Calling, AtEof, Done
  PROVE  RInv'
<1>1. Going /\ pc # "idle" /\ phase' = "call"
  BY DEF Calling
<1>2. pc' = "idle" /\ tok' = "END" /\ Size' = Size
  BY <1>1, Answering DEF Done
<1>3. AtEof' /\ Ended' /\ ~Failed'
  BY <1>2 DEF AtEof, Ended, Failed
<1> QED BY <1>1, <1>3 DEF RInv

\* A byte is taken.
LEMMA Took ==
  ASSUME Calling, Running, NEW ch \in CurrCh, ch # EOF, NEW l \in Labels \ {"ERROR"}, Advance(l)
  PROVE  /\ ~Ended' /\ Top' = l /\ stack_current' = stack_current /\ input' = input
         /\ Lost => Lost'
         /\ ch \notin NumeralBytes => Spoilt' /\ (Count = 0 => Lost')
         /\ ch \in NumeralBytes /\ ~Spoilt => ~Spoilt'
<1>1. TInv /\ ChunkIsTail /\ doc' = doc /\ Position = index
  BY CallFacts
<1>2. ~AtEof /\ index < Size /\ ch = input[index + 1] /\ ch \in Byte
  BY <1>1, CurrentByte
<1>3. /\ pc' = l /\ index' = index + 1 /\ input' = input /\ stack_current' = stack_current
  BY DEF Advance, inputVars, stackVars
<1>4. l # "idle"
  BY LabelFacts
<1>5. ~Ended' /\ Top' = l /\ Position' = index + 1 /\ Size' = Size
  BY <1>3, <1>4 DEF Ended, Top, Position, Size
<1>6. /\ doc \in Seq(Byte) /\ Count \in Nat /\ Size \in Nat /\ Position \in Nat
      /\ Len(doc) \in Nat /\ DOMAIN doc = 1 .. Len(doc)
      /\ Count + 1 \in 1 .. Len(doc) /\ doc[Count + 1] = ch
  BY <1>1, <1>2, CountFacts
<1>7. Count' = Count + 1
  BY <1>1, <1>5, <1>6 DEF Count
<1>8. Lost => Lost'
  BY <1>1, <1>6, <1>7, StaysLost
<1>9. ASSUME ch \notin NumeralBytes PROVE Spoilt' /\ (Count = 0 => Lost')
  <2> DEFINE i == Count + 1
  <2>1. i \in DOMAIN doc' /\ i <= Count' /\ doc'[i] = ch /\ (Count = 0 => i = 1)
    BY <1>1, <1>6, <1>7
  <2> HIDE DEF i
  <2>2. doc'[i] \notin NumeralBytes
    BY <1>9, <2>1
  <2> QED BY <2>1, <2>2 DEF Spoilt, Lost
<1>10. ASSUME ch \in NumeralBytes, ~Spoilt PROVE ~Spoilt'
  <2>1. ASSUME NEW i \in DOMAIN doc', i <= Count', doc'[i] \notin NumeralBytes PROVE FALSE
    <3>1. i \in 1 .. Len(doc) /\ i <= Count + 1 /\ doc[i] \notin NumeralBytes
      BY <1>1, <1>6, <1>7, <2>1
    <3>2. i # Count + 1
      BY <1>6, <1>10, <3>1
    <3>3. i \in DOMAIN doc /\ i <= Count
      BY <1>6, <3>1, <3>2
    <3> QED BY <1>10, <3>1, <3>3 DEF Spoilt
  <2> QED BY <2>1 DEF Spoilt
<1> QED BY <1>3, <1>5, <1>8, <1>9, <1>10

\* An answer leaves what was taken.
LEMMA TakenStays ==
  ASSUME Calling, NEW t, Answer(t)
  PROVE  /\ pc' = "idle" /\ tok' = t /\ Position' = Position /\ Size' = Size /\ AtEof' = AtEof
         /\ input' = input /\ Count' = Count /\ LastRead' = LastRead
         /\ Lost' = Lost /\ Spoilt' = Spoilt /\ NoNumeral' = NoNumeral
<1>1. Going /\ pc # "idle" /\ doc' = doc
  BY DEF Calling, Going
<1>2. /\ pc' = "idle" /\ tok' = t /\ Position' = Position /\ Size' = Size /\ LastRead' = LastRead
      /\ input' = input
  BY <1>1, Answering
<1>3. Count' = Count /\ AtEof' = AtEof
  BY <1>1, <1>2 DEF Count, AtEof
<1> QED BY <1>1, <1>2, <1>3 DEF Lost, Spoilt, NoNumeral

\* Where the steps of a call are taken.
LEMMA RunAt ==
  ASSUME Run
  PROVE  \/ NeedData \/ UnexpectedEof \/ ErrorState
         \/ /\ At(pc)
            /\ \/ Start /\ pc \in {"START", "start.ws"}
               \/ Trail /\ pc \in {"start.ret", "start.trail"}
               \/ Value /\ pc = "VALUE"
               \/ (ArrayEmitted \/ ObjectEmitted) /\ pc \in {"arr.emit", "obj.emit"}
               \/ NumberNext /\ pc \in NumberLabels \cup TextLabels
               \/ pc \in LiteralLabels \cup LiteralEnds \cup StringLabels
               \/ pc \in {"arr.open", "arr.ret", "arr.ws", "arr.comma", "arr.close"}
               \/ pc \in {"obj.open", "obj.key", "obj.kws", "obj.colon", "obj.val", "obj.ws",
                          "obj.comma", "obj.close"}
<1> DEFINE P == At(pc)
<1>1. ASSUME NEW l, At(l) PROVE P /\ pc = l
  BY <1>1 DEF At
<1> HIDE DEF P
<1>2. Start => P /\ pc \in {"START", "start.ws"}
  BY <1>1 DEF Start
<1>3. Trail => P /\ pc \in {"start.ret", "start.trail"}
  BY <1>1 DEF Trail
<1>4. Value => P /\ pc = "VALUE"
  BY <1>1 DEF Value
<1>5. ArrayEmitted \/ ObjectEmitted => P /\ pc \in {"arr.emit", "obj.emit"}
  BY <1>1 DEF ArrayEmitted, ObjectEmitted
<1>6. NumberNext => P /\ pc \in NumberLabels \cup TextLabels
  <2>1. IntegerPart \/ DecimalPart \/ ExponentPart => P /\ pc \in NumberLabels
    BY <1>1, NumberLabelsAre DEF IntegerPart, DecimalPart, ExponentPart
  <2>2. TextInteger \/ TextDecimals \/ TextExponent => P /\ pc \in TextLabels
    BY <1>1, TextLabelsAre DEF TextInteger, TextDecimals, TextExponent
  <2> QED BY <2>1, <2>2 DEF NumberNext
<1>7. LiteralLetter \/ LiteralEnd => P /\ pc \in LiteralLabels \cup LiteralEnds
  BY <1>1 DEF LiteralLetter, LiteralEnd
<1>8. StringNext => P /\ pc \in StringLabels
  <2>1. HexByte => P /\ pc \in HexLabels
    <3>1. \A k \in 1 .. 8 : HexLabel[k] \in HexLabels
      BY DEF HexLabel, HexLabels
    <3> QED BY <1>1, <3>1 DEF HexByte
  <2>2. Utf8Byte => P /\ pc \in Utf8Labels
    BY <1>1 DEF Utf8Byte
  <2>3. String \/ StringByte \/ EscapeByte \/ SurrogateBackslash \/ SurrogateU \/ EndString =>
          P /\ pc \in {"STRING", "str", "esc", "sur.bs", "sur.u", "str.close"}
    BY <1>1 DEF String, StringByte, EscapeByte, SurrogateBackslash, SurrogateU, EndString
  <2> QED BY <2>1, <2>2, <2>3 DEF StringNext, StringLabels
<1>9. ArrayFirst \/ ArrayNext \/ ArrayMore \/ ArrayClosed =>
        P /\ pc \in {"arr.open", "arr.ret", "arr.ws", "arr.comma", "arr.close"}
  BY <1>1 DEF ArrayFirst, ArrayNext, ArrayMore, ArrayClosed
<1>10. ObjectFirst \/ ObjectColon \/ ObjectValue \/ ObjectNext \/ ObjectMore \/ ObjectClosed =>
        P /\ pc \in {"obj.open", "obj.key", "obj.kws", "obj.colon", "obj.val", "obj.ws",
                     "obj.comma", "obj.close"}
  BY <1>1 DEF ObjectFirst, ObjectColon, ObjectValue, ObjectNext, ObjectMore, ObjectClosed
<1>11. \/ NeedData
       \/ UnexpectedEof \/ ErrorState
       \/ Start \/ Trail \/ Value \/ LiteralLetter \/ LiteralEnd
       \/ StringNext \/ NumberNext
       \/ ArrayEmitted \/ ArrayFirst \/ ArrayNext \/ ArrayMore \/ ArrayClosed
       \/ ObjectEmitted \/ ObjectFirst \/ ObjectColon \/ ObjectValue
       \/ ObjectNext \/ ObjectMore \/ ObjectClosed
  BY DEF Run
<1> QED BY <1>2, <1>3, <1>4, <1>5, <1>6, <1>7, <1>8, <1>9, <1>10, <1>11, Zenon DEF P

\* What follows what is lost is lost.
LEMMA LostStep ==
  ASSUME Calling, Run, Lost
  PROVE  RInv'
<1>1. /\ TInv /\ NInv /\ IInv /\ ChunkIsTail /\ doc' = doc
      /\ Top = pc /\ Position = index /\ pc \in Labels \ {"ERROR"}
  BY CallFacts
<1>2. /\ doc \in Seq(Byte) /\ Count \in Nat /\ Size \in Nat /\ index \in Nat /\ Len(doc) \in Nat
  BY <1>1, CountFacts
<1>3. /\ Framed(Top, stack, stack_current)
      /\ stack_current \in 0 .. stack_size - 1
      /\ stack \in [0 .. stack_size - 1 -> Labels \cup {"uninit"}]
  BY <1>1, ExpectedReads, StackFacts
<1>4. Moves
  BY <1>1, RunMoves
<1>5. CASE Goes
  <2>1. PICK l \in Checked : Advance(l)
    BY <1>5 DEF Goes
  <2>2. l \in Labels /\ l # "ERROR" /\ l # "idle"
    BY LabelFacts, <2>1 DEF JumpLabels
  <2>3. pc' = l /\ index' = index + 1 /\ input' = input
    BY <2>1 DEF Advance, inputVars
  <2>4. Top' = l /\ ~Ended' /\ Position' = index + 1 /\ Size' = Size
    BY <2>2, <2>3 DEF Top, Ended, Position, Size
  <2>5. Count' = Count + 1
    BY <1>1, <1>2, <2>4 DEF Count
  <2>6. Lost'
    BY <1>1, <1>2, <2>5, StaysLost
  <2> QED BY <2>2, <2>4, <2>6, GoesOn
<1>6. CASE Calls
  <2>1. PICK enter \in {"VALUE", "STRING"} : \E return : Recurse(enter, return)
    BY <1>6 DEF Calls
  <2>2. CASE Fail("MEMORY")
    BY <2>2, Refused
  <2>3. CASE pc' = enter /\ UNCHANGED <<inputVars, index>>
    <3>1. Top' = enter /\ ~Ended' /\ Position' = Position /\ Size' = Size
      BY <1>1, <2>1, <2>3 DEF Top, Ended, Position, Size, inputVars
    <3>2. Lost'
      BY <1>1, <1>2, <3>1, StaysLost DEF Count
    <3> QED BY <2>1, <3>1, <3>2, GoesOn
  <2> QED BY <2>1, <2>2, <2>3 DEF Recurse, RaiseError
<1>7. CASE Fails
  <2>1. PICK e : Fail(e)
    BY <1>7 DEF Fails
  <2>2. pc' = "idle" /\ tok' = "ERROR"
    BY <2>1 DEF Fail, Answer
  <2>3. ~NeedData
    BY <2>2 DEF NeedData, Answer
  <2>4. AtEof \/ At(pc)
    BY <1>1, <2>3, RunAt DEF UnexpectedEof, ErrorState
  <2>5. AtEof \/ Position < Size
    <3>1. CASE AtEof
      BY <3>1
    <3>2. CASE At(pc)
      BY <1>1, <3>2, AtFacts DEF Running, Readable
    <3> QED BY <2>4, <3>1, <3>2
  <2>6. NoNumeral
    BY <1>1, <2>5, LostIsNone
  <2> QED BY <2>1, <2>6, Refused
<1>8. CASE Returns
  <2>1. PICK t \in Tokens : Answer(t)
    BY <1>8 DEF Returns
  <2>2. stack_current > 0 /\ stack_current' = stack_current - 1 /\ stack' = stack
    BY <1>8 DEF Returns
  <2>3. pc' = "idle" /\ tok' = t /\ Lost'
    BY <2>1, TakenStays
  <2>4. stack[stack_current - 1] \in Inner \cup {"start.ret"}
    BY <1>3, <2>2, ReturnFacts
  <2>5. Top' # "ERROR"
    BY <2>2, <2>3, <2>4 DEF Top, Inner
  <2>6. ~Ended'
    BY <2>1, <2>3 DEF Ended, Tokens
  <2> QED BY <2>3, <2>5, <2>6, GoesOn
<1>9. CASE Emits
  <2>1. PICK t \in Opening, l \in {"arr.emit", "obj.emit"} : Emit(t, l)
    BY <1>9 DEF Emits
  <2>2. Answer(t) /\ stack' = [stack EXCEPT ![stack_current] = l] /\ stack_current' = stack_current
    BY <2>1 DEF Emit
  <2>3. pc' = "idle" /\ tok' = t /\ Lost'
    BY <2>2, TakenStays
  <2>4. Top' = l
    BY <1>3, <2>2, <2>3 DEF Top
  <2>5. ~Ended'
    BY <2>1, <2>3 DEF Ended, Opening
  <2> QED BY <2>3, <2>4, <2>5, GoesOn
<1>10. CASE Concludes
  BY <1>10, Concluded DEF Concludes
<1>11. CASE NeedData
  <2>1. Answer("NEED_DATA") /\ stack' = [stack EXCEPT ![stack_current] = pc] /\ stack_current' = stack_current
    BY <1>11 DEF NeedData
  <2>2. pc' = "idle" /\ tok' = "NEED_DATA" /\ Lost'
    BY <2>1, TakenStays
  <2>3. Top' = pc
    BY <1>3, <2>1, <2>2 DEF Top
  <2>4. ~Ended'
    BY <2>2 DEF Ended
  <2> QED BY <1>1, <2>2, <2>3, <2>4, GoesOn
<1> QED BY <1>4, <1>5, <1>6, <1>7, <1>8, <1>9, <1>10, <1>11 DEF Moves

\* What counts of the place: it stays when more data is asked for.
LEMMA PlaceStays ==
  ASSUME Fits, Top \notin {"arr.emit", "obj.emit", "start.ret"}, Top' = Top,
         stack_current' = stack_current, Count' = Count, Spoilt' = Spoilt, LastRead' = LastRead
  PROVE  Fits'
<1>1. stack_current' <= 1
  BY DEF Fits
<1>2. CASE Unbegun
  BY <1>1, <1>2 DEF Fits, Unbegun
<1>3. CASE InNumeral
  BY <1>1, <1>3 DEF Fits, InNumeral
<1>4. CASE InSpace
  BY <1>1, <1>4 DEF Fits, InSpace
<1> QED BY <1>2, <1>3, <1>4 DEF Fits, Bracket, BehindNumeral

\* More data is asked for.
LEMMA NeedDataFits ==
  ASSUME Calling, Fits, NeedData
  PROVE  RInv'
<1>1. IInv /\ Top = pc /\ pc \in Labels \ {"ERROR"}
  BY CallFacts
<1>2. /\ Answer("NEED_DATA") /\ stack' = [stack EXCEPT ![stack_current] = pc]
      /\ stack_current' = stack_current /\ pc \in Checked
  BY DEF NeedData, Checked
<1>3. /\ pc' = "idle" /\ tok' = "NEED_DATA" /\ Count' = Count /\ Spoilt' = Spoilt
      /\ LastRead' = LastRead
  BY <1>2, TakenStays
<1>4. Top' = pc
  BY <1>1, <1>2, <1>3, StackFacts DEF Top
<1>5. pc \notin {"arr.emit", "obj.emit", "start.ret"}
  BY <1>2, LabelFacts DEF JumpLabels
<1>6. Fits'
  BY <1>1, <1>2, <1>3, <1>4, <1>5, PlaceStays
<1>7. ~Ended'
  BY <1>3 DEF Ended
<1> QED BY <1>1, <1>4, <1>6, <1>7, GoesOn

\* The empty text is no numeral.
LEMMA NothingIsNone == ~IsNumeralText(Stripped(<<>>))
<1>1. Stripped(<<>>) = <<>>
  BY DEF Stripped
<1> QED BY <1>1, PartsOfNothing DEF IsNumeralText, IsNumeral, IsDigits, EmptyParts

\* Numerals do not end where a byte is needed.
LEMMA Needed ==
  /\ NeedLabels \cap CompleteLabels = {}
  /\ (NumberLabels \cup TextLabels) \ CompleteLabels \subseteq NeedLabels
  /\ {"arr.emit", "obj.emit", "start.ret", "start.trail"} \cap NeedLabels = {}
  /\ NumberLabels \cup TextLabels \subseteq Labels \ {"ERROR", "idle", "START", "VALUE"}
BY DEF CompleteLabels, NeedLabels, MayLabels, JumpLabels, Labels, NumberLabels, TextLabels, ZeroLabels, IntLabels,
       FracLabels, ExpDigitLabels, LiteralLabels, HexLabels, Utf8Labels, LiteralEnds

\* What is known where a numeral is read.
LEMMA ReadingFacts ==
  ASSUME TInv, NInv, InNumeral
  PROVE  /\ Top \in NumberLabels \cup TextLabels /\ Position <= Size
         /\ LastRead = Consumed /\ LastRead \in Seq(Byte) /\ Shaped(Top, LastRead)
         /\ Top \in SignLabels => SignOf(LastRead)
<1>1. /\ Top \in NumberLabels \cup TextLabels /\ ~Spoilt /\ ChunkIsTail
      /\ Top \in SignLabels => SignOf(LastRead)
  BY DEF InNumeral, NInv
<1>2. Position <= Size /\ Shaped(Top, LastRead)
  BY <1>1, WatchedFacts DEF NInv, WordSoFar
<1>3. LastRead = Consumed /\ LastRead \in Seq(Byte)
  BY <1>1, <1>2, AllTaken, ReadFacts
<1> QED BY <1>1, <1>2, <1>3

\* The file ends where a byte is needed.
LEMMA UnexpectedEofFits ==
  ASSUME Calling, Fits, UnexpectedEof
  PROVE  RInv'
<1>1. /\ TInv /\ NInv /\ ChunkIsTail /\ Top = pc
  BY CallFacts
<1>2. pc \in NeedLabels /\ AtEof /\ Fail("UNEXPECTED_EOF")
  BY DEF UnexpectedEof, RaiseError
<1>3. /\ doc \in Seq(Byte) /\ Size = 0 /\ Position \in Nat /\ Len(doc) \in Nat /\ DOMAIN doc = 1 .. Len(doc)
      /\ Count \in Nat /\ (Position <= Size => Consumed = SubSeq(doc, 1, Count))
  BY <1>1, <1>2, CountFacts DEF AtEof
<1>4. CASE Unbegun
  <2>1. Len(doc) = 0
    BY <1>3, <1>4 DEF Unbegun, Count
  <2>2. doc = <<>>
    BY <1>3, <2>1
  <2> QED BY <1>2, <2>2, NothingIsNone, Refused DEF NoNumeral
<1>5. CASE InNumeral
  <2>1. /\ pc \in NumberLabels \cup TextLabels /\ Position <= Size
        /\ LastRead = Consumed /\ Shaped(pc, LastRead)
    BY <1>1, <1>5, ReadingFacts
  <2>2. Count = Len(doc)
    <3>1. Size = 0 /\ Position = 0 /\ Len(doc) \in Nat
      BY <1>3, <2>1
    <3> QED BY <3>1 DEF Count
  <2>3. LastRead = doc
    <3>1. SubSeq(doc, 1, Len(doc)) = doc
      BY <1>3
    <3> QED BY <1>3, <2>1, <2>2, <3>1
  <2>4. pc \notin CompleteLabels
    BY <1>2, Needed
  <2>5. ~IsNumeralText(doc)
    BY <2>1, <2>3, <2>4, Unfinished
  <2>6. doc # <<>> => doc[Len(doc)] # 32
    <3>1. ASSUME doc # <<>> PROVE Len(doc) \in DOMAIN doc /\ Len(doc) <= Count
      BY <1>3, <2>2, <3>1
    <3>2. ~Spoilt
      BY <1>5 DEF InNumeral
    <3>3. 32 \notin NumeralBytes
      BY Separators DEF Space
    <3> QED BY <3>1, <3>2, <3>3 DEF Spoilt
  <2>7. Stripped(doc) = doc
    BY <1>3, <2>6, StrippedIs
  <2> QED BY <1>2, <2>5, <2>7, Refused DEF NoNumeral
<1>6. ~Bracket /\ ~BehindNumeral /\ ~InSpace
  BY <1>1, <1>2, Needed DEF Bracket, BehindNumeral, InSpace
<1> QED BY <1>4, <1>5, <1>6 DEF Fits

\* The value is begun, or there is white space in front of it.
LEMMA StartFits ==
  ASSUME Calling, Fits, Start, At("START")
  PROVE  RInv'
<1>1. /\ TInv /\ IInv /\ Top = pc /\ Position = index /\ pc = "START" /\ "START" \in Labels \ {"ERROR"}
  BY CallFacts DEF At
<1>2. Running
  BY <1>1, AtFacts
<1>3. Count = 0
  BY <1>1, Needed DEF Fits, Unbegun, Bracket, InNumeral, BehindNumeral, InSpace
<1>4. PICK ch \in CurrCh : IF ch \in Space THEN Read("start.ws") ELSE Recurse("VALUE", "start.ret")
  BY DEF Start
<1>5. CASE ch \in Space
  <2>1. Advance("start.ws") /\ ch # EOF /\ ch \notin NumeralBytes
    BY <1>4, <1>5, Separators DEF Read
  <2>2. "start.ws" \in Labels \ {"ERROR"}
    BY ContainersUnwatched
  <2>3. ~Ended' /\ Top' = "start.ws" /\ Lost'
    BY <1>2, <1>3, <2>1, <2>2, Took
  <2> QED BY <2>3, GoesOn
<1>6. CASE Recurse("VALUE", "start.ret")
  <2>1. CASE Fail("MEMORY")
    BY <2>1, Refused
  <2>2. CASE pc' = "VALUE" /\ stack_current' = stack_current + 1 /\ UNCHANGED <<inputVars, index>>
    <3>1. Top' = "VALUE" /\ ~Ended' /\ Position' = Position /\ Size' = Size /\ doc' = doc
      BY <1>1, <2>2, CallFacts DEF Top, Ended, Position, Size, inputVars
    <3>2. stack_current = 0
      <4>1. stack_current \in Nat /\ (stack_current > 0 => Top \notin Doc)
        BY <1>1, StackFacts DEF IInv, Frames
      <4> QED BY <1>1, <4>1 DEF Doc
    <3>3. stack_current' <= 1
      BY <2>2, <3>2
    <3>4. Count' = 0
      BY <1>3, <3>1 DEF Count
    <3>5. Fits'
      BY <3>1, <3>3, <3>4 DEF Fits, Unbegun
    <3> QED BY <3>1, <3>5, GoesOn
  <2> QED BY <1>6, <2>1, <2>2 DEF Recurse, RaiseError
<1> QED BY <1>4, <1>5, <1>6

\* A bracket that was answered is taken: it is none of a numeral.
LEMMA EmittedFits ==
  ASSUME Calling, Fits, ArrayEmitted \/ ObjectEmitted
  PROVE  RInv'
<1>1. PICK label \in {"arr.emit", "obj.emit"}, l \in {"arr.open", "obj.open"} : At(label) /\ Read(l)
  BY DEF ArrayEmitted, ObjectEmitted
<1>2. label \in Labels \ {"ERROR"} /\ l \in Labels \ {"ERROR"}
  BY ContainersUnwatched
<1>3. TInv /\ IInv /\ ChunkIsTail /\ Top = pc /\ Position = index
  BY CallFacts
<1>4. Running /\ pc = label
  BY <1>1, <1>2, <1>3, AtFacts
<1>5. Count = 0 /\ index < Size /\ input[index + 1] \notin NumeralBytes
  <2>1. Top \notin {"START", "VALUE", "start.ret", "start.trail"} \cup NumberLabels \cup TextLabels
    BY <1>3, <1>4 DEF NumberLabels, TextLabels
  <2> QED BY <1>3, <2>1 DEF Fits, Unbegun, Bracket, InNumeral, BehindNumeral, InSpace
<1>6. ~AtEof
  BY <1>3, <1>5, CountFacts
<1> DEFINE ch == input[index + 1]
<1>7. ch \in CurrCh
  BY <1>5, <1>6 DEF CurrCh
<1>8. ch # EOF
  <2>1. input[Position + 1] = doc[Count + 1] /\ doc[Count + 1] \in Byte
    BY <1>3, <1>5, CountFacts
  <2>2. EOF \notin Byte
    BY DEF Byte, EOF
  <2> QED BY <1>3, <2>1, <2>2
<1>9. ch \notin NumeralBytes /\ Advance(l)
  BY <1>1, <1>5 DEF Read
<1> HIDE DEF ch
<1>10. ~Ended' /\ Top' = l /\ Lost'
  BY <1>2, <1>4, <1>5, <1>7, <1>8, <1>9, Took
<1> QED BY <1>10, GoesOn

\* What is behind the value.
LEMMA TrailFits ==
  ASSUME Calling, Fits, Trail, pc \in {"start.ret", "start.trail"}
  PROVE  RInv'
<1>1. /\ TInv /\ IInv /\ ChunkIsTail /\ Top = pc /\ Position = index
      /\ {"start.ret", "start.trail"} \subseteq Labels \ {"ERROR"}
  BY CallFacts, ContainersUnwatched
<1>2. PICK ch \in CurrCh :
        \/ ch = EOF /\ Done
        \/ ch \in Space /\ Read("start.trail")
        \/ ch \notin Space \cup {EOF} /\ RaiseError("UNEXPECTED_CHAR")
  BY DEF Trail
<1>3. Running
  BY <1>1, AtFacts DEF Trail
<1>4. stack_current <= 1 /\ (BehindNumeral \/ InSpace)
  <2>1. Top \notin {"START", "VALUE", "arr.emit", "obj.emit"} \cup NumberLabels \cup TextLabels
    BY <1>1 DEF NumberLabels, TextLabels
  <2> QED BY <2>1 DEF Fits, Unbegun, Bracket, InNumeral
<1>5. CASE ch = EOF /\ Done
  <2>1. AtEof
    BY <1>1, <1>3, <1>5, CurrChFacts DEF Running
  <2> QED BY <1>5, <2>1, Concluded
<1>6. CASE ch \in Space /\ Read("start.trail")
  <2>1. Advance("start.trail") /\ ch # EOF /\ ch \notin NumeralBytes
    BY <1>6, Separators DEF Read
  <2>2. ~Ended' /\ Top' = "start.trail" /\ Spoilt' /\ stack_current' = stack_current
    BY <1>1, <1>3, <2>1, Took
  <2>3. Fits'
    BY <1>4, <2>2 DEF Fits, InSpace
  <2> QED BY <2>2, <2>3, GoesOn
<1>7. CASE ch \notin Space \cup {EOF} /\ RaiseError("UNEXPECTED_CHAR")
  <2>1. ~AtEof /\ index < Size /\ ch = input[index + 1]
    BY <1>1, <1>3, <1>7, CurrentByte
  <2>2. NoNumeral
    <3>1. CASE BehindNumeral
      BY <1>1, <1>7, <2>1, <3>1 DEF BehindNumeral
    <3>2. CASE InSpace
      BY <1>1, <2>1, <3>2, LostIsNone DEF InSpace
    <3> QED BY <1>4, <3>1, <3>2
  <2> QED BY <1>7, <2>2, Refused DEF RaiseError
<1> QED BY <1>2, <1>5, <1>6, <1>7

-----------------------------------------------------------------------------
(* The steps of a numeral. *)

\* The bytes a numeral goes on with, by label.
LEMMA AcceptsAt ==
  /\ \A l \in NegLabels \cup DotLabels \cup SignLabels \cup ExpDigitLabels : Accepts(l) = Digit
  /\ \A l \in ZeroLabels : Accepts(l) = {Ascii.dot} \cup ExpMark
  /\ \A l \in IntLabels : Accepts(l) = Digit \cup {Ascii.dot} \cup ExpMark
  /\ \A l \in FracLabels : Accepts(l) = Digit \cup ExpMark
  /\ \A l \in ExpLabels : Accepts(l) = Digit \cup {Ascii.minus, Ascii.plus}
BY LabelParts, Separators DEF Accepts

\* A label of a numeral is reached with a byte, a sign only behind the mark of the exponent.
Reached(l, ch, m) ==
  m \in NumberLabels \cup TextLabels
    /\ (m \in SignLabels => l \in ExpLabels /\ ch \in {Ascii.minus, Ascii.plus})

\* What a step of a numeral does with a byte: it takes it if the label accepts it, and fails or
\* answers if not.
NumberMove(l, ch) ==
  \/ Fail("MEMORY") \/ Fail("RANGE")
  \/ ch \in Accepts(l) /\ \E m : Reached(l, ch, m) /\ Advance(m)
  \/ ch \notin Accepts(l) /\ (l \in CompleteLabels => ch \in Word) /\ \E e : Fail(e)
  \/ /\ ch \notin Accepts(l) /\ l \in CompleteLabels
     /\ \E t \in {"NUMBER", "INTEGER"} : \E v : Pop(t, v)

\* A byte is taken.
LEMMA TakesByte ==
  ASSUME NEW l, NEW ch \in Accepts(l), NEW m \in (NumberLabels \cup TextLabels) \ SignLabels, Advance(m)
  PROVE  NumberMove(l, ch)
BY DEF NumberMove, Reached

\* A byte is refused where the numeral is not complete.
LEMMA RefusesByte ==
  ASSUME NEW l \in (NumberLabels \cup TextLabels) \ CompleteLabels, NEW ch, ch \notin Accepts(l), NEW e, RaiseError(e)
  PROVE  NumberMove(l, ch)
BY DEF NumberMove, RaiseError

\* No other label is one of a sign.
LEMMA NoSigns ==
  {"num.neg", "num.int", "num.big", "num.zero", "num.dot", "num.dec", "num.decmore", "num.exp",
   "num.expd", "num.expinf", "txt.neg", "txt.zero", "txt.int", "txt.dot", "txt.frac", "txt.exp",
   "txt.expd"} \subseteq (NumberLabels \cup TextLabels) \ SignLabels
BY DEF NumberLabels, TextLabels, SignLabels

\* FinishNumber(), FinishText().
LEMMA FinishMove ==
  ASSUME NEW l \in CompleteLabels, NEW ch, ch \notin Accepts(l),
         (\E c : FinishNumber(c, ch)) \/ FinishText(ch)
  PROVE  NumberMove(l, ch)
<1>1. ASSUME NEW c, FinishNumber(c, ch) PROVE NumberMove(l, ch)
  <2>1. \/ ch \in Word /\ Fail("UNEXPECTED_CHAR")
        \/ \E t \in {"NUMBER", "INTEGER"} : \E v : Pop(t, v)
    BY <1>1 DEF FinishNumber, RaiseError, Return
  <2> QED BY <2>1 DEF NumberMove
<1>2. ASSUME FinishText(ch) PROVE NumberMove(l, ch)
  <2>1. \/ ch \in Word /\ Fail("UNEXPECTED_CHAR")
        \/ Fail("MEMORY")
        \/ \E t \in {"NUMBER", "INTEGER"} : \E v : Pop(t, v)
    BY <1>2 DEF FinishText, StoreByte, Store, RaiseError
  <2> QED BY <2>1 DEF NumberMove
<1> QED BY <1>1, <1>2

\* AfterDecimals().
LEMMA AfterDecimalsMove ==
  ASSUME NEW l \in {"num.zero", "num.int", "num.big", "num.dec", "num.decmore"}, NEW c, NEW ch,
         AfterDecimals(c, ch), ch \in Accepts(l) => ch \in ExpMark
  PROVE  NumberMove(l, ch)
<1>1. ExpMark \subseteq Accepts(l) /\ l \in CompleteLabels
  BY AcceptsAt, PartLabels DEF CompleteLabels
<1>2. CASE ch \in ExpMark
  <2>1. Advance("num.exp")
    BY <1>2 DEF AfterDecimals, Scan
  <2> QED BY <1>1, <1>2, <2>1, TakesByte, NoSigns
<1>3. CASE ch \notin ExpMark
  <2>1. \E d : FinishNumber(d, ch)
    BY <1>3 DEF AfterDecimals
  <2> QED BY <1>1, <1>3, <2>1, FinishMove
<1> QED BY <1>2, <1>3

\* AfterInteger().
LEMMA AfterIntegerMove ==
  ASSUME NEW l \in {"num.zero", "num.int", "num.big"}, NEW c, NEW ch,
         AfterInteger(c, ch), ch \in Digit => l = "num.zero"
  PROVE  NumberMove(l, ch)
<1>1. CASE ch = Ascii.dot
  <2>1. Advance("num.dot") /\ ch \in Accepts(l)
    BY <1>1, AcceptsAt, PartLabels DEF AfterInteger, Scan
  <2> QED BY <2>1, TakesByte, NoSigns
<1>2. CASE ch # Ascii.dot
  <2>1. AfterDecimals(c, ch)
    BY <1>2 DEF AfterInteger
  <2>2. ch \in Accepts(l) => ch \in ExpMark
    BY <1>2, AcceptsAt, PartLabels
  <2> QED BY <2>1, <2>2, AfterDecimalsMove
<1> QED BY <1>1, <1>2

\* IntegerDigit() and DroppedDigit(); DecimalDigit().
LEMMA DigitMove ==
  ASSUME NEW l, NEW ch \in Accepts(l), NEW c, NEW d,
         IntegerDigit(c, d) \/ DroppedDigit(c) \/ DecimalDigit(c, d)
  PROVE  NumberMove(l, ch)
<1>1. \/ Fail("RANGE") \/ Advance("num.int") \/ Advance("num.big") \/ Advance("num.dec") \/ Advance("num.decmore")
  <2>1. ASSUME NEW b, DroppedDigit(b) PROVE Fail("RANGE") \/ Advance("num.big")
    BY <2>1 DEF DroppedDigit, RaiseError, Scan
  <2>2. IntegerDigit(c, d) => Fail("RANGE") \/ Advance("num.big") \/ Advance("num.int")
    BY <2>1 DEF IntegerDigit, Scan
  <2>3. DecimalDigit(c, d) => Advance("num.dec") \/ Advance("num.decmore")
    BY DEF DecimalDigit, Scan
  <2> QED BY <2>1, <2>2, <2>3
<1>2. CASE Fail("RANGE")
  BY <1>2 DEF NumberMove
<1> QED BY <1>1, <1>2, TakesByte, NoSigns

\* ExponentDigit().
LEMMA ExponentDigitMove ==
  ASSUME NEW l \in {"num.exp", "num.expneg", "num.exppos", "num.expd"}, NEW c, NEW ch,
         ExponentDigit(c, ch), ch \in Accepts(l) => ch \in Digit, l = "num.expd" => ch \in Digit
  PROVE  NumberMove(l, ch)
<1>1. Digit \subseteq Accepts(l)
  BY AcceptsAt, PartLabels
<1>2. CASE ch \notin Digit
  <2>1. RaiseError("EXPECTED_DIGIT")
    BY <1>2 DEF ExponentDigit
  <2>2. l \in (NumberLabels \cup TextLabels) \ CompleteLabels
    BY <1>2, PartLabels, LabelParts DEF CompleteLabels
  <2> QED BY <1>2, <2>1, <2>2, RefusesByte
<1>3. CASE ch \in Digit
  <2>1. Advance("num.expinf") \/ Advance("num.expd")
    BY <1>3 DEF ExponentDigit, Scan
  <2> QED BY <1>1, <1>3, <2>1, TakesByte, NoSigns
<1> QED BY <1>2, <1>3

\* The first digit of a numeral.
LEMMA FirstDigitMove ==
  ASSUME NEW ch, NEW c, FirstDigit(c, ch)
  PROVE  NumberMove("num.neg", ch)
<1>1. Accepts("num.neg") = Digit /\ Ascii.zero \in Digit
      /\ "num.neg" \in (NumberLabels \cup TextLabels) \ CompleteLabels
  BY AcceptsAt, PartLabels, LabelParts DEF CompleteLabels, Ascii, Digit
<1>2. CASE ch = Ascii.zero
  <2>1. Advance("num.zero")
    BY <1>2 DEF FirstDigit, Scan
  <2> QED BY <1>1, <1>2, <2>1, TakesByte, NoSigns
<1>3. CASE ch # Ascii.zero /\ ch \in Digit
  <2>1. IntegerDigit(c, ch - Ascii.zero)
    BY <1>3 DEF FirstDigit
  <2> QED BY <1>1, <1>3, <2>1, DigitMove
<1>4. CASE ch \notin Digit
  <2>1. RaiseError("EXPECTED_DIGIT")
    BY <1>1, <1>4 DEF FirstDigit
  <2> QED BY <1>1, <1>4, <2>1, RefusesByte
<1> QED BY <1>2, <1>3, <1>4

\* The steps of the number scanner.
LEMMA ComponentsMove ==
  ASSUME IntegerPart \/ DecimalPart \/ ExponentPart
  PROVE  \E ch \in CurrCh : NumberMove(pc, ch)
<1>1. CASE IntegerPart
  <2>1. CASE At("num.neg") /\ \E ch \in CurrCh : FirstDigit(Held, ch)
    BY <2>1, FirstDigitMove DEF At
  <2>2. CASE At("num.int") /\ \E ch \in CurrCh :
               IF ch \in Digit THEN IntegerDigit(Held, ch - Ascii.zero) ELSE AfterInteger(Held, ch)
    <3>1. Digit \subseteq Accepts("num.int")
      BY AcceptsAt, PartLabels
    <3> QED BY <2>2, <3>1, DigitMove, AfterIntegerMove DEF At
  <2>3. CASE At("num.big") /\ \E ch \in CurrCh :
               IF ch \in Digit THEN DroppedDigit(Held) ELSE AfterInteger(Held, ch)
    <3>1. Digit \subseteq Accepts("num.big")
      BY AcceptsAt, PartLabels
    <3> QED BY <2>3, <3>1, DigitMove, AfterIntegerMove DEF At
  <2>4. CASE At("num.zero") /\ \E ch \in CurrCh : AfterInteger(Held, ch)
    BY <2>4, AfterIntegerMove DEF At
  <2> QED BY <1>1, <2>1, <2>2, <2>3, <2>4 DEF IntegerPart
<1>2. CASE DecimalPart
  <2>1. CASE At("num.dot") /\ \E ch \in CurrCh :
               IF ch \in Digit
               THEN DecimalDigit([Held EXCEPT !.isinteger = FALSE], ch - Ascii.zero)
               ELSE RaiseError("EXPECTED_DIGIT")
    <3>1. Accepts("num.dot") = Digit /\ "num.dot" \in (NumberLabels \cup TextLabels) \ CompleteLabels
      BY AcceptsAt, PartLabels, LabelParts DEF CompleteLabels
    <3> QED BY <2>1, <3>1, DigitMove, RefusesByte DEF At
  <2>2. CASE At("num.dec") /\ \E ch \in CurrCh :
               IF ch \in Digit THEN DecimalDigit(Held, ch - Ascii.zero) ELSE AfterDecimals(Held, ch)
    <3>1. Accepts("num.dec") = Digit \cup ExpMark
      BY AcceptsAt, PartLabels
    <3> QED BY <2>2, <3>1, DigitMove, AfterDecimalsMove DEF At
  <2>3. CASE At("num.decmore") /\ \E ch \in CurrCh :
               IF ch \in Digit THEN Read("num.decmore") ELSE AfterDecimals(Held, ch)
    <3>1. Accepts("num.decmore") = Digit \cup ExpMark
      BY AcceptsAt, PartLabels
    <3> QED BY <2>3, <3>1, TakesByte, NoSigns, AfterDecimalsMove DEF At, Read
  <2> QED BY <1>2, <2>1, <2>2, <2>3 DEF DecimalPart
<1>3. CASE ExponentPart
  <2>1. ASSUME NEW l \in {"num.exp", "num.expneg", "num.exppos", "num.expd", "num.expinf"}
        PROVE  /\ l = "num.exp" => l \in ExpLabels /\ Accepts(l) = Digit \cup {Ascii.minus, Ascii.plus}
               /\ l # "num.exp" => Accepts(l) = Digit
               /\ l \in {"num.expd", "num.expinf"} => l \in CompleteLabels
    BY AcceptsAt, PartLabels DEF CompleteLabels
  <2>2. CASE At("num.exp")
    <3> DEFINE c == [Held EXCEPT !.isinteger = FALSE]
    <3>1. pc = "num.exp"
      BY <2>2 DEF At
    <3>2. PICK ch \in CurrCh :
            \/ ch \in {Ascii.minus, Ascii.plus} /\ (Advance("num.expneg") \/ Advance("num.exppos"))
            \/ ch \notin {Ascii.minus, Ascii.plus} /\ ExponentDigit(c, ch)
      <4>1. \E ch \in CurrCh :
              CASE ch = Ascii.minus -> Scan([c EXCEPT !.exponent_positive = FALSE], "num.expneg")
                [] ch = Ascii.plus  -> Scan(c, "num.exppos")
                [] OTHER            -> ExponentDigit(c, ch)
        BY <1>3, <2>2, <3>1 DEF ExponentPart, At
      <4>2. Ascii.minus # Ascii.plus
        BY DEF Ascii
      <4> QED BY <4>1, <4>2 DEF Scan
    <3>3. CASE ch \in {Ascii.minus, Ascii.plus} /\ (Advance("num.expneg") \/ Advance("num.exppos"))
      <4>1. Reached("num.exp", ch, "num.expneg") /\ Reached("num.exp", ch, "num.exppos")
        BY <2>1, <3>3, NumberLabelsAre DEF Reached
      <4> QED BY <2>1, <3>1, <3>3, <4>1 DEF NumberMove
    <3>4. CASE ch \notin {Ascii.minus, Ascii.plus} /\ ExponentDigit(c, ch)
      BY <2>1, <3>1, <3>4, ExponentDigitMove
    <3> QED BY <3>2, <3>3, <3>4
  <2>3. CASE \/ (At("num.expneg") \/ At("num.exppos")) /\ \E ch \in CurrCh : ExponentDigit(Held, ch)
             \/ At("num.expd") /\ \E ch \in CurrCh : ch \in Digit /\ ExponentDigit(Held, ch)
    BY <2>1, <2>3, ExponentDigitMove DEF At
  <2>4. CASE At("num.expinf") /\ \E ch \in CurrCh : ch \in Digit /\ Read("num.expinf")
    BY <2>1, <2>4, TakesByte, NoSigns DEF At, Read
  <2>5. CASE (At("num.expd") \/ At("num.expinf"))
               /\ \E ch \in CurrCh : ch \notin Digit /\ FinishNumber(Held, ch)
    BY <2>1, <2>5, FinishMove DEF At
  <2> QED BY <1>3, <2>2, <2>3, <2>4, <2>5 DEF ExponentPart
<1> QED BY <1>1, <1>2, <1>3

\* A byte is put into the buffer.
LEMMA PutMove ==
  ASSUME NEW l, NEW ch \in Accepts(l), NEW m, Reached(l, ch, m), PutC(ch, m)
  PROVE  NumberMove(l, ch)
BY DEF PutC, StoreByte, Store, NumberMove

\* A label that is none of a sign is reached with every byte.
LEMMA ReachedTexts ==
  /\ \A l, ch : \A m \in {"txt.neg", "txt.zero", "txt.int", "txt.dot", "txt.frac", "txt.exp", "txt.expd"} :
       Reached(l, ch, m)
  /\ \A ch \in {Ascii.minus, Ascii.plus} : Reached("txt.exp", ch, "txt.expsign")
BY NoSigns, PartLabels, TextLabelsAre DEF Reached

\* The steps of the scanner that keeps the text.
LEMMA TextMove ==
  ASSUME TextInteger \/ TextDecimals \/ TextExponent
  PROVE  \E ch \in CurrCh : NumberMove(pc, ch)
<1> USE ReachedTexts
<1>1. /\ Accepts("txt.neg") = Digit /\ Accepts("txt.zero") = {Ascii.dot} \cup ExpMark
      /\ Accepts("txt.int") = Digit \cup {Ascii.dot} \cup ExpMark /\ Accepts("txt.dot") = Digit
      /\ Accepts("txt.frac") = Digit \cup ExpMark
      /\ Accepts("txt.exp") = Digit \cup {Ascii.minus, Ascii.plus}
      /\ Accepts("txt.expsign") = Digit /\ Accepts("txt.expd") = Digit
  BY AcceptsAt, PartLabels
<1>2. /\ {"txt.neg", "txt.dot", "txt.exp", "txt.expsign"} \subseteq (NumberLabels \cup TextLabels) \ CompleteLabels
      /\ {"txt.zero", "txt.int", "txt.frac", "txt.expd"} \subseteq CompleteLabels
  BY PartLabels, LabelParts DEF CompleteLabels
<1>3. CASE TextInteger
  <2>1. CASE At("txt.neg") /\ \E ch \in CurrCh : FirstTextDigit(ch)
    <3>1. PICK ch \in CurrCh :
            \/ ch \in Digit /\ (PutC(ch, "txt.zero") \/ PutC(ch, "txt.int"))
            \/ ch \notin Digit /\ RaiseError("EXPECTED_DIGIT")
      BY <2>1 DEF FirstTextDigit, TextDigit
    <3> QED BY <1>1, <1>2, <2>1, <3>1, PutMove, RefusesByte DEF At
  <2>2. CASE At("txt.int") \/ At("txt.zero")
    <3>1. PICK l \in {"txt.int", "txt.zero"}, ch \in CurrCh :
            /\ pc = l
            /\ \/ l = "txt.int" /\ ch \in Digit /\ PutC(ch, "txt.int")
               \/ (ch \in Digit => l = "txt.zero") /\ TextAfterInteger(ch)
      BY <1>3, <2>2 DEF TextInteger, At
    <3>2. CASE l = "txt.int" /\ ch \in Digit /\ PutC(ch, "txt.int")
      BY <1>1, <3>1, <3>2, PutMove
    <3>3. CASE (ch \in Digit => l = "txt.zero") /\ TextAfterInteger(ch)
      <4>1. CASE ch = Ascii.dot /\ PutC(ch, "txt.dot")
        BY <1>1, <3>1, <4>1, PutMove
      <4>2. CASE ch \in ExpMark /\ PutC(ch, "txt.exp")
        BY <1>1, <3>1, <4>2, PutMove
      <4>3. CASE ch \notin {Ascii.dot} \cup ExpMark /\ FinishText(ch)
        <5>1. ch \notin Accepts(l)
          BY <1>1, <3>3, <4>3
        <5> QED BY <1>2, <3>1, <4>3, <5>1, FinishMove
      <4> QED BY <3>3, <4>1, <4>2, <4>3 DEF TextAfterInteger, TextAfterDecimals
    <3> QED BY <3>1, <3>2, <3>3
  <2> QED BY <1>3, <2>1, <2>2 DEF TextInteger
<1>4. CASE TextDecimals
  <2>1. CASE At("txt.dot") /\ \E ch \in CurrCh : TextDigit(ch, "txt.frac")
    BY <1>1, <1>2, <2>1, PutMove, RefusesByte DEF At, TextDigit
  <2>2. CASE At("txt.frac") /\ \E ch \in CurrCh :
               IF ch \in Digit THEN PutC(ch, "txt.frac") ELSE TextAfterDecimals(ch)
    <3>1. PICK ch \in CurrCh :
            \/ ch \in Digit /\ PutC(ch, "txt.frac")
            \/ ch \in ExpMark /\ PutC(ch, "txt.exp")
            \/ ch \notin Digit \cup ExpMark /\ FinishText(ch)
      BY <2>2 DEF TextAfterDecimals
    <3> QED BY <1>1, <1>2, <2>2, <3>1, PutMove, FinishMove DEF At
  <2> QED BY <1>4, <2>1, <2>2 DEF TextDecimals
<1>5. CASE TextExponent
  <2>1. CASE At("txt.exp") /\ \E ch \in CurrCh :
               IF ch \in {Ascii.minus, Ascii.plus} THEN PutC(ch, "txt.expsign") ELSE TextDigit(ch, "txt.expd")
    <3>1. PICK ch \in CurrCh :
            \/ ch \in {Ascii.minus, Ascii.plus} /\ PutC(ch, "txt.expsign")
            \/ ch \in Digit /\ PutC(ch, "txt.expd")
            \/ ch \notin Digit \cup {Ascii.minus, Ascii.plus} /\ RaiseError("EXPECTED_DIGIT")
      BY <2>1 DEF TextDigit
    <3> QED BY <1>1, <1>2, <2>1, <3>1, PutMove, RefusesByte DEF At
  <2>2. CASE At("txt.expsign") /\ \E ch \in CurrCh : TextDigit(ch, "txt.expd")
    BY <1>1, <1>2, <2>2, PutMove, RefusesByte DEF At, TextDigit
  <2>3. CASE At("txt.expd") /\ \E ch \in CurrCh :
               IF ch \in Digit THEN PutC(ch, "txt.expd") ELSE FinishText(ch)
    BY <1>1, <1>2, <2>3, PutMove, FinishMove DEF At
  <2> QED BY <1>5, <2>1, <2>2, <2>3 DEF TextExponent
<1> QED BY <1>3, <1>4, <1>5

\* The first byte of a numeral is taken.
LEMMA BeginMove ==
  ASSUME NEW ch \in Digit \cup {Ascii.minus}, BeginNumber(ch)
  PROVE  \/ Fail("MEMORY") \/ Fail("RANGE")
         \/ \E m \in (NumberLabels \cup TextLabels) \ SignLabels : Advance(m)
<1>1. CASE "NUMBER_AS_STRING" \in flags
  <2>1. Fail("MEMORY") \/ Advance("txt.neg") \/ Advance("txt.zero") \/ Advance("txt.int")
    BY <1>1 DEF BeginNumber, BeginText, StoreByte, Store
  <2> QED BY <2>1, NoSigns
<1>2. CASE "NUMBER_AS_STRING" \notin flags
  <2>1. BeginComponents(ch)
    BY <1>2 DEF BeginNumber
  <2>2. CASE ch = Ascii.minus
    <3>1. Advance("num.neg")
      BY <2>1, <2>2 DEF BeginComponents, Scan
    <3> QED BY <3>1, NoSigns
  <2>3. CASE ch # Ascii.minus
    <3>1. FirstDigit(NoComponents, ch) /\ ch \in Digit
      BY <2>1, <2>3 DEF BeginComponents
    <3>2. Advance("num.zero") \/ \E d : IntegerDigit(NoComponents, d)
      BY <3>1 DEF FirstDigit, Scan
    <3>3. \A d : IntegerDigit(NoComponents, d) => Fail("RANGE") \/ Advance("num.big") \/ Advance("num.int")
      BY DEF IntegerDigit, DroppedDigit, RaiseError, Scan
    <3> QED BY <3>2, <3>3, NoSigns
  <2> QED BY <2>2, <2>3
<1> QED BY <1>1, <1>2

\* A numeral goes on, is refused or is answered.
LEMMA NumberFits ==
  ASSUME Calling, Fits, NumberNext, At(pc), pc \in NumberLabels \cup TextLabels
  PROVE  RInv'
<1>1. /\ TInv /\ NInv /\ IInv /\ ChunkIsTail /\ Top = pc /\ Position = index /\ pc \in Labels \ {"ERROR"}
  BY CallFacts
<1>2. Running
  BY <1>1, AtFacts
<1>3. stack_current <= 1 /\ InNumeral
  <2>1. Top \notin {"START", "VALUE", "arr.emit", "obj.emit", "start.ret", "start.trail"}
    BY <1>1 DEF NumberLabels, TextLabels
  <2> QED BY <2>1 DEF Fits, Unbegun, Bracket, BehindNumeral, InSpace
<1>4. /\ LastRead = Consumed /\ LastRead \in Seq(Byte) /\ Shaped(pc, LastRead) /\ Position <= Size
      /\ pc \in SignLabels => SignOf(LastRead)
  BY <1>1, <1>3, ReadingFacts
<1>5. PICK ch \in CurrCh : NumberMove(pc, ch)
  BY ComponentsMove, TextMove DEF NumberNext
<1>6. ASSUME ch # EOF, ch \notin Accepts(pc), ch = 32 => pc \notin CompleteLabels
      PROVE  NoNumeral
  <2>1. ~AtEof /\ index < Size /\ ch = input[index + 1] /\ ch \in Byte
    BY <1>1, <1>2, <1>6, CurrentByte
  <2>2. SubSeq(doc, 1, Count + 1) = Append(LastRead, ch)
    BY <1>1, <1>4, <2>1, CountFacts
  <2>3. ~IsViable(Append(LastRead, ch))
    BY <1>4, <1>6, <2>1, NotViable
  <2> QED BY <2>1, <2>2, <2>3 DEF NoNumeral
<1>7. CASE Fail("MEMORY") \/ Fail("RANGE")
  BY <1>7, Refused
<1>8. CASE ch \in Accepts(pc) /\ \E m : Reached(pc, ch, m) /\ Advance(m)
  <2>1. PICK m : Reached(pc, ch, m) /\ Advance(m)
    BY <1>8
  <2>2. ch \in NumeralBytes /\ ch # EOF
    BY <1>8, Separators DEF Accepts
  <2>3. m \in NumberLabels \cup TextLabels /\ m \in Labels \ {"ERROR"}
    BY <2>1, Needed DEF Reached
  <2>4. ~Ended' /\ Top' = m /\ stack_current' = stack_current /\ ~Spoilt'
    BY <1>2, <1>3, <2>1, <2>2, <2>3, Took DEF InNumeral
  <2>5. ASSUME m \in SignLabels PROVE SignOf(LastRead')
    <3>1. pc \in ExpLabels /\ ch \in {Ascii.minus, Ascii.plus}
      BY <2>1, <2>5 DEF Reached
    <3>2. LastRead' = Append(LastRead, ch)
      BY <1>1, <1>2, <2>1, <2>2, <2>3, CallFacts, Taking
    <3>3. MarkOf(LastRead) = Len(LastRead)
      BY <1>4, <3>1, CutsAt
    <3>4. ch \in Byte
      BY <2>2, Separators
    <3>5. SignOf(Append(LastRead, ch)) <=> IF MarkOf(LastRead) = Len(LastRead)
            THEN ch \in {Ascii.minus, Ascii.plus} ELSE SignOf(LastRead)
      BY <1>4, <3>4, CutsGrow
    <3> QED BY <3>1, <3>2, <3>3, <3>5
  <2>6. InNumeral'
    BY <2>3, <2>4, <2>5 DEF InNumeral
  <2>7. Fits'
    BY <1>3, <2>4, <2>6 DEF Fits
  <2> QED BY <2>3, <2>4, <2>7, GoesOn
<1>9. CASE ch \notin Accepts(pc) /\ (pc \in CompleteLabels => ch \in Word) /\ \E e : Fail(e)
  <2>1. ch # EOF
    <3>1. CASE pc \in CompleteLabels
      BY <1>9, <3>1 DEF Word, Digit, EOF
    <3>2. CASE pc \notin CompleteLabels
      <4>1. pc \in NeedLabels /\ pc \notin MayLabels \cup JumpLabels
        <5>1. pc \in NeedLabels
          BY <3>2, Needed
        <5>2. (NeedLabels \cap (NumberLabels \cup TextLabels)) \cap (MayLabels \cup JumpLabels) = {}
          BY DEF NeedLabels, MayLabels, JumpLabels, NumberLabels, TextLabels, LiteralLabels, HexLabels,
                 Utf8Labels, LiteralEnds
        <5> QED BY <5>1, <5>2
      <4>2. Position < Size
        BY <1>1, <4>1 DEF At
      <4>3. ~AtEof
        BY <1>1, <4>2, CountFacts
      <4> QED BY <1>1, <1>2, <4>3, CurrChFacts DEF Running
    <3> QED BY <3>1, <3>2
  <2>2. 32 \notin Word
    BY DEF Word, Digit
  <2>3. NoNumeral
    BY <1>6, <1>9, <2>1, <2>2
  <2> QED BY <1>9, <2>3, Refused
<1>10. CASE /\ ch \notin Accepts(pc) /\ pc \in CompleteLabels
            /\ \E t \in {"NUMBER", "INTEGER"} : \E v : Pop(t, v)
  <2>1. PICK t \in {"NUMBER", "INTEGER"} : \E v : Pop(t, v)
    BY <1>10
  <2>2. stack_current = 1 /\ stack[0] = "start.ret"
    <3>1. stack_current \in Nat /\ Framed(Top, stack, stack_current)
      BY <1>1, StackFacts, ExpectedReads
    <3>2. pc \notin Doc \cup {"ERROR"}
      BY Needed DEF Doc, NumberLabels, TextLabels
    <3>3. stack_current # 0 /\ (stack_current > 0 => stack[0] = "start.ret")
      BY <1>1, <3>1, <3>2 DEF Framed
    <3> QED BY <1>3, <3>1, <3>3
  <2>3. Answer(t) /\ stack' = stack /\ stack_current' = stack_current - 1
    BY <2>1, <2>2 DEF Pop
  <2>4. /\ pc' = "idle" /\ tok' = t /\ Position' = Position /\ Size' = Size /\ AtEof' = AtEof
        /\ input' = input /\ Spoilt' = Spoilt /\ NoNumeral' = NoNumeral
    BY <2>3, TakenStays
  <2>5. stack_current' = 0
    BY <2>2, <2>3
  <2>6. Top' = "start.ret"
    BY <2>2, <2>3, <2>4, <2>5 DEF Top
  <2>7. AtEof \/ input[Position + 1] \in Space \/ NoNumeral
    <3>1. CASE ch = EOF
      BY <1>1, <1>2, <3>1, CurrChFacts DEF Running
    <3>2. CASE ch = 32
      <4>1. ch # EOF /\ ch \in Space
        BY <3>2 DEF EOF, Space
      <4> QED BY <1>1, <1>2, <4>1, CurrentByte
    <3>3. CASE ch # EOF /\ ch # 32
      BY <1>6, <1>10, <3>3
    <3> QED BY <3>1, <3>2, <3>3
  <2>8. BehindNumeral'
    BY <1>3, <1>4, <2>4, <2>6, <2>7 DEF BehindNumeral, InNumeral
  <2>9. Fits'
    BY <2>5, <2>8 DEF Fits
  <2>10. ~Ended'
    BY <2>1, <2>4 DEF Ended
  <2> QED BY <2>6, <2>9, <2>10, GoesOn
<1> QED BY <1>5, <1>7, <1>8, <1>9, <1>10 DEF NumberMove

\* The first byte of the value.
LEMMA ValueFits ==
  ASSUME Calling, Fits, Value, At("VALUE")
  PROVE  RInv'
<1>1. /\ TInv /\ NInv /\ IInv /\ ChunkIsTail /\ Top = pc /\ Position = index /\ pc = "VALUE"
      /\ "VALUE" \in Labels \ {"ERROR"} /\ doc' = doc
  BY CallFacts DEF At
<1>2. Running
  BY <1>1, AtFacts
<1>3. Count = 0 /\ stack_current <= 1
  BY <1>1, Needed DEF Fits, Unbegun, Bracket, InNumeral, BehindNumeral, InSpace
<1>4. Position < Size
  BY <1>1 DEF At, MayLabels, JumpLabels, LiteralEnds
<1>5. PICK ch \in CurrCh :
        CASE ch = Ascii.t -> Read("t")
          [] ch = Ascii.f -> Read("f")
          [] ch = Ascii.n -> Read("n")
          [] ch = Ascii.quote -> BeginString
          [] ch \in Digit \cup {Ascii.minus} -> BeginNumber(ch)
          [] ch = Ascii.lbracket -> Emit("BEGIN_ARRAY", "arr.emit")
          [] ch = Ascii.lbrace -> Emit("BEGIN_OBJECT", "obj.emit")
          [] OTHER -> RaiseError("UNEXPECTED_CHAR")
  BY DEF Value
<1>6. ch # EOF /\ ch = input[index + 1] /\ ch \in Byte
  <2>1. ~AtEof
    BY <1>1, <1>4, CountFacts
  <2>2. ch # EOF
    BY <1>1, <1>2, <2>1, CurrChFacts DEF Running
  <2> QED BY <1>1, <1>2, <2>2, CurrentByte
<1>7. {Ascii.t, Ascii.f, Ascii.n, Ascii.quote, Ascii.lbracket, Ascii.lbrace} \cap NumeralBytes = {}
  BY DEF Ascii, NumeralBytes, Digit, ExpMark
<1>8. \/ ch \notin NumeralBytes /\ \E l \in {"t", "f", "n", "str"} : Advance(l)
      \/ ch \in Digit \cup {Ascii.minus} /\ BeginNumber(ch)
      \/ ch \notin NumeralBytes /\ \E t \in Opening, l \in {"arr.emit", "obj.emit"} : Emit(t, l)
      \/ ch \notin Digit \cup {Ascii.minus} /\ Fail("UNEXPECTED_CHAR")
  <2>1. CASE ch \in {Ascii.t, Ascii.f, Ascii.n, Ascii.quote}
    <3>1. Read("t") \/ Read("f") \/ Read("n") \/ BeginString
      BY <1>5, <2>1 DEF Ascii, Digit
    <3> QED BY <1>7, <2>1, <3>1 DEF Read, BeginString
  <2>2. CASE ch \in {Ascii.lbracket, Ascii.lbrace}
    <3>1. Emit("BEGIN_ARRAY", "arr.emit") \/ Emit("BEGIN_OBJECT", "obj.emit")
      BY <1>5, <2>2 DEF Ascii, Digit
    <3> QED BY <1>7, <2>2, <3>1 DEF Opening
  <2>3. CASE ch \in Digit \cup {Ascii.minus}
    <3>1. BeginNumber(ch)
      BY <1>5, <2>3 DEF Ascii, Digit
    <3> QED BY <2>3, <3>1
  <2>4. CASE ch \notin {Ascii.t, Ascii.f, Ascii.n, Ascii.quote, Ascii.lbracket, Ascii.lbrace}
                        \cup (Digit \cup {Ascii.minus})
    <3>1. RaiseError("UNEXPECTED_CHAR")
      BY <1>5, <2>4
    <3> QED BY <2>4, <3>1 DEF RaiseError
  <2> QED BY <2>1, <2>2, <2>3, <2>4
<1>9. CASE ch \notin NumeralBytes /\ \E l \in {"t", "f", "n", "str"} : Advance(l)
  <2>1. PICK l \in {"t", "f", "n", "str"} : Advance(l)
    BY <1>9
  <2>2. l \in Labels \ {"ERROR"}
    BY DEF Labels, NeedLabels, LiteralLabels
  <2>3. ~Ended' /\ Top' = l /\ Lost'
    BY <1>2, <1>3, <1>6, <1>9, <2>1, <2>2, Took
  <2> QED BY <2>2, <2>3, GoesOn
<1>10. CASE ch \in Digit \cup {Ascii.minus} /\ BeginNumber(ch)
  <2>1. \/ Fail("MEMORY") \/ Fail("RANGE")
        \/ \E m \in (NumberLabels \cup TextLabels) \ SignLabels : Advance(m)
    BY <1>10, BeginMove
  <2>2. ASSUME NEW m \in (NumberLabels \cup TextLabels) \ SignLabels, Advance(m)
        PROVE  RInv'
    <3>1. ch \in NumeralBytes /\ m \in Labels \ {"ERROR"}
      BY <1>10, Separators, Needed
    <3>2. ~Spoilt
      <4>1. ASSUME NEW i \in DOMAIN doc, i <= 0 PROVE FALSE
        <5>1. DOMAIN doc = 1 .. Len(doc) /\ Len(doc) \in Nat
          BY <1>1, CountFacts
        <5> QED BY <4>1, <5>1
      <4> QED BY <1>3, <4>1 DEF Spoilt
    <3>3. ~Ended' /\ Top' = m /\ ~Spoilt' /\ stack_current' = stack_current
      BY <1>2, <1>6, <2>2, <3>1, <3>2, Took
    <3>4. Fits'
      BY <1>3, <3>3 DEF Fits, InNumeral
    <3> QED BY <3>1, <3>3, <3>4, GoesOn
  <2> QED BY <2>1, <2>2, Refused
<1>11. CASE ch \notin NumeralBytes /\ \E t \in Opening, l \in {"arr.emit", "obj.emit"} : Emit(t, l)
  <2>1. PICK t \in Opening, l \in {"arr.emit", "obj.emit"} : Emit(t, l)
    BY <1>11
  <2>2. Answer(t) /\ stack' = [stack EXCEPT ![stack_current] = l] /\ stack_current' = stack_current
    BY <2>1 DEF Emit
  <2>3. pc' = "idle" /\ tok' = t /\ Position' = Position /\ Size' = Size /\ input' = input /\ Count' = Count
    BY <2>2, TakenStays
  <2>4. Top' = l
    BY <1>1, <2>2, <2>3, StackFacts DEF Top
  <2>5. Bracket'
    BY <1>1, <1>3, <1>4, <1>6, <1>11, <2>3, <2>4 DEF Bracket
  <2>6. Fits'
    BY <1>3, <2>2, <2>5 DEF Fits
  <2>7. ~Ended'
    BY <2>3 DEF Ended, Opening
  <2> QED BY <2>4, <2>6, <2>7, GoesOn
<1>12. CASE ch \notin Digit \cup {Ascii.minus} /\ Fail("UNEXPECTED_CHAR")
  <2>1. ~AtEof /\ SubSeq(doc, 1, Count + 1) = Append(Consumed, ch) /\ Consumed \in Seq(Byte) /\ Len(Consumed) = 0
    <3>1. Position <= Size
      BY <1>1, <1>4, CountFacts
    <3> QED BY <1>1, <1>3, <1>4, <1>6, <3>1, CountFacts
  <2>2. Append(Consumed, ch) = <<ch>>
    <3>1. Consumed = <<>>
      BY <2>1
    <3> QED BY <3>1
  <2>3. NoNumeral
    BY <1>6, <1>12, <2>1, <2>2, NoBegin DEF NoNumeral
  <2> QED BY <1>12, <2>3, Refused
<1> QED BY <1>8, <1>9, <1>10, <1>11, <1>12

\* Every step of a call.
LEMMA RunRInv ==
  ASSUME TInv, NInv, RInv, Run, phase = "call", phase' = "call", doc' = doc, pc # "idle"
  PROVE  RInv'
<1>1. Calling
  BY DEF Calling, Going, Run, configVars
<1>2. CASE Lost
  BY <1>1, <1>2, LostStep
<1>3. CASE Fits
  <2>1. Top = pc /\ pc \in Labels \ {"ERROR"}
    BY <1>1, CallFacts
  <2>2. ~ErrorState
    BY <2>1 DEF ErrorState
  <2>3. pc \in {"START", "VALUE", "arr.emit", "obj.emit", "start.ret", "start.trail"} \cup NumberLabels \cup TextLabels
    BY <1>3, <2>1 DEF Fits, Unbegun, Bracket, InNumeral, BehindNumeral, InSpace
  <2>4. pc \notin LiteralLabels \cup LiteralEnds \cup StringLabels
          \cup {"start.ws", "arr.open", "arr.ret", "arr.ws", "arr.comma", "arr.close",
                "obj.open", "obj.key", "obj.kws", "obj.colon", "obj.val", "obj.ws", "obj.comma", "obj.close"}
    BY <2>3 DEF NumberLabels, TextLabels, LiteralLabels, LiteralEnds, StringLabels, HexLabels, Utf8Labels
  <2>5. \/ NeedData \/ UnexpectedEof
        \/ At("START") /\ Start
        \/ At("VALUE") /\ Value
        \/ Trail /\ pc \in {"start.ret", "start.trail"}
        \/ ArrayEmitted \/ ObjectEmitted
        \/ NumberNext /\ At(pc) /\ pc \in NumberLabels \cup TextLabels
    BY <2>2, <2>4, RunAt
  <2> QED BY <1>1, <1>3, <2>5, NeedDataFits, UnexpectedEofFits, StartFits, ValueFits, TrailFits,
             EmittedFits, NumberFits
<1> QED BY <1>1, <1>2, <1>3, CallFacts

-----------------------------------------------------------------------------
(* The steps of the loop. *)

\* What is said of a parser that stays where it is.
LEMMA SameFits ==
  ASSUME UNCHANGED <<input, doc, stack_current>>, Top' = Top, Position' = Position
  PROVE  /\ Size' = Size /\ AtEof' = AtEof /\ NoNumeral' = NoNumeral
         /\ Lost' = Lost /\ (Fits => Fits')
<1>1. Size' = Size /\ AtEof' = AtEof
  BY DEF Size, AtEof
<1>2. Count' = Count /\ LastRead' = LastRead
  BY <1>1 DEF Count, LastRead, Consumed
<1>3. Spoilt' = Spoilt /\ Lost' = Lost /\ NoNumeral' = NoNumeral
  BY <1>1, <1>2 DEF Spoilt, Lost, NoNumeral
<1>4. Fits => Fits'
  <2>1. (Unbegun => Unbegun') /\ (Bracket => Bracket') /\ (InSpace => InSpace')
    BY <1>1, <1>2, <1>3 DEF Unbegun, Bracket, InSpace
  <2>2. (InNumeral => InNumeral') /\ (BehindNumeral => BehindNumeral')
    BY <1>1, <1>2, <1>3 DEF InNumeral, BehindNumeral
  <2> QED BY <2>1, <2>2 DEF Fits
<1> QED BY <1>1, <1>3, <1>4

\* What fread() brings is behind what was taken.
LEMMA ReadChunkRInv ==
  ASSUME TInv, NInv, RInv, FreadBytes, ReadChunk
  PROVE  RInv'
<1>1. phase = "read" /\ pc = "idle" /\ Position >= Size /\ Position = input_current
  BY DEF ReadChunk, TInv, LoopPhases, ChunkUsed, Position
<1>2. PICK chunk \in Fread(encoding, files, doc) \cup {<<>>} : Feed(chunk) /\ doc' = doc \o chunk
  BY DEF ReadChunk
<1>3. chunk \in Seq(Byte)
  <2>1. encoding \in Encodings /\ files \in Nat /\ doc \in Seq(Byte)
    BY DEF TInv, IInv, TypeOK
  <2>2. Fread(encoding, files, doc) \subseteq Seq(Byte)
    BY <2>1, Zenon DEF FreadBytes
  <2>3. <<>> \in Seq(Byte)
    OBVIOUS
  <2> QED BY <2>2, <2>3
<1>4. /\ doc \in Seq(Byte) /\ input \in Seq(Byte) /\ Size \in Nat /\ Position \in Nat /\ Len(doc) \in Nat
      /\ DOMAIN doc = 1 .. Len(doc) /\ Count \in Nat
  BY CountFacts DEF NInv
<1>5. /\ tok' = "FED" /\ input' = chunk /\ input_current' = 0 /\ pc' = "idle"
      /\ UNCHANGED <<stack, stack_current>>
  <2>1. ~(input_current < Size)
    BY <1>1, <1>4
  <2> QED BY <1>1, <1>2, <2>1 DEF Feed, stackVars
<1>6. Top' = Top /\ Position' = 0 /\ Size' = Len(chunk) /\ ~Ended' /\ ~Failed'
  BY <1>1, <1>5 DEF Top, Position, Size, Ended, Failed
<1>7. Len(chunk) \in Nat /\ Len(doc') = Len(doc) + Len(chunk) /\ doc' \in Seq(Byte)
  BY <1>2, <1>3, <1>4, ConcatProperties, LenProperties
<1>8. Count' = Len(doc) /\ Len(doc) <= Count
  BY <1>1, <1>4, <1>6, <1>7 DEF Count
<1>9. /\ DOMAIN doc' = 1 .. Len(doc) + Len(chunk)
      /\ \A i \in 1 .. Len(doc) : doc'[i] = doc[i]
  <2>1. DOMAIN doc' = 1 .. Len(doc')
    BY <1>7
  <2>2. \A i \in 1 .. Len(doc) : (doc \o chunk)[i] = doc[i]
    BY <1>3, <1>4
  <2> QED BY <1>2, <1>7, <2>1, <2>2
<1>10. ~Ended /\ phase' # "read" /\ ~(phase = "read" /\ AtEof /\ Top # "START")
  <2>1. phase' \in {"done", "tokens"}
    BY DEF ReadChunk
  <2> QED BY <1>1, <2>1 DEF RInv
<1>11. ASSUME NEW i, i \in DOMAIN doc PROVE i \in DOMAIN doc' /\ i <= Count' /\ doc'[i] = doc[i]
  BY <1>4, <1>7, <1>8, <1>9, <1>11
<1>12. (Lost => Lost') /\ (Spoilt => Spoilt')
  BY <1>11 DEF Lost, Spoilt
<1>13. ASSUME Fits PROVE Fits'
  <2>1. stack_current' <= 1
    BY <1>5, <1>13 DEF Fits
  <2>2. CASE Unbegun
    <3>1. Count' = 0
      BY <1>4, <1>8, <2>2 DEF Unbegun
    <3> QED BY <1>6, <2>1, <2>2, <3>1 DEF Fits, Unbegun
  <2>3. CASE InNumeral
    <3>1. /\ Top \in NumberLabels \cup TextLabels /\ Position <= Size /\ ChunkIsTail
          /\ LastRead = Consumed /\ (Top \in SignLabels => SignOf(LastRead))
      BY <2>3, ReadingFacts DEF NInv
    <3>2. Position = Size
      BY <1>1, <1>4, <3>1
    <3>3. Consumed = doc
      <4>1. Len(doc) - Size + Position = Len(doc)
        BY <1>4, <3>2
      <4>2. SubSeq(doc, 1, Len(doc)) = doc
        BY <1>4
      <4> QED BY <4>1, <4>2 DEF Consumed
    <3>4. Consumed' = doc
      <4>1. Consumed' = SubSeq(doc \o chunk, 1, Len(doc))
        <5>1. Len(doc') - Size' + Position' = Len(doc)
          BY <1>4, <1>6, <1>7
        <5> QED BY <1>2, <5>1 DEF Consumed
      <4>2. SubSeq(doc \o chunk, 1, Len(doc)) = doc
        BY <1>3, <1>4
      <4> QED BY <4>1, <4>2
    <3>5. LastRead' = LastRead
      BY <3>3, <3>4 DEF LastRead
    <3>6. ~Spoilt'
      <4>1. ASSUME NEW i \in DOMAIN doc', i <= Count', doc'[i] \notin NumeralBytes PROVE FALSE
        <5>1. i \in 1 .. Len(doc) /\ i <= Count
          BY <1>4, <1>7, <1>8, <1>9, <4>1
        <5>2. doc[i] \notin NumeralBytes /\ i \in DOMAIN doc
          BY <1>4, <1>9, <4>1, <5>1
        <5> QED BY <2>3, <5>1, <5>2 DEF InNumeral, Spoilt
      <4> QED BY <4>1 DEF Spoilt
    <3> QED BY <1>6, <2>1, <3>1, <3>5, <3>6 DEF Fits, InNumeral
  <2>4. CASE InSpace
    BY <1>6, <1>12, <2>1, <2>4 DEF Fits, InSpace
  <2>5. ~Bracket
    BY <1>1, <1>4 DEF Bracket
  <2>6. ~BehindNumeral
    <3>1. ASSUME Top = "start.ret" PROVE FALSE
      <4>1. AtEof \/ Position < Size
        BY <3>1 DEF TInv, IInv, ByteAhead, JumpLabels
      <4>2. AtEof
        BY <1>1, <1>4, <4>1
      <4> QED BY <1>1, <1>10, <3>1, <4>2
    <3> QED BY <3>1 DEF BehindNumeral
  <2> QED BY <1>13, <2>2, <2>3, <2>4, <2>5, <2>6 DEF Fits
<1>14. Top' # "ERROR" /\ (Lost' \/ Fits')
  BY <1>6, <1>10, <1>12, <1>13 DEF RInv
<1> QED BY <1>6, <1>10, <1>14 DEF RInv

\* The call starts where the last one stopped.
LEMMA CallNextTokenRInv ==
  ASSUME TInv, RInv, CallNextToken
  PROVE  RInv'
<1>1. /\ pc = "idle" /\ pc' = stack[stack_current] /\ index' = input_current
      /\ UNCHANGED <<input, input_current, stack, stack_current, doc>>
      /\ phase = "tokens" /\ phase' = "call"
  BY DEF CallNextToken, NextToken, inputVars, stackVars
<1>2. Top \in Labels
  BY DEF TInv, IInv, Frames
<1>3. pc' # "idle" /\ Top' = Top /\ Position' = Position
  BY <1>1, <1>2, LabelFacts DEF Top, Position
<1>4. ~Ended /\ ~Ended' /\ ~Failed'
  BY <1>1, <1>3 DEF RInv, Ended, Failed
<1>5. Top' # "ERROR" /\ (Lost' \/ Fits')
  BY <1>1, <1>3, <1>4, SameFits DEF RInv
<1> QED BY <1>1, <1>4, <1>5 DEF RInv

\* A token is printed: no more is read behind an error, nor behind the end.
LEMMA PrintTokenRInv ==
  ASSUME TInv, RInv, PrintToken
  PROVE  RInv'
<1>1. /\ phase = "call" /\ pc = "idle" /\ UNCHANGED <<vars, doc>>
      /\ tok = "ERROR" => phase' = "done"
      /\ tok # "ERROR" /\ tok \in {"END", "NEED_DATA"} => ChunkDone
      /\ tok \notin {"ERROR", "END", "NEED_DATA"} => phase' = "tokens"
  BY DEF PrintToken
<1>2. UNCHANGED <<input, input_current, stack, stack_current, value, index, pc, tok, doc>>
  BY <1>1 DEF vars, inputVars, stackVars
<1>3. Top' = Top /\ Position' = Position /\ Held' = Held /\ Ended' = Ended /\ Failed' = Failed
  BY <1>2 DEF Top, Position, Held, Ended, Failed
<1>4. AtEof' = AtEof /\ NoNumeral' = NoNumeral /\ Lost' = Lost /\ (Fits => Fits')
  BY <1>2, <1>3, SameFits
<1>5. Ended => phase' = "done"
  <2>1. CASE tok = "ERROR"
    BY <1>1, <2>1
  <2>2. CASE tok = "END"
    <3>1. ChunkDone
      BY <1>1, <2>2
    <3>2. Ended => AtEof
      BY <2>2 DEF RInv, Failed
    <3> QED BY <3>1, <3>2 DEF ChunkDone
  <2> QED BY <2>1, <2>2 DEF Ended
<1>6. ~(phase' = "read" /\ AtEof)
  <2>1. CASE ChunkDone
    BY <2>1 DEF ChunkDone
  <2>2. CASE phase' \in {"done", "tokens"}
    BY <2>2
  <2> QED BY <1>1, <2>1, <2>2
<1> QED BY <1>3, <1>4, <1>5, <1>6 DEF RInv

\* Nothing was taken of the next file.
LEMMA NextFileRInv ==
  ASSUME TInv, RInv, NextFile
  PROVE  RInv'
<1>1. Reset /\ doc' = <<>> /\ phase' = "read"
  BY DEF NextFile
<1>2. /\ pc' = "idle" /\ tok' = "RESET" /\ input' = <<>> /\ input_current' = 0
      /\ stack' = [stack EXCEPT ![0] = "START"] /\ stack_current' = 0
  BY <1>1 DEF Reset
<1>3. Top' = "START"
  <2>1. 0 \in 0 .. stack_size - 1
    <3>1. stack_size \in Nat /\ stack_current \in 0 .. stack_size - 1
      BY DEF TInv, IInv, TypeOK
    <3> QED BY <3>1
  <2>2. stack'[0] = "START"
    BY <1>2, <2>1, StackFacts DEF TInv
  <2> QED BY <1>2, <2>2 DEF Top
<1>4. ~Ended' /\ ~Failed'
  BY <1>2 DEF Ended, Failed
<1>5. Count' = 0 /\ stack_current' <= 1
  BY <1>1, <1>2 DEF Count, Position, Size
<1>6. Fits'
  BY <1>3, <1>5 DEF Fits, Unbegun
<1> QED BY <1>3, <1>4, <1>6 DEF RInv

\* Nor of the first one when the program starts.
LEMMA InitRInv ==
  ASSUME TokenizeInit
  PROVE  RInv
<1>1. Init /\ doc = <<>>
  BY DEF TokenizeInit
<1>2. input = <<>> /\ input_current = 0 /\ tok = "INIT" /\ pc = "idle" /\ stack_current = 0
  BY <1>1 DEF Init
<1>3. Top = "START"
  BY <1>1, MemoryAssumption DEF Init, Top
<1>4. ~Ended /\ ~Failed
  BY <1>2 DEF Ended, Failed
<1>5. Count = 0 /\ stack_current <= 1
  BY <1>1, <1>2 DEF Count, Position, Size
<1>6. Fits
  BY <1>3, <1>5 DEF Fits, Unbegun
<1> QED BY <1>3, <1>4, <1>6 DEF RInv

\* Nothing changes.
LEMMA SameRInv ==
  ASSUME RInv, UNCHANGED <<vars, doc, phase>>
  PROVE  RInv'
<1>1. UNCHANGED <<input, input_current, stack, stack_current, value, index, pc, tok, doc, phase>>
  BY DEF vars, inputVars, stackVars
<1>2. Top' = Top /\ Position' = Position /\ Held' = Held /\ Ended' = Ended /\ Failed' = Failed
  BY <1>1 DEF Top, Position, Held, Ended, Failed
<1>3. AtEof' = AtEof /\ NoNumeral' = NoNumeral /\ Lost' = Lost /\ (Fits => Fits')
  BY <1>1, <1>2, SameFits
<1> QED BY <1>1, <1>2, <1>3 DEF RInv

\* RInv holds initially and every step of the loop preserves it.
THEOREM RefusalInvariance == ASSUME FreadBytes PROVE TokenizeSpec => []RInv
<1>1. TokenizeInit => RInv
  BY InitRInv
<1>2. TInv /\ NInv /\ RInv /\ [TokenizeNext]_allVars => RInv'
  <2> SUFFICES ASSUME TInv, NInv, RInv, [TokenizeNext]_allVars PROVE RInv'
    OBVIOUS
  <2>1. CASE ReadChunk
    BY <2>1, ReadChunkRInv
  <2>2. CASE CallNextToken
    BY <2>2, CallNextTokenRInv
  <2>3. CASE RunCall
    <3>1. Run /\ phase = "call" /\ phase' = "call" /\ doc' = doc
      BY <2>3 DEF RunCall, driverVars
    <3>2. pc # "idle"
      <4>1. ASSUME pc = "idle" PROVE FALSE
        <5>1. ~NeedData /\ ~UnexpectedEof
          BY <4>1, LabelFacts DEF NeedData, UnexpectedEof, Labels
        <5>2. ~ErrorState
          BY <4>1 DEF ErrorState
        <5> QED
          BY <3>1, <4>1, <5>1, <5>2, RunAt
             DEF At, LiteralLabels, LiteralEnds, StringLabels, HexLabels, Utf8Labels, NumberLabels,
                 TextLabels
      <4> QED BY <4>1
    <3> QED BY <3>1, <3>2, RunRInv
  <2>4. CASE PrintToken
    BY <2>4, PrintTokenRInv
  <2>5. CASE NextFile
    BY <2>5, NextFileRInv
  <2>6. CASE UNCHANGED allVars
    BY <2>6, SameRInv DEF allVars, driverVars
  <2> QED BY <2>1, <2>2, <2>3, <2>4, <2>5, <2>6 DEF TokenizeNext, Exit
<1> QED
  BY <1>1, <1>2, TokenizeInvariance, NumberInvariance, PTL DEF TokenizeSpec

\* A file that is a numeral is never refused, and what is refused, but for want of memory or of
\* range, is refused at the first byte no numeral goes on with: for files of any length, in
\* whatever chunks they are read, for every set of flags and every width of the components.
THEOREM RefusalsAreRight == ASSUME FreadBytes PROVE TokenizeSpec => []RefusesOnlyOthers
<1>1. TInv /\ RInv => RefusesOnlyOthers
  <2> SUFFICES ASSUME TInv, RInv, Finished, tok = "ERROR", Held \notin {"MEMORY", "RANGE"}
               PROVE  NoNumeral /\ Position = input_current
    BY DEF RefusesOnlyOthers, NoNumeral, Count
  <2>1. pc = "idle"
    BY DEF TInv, LoopPhases, Finished
  <2> QED BY <2>1 DEF RInv, Failed, Position
<1> QED
  BY <1>1, TokenizeInvariance, RefusalInvariance, PTL

=============================================================================
