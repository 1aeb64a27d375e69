------------------------------ MODULE Tokenize ------------------------------
(***************************************************************************)
(* The loop every program drives a parser with, tokenize() of              *)
(* test/tokens.c: read a chunk of a file, feed it, take tokens until more  *)
(* data is needed, up to the end of the file; then reset the parser for    *)
(* the next file.  The file is what was read of it; each read brings any   *)
(* continuation Fread allows, or the end.                                  *)
(***************************************************************************)
EXTENDS Parser, SequencesExt

CONSTANTS
  Fread(_, _, _),  \* for an encoding and a file, the chunks that may follow the bytes read so far
  Ferror(_),       \* whether reads of a file may fail: {FALSE} or BOOLEAN
  MaxFiles         \* files on the command line

ASSUME DriverAssumption ==
  /\ MaxFiles \in Nat
  /\ \A file \in 1 .. MaxFiles : Ferror(file) \in SUBSET BOOLEAN

VARIABLES
  phase,           \* "read", "tokens", "call" or "done"
  doc,             \* the bytes read of the file
  out,             \* the tokens printed for it
  ferror,          \* the error indicator of the stream
  status,          \* the result of tokenize()
  files            \* files taken up

driverVars == <<phase, doc, out, ferror, status, files>>
allVars == <<vars, driverVars>>

TokenizeInit ==
  /\ Init
  /\ phase = "read"
  /\ doc = <<>>
  /\ out = <<>>
  /\ ferror = FALSE
  /\ status = 0
  /\ files = 1

\* fread() and ajson_feed(); a short count with the error indicator set is a failed read.
ReadChunk ==
  /\ phase = "read"
  /\ \E chunk \in Fread(encoding, files, doc) \cup {<<>>}, failed \in Ferror(files) :
       /\ Feed(chunk)
       /\ doc' = doc \o chunk
       /\ ferror' = (ferror \/ failed)
  /\ IF tok' = "ENOBUFS"
     THEN phase' = "done" /\ status' = 1
     ELSE phase' = "tokens" /\ UNCHANGED status
  /\ UNCHANGED <<out, files>>

CallNextToken ==
  /\ phase = "tokens"
  /\ NextToken
  /\ phase' = "call"
  /\ UNCHANGED <<doc, out, ferror, status, files>>

RunCall == phase = "call" /\ Run /\ UNCHANGED driverVars

\* What is printed of a token.
Shown ==
  IF Live = "string" /\ tok \in {"STRING", "NUMBER"}
  THEN <<tok, SubSeq(buffer, 1, Held)>>
  ELSE <<tok, IF tok \in {"BOOLEAN", "NUMBER", "INTEGER", "ERROR"} THEN Held ELSE "none">>

\* The chunk is used up: read on, or leave the loop at the end of the file.
ChunkDone ==
  IF AtEof THEN phase' = "done" /\ status' = (IF ferror THEN 1 ELSE 0)
           ELSE phase' = "read" /\ UNCHANGED status

\* Mutant: one token is taken of each chunk.
PrintOneToken ==
  /\ phase = "call" /\ pc = "idle"
  /\ out' = IF tok = "NEED_DATA" THEN out ELSE Append(out, Shown)
  /\ IF tok = "ERROR" THEN phase' = "done" /\ status' = 1 ELSE ChunkDone
  /\ UNCHANGED <<vars, doc, ferror, files>>

PrintToken ==
  /\ phase = "call" /\ pc = "idle"
  /\ out' = IF tok = "NEED_DATA" THEN out ELSE Append(out, Shown)
  /\ CASE tok = "ERROR" -> phase' = "done" /\ status' = 1
       [] tok \in {"END", "NEED_DATA"} -> ChunkDone
       [] OTHER -> phase' = "tokens" /\ UNCHANGED status
  /\ UNCHANGED <<vars, doc, ferror, files>>

\* main(): the next file, with the same parser.
NextFile ==
  /\ phase = "done" /\ status = 0 /\ files < MaxFiles
  /\ Reset
  /\ phase' = "read"
  /\ doc' = <<>>
  /\ out' = <<>>
  /\ ferror' = FALSE
  /\ files' = files + 1
  /\ UNCHANGED status

\* The program exits.
Exit == phase = "done" /\ (status # 0 \/ files >= MaxFiles) /\ UNCHANGED allVars

TokenizeNext == ReadChunk \/ CallNextToken \/ RunCall \/ PrintToken \/ NextFile \/ Exit

TokenizeSpec == TokenizeInit /\ [][TokenizeNext]_allVars

-----------------------------------------------------------------------------
(* Properties. *)

Finished == phase = "done"

\* The chunk the loop reads next is always taken.
NeverRefused == tok # "ENOBUFS"
=============================================================================
