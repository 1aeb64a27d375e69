CONSTANTS
  NULL = NULL
  STACK_SIZE = 2
  BUFSIZ = 3
  MaxStackSize = 8
  MaxBufferSize = 16
  Realloc = {TRUE, FALSE}
  Encodings = {"UTF8", "LATIN1"}
  FlagSets = {{}, {"INTEGER"}, {"NUMBER_AS_STRING"}}
  Chunks <- NoChunks
  MaxU = 268435455
  MaxPow10 = 2
  MinPow10 = 3
  NUMBER_SIZE = 4
  MaxDivisor = 100
  CharIsSigned = TRUE
  WriterFlagSets = {{}, {"ASCII"}}
  Indents <- SomeIndents
  OUTBUF = 2
  Fread <- NextChunk
  Fwrite = {TRUE, FALSE}
  Snprintf <- Printf
  MaxText = 6
SPECIFICATION PrettySpec
INVARIANTS PrintsTheText WriterTakesTokens
PROPERTIES Ends
