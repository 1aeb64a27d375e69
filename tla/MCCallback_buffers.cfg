CONSTANTS
  STACK_SIZE = 3
  BUFSIZ = 3
  MaxStackSize = 6
  MaxBufferSize = 16
  Realloc = {TRUE}
  Encodings = {"UTF8"}
  FlagSets = {{}, {"INTEGER"}, {"NUMBER_COMPONENTS"}, {"INTEGER", "NUMBER_COMPONENTS"}, {"NUMBER_AS_STRING"}}
  MaxU = 268435455
  MaxPow10 = 2
  MinPow10 = 3
  Chunks <- NoChunks
  MaxDoc = 3
  More <- PiecesAfter
  Failures = {FALSE}
  HandlerSets <- SomeHandlers
  MaxCalls = 1
SPECIFICATION CbSpec
INVARIANTS BuffersAreParsed
