CONSTANTS
  STACK_SIZE = 2
  BUFSIZ = 1
  MaxStackSize = 4
  MaxBufferSize = 1
  Realloc = {TRUE, FALSE}
  Encodings = {"UTF8"}
  FlagSets = {{"INTEGER"}}
  MaxU = 15
  MaxPow10 = 2
  MinPow10 = 3
  Chunks <- StructureChunks
SPECIFICATION Spec
INVARIANTS NoInternalError ReadsStayInChunk FeedAccepted
PROPERTIES ErrorIsFinal ImplementsGrammar
