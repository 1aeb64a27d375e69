CONSTANTS
  STACK_SIZE = 2
  BUFSIZ = 3
  MaxStackSize = 2
  MaxBufferSize = 6
  Realloc = {TRUE, FALSE}
  Encodings = {"UTF8"}
  FlagSets = {{"NUMBER_COMPONENTS"}}
  MaxU = 9
  MaxPow10 = 2
  MinPow10 = 3
  Chunks <- ScalarChunks
SPECIFICATION Spec
INVARIANTS TypeOK ScratchKept StringsAreTerminated StringsAreDecodable
PROPERTIES CallsReturn
