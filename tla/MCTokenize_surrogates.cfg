CONSTANTS
  STACK_SIZE = 2
  BUFSIZ = 1
  MaxStackSize = 8
  MaxBufferSize = 16
  Realloc = {TRUE}
  Encodings = {"UTF8"}
  FlagSets = {{"INTEGER"}}
  MaxU = 268435455
  MaxPow10 = 2
  MinPow10 = 3
  Chunks <- NoChunks
  Families = {"utf8"}
  MaxStructure = 0
  MaxUtf8 = 5
  MaxLatin1 = 0
  Fread <- FamilyRead
  Ferror <- SecondFails
  MaxFiles = 1
SPECIFICATION TokenizeSpec
INVARIANTS StringsAreUtf8
