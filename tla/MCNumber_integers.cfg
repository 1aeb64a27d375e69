CONSTANTS
  STACK_SIZE = 2
  BUFSIZ = 2
  MaxStackSize = 2
  MaxBufferSize = 16
  Realloc = {TRUE}
  Encodings = {"UTF8"}
  FlagSets = {{"INTEGER"}}
  MaxU = 15
  MaxPow10 = 2
  MinPow10 = 3
  Chunks <- NoChunks
  MaxDoc = 4
  DigitBytes = {48, 49, 50, 53}
  OtherBytes = {45, 43, 46, 101, 32}
  MaxLong = 4
  LongBytes = {49, 46, 101}
  Fread <- NumeralRead
  Ferror <- NoErrors
  MaxFiles = 1
SPECIFICATION TokenizeSpec
INVARIANTS IntegersAreTheNumerals
