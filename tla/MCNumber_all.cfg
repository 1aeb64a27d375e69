CONSTANTS
  STACK_SIZE = 2
  BUFSIZ = 2
  MaxStackSize = 2
  MaxBufferSize = 32
  Realloc = {TRUE}
  Encodings = {"UTF8"}
  FlagSets = {{}, {"INTEGER"}, {"INTEGER", "NUMBER_COMPONENTS"}, {"NUMBER_AS_STRING"}, {"NUMBER_AS_STRING", "INTEGER"}}
  MaxU = 21
  MaxPow10 = 2
  MinPow10 = 3
  Chunks <- NoChunks
  MaxDoc = 6
  DigitBytes = {48, 49, 50, 53}
  OtherBytes = {45, 43, 46, 101, 32}
  MaxLong = 26
  LongBytes = {49, 46, 101}
  Fread <- NumeralRead
  Ferror <- NoErrors
  MaxFiles = 1
SPECIFICATION TokenizeSpec
INVARIANTS AcceptsOnlyNumerals RefusesOnlyOthers ComponentsAreTheNumerals IntegersInRange DoublesAreTheNumerals TextIsKept
