CONSTANTS
  STACK_SIZE = 2
  BUFSIZ = 3
  MaxStackSize = 8
  MaxBufferSize = 16
  Realloc = {TRUE}
  Encodings = {"LATIN1", "UTF8"}
  FlagSets = {{"INTEGER"}}
  MaxU = 268435455
  MaxPow10 = 2
  MinPow10 = 3
  Chunks <- NoChunks
  Families = {"structure", "utf8", "latin1", "escapes"}
  MaxStructure = 8
  MaxUtf8 = 7
  MaxLatin1 = 4
  Fread <- FamilyRead
  Ferror <- SecondFails
  MaxFiles = 2
SPECIFICATION TokenizeSpec
INVARIANTS AcceptsOnlyJson RefusesOnlyOthers NeverRefused
