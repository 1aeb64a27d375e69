CONSTANTS
  NULL = NULL
  STACK_SIZE = 2
  MaxStackSize = 4
  Realloc = {TRUE}
  NUMBER_SIZE = 4
  MaxDivisor = 100
  CharIsSigned = TRUE
  FlagSets = {{}}
  Indents = {NULL}
  Sizes = {8}
  Tokens <- Latin1Tokens
  Weight <- SomeWeight
  MaxCalls = 1
SPECIFICATION CallsSpec
INVARIANTS ControlsAreEscaped
