CONSTANTS
  NULL = NULL
  STACK_SIZE = 2
  MaxStackSize = 4
  Realloc = {TRUE, FALSE}
  NUMBER_SIZE = 4
  MaxDivisor = 100
  CharIsSigned = TRUE
  FlagSets = {{}, {"ASCII"}}
  Indents <- SomeIndents
  Sizes = {0, 1, 2, 6}
  Tokens <- SomeTokens
  Weight <- SomeWeight
  MaxCalls = 5
SPECIFICATION CallsSpec
INVARIANTS TypeOK StackIsNest DeliversText FailsForAReason ShortCountMeansDone
PROPERTIES TokensEnd
