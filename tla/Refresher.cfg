SPECIFICATION FairSpec
CONSTANTS
  ref = ref
  ok = ok
  faild = faild
  invalid = invalid
  NUL = NUL
  Parts <- MCParts
  OK <- MCOK
  FAILED <- MCFailed
  Others <- MCOthers
  RespSize = 5
INVARIANTS
  TypeOK
  WholeAnswerUnderstood
PROPERTIES
  CallReturns
