SPECIFICATION Spec
CONSTANTS
  Names = {a, b}
  Values = {v, w}
  MaxLines = 6
  None = None
INVARIANTS
  TypeOK
  LookupIsExpected
\* a load that dereferences NULL ends the program
CHECK_DEADLOCK FALSE
