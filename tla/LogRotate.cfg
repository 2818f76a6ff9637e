SPECIFICATION Spec
CONSTANTS
  Slots = 3
  MaxSize = 2
  LastMsg = 11
  MaxCrash = 2
  MaxFail = 2
  Inodes = {n1, n2, n3, n4}
  None = None
INVARIANTS
  TypeOK
  NewestRetained
  LastRetained
PROPERTIES
  RetentionBudget
SYMMETRY InodeSymmetry
