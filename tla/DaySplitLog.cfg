SPECIFICATION Spec
CONSTANTS
  LastDay = 3
  LastMsg = 5
  Inodes = {n1, n2, n3, n4}
  None = None
INVARIANTS
  TypeOK
  DaysInOrder
PROPERTIES
  LogNeverLost
SYMMETRY InodeSymmetry
