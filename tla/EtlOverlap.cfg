SPECIFICATION OverlapSpec
CHECK_DEADLOCK FALSE
CONSTANTS
  StableRows <- MCStableRows
  VarRows <- MCVarRows
  Keys <- MCKeys
  NoSinger = "none"
  Tags <- MCTags
  Sids <- MCSids
  Key <- MCKey
  Tag <- MCTag
  Catalogue <- MCCatalogue
  Threshold = 1
  MaxRuns = 3
  MaxRows = 3
INVARIANTS
  RefreshWholeUnlessEmptied
  FlushWholeUnlessEmptied
