SPECIFICATION Spec
CONSTANTS
  StableRows <- MCStableRows
  VarRows <- MCFewVarRows
  Keys <- MCKeys
  NoSinger = "none"
  Tags <- MCTags
  Sids <- MCSids
  Key <- MCKey
  Tag <- MCTag
  Catalogue <- MCCatalogue
  Threshold = 2
INVARIANT RefusedPairsExist
