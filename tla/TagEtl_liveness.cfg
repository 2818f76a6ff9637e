SPECIFICATION FairSpec
CONSTANTS
  StableRows <- MCOneStableRow
  VarRows <- MCFewVarRows
  Keys <- MCKeys
  NoSinger = "none"
  Tags <- MCTags
  Sids <- MCSids
  Key <- MCKey
  Tag <- MCTag
  Catalogue <- MCCatalogue
  Threshold = 2
PROPERTIES
  RowsGetServed
  PartGetsCompleted
  TmpCatchesUp
