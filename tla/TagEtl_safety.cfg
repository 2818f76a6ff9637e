SPECIFICATION Spec
CONSTANTS
  StableRows <- MCStableRows
  VarRows <- MCVarRows
  Keys <- MCKeys
  NoSinger = "none"
  Tags <- MCTags
  Sids <- MCSids
  Key <- MCKey
  Tag <- MCTag
  Catalogue <- MCCatalogue
  Threshold = 2
INVARIANTS
  FlushReplacesRelation
  TypeOK
  FlushOnlyWhenDue
  RefreshReady
  PartCanBeRemade
PROPERTIES
  ArchiveBeforeDrop
  CleanAccountsForLoaded
  ImplementsVarRelation

