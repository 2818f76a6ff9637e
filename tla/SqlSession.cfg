SPECIFICATION FairSpec
CONSTANTS
  Threads = {t1, t2}
  DBs = {web, local}
  MaxDepth = 2
  None = None
  Bare = Bare
INVARIANTS
  TypeOK
  LockingExcludes
  SessionKept
  CountExact
PROPERTIES
  OwnAnswer
  MutexesReleased
