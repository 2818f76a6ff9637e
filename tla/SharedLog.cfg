SPECIFICATION FairSpec
CONSTANTS
  Processes <- MCProcesses
  Threads <- MCThreads
  Process <- MCProcess
  None = None
  MaxLines = 2
  MaxDeaths = 1
INVARIANTS
  TypeOK
  LinesWhole
  OwnLinesWhole
  FlushedStays
PROPERTIES
  CallReturns
