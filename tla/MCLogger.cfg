SPECIFICATION FairSpec
CONSTANTS
  main = main
  worker = worker
  Nobody = Nobody
  Main = main
  Threads <- TwoThreads
  FlushCacheSz = 2
  BufferLimit = 2
  MaxLines = 3
INVARIANTS
  BufferFits
  InOrder
  NothingLost
  ExitWritesAll
PROPERTIES
  LineIsWritten
  ExitEnds
CHECK_DEADLOCK FALSE
