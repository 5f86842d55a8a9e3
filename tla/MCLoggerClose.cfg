SPECIFICATION Spec
CONSTANTS
  main = main
  worker = worker
  Nobody = Nobody
  Main = main
  Threads <- TwoThreads
  FlushCacheSz = 3
  BufferLimit = 2
  MaxLines = 3
INVARIANTS
  CloseFlushes
CHECK_DEADLOCK FALSE
