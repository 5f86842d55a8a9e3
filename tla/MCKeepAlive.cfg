SPECIFICATION FairSpec
CONSTANTS
  p1 = p1
  p2 = p2
  p3 = p3
  p4 = p4
  NoProc = NoProc
  Procs <- FourProcs
  MaxDeaths = 2
INVARIANTS
  SingleServer
  Watched
  ExitIsFinal
  ReportsKept
PROPERTIES
  ServerComesBack
