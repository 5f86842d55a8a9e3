SPECIFICATION FairSampleSpec
CONSTANTS
  l1 = l1
  l2 = l2
  add = add
  subtract = subtract
  NoLoop = NoLoop
  NoThread = NoLoop
  NoSite = NoSite
  Loops <- TwoLoops
  Threads <- TwoLoops
  Sites <- TwoSites
  NumWorkers = 1
  MaxCells = 2
  NumClients = 3
  MaxRequests = 3
CHECK_DEADLOCK FALSE
INVARIANTS
  JobHoldsStream
  IndexIsOwn
  CallsCounted
  CountersNeverDrop
PROPERTIES
  ClientsAreServed
