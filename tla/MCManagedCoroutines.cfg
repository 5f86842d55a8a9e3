SPECIFICATION FairCoSpec
CONSTANTS
  o1 = o1
  o2 = o2
  o3 = o3
  NullObject = NullObject
  Objects <- ThreeObjects
  IdMod = 2
  VersionMod = 4
  MaxRecycles = 3
INVARIANTS
  CoTypeOK
  LiveResolves
  StaleIsNull
  IterationIsLive
  NothingDangles
  OneTurnEach
PROPERTIES
  ImplementsSlotMap
  DeadIsReaped
