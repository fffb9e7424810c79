SPECIFICATION Spec
CONSTANTS
  d1 = d1
  target = target
  target5 = target5
  NoDev = NoDev
  Device <- MCDevice
  Scan <- MCScan
  Pseudo = {}
  Target <- MCTarget
  Numbered <- MCNumbered
  SrcDir <- MCSrcDir
  DiskTries = 2
  PartTries = 2
INVARIANTS
  SuccessMeansInstalled
  MountsReleased
  RescueEntryBacked
  MarkerBeforeBoot
  EspInsideRoot
PROPERTIES
  NeverHangs
  KeepsPromise
CHECK_DEADLOCK FALSE
