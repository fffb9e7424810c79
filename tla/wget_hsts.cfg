SPECIFICATION HstsSpec
CONSTANTS
  p1 = p1
  p2 = p2
  www = www
  lan = lan
  NoEntry = NoEntry
  NoProc = NoProc
  Proc <- MCProc
  Host <- MCHost
  Supers <- MCSupers
  Ages <- MCAges
  IntMax = 7
  MaxTime = 3
  MaxUrls = 2
INVARIANT MergeKeepsOthers
PROPERTY UpgradeJustified
CHECK_DEADLOCK FALSE
SYMMETRY MCSymmetry
