SPECIFICATION SearchSpec
CONSTANTS
  d1 = d1
  d2 = d2
  loop0 = loop0
  disk = disk
  disk5 = disk5
  NoDev = NoDev
  Device <- MCDevice
  Scan <- MCScan
  Pseudo <- MCPseudo
  Target <- MCTarget
  Numbered <- MCNumbered
INVARIANTS
  InitrdBacked
  FirstUsableMediumWins
CHECK_DEADLOCK FALSE
