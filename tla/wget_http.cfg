SPECIFICATION HttpSpec
CONSTANTS
  Options <- MCOptions
  Size <- MCSize
  NTry = 2
  MaxRedirect = 1
  MaxName = 2
INVARIANTS
  NeverAborts
  BytesInOrder
  WholeOnSuccess
  
PROPERTIES
  ContinueNeverClobbers
  HttpEnds
CHECK_DEADLOCK FALSE
