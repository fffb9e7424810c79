SPECIFICATION UserSpec
CONSTANTS
  User = {"alice", "root", "al:x", "root:x"}
  Cut <- MCCut
  GroupFiles <- MCGroupFiles
INVARIANTS
  HashInForce
  GroupWhole
  JoinsWheelAndUsers
CHECK_DEADLOCK FALSE
