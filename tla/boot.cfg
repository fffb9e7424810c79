SPECIFICATION BootSpec
CONSTANTS
  p1 = p1
  p2 = p2
  u1 = u1
  u2 = u2
  Ram = Ram
  NoPart = NoPart
  Part <- MCPart
  Scan <- MCScan
  Uuid <- MCUuid
  Wlan <- MCWlan
INVARIANTS
  SwitchOnce
  LoginOnRequestedRoot
  ShellIsJustified
PROPERTIES
  OnlyRequestedRootTouched
  BootEnds
CHECK_DEADLOCK FALSE
