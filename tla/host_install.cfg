SPECIFICATION HostSpec
INVARIANTS
  ExitStatusHonest
  DoneMeansDurable
  LeaksOnlyAroundMount
CHECK_DEADLOCK FALSE
