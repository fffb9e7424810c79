SPECIFICATION RecurSpec
CONSTANTS
  a = a
  b = b
  c = c
  d = d
  mv = mv
  URL <- MCURL
  Webs <- MCWebs
  Settings <- MCSettings
  Starts <- MCStarts
  MaxFailures = 1
INVARIANTS
  TreesComplete
  LinksLead
  AskedOnce
CHECK_DEADLOCK FALSE
