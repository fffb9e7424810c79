SPECIFICATION DialogSpec
CONSTANTS
  Line <- MCLine
  Length <- MCLength
  Names <- MCNames
  MaxLines = 6
INVARIANTS
  StoredWasRepeated
  EchoRestored
PROPERTY DialogEnds
CHECK_DEADLOCK FALSE
