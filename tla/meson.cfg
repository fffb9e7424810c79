SPECIFICATION BuildSpec
CONSTANTS
  Parallel = 2
  MaxBuilds = 2
INVARIANTS
  InputsWhole
  ImageSound
CHECK_DEADLOCK FALSE
