SPECIFICATION HashSpec
CONSTANTS
  k1 = k1
  k2 = k2
  k3 = k3
  k4 = k4
  k5 = k5
  Free = Free
  Key <- MCKey
  Value = {1, 2}
  Hash <- MCHash
  Primes <- MCPrimes
  Items = 0
INVARIANTS
  ProbesReach
  ForEachMissesNone
PROPERTY IsKeyedStore
CHECK_DEADLOCK FALSE
