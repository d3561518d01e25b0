SPECIFICATION MCSpec
CONSTANTS
  k1 = k1
  k2 = k2
  k3 = k3
  Keys = {k1, k2, k3}
  NoKey = NoKey
  Homes = {a, b}
  Tokens = {s, t}
  Retries = 1
  MaxHubKeys = 2
  MaxRecords = 3
  MaxEvents = 5
SYMMETRY Alike
INVARIANTS
  TypeOK
  TokenEnrollsOne
  RefusedIsUnknown
  DoneIsKnown
CHECK_DEADLOCK FALSE
