SPECIFICATION MCSpec
CONSTANTS
  Paths = {p1, p2}
  Contents = {a, b}
  Providers = {v}
  Calls = {c1, c2}
  None = None
  MaxCalls = 4
SYMMETRY Alike
INVARIANTS
  HeadProviderAgrees
  AdoptedStays
  ContentsKept
  BoundExists
PROPERTIES
  HeadAdvances
  OthersUntouched
CHECK_DEADLOCK FALSE
