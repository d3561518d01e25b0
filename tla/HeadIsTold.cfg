SPECIFICATION MCSpec
CONSTANTS
  Paths = {p1}
  Contents = {a, b}
  Providers = {v}
  Calls = {c1}
  None = None
  MaxCalls = 4
INVARIANTS
  HeadIsTold
CHECK_DEADLOCK FALSE
