CONSTANTS
  Paths = {p1, p2}
  Contents = {a}
  Old = a
  New = None
  None = None
  MaxEvents = 7
  MaxQueue = 1
  MaxReports = 1
  Budgets <- SomeBudgets
SPECIFICATION ModelSpec
CHECK_DEADLOCK FALSE
PROPERTIES
  ClosedHadVanished
  DriftShown
  RevertCloses
