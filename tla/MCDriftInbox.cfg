CONSTANTS
  Paths = {p1}
  Contents = {a, b}
  Old = a
  New = b
  None = None
  MaxEvents = 2
  MaxQueue = 1
  MaxReports = 1
  Budgets <- SomeBudgets
SPECIFICATION ModelSpec
CHECK_DEADLOCK FALSE
INVARIANTS
  TypeOK
  NothingLost
PROPERTIES
  SurveyFirst
