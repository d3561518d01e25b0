SPECIFICATION MCSpec
CONSTANTS
  m1 = m1
  m2 = m2
  c1 = c1
  c2 = c2
  Machines = {m1, m2}
  Conns = {c1, c2}
  NoMachine = NoMachine
  NoConn = NoConn
  MaxEvents = 2
INVARIANTS
  OfflineMeansGone
CHECK_DEADLOCK FALSE
