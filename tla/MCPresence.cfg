SPECIFICATION MCSpec
CONSTANTS
  m1 = m1
  m2 = m2
  c1 = c1
  c2 = c2
  Machines = {m1, m2}
  Conns = {c1, c2}
  NoMachine = NoMachine
  NoConn = NoConn
  MaxEvents = 3
INVARIANTS
  RegistryIsLive
  ConnectedShowsOnline
  OnlineIsAccountedFor
  StopsOnlyWhenRemoved
PROPERTIES
  ShutdownEnds
  AgentReturns
CHECK_DEADLOCK FALSE
