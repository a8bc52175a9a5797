SPECIFICATION FairSpec
CHECK_DEADLOCK FALSE
CONSTANTS
  Starts = {s1, s2}
  Stops = {t1, t2}
  Clients = {x1, x2}
  Hosts = {h1, h2}
  Ports <- MCPorts
  Registries = {"listener", "proxy"}
  Pythons = {"3.11", "3.12"}
  Nothing = Nothing
INVARIANTS
  OpenIsRegistered
  StopEndsTasks
PROPERTIES
  StopReturns
