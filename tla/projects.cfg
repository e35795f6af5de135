SPECIFICATION Spec
CONSTANTS
  n1 = n1 n2 = n2 reg1 = reg1 reg2 = reg2 monitoring = monitoring
  p1 = p1 p2 = p2 m1 = m1 m2 = m2 s1 = s1 x1 = x1
  None = None
  DefaultProm = dflt
  Monitors = {m1, m2}
  Services = {s1}
  Secrets = {}
  ProjectProms = {p1, p2}
  Namespaces = {n1, reg1, reg2}
  MonitorNs <- HomeMonitorNs
  PromNs <- MCPromNs
  RegistrationNs <- MCRegistrationNs
  MonSpecs <- OneSpec
  Selects <- MCSelects
  CARefs <- MCCARefs
  PortNames = {"web"}
  PortNums = {80}
  SvcPorts <- OnePortMap
  IPs = {ip1}
  Data = {ca1}
  Volatile = {"namespace", "prom"}
  Resync = FALSE
  MaxChanges = 2
  MaxFailures = 0
  MaxCrashes = 0
  MaxTampers = 0
INVARIANTS FreshOrPending Isolation
CHECK_DEADLOCK FALSE
