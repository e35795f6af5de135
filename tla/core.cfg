SPECIFICATION FairSpec
CONSTANTS
  n1 = n1 n2 = n2 reg1 = reg1 reg2 = reg2 monitoring = monitoring
  p1 = p1 p2 = p2 m1 = m1 m2 = m2 s1 = s1 x1 = x1
  None = None
  DefaultProm = dflt
  Monitors = {m1}
  Services = {s1}
  Secrets = {x1}
  ProjectProms = {p1}
  Namespaces = {reg1}
  MonitorNs <- MCMonitorNs
  PromNs <- MCPromNs
  RegistrationNs <- MCRegistrationNs
  MonSpecs <- AllSpecs
  Selects <- MCSelects
  CARefs <- MCCARefs
  PortNames = {"web", "api"}
  PortNums = {80, 81, 90}
  SvcPorts <- TwoPortMaps
  IPs = {ip1}
  Data = {ca1}
  Volatile = {"monitor", "service", "secret", "prom"}
  Resync = FALSE
  MaxChanges = 1
  MaxFailures = 1
  MaxCrashes = 1
  MaxTampers = 0
INVARIANTS TypeOK FreshOrPending OwnersIssuedHere
PROPERTIES UserEditsSurvive   ComesCloser
CHECK_DEADLOCK FALSE
