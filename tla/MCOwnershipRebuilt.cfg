SPECIFICATION Spec
CONSTANTS
  Engines = {e1}
  Driver = driver
  Probes = {p1}
  Nobody = nobody
  InitialFiles = {"absent"}
  MaxClients = 1
PROPERTY
  NotRebuiltInUse
