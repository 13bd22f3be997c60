SPECIFICATION MCSpec
CONSTANTS
  Engines = {e1, e2}
  Driver = driver
  Probes = {p1, p2}
  EngineIds = {e1, e2}
  ProbeIds = {p1, p2}
  PeerIds = {w1}
  Nobody = nobody
  InitialFiles = {"absent", "other", "foreign", "valid"}
  MaxClients = 2
SYMMETRY Twins
INVARIANTS
  OwnerHoldsLock
  MappedIsValid
  WindowsOneOwner
PROPERTIES
  BlockKept
  WindowsBlockKept
