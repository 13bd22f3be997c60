SPECIFICATION Spec
CONSTANTS
  SlotCount = 2
  Keys = {k1, k2, k3}
  NoKey = none
  Timeout = 1
  MaxTime = 2
  Attempts = 1
SYMMETRY Alike
INVARIANTS
  NoTornSnapshot
  StaleLeaves
