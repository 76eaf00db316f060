SPECIFICATION Spec
CONSTANTS
  o1 = o1
  o2 = o2
  o3 = o3
  o4 = o4
  o5 = o5
  o6 = o6
  NoOid = NoOid
  Oids <- McOids
  Prices <- McPrices
  CancelAcks <- AlpacaAcks
  Shortable = FALSE
  MaxQty = 3
  MaxAttempts = 3
  Faults <- NoFaults
CHECK_DEADLOCK FALSE
SYMMETRY Symmetric
INVARIANT TakeLeavesProtection
