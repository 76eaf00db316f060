SPECIFICATION Spec
CONSTANTS
  o1 = o1
  o2 = o2
  o3 = o3
  o4 = o4
  NoOid = NoOid
  Oids <- McOids
  Prices <- McPrices
  CancelAcks <- AlpacaAcks
  MaxQty = 4
  Faults = TRUE
  Shortable = FALSE
CHECK_DEADLOCK FALSE
SYMMETRY Symmetric
INVARIANT NoLadderOverLiveStop
