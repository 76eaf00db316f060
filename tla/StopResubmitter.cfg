SPECIFICATION McSpec
CONSTANTS
  t1 = t1
  t2 = t2
  o1 = o1
  o2 = o2
  o3 = o3
  o4 = o4
  NoOid = NoOid
  NoStop = NoStop
  Tasks <- McTasks
  Oids <- McOids
  Prices <- McPrices
  CancelAcks <- AlpacaAcks
  AckLoss = FALSE
  Shortable = TRUE
  MaxQty = 2
  MaxRetries = 2
  MaxCalls = 2
CHECK_DEADLOCK FALSE
INVARIANTS
  TypeOK
  AtMostOneOpenStop
  OpenStopIsTracked
  OpenStopIsHighest
  NakedIsAlarmed
PROPERTIES
  TrackedPriceOnlyUp
  ImplementsProtectiveStop
