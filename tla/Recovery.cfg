SPECIFICATION McSpec
CONSTANTS
  NoOid = NoOid
  Oids <- McOids
  Prices <- McPrices
  CancelAcks <- NoAcks
  Shortable = FALSE
  MaxQty = 3
  MaxDay = 2
  MaxCrashes = 2
  Tolerance = 1
CHECK_DEADLOCK FALSE
INVARIANTS
  TypeOK
  TrackerCoversPosition
  StartupKeepsStop
  CarriedIsQueued
  AtMostOneOpenStop
PROPERTY NakedIsNoticed
