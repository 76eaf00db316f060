SPECIFICATION FairSpec
CONSTANTS
  NoOid = NoOid
  Unknown = Unknown
  Oids <- McOids
  Ladder <- McLadder
  Prices <- McPrices
  CancelAcks <- NoAcks
  Stop = 1
  MaxQty = 3
  Shortable = FALSE
  Reordered = TRUE
  BrokerQty = FALSE
  Late = TRUE
  Takers <- McAllTakers
PROPERTY FlatIsNoticed
