SPECIFICATION Spec
CONSTANTS
  NoOid = NoOid
  Unknown = Unknown
  Oids <- McOids
  Ladder <- McLadder
  Prices <- McPrices
  CancelAcks <- NoAcks
  Stop = 1
  MaxQty = 3
  Shortable = FALSE
  Reordered = FALSE
  BrokerQty = TRUE
  Late = FALSE
  Takers <- McTakers
INVARIANT ClosedIsRealized
