SPECIFICATION Spec
CONSTANTS
  NoOid = NoOid
  Unknown = Unknown
  Oids <- McOids
  Ladder <- McLadder
  Prices <- McPrices
  CancelAcks <- NoAcks
  Stop = 1
  MaxQty = 4
  Shortable = FALSE
  Reordered = TRUE
  BrokerQty = TRUE
  Late = FALSE
  Takers <- McTakers
INVARIANTS
  TypeOK
  EachShareRealizedOnce
  TrackerCoversPosition
  ClosedIsFlat
  JournalWithinFills
  OneOwner
