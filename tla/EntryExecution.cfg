SPECIFICATION Spec
CONSTANTS
    Qty = 2
    MaxPolls = 2
    Checks = 2
    MaxEntries = 2
INVARIANTS
    TypeOK
    LiveIsOwned
    KnownFillsAreTracked
    NoPhantom
    LastCheckReconciles
CHECK_DEADLOCK FALSE
