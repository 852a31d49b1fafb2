SPECIFICATION FairSpec
CONSTANTS
    Sockets = {s1, s2}
    Items = {i1, i2}
    None = None
    MaxEvents = 1
    QuietDeletes = TRUE
    EarlyEvents = FALSE
INVARIANTS
    RdyIsListed
    WaiterIsSignalled
PROPERTIES
    ReadyIsReturned
