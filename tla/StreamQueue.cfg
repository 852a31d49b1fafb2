SPECIFICATION FairSpec
CONSTANTS
    Elem = {s1, s2, s3}
    NULL = NULL
    Capacity = 2
    Producers = {app}
INVARIANTS
    AssertStream
    NoOverrun
PROPERTIES
    ImplementsFifo
    Delivered
