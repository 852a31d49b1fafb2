SPECIFICATION Spec
CONSTANTS
    Streams = {s1, s2}
    Hash = 2
    Every = 1
    Thresh = 2
    MaxRto = 2
    Timewait = 1
    Timeout = 1
    MaxTs = 2
INVARIANTS
    IdxIsSlot
    OneTimerLink
    NoneOverdue
