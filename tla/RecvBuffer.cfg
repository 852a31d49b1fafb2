SPECIFICATION FairSpec
CONSTANTS
    Size = 5
    Total = 7
    MaxSegLen = 3
    SeqSpace = 64
    InitSeq = 61
    InitialWnd = 6
INVARIANTS
    FragmentsAreRuns
    AckedIsStored
    AccessInBounds
    WindowFitsBuffer
PROPERTIES
    BlockedRecvWakes
CHECK_DEADLOCK FALSE
