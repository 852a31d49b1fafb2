SPECIFICATION Spec
CONSTANTS
    Size = 4
    Total = 6
    MaxSegLen = 2
    SeqSpace = 32
    InitSeq = 29
    InitialWnd = 5
INVARIANTS
    DeliveredInOrder
CHECK_DEADLOCK FALSE
