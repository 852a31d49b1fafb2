SPECIFICATION Spec
CONSTANTS
    Size = 4
    Total = 9
    MaxLen = 3
INVARIANTS
    BufferHoldsStream
    WireIsStream
    WindowHasSpace
CHECK_DEADLOCK FALSE
