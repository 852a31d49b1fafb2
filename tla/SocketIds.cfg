SPECIFICATION Spec
CONSTANTS
    Bits = 8
    Bytes = 2
    Ports = {}
    Backlog = 1
    MaxOpen = 9
    None = None
INVARIANT OneSocketPerId
