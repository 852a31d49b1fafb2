SPECIFICATION Spec
CONSTANTS
    Bits = 3
    Bytes = 2
    Ports = {p1, p2}
    Backlog = 2
    MaxOpen = 4
    None = None
INVARIANT AcceptIsSignalled
PROPERTY FreshUnlessNegative
