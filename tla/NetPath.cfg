SPECIFICATION FairSpec
CONSTANTS
    Hosts = {h1, h2}
    Cached = {h2}
    Kinds = {"syn", "seg", "rst", "udp"}
    Dests <- MCDests
    MaxInput = 4
    None = None
INVARIANTS
    OneEntryPerHost
    NullOnlyForCached
    FramesAreAddressed
PROPERTIES
    ReplyUnblocksHead
    BufferDrains
CHECK_DEADLOCK FALSE
