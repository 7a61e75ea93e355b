SPECIFICATION Spec
CONSTANTS
    ChunkSize = 3
    TagSize = 1
    MaxSize = 10
    Clients = {"fuse"}
    Backends = {"local"}
    Faults = {}
INVARIANT ReadAligned
CHECK_DEADLOCK FALSE
