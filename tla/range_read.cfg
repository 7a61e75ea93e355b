SPECIFICATION Spec
CONSTANTS
    ChunkSize = 3
    TagSize = 1
    MaxSize = 10
    Clients = {"dav", "fuse"}
    Backends = {"local", "s3", "partial", "full"}
    Faults = {"fetch", "cut", "placeholder"}
INVARIANTS TypeOK RangesDecrypt RangeCovered DavReadExact
CHECK_DEADLOCK FALSE
