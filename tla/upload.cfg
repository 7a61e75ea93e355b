SPECIFICATION Spec
CONSTANTS
    ChunkSize = 2
    TagSize = 1
    Lengths <- MCLengths
    Hints <- MCHints
    Backends = {"local", "s3", "webdav"}
    Faults = {"start", "backend", "save", "abort", "crash"}
INVARIANTS TypeOK CommitComplete SuccessMeansStored AnnouncedLengthKept
PROPERTIES ImplementsAtomicPut CloseReturns Delivered
CHECK_DEADLOCK FALSE
