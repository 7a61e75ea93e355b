SPECIFICATION Spec
CONSTANTS
    ChunkSize = 2
    TagSize = 1
    Lengths <- MCLengths
    Hints <- MCHints
    Backends = {"local", "s3", "webdav"}
    Faults = {"backend"}
PROPERTY WriterReleased
CHECK_DEADLOCK FALSE
