SPECIFICATION Spec
CONSTANTS
    Procs = {r1, r2}
    FilePaths <- OneFileEach
    Usages <- DeleteUsage
    MaxUploads = 2
    MaxDepth = 3
PROPERTY RemovalsAreAskedFor
CHECK_DEADLOCK FALSE
