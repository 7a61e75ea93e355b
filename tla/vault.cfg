SPECIFICATION Spec
CONSTANTS
    Procs = {r1, r2}
    FilePaths <- OneFileEach
    Usages <- AllUsages
    MaxUploads = 2
    MaxDepth = 3
INVARIANTS TypeOK UniqueOwner 
PROPERTIES RemovesInTurn AckedPutVisible
SYMMETRY Requests
CHECK_DEADLOCK FALSE
