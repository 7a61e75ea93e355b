SPECIFICATION Spec
CONSTANTS
    SrcPaths <- MCSrcPaths
    DstPaths <- MCDstPaths
    ExportRoots <- MCExportRoots
    ShareKeys = {"key1", "key2"}
    MaxNames = 3
    MaxExports = 1
    Faults = {"disk", "crash", "rekey"}
INVARIANTS TypeOK NothingInvented OnlyWholePackages
PROPERTIES ExportComplete ImportComplete
CHECK_DEADLOCK FALSE
