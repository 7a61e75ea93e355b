SYMMETRY Alike
SPECIFICATION Spec
CONSTANTS
    Paths = {temp, final}
    TempPaths = {temp}
    NoPath = NoPath
    Requests = {r1, r2}
    MaxFH = 3
    MaxShared = 2
    Usages = {TRUE, FALSE}
    Faults = {"remote"}
INVARIANTS TypeOK OnePlace
PROPERTIES RenameArrives LossIsAskedFor
CHECK_DEADLOCK FALSE
