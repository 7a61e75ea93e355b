SPECIFICATION Spec
CONSTANTS
    Operators = {operator}
    Pollers = {page}
    MaxPid = 3
    Faults = {"disk", "spawn", "killed", "reboot"}
INVARIANTS TypeOK 
PROPERTIES MountIsFound  RequestsReturn
CHECK_DEADLOCK FALSE
