SPECIFICATION Spec
CONSTANTS
    MaxKeys = 4
    Faults = {"rekey", "overlap", "crash", "readonly", "noline", "placeholder"}
INVARIANTS TypeOK OneKey KeyInUseKept
PROPERTY ServesWhatItHolds
CHECK_DEADLOCK FALSE
