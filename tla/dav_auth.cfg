SPECIFICATION Spec
CONSTANTS
    Clients = {upload, delete}
    Uploaders = {upload}
    NoClient = NoClient
    Servers <- AllServers
    MaxNonce = 2
    Usages = {TRUE, FALSE}
    Faults = {"network", "expiry", "refusal"}
INVARIANTS TypeOK WholeOrNothing FailedLeavesNothing
PROPERTIES WarmUpWorks RequestsEnd
CHECK_DEADLOCK FALSE
