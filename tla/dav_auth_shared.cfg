SPECIFICATION Spec
CONSTANTS
    Clients = {upload, delete}
    Uploaders = {upload}
    NoClient = NoClient
    Servers <- TwoSchemes
    MaxNonce = 1
    Usages = {FALSE}
    Faults = {}
INVARIANTS SeparateInstances
CHECK_DEADLOCK FALSE
