CONSTANTS
    MaxVcpus = 2
    Hypercalls = {"block", "clone", "exit", "exit_group", "snapshot"}
    Management = FALSE
    CreateFails = TRUE
SPECIFICATION Spec
INVARIANTS StopTheWorld 
