CONSTANTS
    MaxVcpus = 2
    Hypercalls = {"block", "clone", "exit", "exit_group"}
    Management = TRUE
    CreateFails = FALSE
SPECIFICATION FairSpec
PROPERTIES  SnapshotAnswered
