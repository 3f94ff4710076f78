CONSTANTS
    MaxVcpus = 2
    Hypercalls = {"clone", "exit", "fork", "block", "fatal"}
    Management = FALSE
    CreateFails = FALSE
SPECIFICATION FairSpec
INVARIANTS TeardownQuiet
PROPERTIES PausedResumes
