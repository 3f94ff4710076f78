CONSTANTS
    MaxVcpus = 3
    Hypercalls = {"clone", "exit", "exit_group"}
    Management = FALSE
    CreateFails = FALSE
SPECIFICATION Spec
INVARIANTS NewVcpuExclusive Inv
