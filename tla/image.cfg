CONSTANTS
    PAGE = 2
    START = 4
    LIMIT = 18
    TOP = 28
    MONITOR = 2
    MAXWRITE = 4
    EHDR = 1
    PHDR = 1
    Programs <- MCPrograms
    Dynlinker <- MCDynlinker
    LowProts = {"r"}
    Vcpus = {0, 1}
    MaxOps = 3
    MaxDumps = 2
SPECIFICATION Spec
INVARIANTS LoadedExact  
CHECK_DEADLOCK FALSE
