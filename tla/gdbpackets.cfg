CONSTANTS
    Addrs = {0, 1, 2}
    Unwritable = {2}
    MAX_HW_BREAKPOINTS = 2
    HwTypes = {"HW", "WRITE", "READ", "ACCESS"}
    Sizes = {2}
    Bytes = {"new"}
    Values = {1, 2}
    MaxWrites = 2
    Packets <- MCPackets
    MaxCorrupted = 2
    Documents <- MCDocuments
    Chunks = {1, 2, 4}
    BUFMAX = 3
    MAX_GDB_VFILE_OPEN_FD = 2
    HostFds = {7, 8, 9}
    VContPackets <- MCVContPackets
    Subjects <- MCSubjects
SPECIFICATION Spec
INVARIANTS BreakpointsExact  
PROPERTIES AllAnswered
CHECK_DEADLOCK FALSE
