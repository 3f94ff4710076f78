CONSTANTS
    N = 2
    Addrs = {"a"}
    MaxExits = 2
    Scenarios <- MCScenarios
SPECIFICATION Spec
INVARIANTS Announced  SessionOk
PROPERTIES StopReplyOwed InterruptAnswered PayloadAttended
CHECK_DEADLOCK FALSE
