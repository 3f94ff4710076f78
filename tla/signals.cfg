CONSTANTS
    v1 = v1
    v2 = v2
    Vcpus = {v1, v2}
    VM = VM
    Signals = {11, 34}
    perror_signals = {11}
    ign_block_signals = {11}
    def_ign_signals = {}
    SIGRTMIN = 34
    NSIGENTRY = 2
    Masks = {{34}}
    Acts <- OneShot
    Calls <- WaitAndHandle
    MaxPosts = 2
SPECIFICATION Spec
INVARIANTS SignalsConserved QueuesOk HandlersNest
CHECK_DEADLOCK FALSE
