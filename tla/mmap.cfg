CONSTANTS
    Top = 5
    Protections = {"none", "rw"}
    FileProts = {"rw"}
    FixedKinds = {"anon"}
    Calls = {"mmap", "mmap_fixed", "munmap", "mprotect", "madvise", "mremap", "write"}
SPECIFICATION MCSpec
INVARIANTS ListsExact ContiguousExact 
 
CHECK_DEADLOCK FALSE
