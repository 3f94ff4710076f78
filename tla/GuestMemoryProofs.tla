-------------------------- MODULE GuestMemoryProofs --------------------------
(* The memory above machine.tbrk is what mmap() has handed out, for every      *)
(* geometry of the address space and all arguments.                            *)
EXTENDS GuestMemory, Integers, TLAPS

TopInv == tbrk \in Int /\ TopOwned

\* The top of guest memory is a number.
LEMMA TopIsInt == GUEST_MEM_TOP_VA \in Int
  BY Geometry, SMTT(30) DEF GUEST_MEM_TOP_VA, GUEST_MEM_START_VA

\* km_mem_tbrk pays for each byte that it moves tbrk, and for none when there
\* is no memory or its loop runs off.
LEMMA TbrkStep ==
    ASSUME TopInv, NEW t \in Tbrks, km_mem_tbrk(t)
    PROVE  TopInv'
<1>1. t \in Int
  BY Arguments
<1>2. CASE UNCHANGED <<tbrk, owned>>
  BY <1>2 DEF TopInv, TopOwned, GUEST_MEM_TOP_VA, GUEST_MEM_START_VA
<1>3. ASSUME NEW new, NEW got, NEW freed, MoveTbrk(t, new, got, freed), new = t \/ new = tbrk
      PROVE  TopInv'
  <2>1. tbrk' = new /\ owned' = IF new = t THEN owned + tbrk - t ELSE owned
    BY <1>3 DEF MoveTbrk
  <2>2. GUEST_MEM_TOP_VA' = GUEST_MEM_TOP_VA
    BY DEF GUEST_MEM_TOP_VA, GUEST_MEM_START_VA
  <2>3. QED
    BY <1>1, <1>3, <2>1, <2>2, TopIsInt, SMTT(30) DEF TopInv, TopOwned
<1>4. \/ UNCHANGED <<tbrk, owned>>
      \/ \E new, got, freed : MoveTbrk(t, new, got, freed) /\ (new = t \/ new = tbrk)
  BY ZenonT(60) DEF km_mem_tbrk
<1>5. QED
  BY <1>2, <1>3, <1>4, ZenonT(30)

\* The bytes that callers of mmap() were given are those above machine.tbrk:
\* whatever regions could not be allocated, no byte is handed out twice and
\* none is lost.  A call that asks for all of a zone is the exception
\* (WholeZone).
THEOREM TopOwnedCorrect ==
    ASSUME ~WholeZone
    PROVE  Spec => []TopOwned
<1>1. Init => TopInv
  BY TopIsInt, SMTT(30) DEF Init, km_mem_init, TopInv, TopOwned
<1>2. TopInv /\ [Next]_vars => TopInv'
  <2> SUFFICES ASSUME TopInv, [Next]_vars PROVE TopInv'
    OBVIOUS
  <2>1. ASSUME NEW b \in Brks, km_mem_brk(b) PROVE TopInv'
    <3>1. tbrk' = tbrk /\ owned' = owned
      BY <2>1, ZenonT(30) DEF km_mem_brk
    <3>2. QED
      BY <3>1 DEF TopInv, TopOwned, GUEST_MEM_TOP_VA, GUEST_MEM_START_VA
  <2>2. ASSUME NEW t \in Tbrks, t # 0, mmap_fresh(t) PROVE TopInv'
    BY <2>2, TbrkStep, ZenonT(30) DEF mmap_fresh
  <2>3. ASSUME NEW t \in Tbrks, munmap_lowest(t) PROVE TopInv'
    BY <2>3, TbrkStep, ZenonT(30) DEF munmap_lowest
  <2>4. CASE UNCHANGED vars
    BY <2>4, ZenonT(30) DEF vars, TopInv, TopOwned, GUEST_MEM_TOP_VA, GUEST_MEM_START_VA
  <2>5. QED
    BY <2>1, <2>2, <2>3, <2>4, ZenonT(30) DEF Next
<1>3. TopInv => TopOwned
  BY DEF TopInv
<1>4. QED
  BY <1>1, <1>2, <1>3, PTL DEF Spec

=============================================================================
