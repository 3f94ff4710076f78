---------------------------- MODULE AddressSpace ----------------------------
(***************************************************************************)
(* What a payload may rely on when it maps memory: the memory calls of     *)
(* mmap(2) on a row of pages, without regions, lists or lazy zeroing.      *)
(* Mmap implements this specification.                                     *)
(***************************************************************************)
EXTENDS Integers, FiniteSets

CONSTANT Pages  \* the pages a payload can map, an interval of integers

VARIABLE space  \* what each page is to the payload

Unmapped == [prot |-> "unmapped", content |-> "unmapped"]
Prots == {"none", "rw"}

\* The content of a page: that of its backing ("zero" for anonymous memory,
\* "file" for a private file mapping), or what the payload wrote over it.
Contents == {"zero", "file", "data", "fdata"}
Backing(c) == CASE c = "data" -> "zero" [] c = "fdata" -> "file" [] OTHER -> c
Written(c) == CASE c = "zero" -> "data" [] c = "file" -> "fdata" [] OTHER -> c

Ranges == {a .. b : a, b \in Pages} \ {{}}
First(R) == CHOOSE p \in R : \A q \in R : p <= q
Mapped == {R \in Ranges : \A p \in R : space[p] # Unmapped}
Free == {R \in Ranges : \A p \in R : space[p] = Unmapped}

Init == space = [p \in Pages |-> Unmapped]

\* The pages of the range R become f(p), the others stay.
Set(R, f(_)) ==
    /\ \A p \in Pages : space'[p] = IF p \in R THEN f(p) ELSE space[p]
    /\ space' = [p \in Pages |-> space'[p]]

\* mmap of free pages and the growth of a mapping in place, and mmap with
\* MAP_FIXED over pages that are mapped.
Map(R, prot, content) == Set(R, LAMBDA p : [prot |-> prot, content |-> content])

Unmap(R) == Set(R, LAMBDA p : Unmapped)

Protect(R, prot) == Set(R, LAMBDA p : [space[p] EXCEPT !.prot = prot])

\* madvise(MADV_DONTNEED)
Discard(R) == Set(R, LAMBDA p : [space[p] EXCEPT !.content = Backing(@)])

\* mremap that grows the anonymous mapping of R and moves it to Q.
Move(R, Q) ==
    LET from(q) == First(R) + (q - First(Q))
    IN /\ Cardinality(R) < Cardinality(Q)
       /\ \A p \in R : Backing(space[p].content) = "zero"
       /\ Set(R \cup Q, LAMBDA p : IF p \in R THEN Unmapped
                                  ELSE IF from(p) \in R THEN space[from(p)]
                                  ELSE [prot |-> space[First(R)].prot, content |-> "zero"])

\* A store by the payload.
Write(p) ==
    /\ space[p].prot = "rw"
    /\ space' = [space EXCEPT ![p].content = Written(@)]

Next ==
    \/ \E p \in Pages : Write(p)
    \/ \E R \in Mapped : Discard(R) \/ \E prot \in Prots : Protect(R, prot)
    \/ \E R \in Ranges : Unmap(R)
    \/ \E R \in Free \cup Mapped, prot \in Prots, content \in {"zero", "file"} : Map(R, prot, content)
    \/ \E R \in Mapped, Q \in Free : Move(R, Q)

Spec == Init /\ [][Next]_space
=============================================================================
