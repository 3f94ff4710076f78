---------------------------- MODULE GuestMemory ----------------------------
(***************************************************************************)
(* Guest memory as km_mem.c and km_mem.h manage it: machine.brk grows from *)
(* the bottom, machine.tbrk from the top, both backed by regions of guest  *)
(* physical memory whose sizes double up to the middle and halve after it, *)
(* and made visible to the payload by page tables of 2 MiB pages in the    *)
(* first and last GiB and 1 GiB pages in between.                          *)
(*                                                                         *)
(* Sizes are scaled down: a GiB holds GIB \div PDE_REGION large pages, the *)
(* address space PML4E_REGION \div GIB GiBs.  The machine is a KVM one     *)
(* (KKM keeps its own page tables) built without KM_HIGH_GVA.              *)
(***************************************************************************)
EXTENDS Naturals, FiniteSets, FiniteSetsExt

CONSTANTS KM_PAGE_SIZE, MIB, GIB, PML4E_REGION,
          Widths,     \* sizes of guest physical memory a processor may offer
          Asked,      \* sizes the -P option may ask for, 0 if it is absent
          VdsoPages,  \* pages of [vvar] and [vdso] the kernel may have, 0 if not found
          Brks,       \* arguments of brk()
          Tbrks,      \* where mmap() or munmap() want tbrk
          WholeZone   \* whether mmap() may ask for exactly all of a zone

VARIABLES phys,       \* machine.guest_max_physmem
          mid_mem_idx, \* the last region of the lower half
          pdpe1g,     \* machine.pdpe1g
          vdso,       \* pages of [vvar] and [vdso] in the guest
          brk, tbrk,
          regs,       \* allocated regions, each plugged into KVM
          pt,         \* the page tables pdpt0, pd0, pd2 and pt1
          rw,         \* host pages below brk's half that are read-write
          owned,      \* bytes below TOP that callers of mmap() were given
          failed      \* the call whose assertion failed, or <<>>
vars == <<phys, mid_mem_idx, pdpe1g, vdso, brk, tbrk, regs, pt, rw, owned, failed>>

PDE_REGION == 2 * MIB
GUEST_MEM_START_VA == 2 * MIB
GUEST_MEM_TOP_VA == PML4E_REGION - GUEST_MEM_START_VA
GUEST_VA_OFFSET == GUEST_MEM_TOP_VA + GUEST_MEM_START_VA - phys
GUEST_PRIVATE_MEM_START_VA == PML4E_REGION
\* [vvar], [vdso] and then the monitor's code in the guest, at the very end of
\* the physical memory that can be supported.
PRIVATE_GPA == PML4E_REGION - MIB
KMGUEST_PAGE == MIB \div (2 * KM_PAGE_SIZE)

ASSUME Geometry ==
    /\ {KM_PAGE_SIZE, MIB, GIB, PML4E_REGION} \subseteq Nat \ {0}
    /\ MIB % KM_PAGE_SIZE = 0 /\ GIB % PDE_REGION = 0 /\ PML4E_REGION % GIB = 0
    /\ GIB \div PDE_REGION = PML4E_REGION \div GIB
ASSUME Arguments == Brks \cup Tbrks \subseteq Nat /\ WholeZone \in BOOLEAN

RoundDown(a, n) == n * (a \div n)
RoundUp(a, n) == RoundDown(a + n - 1, n)
MinOf(a, b) == IF a < b THEN a ELSE b
MaxOf(a, b) == IF a < b THEN b ELSE a
Multiples(lo, hi, n) == {n * k : k \in RoundUp(lo, n) \div n .. (hi - 1) \div n}
PagesOf(lo, hi) == IF lo < hi THEN Multiples(lo, hi, KM_PAGE_SIZE) ELSE {}

-----------------------------------------------------------------------------
(* Regions and addresses *)

MEM_IDX(a) == CHOOSE i \in 0 .. PML4E_REGION : MIB * 2^i <= a /\ a < MIB * 2^(i + 1)
guest_mid_physmem == phys \div 2
last_mem_idx == 2 * mid_mem_idx + 1
Indices == 1 .. last_mem_idx - 1

gva_to_gpa_nocheck(gva) == IF gva > GUEST_VA_OFFSET THEN gva - GUEST_VA_OFFSET ELSE gva
gva_to_memreg_idx(gva) ==
    LET a == gva_to_gpa_nocheck(gva)
    IN  IF a > guest_mid_physmem THEN last_mem_idx - MEM_IDX(phys - a - 1) ELSE MEM_IDX(a)

LowTop(i) == 2 * MIB * 2^i
memreg_base(i) == IF i <= mid_mem_idx THEN MIB * 2^i ELSE phys - LowTop(last_mem_idx - i)
memreg_top(i) == IF i <= mid_mem_idx THEN LowTop(i) ELSE phys - MIB * 2^(last_mem_idx - i)
memreg_size(i) == IF i <= mid_mem_idx THEN MIB * 2^i ELSE MIB * 2^(last_mem_idx - i)

PDE_SLOT(a) == (a % GIB) \div PDE_REGION
PDPTE_SLOT(a) == (a % PML4E_REGION) \div GIB
Slots == 0 .. PML4E_REGION \div GIB - 1
MAX_PDE_SLOT == PDE_SLOT(GUEST_MEM_TOP_VA)
MAX_PDPTE_SLOT == PDPTE_SLOT(GUEST_MEM_TOP_VA)

-----------------------------------------------------------------------------
(* Page tables.  An entry has its present bit and a frame, or none; the     *)
(* first and the last entry of pdpt0 point to pd0 and pd2.                  *)

NoFrame == PML4E_REGION
Entry(p, frame) == [p |-> p, frame |-> frame]
Empty == Entry(FALSE, NoFrame)

init_pml4 ==
    [pdpt0 |-> [s \in Slots |-> Entry(s \in {0, MAX_PDE_SLOT}, NoFrame)],
     pd0 |-> [s \in Slots |-> Empty],
     pd2 |-> [s \in Slots |-> Empty],
     pt1 |-> [s \in 0 .. 2 * KMGUEST_PAGE - 1 |-> Empty]]

\* Pages of the monitor, n from the private page first on, that the payload
\* finds above its own addresses.
InPt1(t, first, n) ==
    [t EXCEPT !.pt1 = [s \in DOMAIN @ |-> IF s \in first .. first + n - 1
                                          THEN Entry(TRUE, PRIVATE_GPA + s * KM_PAGE_SIZE) ELSE @[s]]]
km_add_vvar_vdso_to_guest_address_space(t, n) == InPt1(t, 0, n)
km_add_code_to_guest_address_space(t) == InPt1(t, KMGUEST_PAGE, 1)

\* The entries that cover region i: its chunks of n bytes, by slot.
Gva(gpa, upper) == IF upper THEN gpa + GUEST_VA_OFFSET ELSE gpa
Chunks(i, n) == Multiples(memreg_base(i), memreg_top(i), n)
SmallRegions(I) == {i \in I : memreg_size(i) < GIB}

\* set_pml4_hierarchy of the regions I: frames are set, present bits are not.
set_pml4_hierarchy(t, I, upper) ==
    LET small == UNION {Chunks(i, PDE_REGION) : i \in SmallRegions(I)}
        large == UNION {Chunks(i, GIB) : i \in I \ SmallRegions(I)}
        pd == IF upper THEN "pd2" ELSE "pd0"
    IN  [t EXCEPT ![pd] = [s \in Slots |-> IF \E a \in small : PDE_SLOT(a) = s
                              THEN Entry(@[s].p, CHOOSE a \in small : PDE_SLOT(a) = s) ELSE @[s]],
                  !.pdpt0 = [s \in Slots |-> IF \E a \in large : PDPTE_SLOT(Gva(a, upper)) = s
                              THEN Entry(@[s].p, CHOOSE a \in large : PDPTE_SLOT(Gva(a, upper)) = s)
                              ELSE @[s]]]
clear_pml4_hierarchy(t, I, upper) ==
    LET small == UNION {Chunks(i, PDE_REGION) : i \in SmallRegions(I)}
        large == UNION {Chunks(i, GIB) : i \in I \ SmallRegions(I)}
        pd == IF upper THEN "pd2" ELSE "pd0"
    IN  [t EXCEPT ![pd] = [s \in Slots |-> IF \E a \in small : PDE_SLOT(a) = s THEN Empty ELSE @[s]],
                  !.pdpt0 = [s \in Slots |-> IF \E a \in large : PDPTE_SLOT(Gva(a, upper)) = s
                                             THEN Empty ELSE @[s]]]

Present(table, S, p) == [s \in Slots |-> IF s \in S THEN Entry(p, table[s].frame) ELSE table[s]]

\* fixup_bottom_page_tables: present bits follow brk.
fixup_bottom_page_tables(t, old, new) ==
    LET old2m == MaxOf(1, PDE_SLOT(old - 1))   new2m == MaxOf(1, PDE_SLOT(new - 1))
        old1g == PDPTE_SLOT(old - 1)           new1g == PDPTE_SLOT(new - 1)
    IN  IF new > old
        THEN [t EXCEPT !.pd0 = Present(@, IF old1g # 0 THEN {}
                                          ELSE old2m .. (IF new1g = 0 THEN new2m ELSE MAX_PDE_SLOT), TRUE),
                       !.pdpt0 = Present(@, IF new1g = 0 THEN {} ELSE MaxOf(1, old1g) .. new1g, TRUE)]
        ELSE [t EXCEPT !.pdpt0 = Present(@, IF old1g = 0 THEN {} ELSE new1g + 1 .. old1g, FALSE),
                       !.pd0 = Present(@, IF new1g # 0 THEN {}
                                          ELSE new2m + 1 .. (IF old1g = 0 THEN old2m ELSE MAX_PDE_SLOT), FALSE)]

\* Mutant of fixup_top_page_tables: the first slot of the last GiB is forgotten.
fixup_top_page_tablesMutant(t, old, new) ==
    LET old2m == PDE_SLOT(old)     new2m == PDE_SLOT(new)
        old1g == PDPTE_SLOT(old)   new1g == PDPTE_SLOT(new)
        last == MAX_PDPTE_SLOT
    IN  IF new < old
        THEN [t EXCEPT !.pd2 = Present(@, IF old1g # last THEN {}
                                          ELSE (IF new1g = last THEN new2m ELSE 1) .. old2m, TRUE),
                       !.pdpt0 = Present(@, IF new1g = last THEN {} ELSE new1g .. old1g, TRUE)]
        ELSE [t EXCEPT !.pdpt0 = Present(@, {s \in Slots : old1g <= s /\ s < new1g}, FALSE),
                       !.pd2 = Present(@, {s \in Slots : /\ new1g = last /\ s < new2m
                                                         /\ s >= IF old1g = last THEN 0 ELSE old2m}, FALSE)]

\* fixup_top_page_tables: present bits follow tbrk.  When tbrk goes up to the
\* last GiB from below, entries are cleared from the slot that old tbrk has in
\* its own GiB on.
fixup_top_page_tables(t, old, new) ==
    LET old2m == PDE_SLOT(old)     new2m == PDE_SLOT(new)
        old1g == PDPTE_SLOT(old)   new1g == PDPTE_SLOT(new)
        last == MAX_PDPTE_SLOT
    IN  IF new < old
        THEN [t EXCEPT !.pd2 = Present(@, IF old1g # last THEN {}
                                          ELSE (IF new1g = last THEN new2m ELSE 0) .. old2m, TRUE),
                       !.pdpt0 = Present(@, IF new1g = last THEN {} ELSE new1g .. old1g, TRUE)]
        ELSE [t EXCEPT !.pdpt0 = Present(@, {s \in Slots : old1g <= s /\ s < new1g}, FALSE),
                       !.pd2 = Present(@, {s \in Slots : /\ new1g = last /\ s < new2m
                                                         /\ s >= IF old1g = last THEN 0 ELSE old2m}, FALSE)]

\* What the processor makes of gva (external): a guest physical address or NoFrame.
Walk(t, gva) ==
    LET s == PDPTE_SLOT(gva)
        small == IF s = 0 THEN t.pd0 ELSE t.pd2
        e == IF s \in {0, MAX_PDPTE_SLOT} THEN small[PDE_SLOT(gva)] ELSE t.pdpt0[s]
        page == (gva - GUEST_PRIVATE_MEM_START_VA) \div KM_PAGE_SIZE
    IN  IF gva >= GUEST_PRIVATE_MEM_START_VA
        THEN IF t.pt1[page].p THEN t.pt1[page].frame + (gva % KM_PAGE_SIZE) ELSE NoFrame
        ELSE IF t.pdpt0[s].p /\ e.p /\ e.frame # NoFrame
        THEN e.frame + (gva % (IF s \in {0, MAX_PDPTE_SLOT} THEN PDE_REGION ELSE GIB))
        ELSE NoFrame

-----------------------------------------------------------------------------
(* Operations *)

\* km_machine_setup: how much physical memory the guest has.
Physmem(width, oneg, asked) ==
    LET supported == MinOf(width, PML4E_REGION)
        most == IF oneg THEN supported ELSE MinOf(2 * GIB, supported)
    IN  IF asked = 0 THEN {most} ELSE {p \in {asked} : p <= most}

\* km_mem_init.  KVM refuses regions that overlap, so [vdso] must fit before
\* the monitor's code.
km_mem_init ==
    /\ brk = GUEST_MEM_START_VA /\ tbrk = GUEST_MEM_TOP_VA
    /\ mid_mem_idx = MEM_IDX(guest_mid_physmem - 1)
    /\ vdso \in {n \in VdsoPages : n <= KMGUEST_PAGE}
    /\ pt = km_add_code_to_guest_address_space(km_add_vvar_vdso_to_guest_address_space(init_pml4, vdso))
    /\ regs = {} /\ rw = {} /\ owned = 0

Init ==
    /\ pdpe1g \in BOOLEAN
    /\ \E w \in Widths, a \in Asked : phys \in Physmem(w, pdpe1g, a)
    /\ km_mem_init
    /\ failed = <<>>

GibOf(a) == RoundDown(gva_to_gpa_nocheck(a), GIB)
InRegs(I, a) == \E i \in I : memreg_base(i) <= gva_to_gpa_nocheck(a) /\ gva_to_gpa_nocheck(a) < memreg_top(i)

\* mprotect() of host memory stops at the first page that is not mapped.
Reached(I, lo, hi) ==
    LET pages == PagesOf(lo, hi)
        holes == {p \in pages : ~InRegs(I, p)}
    IN  {p \in pages : \A q \in holes : p < q}

\* km_alloc_region asserts that memory in 1 GiB pages can be mapped.
Mappable(i) == pdpe1g \/ memreg_base(i) < GIB \/ memreg_base(i) >= phys - GIB

\* km_mem_brk: at most one allocation fails, of region stop; what was
\* allocated before it is released again.  Arguments that are refused change
\* nothing.
AllocatedBelow(need, stop) == {i \in need : i < stop}
\* Mutant of FreedLow: one region too few is given back.
FreedLowMutant(i, tbrk_idx) == i + 1 < tbrk_idx

FreedLow(i, tbrk_idx) == i < tbrk_idx

\* The host protection of what lies between the old and the new brk.
Reprotected(open, I, oldpage, newpage) ==
    (open \cup Reached(I, oldpage, newpage)) \ Reached(I, newpage, oldpage)
km_mem_brk(b) ==
    /\ b < phys
    /\ IF b < GUEST_MEM_START_VA
       THEN failed' = <<"brk", b>> /\ UNCHANGED <<brk, regs, pt, rw>>
       ELSE
       /\ GibOf(b) < GibOf(tbrk)
       /\ LET cur == gva_to_memreg_idx(brk - 1)
              need == {i \in Indices : cur < i /\ memreg_top(i - 1) < b}
              tbrk_idx == gva_to_memreg_idx(tbrk)
          IN  \E stop \in (need \ regs) \cup {last_mem_idx} :
              LET got == AllocatedBelow(need, stop)
                  new == IF stop = last_mem_idx THEN b ELSE brk
                  freed == {i \in 1 .. Max({cur} \cup got) :
                               gva_to_memreg_idx(new - 1) < i /\ FreedLow(i, tbrk_idx)}
                  left == (regs \cup got) \ freed
                  t1 == set_pml4_hierarchy(pt, got, FALSE)
                  t2 == clear_pml4_hierarchy(t1, freed, FALSE)
              IN  /\ regs' = left
                  /\ brk' = new
                  /\ pt' = fixup_bottom_page_tables(t2, brk, new)
                  /\ rw' = Reprotected({p \in rw : InRegs(left, p)}, left,
                                       RoundUp(brk, KM_PAGE_SIZE), RoundUp(new, KM_PAGE_SIZE))
                  /\ failed' = IF freed \subseteq regs \cup got /\ \A i \in got \ regs : Mappable(i)
                               THEN <<>> ELSE <<"brk", b>>
    /\ UNCHANGED <<phys, mid_mem_idx, pdpe1g, vdso, tbrk, owned>>

\* km_mem_tbrk.  Its loop runs off the low end when it is asked for exactly
\* GUEST_VA_OFFSET, which gva_to_gpa takes for an address of the bottom zone.
FreedHigh(i, brk_idx) == i > brk_idx

\* Mutant of MoveTbrk: in the GiB of tbrk the page tables follow the address asked
\* for, not the one that was reached.
MoveTbrkMutant(t, new, got, freed) ==
    /\ regs' = (regs \cup got) \ freed
    /\ tbrk' = new
    /\ pt' = fixup_top_page_tables(
                 clear_pml4_hierarchy(set_pml4_hierarchy(pt, got, TRUE), freed, TRUE), tbrk,
                 IF PDPTE_SLOT(t) = PDPTE_SLOT(tbrk) THEN t ELSE new)
    /\ rw' = {p \in rw : InRegs(regs', p)}
    /\ owned' = IF new = t THEN owned + tbrk - t ELSE owned
    /\ failed' = IF freed \subseteq regs \cup got /\ \A i \in got \ regs : Mappable(i)
                 THEN <<>> ELSE <<"tbrk", t>>

\* Mutant of MoveTbrk: tbrk moves although there is no memory.
MoveTbrkMutant2(t, new, got, freed) ==
    /\ regs' = (regs \cup got) \ freed
    /\ tbrk' = t
    /\ pt' = fixup_top_page_tables(
                 clear_pml4_hierarchy(set_pml4_hierarchy(pt, got, TRUE), freed, TRUE), tbrk, t)
    /\ rw' = {p \in rw : InRegs(regs', p)}
    /\ owned' = IF new = t THEN owned + tbrk - t ELSE owned
    /\ failed' = IF freed \subseteq regs \cup got /\ \A i \in got \ regs : Mappable(i)
                 THEN <<>> ELSE <<"tbrk", t>>

\* The end of km_mem_tbrk(t), which takes tbrk to new: t or, when there is no
\* memory, where it was.
MoveTbrk(t, new, got, freed) ==
    /\ regs' = (regs \cup got) \ freed
    /\ tbrk' = new
    /\ pt' = fixup_top_page_tables(
                 clear_pml4_hierarchy(set_pml4_hierarchy(pt, got, TRUE), freed, TRUE), tbrk, new)
    /\ rw' = {p \in rw : InRegs(regs', p)}
    /\ owned' = IF new = t THEN owned + tbrk - t ELSE owned
    /\ failed' = IF freed \subseteq regs \cup got /\ \A i \in got \ regs : Mappable(i)
                 THEN <<>> ELSE <<"tbrk", t>>
km_mem_tbrk(t) ==
    /\ t <= GUEST_MEM_TOP_VA /\ t >= GUEST_VA_OFFSET
    /\ GibOf(brk) < GibOf(t)
    /\ LET cur == gva_to_memreg_idx(tbrk)
           need == {i \in Indices : i < cur /\ memreg_base(i + 1) + GUEST_VA_OFFSET > t}
           brk_idx == gva_to_memreg_idx(brk - 1)
       IN  \E stop \in (need \ regs) \cup {0} :
           LET got == {i \in need : i > stop}
               new == IF stop = 0 THEN t ELSE tbrk
               freed == {i \in Min({cur} \cup got) .. last_mem_idx :
                            i < gva_to_memreg_idx(new) /\ FreedHigh(i, brk_idx)}
           IN  IF stop = 0 /\ t = GUEST_VA_OFFSET
               THEN failed' = <<"tbrk", t>> /\ UNCHANGED <<tbrk, regs, pt, rw, owned>>
               ELSE MoveTbrk(t, new, got, freed)
    /\ UNCHANGED <<phys, mid_mem_idx, pdpe1g, vdso, brk>>

\* km_mmap_add_region takes fresh memory from below tbrk, here so much that
\* tbrk gets to t.  For t = 0 km_mem_tbrk is a query: it answers machine.tbrk,
\* which the caller passes on as the address of its new memory.
mmap_fresh(t) ==
    IF t = 0
    THEN owned' = owned + tbrk /\ UNCHANGED <<phys, mid_mem_idx, pdpe1g, vdso, brk, tbrk, regs, pt, rw, failed>>
    ELSE t < tbrk /\ km_mem_tbrk(t)

\* km_mmap_insert_free gives the lowest memory back.
munmap_lowest(t) == t > tbrk /\ km_mem_tbrk(t)

Next == /\ failed = <<>>
        /\ \/ \E b \in Brks : km_mem_brk(b)
           \/ \E t \in {x \in Tbrks : WholeZone \/ x \notin {0, GUEST_VA_OFFSET}} : mmap_fresh(t)
           \/ \E t \in Tbrks : munmap_lowest(t)
Spec == Init /\ [][Next]_vars

-----------------------------------------------------------------------------
(* The monitor's view of an address *)

km_vdso_gva(gva) ==
    /\ gva >= GUEST_PRIVATE_MEM_START_VA
    /\ gva < GUEST_PRIVATE_MEM_START_VA + vdso * KM_PAGE_SIZE
km_guestmem_gva(gva) ==
    (gva - GUEST_PRIVATE_MEM_START_VA) \div KM_PAGE_SIZE = KMGUEST_PAGE

\* An address in KM: in its copy of [vvar] and [vdso], in its own code, or in
\* guest memory, which lies in KM at its physical address.
km_gva_to_kma_nocheck(gva) ==
    CASE km_vdso_gva(gva) -> <<"vdso", gva - GUEST_PRIVATE_MEM_START_VA>>
      [] km_guestmem_gva(gva) ->
            <<"km_guest", gva - GUEST_PRIVATE_MEM_START_VA - KMGUEST_PAGE * KM_PAGE_SIZE>>
      [] OTHER -> <<"guest", gva_to_gpa_nocheck(gva)>>
Null == <<>>
km_gva_to_kma(gva) ==
    IF \/ gva < GUEST_MEM_START_VA \/ gva >= GUEST_MEM_TOP_VA
       \/ /\ RoundUp(brk, KM_PAGE_SIZE) <= gva /\ gva < RoundDown(tbrk, KM_PAGE_SIZE)
          /\ ~km_vdso_gva(gva) /\ ~km_guestmem_gva(gva)
    THEN Null ELSE km_gva_to_kma_nocheck(gva)

-----------------------------------------------------------------------------
(* Properties *)

\* The state keeps its types: brk and tbrk stay in the address space, regions
\* have indices between the reserved first and last 2 MiB.
TypeOK ==
    /\ phys \in Nat /\ pdpe1g \in BOOLEAN /\ vdso \in 0 .. KMGUEST_PAGE
    /\ brk \in GUEST_MEM_START_VA .. phys - 1 /\ tbrk \in GUEST_VA_OFFSET .. GUEST_MEM_TOP_VA
    /\ regs \subseteq Indices
    /\ DOMAIN pt = {"pdpt0", "pd0", "pd2", "pt1"}
    /\ \A d \in {"pdpt0", "pd0", "pd2"} : pt[d] \in [Slots -> [p : BOOLEAN, frame : 0 .. NoFrame]]
    /\ rw \subseteq Multiples(0, phys, KM_PAGE_SIZE)
    /\ owned \in Nat /\ failed \in {<<>>} \cup ({"brk"} \X Brks) \cup ({"tbrk"} \X Nat)

\* Large pages: nothing smaller differs in how it is translated.
LargePages(lo, hi) == Multiples(RoundDown(lo, PDE_REGION), hi, PDE_REGION)
AllLargePages == LargePages(0, PML4E_REGION)
Low == LargePages(GUEST_MEM_START_VA, brk)
High == LargePages(tbrk, GUEST_MEM_TOP_VA)
Private == PagesOf(GUEST_PRIVATE_MEM_START_VA, GUEST_PRIVATE_MEM_START_VA + MIB)

\* Whatever the order of brk(), mmap() and munmap(): each page from the start of
\* memory to brk, and from tbrk to the top, is translated by the payload's page
\* tables to its own place in allocated physical memory, and the host lets the
\* payload write what is below brk.
GuestSeesMemory ==
    failed = <<>> =>
        /\ \A a \in Low : Walk(pt, a) = a /\ InRegs(regs, a)
        /\ PagesOf(GUEST_MEM_START_VA, brk) \subseteq rw
        /\ \A a \in High : Walk(pt, a) = a - GUEST_VA_OFFSET /\ InRegs(regs, a)

\* An address the payload can use leads to memory that exists: no present entry
\* outlives the region (or the monitor's pages) it points to.
NoDangling ==
    \A a \in AllLargePages \cup Private :
        LET g == Walk(pt, a)
        IN  g # NoFrame => IF a \in Private THEN km_vdso_gva(a) \/ km_guestmem_gva(a)
                           ELSE g >= GUEST_MEM_START_VA /\ g < phys /\ InRegs(regs, g)

KmaOf(g) ==
    CASE g < PRIVATE_GPA -> <<"guest", g>>
      [] g < PRIVATE_GPA + KMGUEST_PAGE * KM_PAGE_SIZE -> <<"vdso", g - PRIVATE_GPA>>
      [] OTHER -> <<"km_guest", g - PRIVATE_GPA - KMGUEST_PAGE * KM_PAGE_SIZE>>

\* Where the processor and the monitor both translate an address, they mean
\* the same byte: km_gva_to_kma_nocheck agrees with the page tables.
MonitorAgrees ==
    \A a \in AllLargePages \cup Private :
        Walk(pt, a) # NoFrame => km_gva_to_kma_nocheck(a) = KmaOf(Walk(pt, a))

\* Below, the payload sees nothing past the large page that holds the last byte
\* before brk: fixup_bottom_page_tables undoes on the way down all that it did
\* on the way up, over any number of GiBs.
BottomExact ==
    failed = <<>> =>
        \A a \in LargePages(0, tbrk - GUEST_VA_OFFSET) :
            Walk(pt, a) # NoFrame /\ (phys = PML4E_REGION => GibOf(a) < GibOf(tbrk)) =>
                RoundDown(a, IF a < GIB THEN PDE_REGION ELSE GIB) < brk

\* The page tables as a whole: they show the payload its memory, all of it and
\* below nothing else, and the monitor translates addresses as they do.
MapsExact == GuestSeesMemory /\ NoDangling /\ MonitorAgrees /\ BottomExact

\* Memory is allocated exactly where one of the two sides reaches: a region
\* that brk and tbrk share goes when the second of them leaves it, and a call
\* that fails half way keeps nothing.
RegionsExact ==
    failed = <<>> =>
        regs = {i \in Indices : memreg_base(i) < brk \/ memreg_top(i) + GUEST_VA_OFFSET > tbrk}

\* Memory past brk is closed to the payload on the host as well.  The exception
\* are regions of a GiB and more: one that tbrk shares stays when those before
\* it are given back, and mprotect() does not get past the hole.
ClosedPastBrk ==
    \A p \in rw : p >= brk => \E i \in regs : memreg_size(i) >= GIB /\ memreg_base(i) <= p /\ p < memreg_top(i)

\* What callers of mmap() were given is exactly what lies above tbrk.
TopOwned == owned = GUEST_MEM_TOP_VA - tbrk

\* The assertions of km_mem.c and km_mem.h fail only for a brk below the start
\* of memory: no sequence of calls frees a region twice, allocates one that is
\* there, or needs a 1 GiB page where there are none.
AssertsHold == failed # <<>> => failed[1] = "brk" /\ failed[2] < GUEST_MEM_START_VA

\* The memory behind them: allocated where a side reaches, closed past brk, with
\* no assertion failing on the way.
SlotsExact == TypeOK /\ RegionsExact /\ ClosedPastBrk /\ AssertsHold

\* A call that moves neither brk nor tbrk (there was no memory) changes nothing
\* that the payload or the monitor can use, and adds nothing.
FailureHarmless ==
    [][ brk' = brk /\ tbrk' = tbrk /\ failed' = <<>> =>
          /\ regs' = regs /\ rw' = rw
          /\ \A a \in AllLargePages :
                \/ Walk(pt', a) = Walk(pt, a)
                \/ a \notin Low \cup High /\ Walk(pt', a) = NoFrame ]_vars

\* The monitor finds each page that the payload can use: km_gva_to_kma, which
\* the hypercalls use for their arguments, does not refuse it.
MonitorFinds ==
    \A a \in Low \cup High \cup Private : Walk(pt, a) # NoFrame => km_gva_to_kma(a) # Null
=============================================================================
