-------------------------------- MODULE Mmap --------------------------------
(***************************************************************************)
(* The guest's memory map above tbrk (km_mmap.c, and km_mem_tbrk of        *)
(* km_mem.c).  KM keeps the mmap area as two lists of regions, busy and    *)
(* free, sorted by address, and takes fresh memory by moving tbrk down.    *)
(* Every call holds mmaps.mutex from start to end, so each is one action.  *)
(*                                                                         *)
(* A region list is a set of records: regions are disjoint, so the order   *)
(* of the list is the order of their starts.  mm.mem and mm.hprot are the  *)
(* host's side of the map: what each page holds, and the protection the    *)
(* host enforces.  A page is zeroed lazily: the flag `clean' of a region   *)
(* (km_mmap_clean) says that it needs no zeroing when exposed.             *)
(***************************************************************************)
EXTENDS Integers, FiniteSets, SequencesExt

CONSTANTS
    Top,            \* the last page below GUEST_MEM_TOP_VA, KM's own (GDT and IDT)
    Protections,    \* the protections the payload asks for
    FileProts,      \* those it asks for in file mappings
    FixedKinds,     \* the mappings it makes with MAP_FIXED: "anon", "file"
    Calls           \* the calls it makes

ASSUME TopAssumption == Top \in Nat /\ Top > 1

VARIABLES
    mm,         \* busy, free: machine.mmaps; tbrk: machine.tbrk; mem, hprot
    outcome     \* "running", "aborted" (a km_assert failed), "crashed" (KM faulted)

vars == <<mm, outcome>>

Pages == 1 .. Top
GuestPages == 1 .. Top - 1
PROT_NONE == "none"
Backing(c) == CASE c = "data" -> "zero" [] c = "fdata" -> "file" [] OTHER -> c
Written(c) == CASE c = "zero" -> "data" [] c = "file" -> "fdata" [] OTHER -> c

-----------------------------------------------------------------------------
(* Regions and lists *)

Regions == [start : Pages, size : Pages, prot : {"none", "rw"},
            flags : {"none", "anon", "file", "fake"}, file : BOOLEAN,
            clean : BOOLEAN, monitor : BOOLEAN]

End(r) == r.start + r.size
PagesOf(r) == r.start .. End(r) - 1

\* The page map of the host after mmap, mprotect and madvise on the pages P.
HostMmap(m, P, prot, backing) ==
    [m EXCEPT !.mem = [p \in Pages |-> IF p \in P THEN backing ELSE @[p]],
              !.hprot = [p \in Pages |-> IF p \in P THEN prot ELSE @[p]]]
HostMprotect(m, P, prot) ==
    [m EXCEPT !.hprot = [p \in Pages |-> IF p \in P THEN prot ELSE @[p]]]
HostDontneed(m, P) ==
    [m EXCEPT !.mem = [p \in Pages |-> IF p \in P THEN Backing(@[p]) ELSE @[p]]]

ok_to_concat(left, right) ==
    /\ End(left) = right.start
    /\ left.file = right.file /\ left.prot = right.prot /\ left.flags = right.flags
    /\ left.clean = right.clean /\ left.monitor = right.monitor

\* The list with reg, and its neighbours on either side when they are alike, in one.
concat(list, reg) ==
    LET left == {l \in list : ok_to_concat(l, reg)}
        right == {r \in list : ok_to_concat(reg, r)}
        size(S) == IF S = {} THEN 0 ELSE (CHOOSE r \in S : TRUE).size
        whole == [reg EXCEPT !.start = @ - size(left), !.size = @ + size(left) + size(right)]
    IN (list \ (left \cup right \cup {reg})) \cup {whole}

needs_clean(reg) == reg.prot # PROT_NONE /\ ~reg.clean /\ ~reg.file
\* Mutant: the flag is not set after the pages are zeroed.
make_cleanMutant(reg) == reg
make_clean(reg) == [reg EXCEPT !.clean = @ \/ needs_clean(reg)]
CleanPages(m, reg) == IF needs_clean(reg) THEN HostDontneed(m, PagesOf(reg)) ELSE m

\* km_mmap_mprotect_region on the host; the region becomes make_clean(reg).
mprotect_region(m, reg) == CleanPages(HostMprotect(m, PagesOf(reg), reg.prot), reg)

insert_busy(m, reg) ==
    [mprotect_region(m, reg) EXCEPT !.busy = concat(@, make_clean(reg))]

\* Mutant: the region given back to tbrk stays on the list.
insert_freeMutant(m, reg) ==
    LET freed == [reg EXCEPT !.prot = PROT_NONE, !.flags = "none", !.file = FALSE, !.clean = FALSE]
        list == concat(m.free, freed)
        low == {r \in list : r.start = m.tbrk}
    IN [HostMprotect(m, PagesOf(freed), PROT_NONE) EXCEPT
            !.free = list,
            !.tbrk = IF low = {} THEN @ ELSE End(CHOOSE r \in low : TRUE)]

\* The free list absorbs the region, and tbrk the free region that starts at tbrk.
insert_free(m, reg) ==
    LET freed == [reg EXCEPT !.prot = PROT_NONE, !.flags = "none", !.file = FALSE, !.clean = FALSE]
        list == concat(m.free, freed)
        low == {r \in list : r.start = m.tbrk}
    IN [HostMprotect(m, PagesOf(freed), PROT_NONE) EXCEPT
            !.free = list \ low,
            !.tbrk = IF low = {} THEN @ ELSE End(CHOOSE r \in low : TRUE)]

find_address(list, p) == {r \in list : p \in PagesOf(r)}
The(S) == CHOOSE r \in S : TRUE

-----------------------------------------------------------------------------
(* Actions on the regions of a range *)

move_to_free(m, reg) ==
    LET m1 == [m EXCEPT !.busy = @ \ {reg}]
    IN insert_free(IF reg.file THEN HostMmap(m1, PagesOf(reg), reg.prot, "zero") ELSE m1, reg)

mprotect_concat(m, reg) ==
    [mprotect_region(m, reg) EXCEPT !.busy = concat(@ \ {reg}, make_clean(reg))]

region_clean_concat(m, reg, clean) ==
    LET new == [(IF clean THEN make_clean(reg) ELSE reg) EXCEPT !.flags = "fake", !.file = FALSE]
    IN [(IF clean THEN CleanPages(m, reg) ELSE m) EXCEPT !.busy = concat(@ \ {reg}, new)]

\* The list with the regions of the set S that reach over the page p split there.
Split(list, S, p) ==
    LET over == {r \in S : r.start < p /\ p < End(r)}
    IN (list \ over) \cup {[r EXCEPT !.size = p - r.start] : r \in over}
                     \cup {[r EXCEPT !.start = p, !.size = End(r) - p] : r \in over}

\* action(reg, mreg), for the three actions that km_mmap_busy_range_apply accepts.
apply_action(action, m, reg, clean) ==
    CASE action = "move_to_free" -> move_to_free(m, reg)
      [] action = "mprotect" -> mprotect_concat(m, reg)
      [] action = "clean_concat" -> region_clean_concat(m, reg, clean)

\* Each region that lies in the range, in address order, gets the protection and
\* the action.  The region that overlaps an end is split there when the walk
\* comes to it; one that an earlier region has absorbed is not visited.
busy_range_apply(m, addr, size, prot, action, clean) ==
    LET guest(list) == {r \in list : ~r.monitor}
        visit(s, p) ==
            LET at == {r \in guest(s.busy) : r.start = p}
                cut == Split(s.busy, at, addr + size)
                reg == The({r \in cut : r.start = p})
                new == [reg EXCEPT !.prot = prot]
            IN IF at = {} THEN s
               ELSE apply_action(action, [s EXCEPT !.busy = (cut \ {reg}) \cup {new}], new, clean)
    IN FoldLeft(visit, [m EXCEPT !.busy = Split(@, guest(@), addr)],
                [i \in 1 .. size |-> addr + i - 1])

\* Mutant: a gap at the end of the range goes unnoticed.
busy_check_contiguousMutant(m, addr, size) ==
    LET seen == {r \in m.busy : End(r) >= addr /\ r.start < addr + size}
        first(r) == \A q \in seen : r.start <= q.start
    IN /\ seen # {}
       /\ \A r \in seen : /\ ~r.monitor
                          /\ IF first(r) THEN r.start <= addr ELSE \E l \in seen : End(l) = r.start

\* km_mmap_busy_check_contiguous: the regions the loop looks at are those that do
\* not end before addr and start before the end of the range.
busy_check_contiguous(m, addr, size) ==
    LET seen == {r \in m.busy : End(r) >= addr /\ r.start < addr + size}
        first(r) == \A q \in seen : r.start <= q.start
    IN /\ seen # {}
       /\ \A r \in seen : /\ ~r.monitor
                          /\ IF first(r) THEN r.start <= addr ELSE \E l \in seen : End(l) = r.start
       /\ (\E r \in m.busy : r.start >= addr + size) => \E r \in seen : End(r) >= addr + size

-----------------------------------------------------------------------------
(* The calls, on the map m *)

munmap_nolock(m, addr, size) ==
    busy_range_apply(m, addr, size, PROT_NONE, "move_to_free", FALSE)

\* Where a new region goes: the first free region that is large enough, or below tbrk.
find_free(m, size) ==
    {r \in m.free : r.size >= size /\ \A q \in m.free : q.size >= size => r.start <= q.start}
can_add(m, size) == find_free(m, size) # {} \/ m.tbrk - size >= 1
new_start(m, size) ==
    IF find_free(m, size) # {} THEN The(find_free(m, size)).start ELSE m.tbrk - size

\* km_mmap_add_region.  A free region has no sharing flags, so taking one maps
\* host memory anew; fresh memory below tbrk is what it was.
add_region(m, size, prot, kind) ==
    LET donor == find_free(m, size)
        reg == [start |-> new_start(m, size), size |-> size, prot |-> prot, flags |-> kind,
                file |-> FALSE, clean |-> FALSE, monitor |-> FALSE]
        rest == {[r EXCEPT !.start = @ + size, !.size = @ - size] : r \in {d \in donor : d.size > size}}
        m1 == IF donor = {} THEN [m EXCEPT !.tbrk = @ - size]
              ELSE HostMmap([m EXCEPT !.free = (@ \ donor) \cup rest],
                            PagesOf(reg), prot, IF kind = "file" THEN "file" ELSE "zero")
    IN insert_busy(m1, reg)

\* The host mapping, and the regions under it glued into one.
glue(m, gva, size, prot, kind) ==
    busy_range_apply(HostMmap(m, gva .. gva + size - 1, prot, IF kind = "file" THEN "file" ELSE "zero"),
                     gva, size, prot, "clean_concat", kind = "anon")
\* km_assert(reg->start == gva && reg->size == size)
glued(m, gva, size) == \E r \in m.busy : r.start = gva /\ r.size = size
named(m, gva, prot, kind) ==
    LET reg == The(find_address(m.busy, gva))
        new == [reg EXCEPT !.flags = kind, !.prot = prot, !.file = (kind = "file")]
    IN [m EXCEPT !.busy = concat(@ \ {reg}, new)]

\* mremap_grow when the free memory that follows ptr is large enough.
grow_room(m, ptr, needed) ==
    \E next \in m.busy : /\ next.start >= End(ptr)
                         /\ \A q \in m.busy : q.start >= End(ptr) => next.start <= q.start
                         /\ next.start - End(ptr) >= needed
\* Mutant: the new pages of a clean region are not zeroed.
grow_in_placeMutant(m, ptr, donor, needed) ==
    LET rest == {[r EXCEPT !.start = @ + needed, !.size = @ - needed] :
                     r \in {d \in {donor} : d.size > needed}}
        grown == [ptr EXCEPT !.size = @ + needed]
    IN [mprotect_region(m, grown) EXCEPT !.free = (@ \ {donor}) \cup rest,
                                         !.busy = concat(@ \ {ptr}, make_clean(grown))]
grow_in_place(m, ptr, donor, needed) ==
    LET extra == donor.start .. donor.start + needed - 1
        rest == {[r EXCEPT !.start = @ + needed, !.size = @ - needed] :
                     r \in {d \in {donor} : d.size > needed}}
        grown == [ptr EXCEPT !.size = @ + needed]
        m1 == mprotect_region(IF ptr.clean THEN HostDontneed(m, extra) ELSE m, grown)
    IN [m1 EXCEPT !.free = (@ \ {donor}) \cup rest,
                  !.busy = concat(@ \ {ptr}, make_clean(grown))]

\* memcpy from the old pages to the new ones.
copied(m, from, to, size) ==
    [m EXCEPT !.mem = [p \in Pages |->
        IF p \in to .. to + size - 1 THEN @[from + (p - to)] ELSE @[p]]]

-----------------------------------------------------------------------------
(* Actions *)

MonitorRegion == [start |-> Top, size |-> 1, prot |-> "rw", flags |-> "anon",
                  file |-> FALSE, clean |-> TRUE, monitor |-> TRUE]

\* KM has mapped the pages of its descriptor tables.
Init ==
    /\ mm = [busy |-> {MonitorRegion}, free |-> {}, tbrk |-> Top,
             mem |-> [p \in Pages |-> "zero"],
             hprot |-> [p \in Pages |-> IF p = Top THEN "rw" ELSE "none"]]
    /\ outcome = "running"

Call(name) == outcome = "running" /\ name \in Calls

\* The outcome of the MAP_FIXED part of km_guest_mmap_nolock on the map m.
MapAt(m, gva, size, prot, kind) ==
    LET m1 == glue(m, gva, size, prot, kind)
    IN IF glued(m1, gva, size) THEN mm' = named(m1, gva, prot, kind) /\ UNCHANGED outcome
       ELSE outcome' = "aborted" /\ UNCHANGED mm

Mmap(size, prot, kind) ==
    /\ Call("mmap")
    /\ can_add(mm, size)
    /\ LET m1 == add_region(mm, size, prot, kind)
       IN IF kind = "anon" THEN mm' = m1 /\ UNCHANGED outcome
          ELSE MapAt(m1, new_start(mm, size), size, prot, kind)

MmapFixed(addr, size, prot, kind) ==
    /\ Call("mmap_fixed")
    /\ busy_check_contiguous(mm, addr, size)
    /\ MapAt(mm, addr, size, prot, kind)

Munmap(addr, size) ==
    /\ Call("munmap")
    /\ mm' = munmap_nolock(mm, addr, size)
    /\ UNCHANGED outcome

Mprotect(addr, size, prot) ==
    /\ Call("mprotect")
    /\ busy_check_contiguous(mm, addr, size)
    /\ mm' = busy_range_apply(mm, addr, size, prot, "mprotect", FALSE)
    /\ UNCHANGED outcome

\* madvise(MADV_DONTNEED)
Madvise(addr, size) ==
    /\ Call("madvise")
    /\ busy_check_contiguous(mm, addr, size)
    /\ mm' = HostDontneed(mm, addr .. addr + size - 1)
    /\ UNCHANGED outcome

\* The region mremap finds at old_addr, when it is one it may change.
Remappable(old_addr, old_size) ==
    {r \in find_address(mm.busy, old_addr) : End(r) >= old_addr + old_size /\ ~r.monitor}

MremapGrow(old_addr, old_size, size, may_move) ==
    /\ Call("mremap") /\ old_size < size
    /\ \E ptr \in {r \in Remappable(old_addr, old_size) : ~r.file} :
         IF End(ptr) = old_addr + old_size /\ grow_room(mm, ptr, size - old_size)
         THEN LET donor == {d \in find_address(mm.free, End(ptr)) : d.size >= size - old_size}
              IN IF donor = {} THEN outcome' = "aborted" /\ UNCHANGED mm
                 ELSE mm' = grow_in_place(mm, ptr, The(donor), size - old_size) /\ UNCHANGED outcome
         ELSE /\ may_move /\ can_add(mm, size)
              /\ IF ptr.prot = PROT_NONE THEN outcome' = "crashed" /\ UNCHANGED mm  \* memcpy faults
                 ELSE /\ mm' = munmap_nolock(copied(add_region(mm, size, ptr.prot, ptr.flags),
                                                    old_addr, new_start(mm, size), old_size),
                                             old_addr, old_size)
                      /\ UNCHANGED outcome

MremapShrink(old_addr, old_size, size) ==
    /\ Call("mremap") /\ size < old_size
    /\ Remappable(old_addr, old_size) # {}
    /\ mm' = munmap_nolock(mm, old_addr + size, old_size - size)
    /\ UNCHANGED outcome

\* The payload stores into a page the host lets it write.
Write(p) ==
    /\ Call("write")
    /\ mm.hprot[p] = "rw" /\ p # Top
    /\ mm' = [mm EXCEPT !.mem[p] = Written(@)]
    /\ UNCHANGED outcome

Next ==
    \/ \E size \in 1 .. Top - 1, prot \in Protections : Mmap(size, prot, "anon")
    \/ \E size \in 1 .. Top - 1, prot \in FileProts : Mmap(size, prot, "file")
    \/ \E addr \in Pages : \E size \in 1 .. Top + 1 - addr :
         \/ \E prot \in Protections, kind \in FixedKinds : MmapFixed(addr, size, prot, kind)
         \/ Munmap(addr, size)
         \/ \E prot \in Protections : Mprotect(addr, size, prot)
         \/ Madvise(addr, size)
         \/ \E new \in 1 .. Top - 1, may_move \in BOOLEAN : MremapGrow(addr, size, new, may_move)
         \/ \E new \in 1 .. Top - 1 : MremapShrink(addr, size, new)
    \/ \E p \in Pages : Write(p)

Spec == Init /\ [][Next]_vars

-----------------------------------------------------------------------------
(* Properties *)

\* Type correctness of the region lists, tbrk and the host's page map; regions
\* stay within the area and are never empty.
TypeOK ==
    /\ mm.busy \subseteq Regions /\ mm.free \subseteq Regions
    /\ mm.tbrk \in Pages
    /\ mm.mem \in [Pages -> {"zero", "file", "data", "fdata"}]
    /\ mm.hprot \in [Pages -> {"none", "rw"}]
    /\ outcome \in {"running", "aborted", "crashed"}

\* The two lists cut the memory above tbrk into regions: every page from tbrk up
\* is in exactly one region of either list, no page below is in any, and the page
\* at tbrk is busy, since free memory at tbrk is given back (km_mmap_insert_free).
\* KM's own region stays as it was, whatever range a call names.
Partition ==
    /\ \A p \in Pages :
         Cardinality(find_address(mm.busy \cup mm.free, p)) = IF p < mm.tbrk THEN 0 ELSE 1
    /\ \A r \in mm.busy \cup mm.free : End(r) <= Top + 1
    /\ find_address(mm.free, mm.tbrk) = {}
    /\ MonitorRegion \in mm.busy

\* Splitting and gluing leave no seams: two neighbours of a list differ in what
\* km_mmap_concat compares, and no region keeps the fake flag of the gluing.
NoSeams ==
    /\ \A l, r \in mm.busy : ~ok_to_concat(l, r)
    /\ \A l, r \in mm.free : ~ok_to_concat(l, r)
    /\ \A r \in mm.busy : r.flags # "fake"

\* The host enforces what the lists say: a page of a busy region has the region's
\* protection, and a free page, or one below tbrk, has none.
HostAgrees ==
    \A p \in Pages :
      mm.hprot[p] = LET r == find_address(mm.busy, p) IN IF r = {} THEN "none" ELSE The(r).prot

\* The bookkeeping of guest memory as a whole: the lists cut the area, without
\* seams, and the host enforces what they say.
ListsExact == TypeOK /\ Partition /\ NoSeams /\ HostAgrees

\* km_mmap_busy_check_contiguous answers its comment's question, "are the busy
\* mmaps contiguous from addr to addr+size", for every range of the area, though
\* it also looks at the region that ends at addr and accepts a short last one.
ContiguousExact ==
    \A addr \in Pages : \A size \in 1 .. Top + 1 - addr :
      busy_check_contiguous(mm, addr, size) <=>
        \A p \in addr .. addr + size - 1 : \E r \in find_address(mm.busy, p) : ~r.monitor

\* Memory the payload can write is not zeroed again: an anonymous region that is
\* exposed to the payload, with a page it wrote, is clean.
WrittenClean ==
    \A r \in mm.busy :
      (r.prot # PROT_NONE /\ ~r.file /\ \E p \in PagesOf(r) : mm.mem[p] = "data") => r.clean

\* What the payload sees: the protection of the region, and the content of the
\* page, which for a region still to be cleaned will be zero.
Seen == [p \in GuestPages |->
           LET r == find_address(mm.busy, p)
           IN IF r = {} THEN [prot |-> "unmapped", content |-> "unmapped"]
              ELSE [prot |-> The(r).prot,
                    content |-> IF ~The(r).clean /\ ~The(r).file THEN "zero" ELSE mm.mem[p]]]

\* Gluing the regions under a MAP_FIXED mapping gives one region for the range,
\* as the assertion of km_guest_mmap_nolock says, and a gap that mremap grows
\* into is a free region, so that KM never stops on its own assertion.
NeverAborts == outcome # "aborted"
=============================================================================
