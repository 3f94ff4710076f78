------------------------------- MODULE Image -------------------------------
(***************************************************************************)
(* The payload's image: how km_load_elf() builds it from an executable and *)
(* its dynamic linker (load_elf.c), how km_dump_core() writes it to a      *)
(* snapshot (km_coredump.c), and how km_snapshot_restore() builds it again *)
(* in a new monitor (km_snapshot.c).                                       *)
(*                                                                         *)
(* Guest memory is modelled byte by byte over a small address space: low   *)
(* memory grows up from START to machine.brk, mmaps grow down from TOP to  *)
(* machine.tbrk.  A byte is a tuple that tells where it came from: zero    *)
(* fill, byte o of file f, or a write by the payload.                      *)
(***************************************************************************)
EXTENDS Integers, FiniteSets, SequencesExt

CONSTANTS
    PAGE,       \* KM_PAGE_SIZE
    START,      \* GUEST_MEM_START_VA
    LIMIT,      \* low memory of the model ends here
    TOP,        \* the end of guest memory
    MONITOR,    \* bytes machine initialization maps at the top
    MAXWRITE,   \* the largest single write of km_guestmem_write(): 1 MiB
    EHDR, PHDR, \* sizes of the ELF headers
    Programs,   \* executables: [type, phdrs, interp, len]
    Dynlinker,  \* the dynamic linker: [phdrs, len, dlopen]
    LowProts,   \* protections the payload gives to pages below brk
    Vcpus,      \* 0 .. n
    MaxOps,     \* payload steps per behaviour
    MaxDumps    \* snapshots per behaviour

ASSUME Layout ==
    /\ PAGE \in Nat \ {0} /\ START % PAGE = 0 /\ LIMIT % PAGE = 0 /\ TOP % PAGE = 0
    /\ START < LIMIT /\ LIMIT < TOP - MONITOR /\ MAXWRITE % PAGE = 0

VARIABLES
    machine,    \* the monitor's view of the payload: memory, payload records, vcpus
    phase,      \* "load", "linker", "run", "dumped", "restored" or "stopped"
    todo,       \* PT_LOAD headers still to load
    snap,       \* the snapshot file
    open,       \* descriptors km_dump_core() has not closed
    was,        \* machine when the last snapshot was taken
    ops, dumps  \* steps taken, for the bounds

vars == <<machine, phase, todo, snap, open, was, ops, dumps>>

Zero == <<"zero">>
Byte(f, len, o) == IF o < len THEN <<f, o>> ELSE Zero

rounddown(a) == PAGE * (a \div PAGE)
roundup(a) == rounddown(a + PAGE - 1)
PageOf(a) == a \div PAGE
PagesOf(lo, hi) == {a \div PAGE : a \in lo .. hi - 1}   \* pages of [lo, hi)

Addr == START .. TOP - 1
Pages == PagesOf(START, TOP)
Upper == PagesOf(LIMIT, TOP)
Payload == Upper \ PagesOf(TOP - MONITOR, TOP)

NoPayload == [phdrs |-> <<>>, adjust |-> 0, file |-> ""]
NoVcpu == [state |-> "none", regs |-> 0, info |-> 0]
NoFile == [there |-> FALSE]
Empty(why) == [there |-> TRUE, whole |-> FALSE, why |-> why]

(***************************************************************************)
(* A monitor before it has a payload: only the regions machine             *)
(* initialization maps at the top of memory.                               *)
(***************************************************************************)
Fresh ==
    [mem |-> [a \in Addr |-> Zero],
     prot |-> [p \in Pages |-> IF p \in Payload \/ p \notin Upper THEN "none" ELSE "rw"],
     kind |-> [p \in Upper |-> IF p \in Payload THEN "free" ELSE "monitor"],
     name |-> [p \in Upper |-> ""],
     brk |-> START, tbrk |-> TOP - MONITOR,
     guest |-> NoPayload, dyn |-> NoPayload, dlopen |-> 0,
     vcpus |-> [v \in Vcpus |-> NoVcpu],
     sigactions |-> "SIG_DFL"]

(* km_mem_brk(): pages up to the new end become usable, pages past it not. *)
km_mem_brk(m, b) ==
    [m EXCEPT !.brk = b,
              !.prot = [p \in Pages |->
                  CASE p \in PagesOf(roundup(m.brk), roundup(b)) -> "rw"
                    [] p \in PagesOf(roundup(b), roundup(m.brk)) -> "none"
                    [] OTHER -> @[p]]]

(***************************************************************************)
(* Loading.                                                                *)
(***************************************************************************)

(* map_program_section(): n bytes of file f from off at lo, zeroes up to   *)
(* the end of the last page.                                               *)
map_program_section(mem, f, len, lo, n, off) ==
    [a \in Addr |-> CASE a >= lo /\ a < lo + n -> Byte(f, len, off + a - lo)
                      [] a >= lo + n /\ n > 0 /\ a < lo + roundup(n) -> Zero
                      [] OTHER -> mem[a]]

(* A bug: the file offset is not moved back to the page boundary with the  *)
(* address.                                                                *)
load_extentMutant(m, f, len, ph, base) ==
    LET top == ph.vaddr + ph.memsz + base
        m1 == IF top >= m.brk THEN km_mem_brk(m, top) ELSE m
        addr == ph.vaddr + base
        extra == addr - rounddown(addr)
        mapped == map_program_section(m1.mem, f, len, addr - extra, ph.filesz + extra, ph.offset)
    IN [m1 EXCEPT !.mem = [a \in Addr |-> IF a >= addr + ph.filesz /\ a < addr + ph.memsz
                                           THEN Zero ELSE mapped[a]],
                  !.prot = [p \in Pages |-> IF p \in PagesOf(addr - extra, addr + ph.memsz)
                                            THEN ph.flags ELSE @[p]]]

(* load_extent(): make room, map the file, clear the bss, protect. *)
load_extent(m, f, len, ph, base) ==
    LET top == ph.vaddr + ph.memsz + base
        m1 == IF top >= m.brk THEN km_mem_brk(m, top) ELSE m
        addr == ph.vaddr + base
        extra == addr - rounddown(addr)
        mapped == map_program_section(m1.mem, f, len, addr - extra, ph.filesz + extra,
                                      ph.offset - extra)
    IN [m1 EXCEPT !.mem = [a \in Addr |-> IF a >= addr + ph.filesz /\ a < addr + ph.memsz
                                           THEN Zero ELSE mapped[a]],
                  !.prot = [p \in Pages |-> IF p \in PagesOf(addr - extra, addr + ph.memsz)
                                            THEN ph.flags ELSE @[p]]]

min_vaddr(phdrs) == Min({phdrs[i].vaddr : i \in DOMAIN phdrs})

(* km_load_elf() up to its loop: the headers are read, the shift is chosen. *)
OpenProgram(prog) ==
    [Fresh EXCEPT !.guest = [phdrs |-> prog.phdrs, file |-> "guest",
                             adjust |-> IF prog.type = "ET_EXEC" THEN 0
                                        ELSE START - min_vaddr(prog.phdrs)]]

(* One turn of km_load_elf()'s loop over PT_LOAD headers. *)
LoadGuest ==
    /\ phase = "load" /\ todo.phdrs # <<>>
    /\ machine' = load_extent(machine, "guest", todo.len, Head(todo.phdrs), machine.guest.adjust)
    /\ todo' = [todo EXCEPT !.phdrs = Tail(@)]
    /\ UNCHANGED <<phase, snap, open, was, ops, dumps>>

(* load_dynlink() up to its loop: the linker goes to the page after brk. *)
OpenDynlink ==
    /\ phase = "load" /\ todo.phdrs = <<>> /\ todo.interp
    /\ LET base == roundup(machine.brk)
       IN /\ machine' = [km_mem_brk(machine, base) EXCEPT
                             !.dyn = [phdrs |-> Dynlinker.phdrs, file |-> "dyn",
                                      adjust |-> base - min_vaddr(Dynlinker.phdrs)]]
          /\ todo' = [todo EXCEPT !.phdrs = Dynlinker.phdrs, !.base = base, !.len = Dynlinker.len]
    /\ phase' = "linker"
    /\ UNCHANGED <<snap, open, was, ops, dumps>>

(* One turn of load_dynlink()'s loop. *)
LoadDynlink ==
    /\ phase = "linker" /\ todo.phdrs # <<>>
    /\ machine' = load_extent(machine, "dyn", todo.len, Head(todo.phdrs), todo.base)
    /\ todo' = [todo EXCEPT !.phdrs = Tail(@)]
    /\ UNCHANGED <<phase, snap, open, was, ops, dumps>>

(* km_find_dlopen() searches the linker's symbols. *)
km_find_dlopen(m) == [m EXCEPT !.dlopen = Dynlinker.dlopen + m.dyn.adjust]

(* The payload's stack, the lowest region of a new payload, and the main   *)
(* thread's vcpu; then the payload runs.                                   *)
Start(m) ==
    LET stack == PageOf(TOP - MONITOR) - 1
    IN [m EXCEPT !.kind[stack] = "user", !.prot[stack] = "rw", !.tbrk = stack * PAGE,
                 !.vcpus[0] = [state |-> "run", regs |-> 10, info |-> 20]]

Loaded ==
    /\ todo.phdrs = <<>>
    /\ \/ phase = "load" /\ ~todo.interp /\ machine' = Start(machine)
       \/ phase = "linker" /\ machine' = Start(km_find_dlopen(machine))
    /\ phase' = "run"
    /\ UNCHANGED <<todo, snap, open, was, ops, dumps>>

(***************************************************************************)
(* The payload runs: it writes memory, moves brk, maps and protects pages, *)
(* starts and ends threads and sets a signal handler.  Regions are one     *)
(* page; the stack is not unmapped.                                        *)
(***************************************************************************)
Running(m) ==
    /\ phase = "run" /\ ops < MaxOps
    /\ ops' = ops + 1
    /\ machine' = m
    /\ UNCHANGED <<phase, todo, snap, open, was, dumps>>

Stack == PageOf(TOP - MONITOR) - 1
EndLoad == Max({m.vaddr + m.memsz + machine.guest.adjust : m \in ToSet(machine.guest.phdrs)}
               \cup {m.vaddr + m.memsz + machine.dyn.adjust : m \in ToSet(machine.dyn.phdrs)})

Write(p) ==
    /\ machine.prot[p] = "rw" /\ (p \in Upper => machine.kind[p] = "user")
    /\ Running([machine EXCEPT !.mem[p * PAGE] = <<"written">>])

Brk(b) ==
    /\ phase = "run" /\ b >= EndLoad /\ b # machine.brk
    /\ Running(km_mem_brk(machine, b))

(* mmap() of one page: the lowest hole, or fresh memory below tbrk. *)
Mmap(prot, name) ==
    LET holes == {p \in Payload : machine.kind[p] = "free" /\ p * PAGE >= machine.tbrk}
        p == IF holes # {} THEN Min(holes) ELSE PageOf(machine.tbrk) - 1
    IN /\ p \in Payload
       /\ Running([machine EXCEPT !.kind[p] = "user", !.prot[p] = prot, !.name[p] = name,
                                  !.tbrk = IF p * PAGE < @ THEN p * PAGE ELSE @,
                                  !.mem = [a \in Addr |-> IF PageOf(a) # p THEN @[a]
                                                          ELSE IF name = "" THEN Zero
                                                          ELSE <<name, a % PAGE>>]])

(* munmap(): a region at tbrk, with the holes above it, goes back to the   *)
(* zone between brk and tbrk.                                              *)
Munmap(p) ==
    /\ p \in Payload \ {Stack} /\ machine.kind[p] = "user"
    /\ LET kind == [machine.kind EXCEPT ![p] = "free"]
           busy == {q \in Upper : kind[q] # "free"}
       IN Running([machine EXCEPT !.kind = kind, !.prot[p] = "none", !.name[p] = "",
                                  !.tbrk = PAGE * Min(busy)])

(* mprotect() of a mapped page, or of a page below brk (km_mmap.c:440). *)
Mprotect(p, prot) ==
    /\ \/ p \in Payload \ {Stack} /\ machine.kind[p] = "user" /\ prot \in {"none", "x", "rw"}
       \/ p \notin Upper /\ (p + 1) * PAGE <= machine.brk /\ prot \in LowProts
    /\ machine.prot[p] # prot
    /\ Running([machine EXCEPT !.prot[p] = prot])

Clone(v) ==
    /\ machine.vcpus[v].state # "run"
    /\ \A w \in Vcpus : w < v => machine.vcpus[w].state = "run"
    /\ Running([machine EXCEPT !.vcpus[v] = [state |-> "run", regs |-> 10 + v, info |-> 20 + v]])

Exit(v) ==
    /\ machine.vcpus[v].state = "run"
    /\ \E w \in Vcpus \ {v} : machine.vcpus[w].state = "run"
    /\ Running([machine EXCEPT !.vcpus[v] = [state |-> "idle", regs |-> 0, info |-> 0]])

Sigaction == machine.sigactions = "SIG_DFL" /\ Running([machine EXCEPT !.sigactions = "handler"])

(***************************************************************************)
(* km_dump_core().                                                         *)
(***************************************************************************)

(* The busy list: neighbouring anonymous regions of the same protection    *)
(* are one region.                                                         *)
Joined(m, p, q) == /\ m.kind[p] = m.kind[q] /\ m.prot[p] = m.prot[q]
                   /\ m.name[p] = "" /\ m.name[q] = ""

BusyList(m) ==
    LET starts == {p \in Upper : m.kind[p] # "free" /\ (p - 1 \in Upper => ~Joined(m, p - 1, p))}
        last(p) == CHOOSE q \in Upper : /\ q >= p
                                        /\ \A r \in p + 1 .. q : Joined(m, r - 1, r)
                                        /\ (q + 1 \in Upper => ~Joined(m, q, q + 1))
        region(p) == [start |-> p * PAGE, size |-> PAGE * (last(p) - p + 1),
                      prot |-> m.prot[p], name |-> m.name[p]]
        order == SetToSortSeq(starts, LAMBDA p, q : p < q)
    IN [i \in DOMAIN order |-> region(order[i])]

Saved(m) == SelectSeq(BusyList(m), LAMBDA r : r.prot # "none")

(* A bug: regions without access are counted, and not written. *)
phnumMutant(m) == 1 + Len(m.guest.phdrs) + Len(m.dyn.phdrs) + Len(BusyList(m))

(* km_core_count_phdrs(): how many headers, and where the image ends.  The *)
(* linker's headers count with the addresses of its file.                  *)
phnum(m) == 1 + Len(m.guest.phdrs) + Len(m.dyn.phdrs) + Len(Saved(m))

end_load(m) ==
    Max({ph.vaddr + ph.memsz + m.guest.adjust : ph \in ToSet(m.guest.phdrs)}
        \cup {ph.vaddr + ph.memsz : ph \in ToSet(m.dyn.phdrs)})

(* A bug: only the segments are saved, the heap is not. *)
km_core_last_load_adjustMutant(m, ph) == 0

(* km_core_last_load_adjust(): the last segment is stretched up to brk. *)
km_core_last_load_adjust(m, ph) ==
    IF ph.vaddr + m.guest.adjust + ph.memsz = end_load(m) THEN m.brk - end_load(m) ELSE 0

(* What km_core_write_payload_phdr() and the loops of km_dump_core() write *)
(* for each segment of a payload ...                                       *)
PayloadItems(m, payload) ==
    [i \in DOMAIN payload.phdrs |->
        LET ph == payload.phdrs[i]
        IN [base |-> rounddown(ph.vaddr + payload.adjust), flags |-> ph.flags,
            size |-> ph.memsz + km_core_last_load_adjust(m, ph) + (ph.vaddr - rounddown(ph.vaddr))]]

(* ... and for the mmaps. *)
Items(m) ==
    PayloadItems(m, m.guest) \o PayloadItems(m, m.dyn)
        \o [i \in DOMAIN Saved(m) |-> [base |-> Saved(m)[i].start, flags |-> Saved(m)[i].prot,
                                       size |-> Saved(m)[i].size]]

run_cnt(m) == Cardinality({v \in Vcpus : m.vcpus[v].state = "run"})
Linkers(m) == IF m.dyn = NoPayload THEN 0 ELSE 1
Handlers(m) == IF m.sigactions = "SIG_DFL" THEN 0 ELSE 1

(* km_core_notes_length(): room for the notes, counted before they are     *)
(* written, a note being one byte of the model: NT_PRSTATUS for each       *)
(* running vcpu and once more for the caller's, NT_FILE, NT_AUXV and       *)
(* NT_KM_MONITOR, NT_KM_VCPU for each running vcpu, the payloads, the      *)
(* handlers.                                                               *)
km_core_notes_length(m, cur) ==
    roundup(run_cnt(m) + (IF cur \in Vcpus THEN 1 ELSE 0)
            + 3 + run_cnt(m) + 1 + Linkers(m) + Handlers(m))

(* km_core_write_phdrs(): the offset each header announces, counted from   *)
(* the number of headers km_core_count_phdrs() promised.                   *)
HeaderOffsets(m, cur) ==
    LET items == Items(m)
        at[i \in DOMAIN items] == IF i = 1 THEN roundup(EHDR + phnum(m) * PHDR + km_core_notes_length(m, cur))
                                  ELSE roundup(at[i - 1] + items[i - 1].size)
    IN at

(* km_guestmem_write(): where the data really goes, from the file position. *)
DataOffsets(m, cur) ==
    LET items == Items(m)
        at[i \in DOMAIN items] == IF i = 1 THEN roundup(EHDR + (1 + Len(items)) * PHDR + km_core_notes_length(m, cur))
                                  ELSE roundup(at[i - 1] + roundup(items[i - 1].size))
    IN at

(* km_core_write_mem(): a fault skips the rest of the chunk being written. *)
Faults(m, a) == m.prot[PageOf(a)] = "none"

(* An mmap that cannot be read is given PROT_READ while it is written. *)
Skipped(m, base, k) == \E j \in (k - (k % MAXWRITE)) .. k : Faults(m, base + j)

km_guestmem_write(m, item) ==
    [k \in 0 .. roundup(item.size) - 1 |->
        IF Skipped(m, item.base, k) THEN Zero ELSE m.mem[item.base + k]]

FileData(m, cur) ==
    LET items == Items(m)
        pos == DataOffsets(m, cur)
        end == pos[Len(items)] + roundup(items[Len(items)].size)
        chunk == [i \in DOMAIN items |-> km_guestmem_write(m, items[i])]
        at(o) == {i \in DOMAIN items : o >= pos[i] /\ o < pos[i] + roundup(items[i].size)}
    IN [o \in 0 .. end - 1 |-> IF at(o) = {} THEN Zero
                               ELSE LET i == CHOOSE i \in at(o) : TRUE IN chunk[i][o - pos[i]]]

(* km_vcpu_apply_all(): a parked vcpu is not visited, a hole ends the visit. *)
km_vcpu_apply_all(m) ==
    LET seen == {v \in Vcpus : \A w \in 0 .. v : m.vcpus[w].state # "none"}
    IN SetToSortSeq({v \in seen : m.vcpus[v].state = "run"}, LAMBDA v, w : v < w)

(* NT_PRSTATUS notes: the caller's vcpu first, then the others. *)
km_core_dump_threads(m, cur) ==
    LET first == IF cur \in Vcpus THEN <<cur>> ELSE <<>>
        threads == first \o SelectSeq(km_vcpu_apply_all(m), LAMBDA v : v # cur)
    IN [i \in DOMAIN threads |-> [id |-> threads[i], regs |-> m.vcpus[threads[i]].regs]]

(* NT_KM_VCPU notes. *)
km_core_dump_vcpu(m) ==
    LET all == km_vcpu_apply_all(m)
    IN [i \in DOMAIN all |-> [id |-> all[i], info |-> m.vcpus[all[i]].info]]

(* The NT_FILE note: the segments and the mmaps of files. *)
km_core_dump_mappings(m) ==
    LET segments(payload) == [i \in DOMAIN payload.phdrs |->
                                 [start |-> payload.phdrs[i].vaddr + payload.adjust,
                                  size |-> payload.phdrs[i].memsz, name |-> payload.file]]
        files == SelectSeq(BusyList(m), LAMBDA r : r.name # "")
    IN segments(m.guest) \o segments(m.dyn)
          \o [i \in DOMAIN files |-> [start |-> files[i].start, size |-> files[i].size,
                                       name |-> files[i].name]]

(* km_sig_core_notes_write(): only handlers other than the default. *)
km_sig_core_notes_write(m) == IF m.sigactions = "SIG_DFL" THEN <<>> ELSE <<m.sigactions>>

km_core_write_notes(m, cur) ==
    [prstatus |-> km_core_dump_threads(m, cur),
     file |-> km_core_dump_mappings(m),
     vcpu |-> km_core_dump_vcpu(m),
     guest |-> m.guest, dlopen |-> m.dlopen, dyn |-> m.dyn,
     sighand |-> km_sig_core_notes_write(m),
     brk |-> m.brk, tbrk |-> m.tbrk]

Snapshot(m, cur) ==
    LET items == Items(m)
        at == HeaderOffsets(m, cur)
    IN [there |-> TRUE, whole |-> TRUE, phnum |-> phnum(m),
        phdrs |-> [i \in DOMAIN items |->
                      [offset |-> at[i], vaddr |-> items[i].base,
                       filesz |-> items[i].size, flags |-> items[i].flags]],
        data |-> FileData(m, cur), notes |-> km_core_write_notes(m, cur),
        room |-> km_core_notes_length(m, cur)]

(* A failed attempt: "forked" returns without passing through the exit     *)
(* path, the other causes close the file and unlink it.                    *)
Failed(why) == IF why = "forked" THEN [file |-> Empty(why), open |-> 1]
               ELSE [file |-> NoFile, open |-> 0]

(* The current vcpu is the caller of the snapshot hypercall; a request     *)
(* over the management socket has none.  A failed attempt changes nothing  *)
(* in the machine, so the model does not follow the payload past it.       *)
km_dump_core ==
    /\ phase \in {"run", "restored"} /\ dumps < MaxDumps
    /\ dumps' = dumps + 1
    /\ \/ /\ \E cur \in {v \in Vcpus : machine.vcpus[v].state = "run"} \cup {-1} :
                snap' = Snapshot(machine, cur)
          /\ was' = machine /\ phase' = "dumped" /\ open' = open
       \/ \E why \in {"forked", "timers", "io", "write"} :
             /\ snap' = Failed(why).file /\ open' = open + Failed(why).open
             /\ was' = was /\ phase' = "stopped"
    /\ UNCHANGED <<machine, todo, ops>>

(***************************************************************************)
(* km_snapshot_restore().                                                  *)
(***************************************************************************)

(* km_ss_recover_km_monitor(): both ends of memory; all the mmap zone of   *)
(* the snapshot becomes one region without access.                         *)
km_ss_recover_km_monitor(m, notes) ==
    LET zone == PagesOf(notes.tbrk, m.tbrk)
    IN [km_mem_brk(m, notes.brk) EXCEPT
            !.tbrk = notes.tbrk,
            !.kind = [p \in Upper |-> IF p \in zone THEN "user" ELSE @[p]]]

MapSnapshot(m, ph) ==
    LET pages == PagesOf(ph.vaddr, ph.vaddr + ph.filesz)
    IN [m EXCEPT !.mem = [a \in Addr |-> IF PageOf(a) \notin pages THEN @[a]
                              ELSE LET o == ph.offset + a - ph.vaddr
                                   IN IF o \in DOMAIN snap.data THEN snap.data[o] ELSE Zero],
                 !.prot = [p \in Pages |-> IF p \in pages THEN ph.flags ELSE @[p]]]

(* km_ss_recover_memory(): one PT_LOAD header.  Regions machine            *)
(* initialization has already mapped are left alone.                       *)
km_ss_recover_memory(m, ph) ==
    IF ph.vaddr >= m.brk /\ ph.vaddr + ph.filesz > TOP - MONITOR THEN m ELSE MapSnapshot(m, ph)

(* km_ss_recover_prstatus(): an NT_PRSTATUS note makes a vcpu ... *)
km_ss_recover_prstatus(m, nt) ==
    [m EXCEPT !.vcpus[nt.id] = [state |-> "run", regs |-> nt.regs, info |-> 0]]

(* ... and km_ss_recover_vcpu_info() fills in the rest from NT_KM_VCPU. *)
km_ss_recover_vcpu_info(m, nt) == [m EXCEPT !.vcpus[nt.id].info = nt.info]

km_ss_recover_vcpus(m, notes) ==
    FoldLeft(km_ss_recover_vcpu_info, FoldLeft(km_ss_recover_prstatus, m, notes.prstatus), notes.vcpu)

(* km_ss_recover_file_maps() and km_mmap_set_filename(): the region that   *)
(* holds the base of the mapping gets its name.                            *)
km_ss_recover_file_maps(m, notes) ==
    LET regionOf(p) == CHOOSE r \in ToSet(BusyList(m)) :
                          r.start <= p * PAGE /\ p * PAGE < r.start + r.size
        named == {i \in DOMAIN notes.file : notes.file[i].start + notes.file[i].size >= m.brk
                                            /\ notes.file[i].start >= m.tbrk}
        covered(p) == {i \in named :
            IF m.prot[p] # "none" THEN p = PageOf(notes.file[i].start)
            ELSE m.prot[PageOf(notes.file[i].start)] = "none" /\ m.kind[p] = "user"
                 /\ regionOf(p) = regionOf(PageOf(notes.file[i].start))}
    IN [m EXCEPT !.name = [p \in Upper |-> IF covered(p) = {} THEN @[p]
                                           ELSE notes.file[Min(covered(p))].name]]

(* The payload records and signal handlers. *)
km_ss_recover_payload(m, notes) ==
    [m EXCEPT !.guest = notes.guest, !.dyn = notes.dyn, !.dlopen = notes.dlopen,
              !.sigactions = IF notes.sighand = <<>> THEN @ ELSE notes.sighand[1]]

(* vcpus that were parked below the highest running one exist again, idle. *)
FillGaps(m) ==
    LET live == {v \in Vcpus : m.vcpus[v].state # "none"}
    IN [m EXCEPT !.vcpus = [v \in Vcpus |->
            IF live # {} /\ v < Max(live) /\ @[v].state = "none"
            THEN [state |-> "idle", regs |-> 0, info |-> 0] ELSE @[v]]]

(* A snapshot taken under the other virtualization driver is refused. *)
km_snapshot_restore ==
    /\ phase = "dumped"
    /\ LET m0 == km_ss_recover_km_monitor(Fresh, snap.notes)
           m1 == FoldLeft(km_ss_recover_memory, m0, SubSeq(snap.phdrs, 1, snap.phnum - 1))
           m2 == km_ss_recover_file_maps(km_ss_recover_vcpus(m1, snap.notes), snap.notes)
       IN \/ machine' = FillGaps(km_ss_recover_payload(m2, snap.notes)) /\ phase' = "restored"
          \/ machine' = Fresh /\ phase' = "stopped"
    /\ UNCHANGED <<todo, snap, open, was, ops, dumps>>

(***************************************************************************)
(* The specification.                                                      *)
(***************************************************************************)
Init ==
    \E prog \in Programs :
        /\ machine = OpenProgram(prog)
        /\ todo = [phdrs |-> prog.phdrs, interp |-> prog.interp, len |-> prog.len, base |-> 0]
        /\ phase = "load" /\ snap = NoFile /\ open = 0 /\ was = Fresh
        /\ ops = 0 /\ dumps = 0

Next ==
    \/ LoadGuest \/ OpenDynlink \/ LoadDynlink \/ Loaded
    \/ \E p \in Pages : Write(p) \/ Munmap(p)
    \/ \E p \in Pages, prot \in {"none", "r", "x", "rw"} : Mprotect(p, prot)
    \/ \E b \in START .. LIMIT : Brk(b)
    \/ Mmap("none", "") \/ Mmap("rw", "") \/ Mmap("r", "lib")
    \/ \E v \in Vcpus : Clone(v) \/ Exit(v)
    \/ Sigaction
    \/ km_dump_core
    \/ km_snapshot_restore

Spec == Init /\ [][Next]_vars

(***************************************************************************)
(* Properties.                                                             *)
(***************************************************************************)

(* Both ends of memory stay in their zones and the pages of the two zones  *)
(* have the protections and owners km_mem_brk(), load_extent() and the     *)
(* mmap code give them.                                                    *)
TypeOK ==
    /\ machine.brk \in START .. LIMIT
    /\ machine.tbrk \in LIMIT .. TOP - MONITOR
    /\ machine.prot \in [Pages -> {"none", "r", "x", "rw", "rx"}]
    /\ machine.kind \in [Upper -> {"free", "user", "monitor"}]
    /\ machine.name \in [Upper -> {"", "lib"}]
    /\ phase \in {"load", "linker", "run", "dumped", "restored", "stopped"}
    /\ \A p \in Upper : p * PAGE < machine.tbrk => machine.kind[p] = "free"
    /\ open \in 0 .. dumps /\ ops \in 0 .. MaxOps /\ dumps \in 0 .. MaxDumps

SegmentLoaded(ph, payload) ==
    \A k \in 0 .. ph.memsz - 1 :
        machine.mem[ph.vaddr + payload.adjust + k] =
            IF k < ph.filesz THEN <<payload.file, ph.offset + k>> ELSE Zero

(* When the payload starts, every segment of the program and of the        *)
(* dynamic linker holds its file's bytes followed by zeroes, whatever was  *)
(* loaded after it on the same or on other pages, brk covers all of them,  *)
(* and km_guest.km_dlopen is the address of the linker's symbol            *)
(* (load_extent, load_dynlink, km_find_dlopen).                            *)
LoadedExact ==
    phase = "run" /\ ops = 0 =>
        /\ \A payload \in {machine.guest, machine.dyn} :
               \A i \in DOMAIN payload.phdrs : SegmentLoaded(payload.phdrs[i], payload)
        /\ EndLoad <= machine.brk
        /\ machine.dyn # NoPayload =>
               machine.mem[machine.dlopen] = <<"dyn", Dynlinker.dlopen>>

(* A whole snapshot has as many program headers as its ELF header says,    *)
(* and each header names the place in the file where the bytes of its      *)
(* range were written: the offsets km_core_write_phdrs() adds up agree     *)
(* with the file position km_guestmem_write() moves along.                 *)
HeadersAgree ==
    snap.there /\ snap.whole =>
        /\ snap.phnum = 1 + Len(snap.phdrs)
        /\ \A i \in DOMAIN snap.phdrs :
              LET ph == snap.phdrs[i]
              IN /\ ph.offset % PAGE = 0 /\ ph.vaddr % PAGE = 0
                 /\ \A k \in 0 .. ph.filesz - 1 :
                       Skipped(was, ph.vaddr, k) \/ snap.data[ph.offset + k] = was.mem[ph.vaddr + k]

(* The pages a payload's segments and its heap lie on. *)
ImagePages(m) ==
    LET of(payload) == UNION {PagesOf(ph.vaddr + payload.adjust, ph.vaddr + payload.adjust + ph.memsz) :
                                 ph \in ToSet(payload.phdrs)}
        guestEnd == Max({ph.vaddr + ph.memsz + m.guest.adjust : ph \in ToSet(m.guest.phdrs)})
    IN of(m.guest) \cup of(m.dyn) \cup PagesOf(guestEnd, m.brk)

(* Every byte of the segments, of the heap and of the mmaps that the       *)
(* payload could access when the snapshot was taken has its value again    *)
(* when the payload is restored.                                           *)
MemoryRestored ==
    phase = "restored" =>
        \A p \in ImagePages(was) \cup {q \in Payload : was.kind[q] = "user"} :
            was.prot[p] # "none" =>
                \A a \in p * PAGE .. (p + 1) * PAGE - 1 : machine.mem[a] = was.mem[a]

(* Both ends of memory, the protection of every mmap and the file name of  *)
(* every accessible one are the same after a restore, and a page of low    *)
(* memory the payload could write is still writable.                       *)
AccessRestored ==
    phase = "restored" =>
        /\ machine.brk = was.brk /\ machine.tbrk = was.tbrk
        /\ \A p \in Payload :
              /\ machine.prot[p] = was.prot[p]
              /\ was.prot[p] # "none" => machine.name[p] = was.name[p]
        /\ \A p \in Pages \ Upper : was.prot[p] = "rw" => machine.prot[p] = "rw"

(* The threads that ran are restored with their registers and monitor      *)
(* state, no other vcpu runs, the vcpu table has no hole below its top (so *)
(* km_vcpu_apply_all() and km_vcpu_get() see all of it), and the payload   *)
(* records and handlers that a later core dump or dlopen uses are back.    *)
ThreadsRestored ==
    phase = "restored" =>
        /\ \A v \in Vcpus :
              /\ was.vcpus[v].state = "run" => machine.vcpus[v] = was.vcpus[v]
              /\ machine.vcpus[v].state = "run" => was.vcpus[v].state = "run"
              /\ machine.vcpus[v].state # "none" =>
                    \A w \in 0 .. v : machine.vcpus[w].state # "none"
        /\ machine.guest = was.guest /\ machine.dyn = was.dyn /\ machine.dlopen = was.dlopen
        /\ machine.sigactions = was.sigactions

(* A restored payload is the one that was saved: memory, access to it, and *)
(* threads.                                                                *)
Restored == MemoryRestored /\ AccessRestored /\ ThreadsRestored

(* The notes fit in the buffer whose size km_core_notes_length() computes  *)
(* before they are written: the km_assert at the end of                    *)
(* km_core_write_notes(), up to the padding inside a note.                 *)
NotesFit ==
    snap.there /\ snap.whole =>
        LET n == snap.notes
        IN Len(n.prstatus) + Len(n.vcpu) + 3 + 1 + (IF n.dyn = NoPayload THEN 0 ELSE 1)
              + Len(n.sighand) <= snap.room

(* After a snapshot that could not be taken there is no partial file:      *)
(* km_dump_core() unlinks it.  The refusal after a fork with pipes is the  *)
(* one way that leaves the truncated file (km_coredump.c:921).             *)
NoPartialFile == snap.there /\ ~snap.whole => snap.why = "forked"

(* What lies on the disk is a sound snapshot or none: headers and data     *)
(* agree, the notes fit, and a failed attempt leaves nothing.              *)
SnapshotSound == TypeOK /\ HeadersAgree /\ NotesFit /\ NoPartialFile
=============================================================================
