--------------------------- MODULE GdbBreakpoints ---------------------------
(***************************************************************************)
(* What the commands of a gdb client do to the payload: breakpoints and    *)
(* watchpoints (gdb_kvm_x86_64.c), its memory and its registers; and what  *)
(* a stop reply says of the breakpoint that a vcpu has run into.           *)
(*                                                                         *)
(* A byte of the payload is a letter; one address stands for the page it   *)
(* is in.  prog is what the payload's memory would hold without a          *)
(* debugger.  disturbed collects the addresses where a breakpoint was      *)
(* planted when the client wrote over it, or the payload unmapped it.      *)
(* The reference count of a breakpoint is left out: it is never above 1,   *)
(* because km_gdb_add_breakpoint looks before it inserts.                  *)
(***************************************************************************)
EXTENDS FiniteSets, Functions, Queue

CONSTANTS Addrs,               \* addresses, natural numbers
          Unwritable,          \* where mprotect refuses to make the page writable
          MAX_HW_BREAKPOINTS,
          HwTypes,             \* the kinds of hardware breakpoints the client sets
          Sizes,               \* their lengths
          Bytes,               \* what the client writes to memory
          Values,              \* register values
          MaxWrites            \* bound: memory writes and changes of the mapping

ASSUME BreakpointsAssumption == /\ Addrs \subseteq Nat /\ Unwritable \subseteq Addrs
                                /\ MAX_HW_BREAKPOINTS \in Nat
                                /\ HwTypes \subseteq {"HW", "WRITE", "READ", "ACCESS"}
                                /\ Sizes \subseteq {1, 2, 4, 8}

VARIABLES attached,
          payload,    \* mem, prog and mapped; where it is disturbed; writes so far
          sw, hw,     \* the lists of breakpoints; the order of sw does not matter
          debug,      \* what KVM_SET_GUEST_DEBUG has told the vcpus
          dr_regs,    \* the addresses km keeps beside it
          hit,        \* a debug exit that is to be reported
          reply,      \* the stop reply
          regs,       \* of the vcpu, in the buffer of the stub, at the client
          crash
bpvars == <<attached, payload, sw, hw, debug, dr_regs, hit, reply, regs, crash>>

NoDebug == [step |-> FALSE, sw |-> FALSE, hw |-> <<>>]
NoHit == [how |-> "none"]
NoReply == [how |-> "none"]

BpInit ==
    /\ attached = TRUE
    /\ payload = [mem |-> [a \in Addrs |-> "code"], prog |-> [a \in Addrs |-> "code"],
                  mapped |-> Addrs, disturbed |-> {}, writes |-> 0]
    /\ sw = {} /\ hw = <<>>
    /\ debug = NoDebug /\ dr_regs = [n \in 1 .. MAX_HW_BREAKPOINTS |-> 0]
    /\ hit = NoHit /\ reply = NoReply
    /\ \E v \in Values : regs = [vcpu |-> [reported |-> v, r12 |-> v],
                                 buffer |-> [reported |-> 0, r12 |-> 0],
                                 client |-> [reported |-> 0, r12 |-> 0]]
    /\ crash = "none"

-----------------------------------------------------------------------------
(* The lists of breakpoints *)

bp_list(type) == IF type = "SW" THEN sw ELSE Range(hw)
\* By address only: type and length do not matter within a list.
bp_list_find(type, a) == {bp \in bp_list(type) : bp.addr = a}
\* bp_list_find_byaddr: the breakpoint that covers an address.
km_gdb_find_breakpoint(a) ==
    \/ \E bp \in sw : bp.addr = a
    \/ \E bp \in Range(hw) : a \in bp.addr .. bp.addr + bp.len - 1
sw_remove(a) == {bp \in sw : bp.addr # a}
hw_remove(a) == Removed(hw, CHOOSE n \in DOMAIN hw : hw[n].addr = a)

\* The condition codes of DR7.
Code(type) == CASE type = "HW" -> 0 [] type = "WRITE" -> 1 [] type = "READ" -> 2
                [] type = "ACCESS" -> 3

\* km_gdb_update_vcpu_debug on all vcpus, for given lists.
km_gdb_update_guest_debug(step, newsw, newhw) ==
    /\ debug' = [step |-> step, sw |-> newsw # {},
                 hw |-> [n \in DOMAIN newhw |-> [addr |-> newhw[n].addr, len |-> newhw[n].len,
                                                 code |-> Code(newhw[n].type)]]]
    /\ dr_regs' = [n \in DOMAIN dr_regs |->
                     IF n \in DOMAIN newhw THEN newhw[n].addr ELSE dr_regs[n]]
    /\ hit' = IF hit.how = "none" THEN hit ELSE [hit EXCEPT !.changed = TRUE]

-----------------------------------------------------------------------------
(* Z, z *)

Talks == attached /\ crash = "none"
Poke(a, byte) == payload' = [payload EXCEPT !.mem[a] = byte]

\* km_gdb_add_breakpoint.  An address outside of the payload is refused by the
\* caller; a breakpoint that "was already set" is not set again.
km_gdb_add_breakpoint(type, a, len) ==
    /\ Talks
    /\ a \in payload.mapped /\ bp_list_find(type, a) = {}
    /\ LET bp == [type |-> type, addr |-> a, len |-> len, saved |-> payload.mem[a]]
       IN  \/ /\ type = "SW" /\ a \notin Unwritable
              /\ sw' = sw \cup {bp}
              /\ Poke(a, "int3")
              /\ km_gdb_update_guest_debug(debug.step, sw', hw)
              /\ UNCHANGED hw
           \/ /\ type # "SW" /\ Len(hw) < MAX_HW_BREAKPOINTS
              /\ hw' = <<bp>> \o hw
              /\ km_gdb_update_guest_debug(debug.step, sw, hw')
              /\ UNCHANGED <<sw, payload>>
    /\ UNCHANGED <<attached, reply, regs, crash>>

\* Mutant of km_gdb_remove_breakpoint: the instruction is not put back.
km_gdb_remove_breakpointMutant(type, a) ==
    /\ Talks
    /\ a \in payload.mapped /\ bp_list_find(type, a) # {}
    /\ sw' = IF type = "SW" THEN sw_remove(a) ELSE sw
    /\ hw' = IF type = "SW" THEN hw ELSE hw_remove(a)
    /\ km_gdb_update_guest_debug(debug.step, sw', hw')
    /\ UNCHANGED <<attached, payload, reply, regs, crash>>

\* km_gdb_remove_breakpoint for a mapped address: what was saved is put back,
\* if the trap instruction is still there.
km_gdb_remove_breakpoint(type, a) ==
    /\ Talks
    /\ a \in payload.mapped /\ bp_list_find(type, a) # {}
    /\ IF type = "SW" /\ payload.mem[a] # "int3"
       THEN crash' = "int3" /\ UNCHANGED <<payload, sw, hw, debug, dr_regs, hit>>
       ELSE /\ sw' = IF type = "SW" THEN sw_remove(a) ELSE sw
            /\ hw' = IF type = "SW" THEN hw ELSE hw_remove(a)
            /\ IF type = "SW" THEN \E bp \in bp_list_find(type, a) : Poke(a, bp.saved)
               ELSE UNCHANGED payload
            /\ km_gdb_update_guest_debug(debug.step, sw', hw')
            /\ UNCHANGED crash
    /\ UNCHANGED <<attached, reply, regs>>

\* km_gdb_remove_all_breakpoints: the entry of an address that is no longer
\* mapped stays in the list of software breakpoints.
Kept == {bp \in sw : bp.addr \notin payload.mapped}
km_gdb_remove_all_breakpoints ==
    /\ payload' = [payload EXCEPT
                     !.mem = [a \in Addrs |->
                                IF a \in payload.mapped /\ \E bp \in sw : bp.addr = a
                                THEN (CHOOSE bp \in sw : bp.addr = a).saved
                                ELSE @[a]]]
    /\ sw' = Kept
    /\ hw' = <<>>
TrapsGone == \E bp \in sw : bp.addr \in payload.mapped /\ payload.mem[bp.addr] # "int3"

\* km_gdb_detach: the breakpoints, and single step off on all vcpus.
km_gdb_detach ==
    /\ Talks
    /\ IF TrapsGone
       THEN crash' = "int3" /\ UNCHANGED <<attached, payload, sw, hw, debug, dr_regs, hit>>
       ELSE /\ attached' = FALSE
            /\ km_gdb_remove_all_breakpoints
            /\ km_gdb_update_guest_debug(FALSE, sw', hw')
            /\ UNCHANGED crash
    /\ UNCHANGED <<reply, regs>>

\* The child of a fork: km_gdb_fork_reset does not touch the debug registers,
\* and the vcpu is made anew.
ForkChild ==
    /\ Talks
    /\ IF TrapsGone
       THEN crash' = "int3" /\ UNCHANGED <<attached, payload, sw, hw, debug, dr_regs, hit>>
       ELSE /\ attached' = FALSE
            /\ km_gdb_remove_all_breakpoints
            /\ debug' = NoDebug
            /\ dr_regs' = [n \in DOMAIN dr_regs |-> 0]
            /\ hit' = NoHit
            /\ UNCHANGED crash
    /\ UNCHANGED <<reply, regs>>

Attach ==
    /\ ~attached /\ crash = "none"
    /\ attached' = TRUE
    /\ UNCHANGED <<payload, sw, hw, debug, dr_regs, hit, reply, regs, crash>>

\* s, vCont;s and c: km_gdb_enable_ss and km_gdb_disable_ss.
SingleStep(on) ==
    /\ Talks /\ debug.step # on
    /\ km_gdb_update_guest_debug(on, sw, hw)
    /\ UNCHANGED <<attached, payload, sw, hw, reply, regs, crash>>

-----------------------------------------------------------------------------
(* Memory and registers *)

\* km_guest_mem2hex, one byte: what was saved where a breakpoint is planted.
km_guest_mem2hex(a) ==
    IF bp_list_find("SW", a) = {} THEN payload.mem[a]
    ELSE (CHOOSE bp \in bp_list_find("SW", a) : TRUE).saved

Disturb(a) == IF bp_list_find("SW", a) = {} THEN payload.disturbed
              ELSE payload.disturbed \cup {a}

\* M: km_guest_hex2mem.  It does not look at the breakpoints.
km_guest_hex2mem(a, byte) ==
    /\ Talks /\ payload.writes < MaxWrites
    /\ a \in payload.mapped /\ a \notin Unwritable
    /\ payload' = [payload EXCEPT !.mem[a] = byte, !.prog[a] = byte, !.disturbed = Disturb(a),
                                  !.writes = @ + 1]
    /\ UNCHANGED <<attached, sw, hw, debug, dr_regs, hit, reply, regs, crash>>

\* The payload unmaps a page and maps something else there later.
PayloadMap(a) ==
    /\ crash = "none" /\ payload.writes < MaxWrites
    /\ payload' = IF a \in payload.mapped
                  THEN [payload EXCEPT !.mapped = @ \ {a}, !.disturbed = Disturb(a),
                                       !.writes = @ + 1]
                  ELSE [payload EXCEPT !.mapped = @ \cup {a}, !.mem[a] = "other",
                                       !.prog[a] = "other", !.writes = @ + 1]
    /\ UNCHANGED <<attached, sw, hw, debug, dr_regs, hit, reply, regs, crash>>

\* g: km_gdb_read_registers fills the buffer, all but r12 to r15.
ReadRegisters(r) == [r EXCEPT !.buffer.reported = r.vcpu.reported]
CmdReadRegisters ==
    /\ Talks
    /\ LET r == ReadRegisters(regs)
       IN  regs' = [r EXCEPT !.client = r.buffer]
    /\ UNCHANGED <<attached, payload, sw, hw, debug, dr_regs, hit, reply, crash>>

\* G, after the client has changed a register that it has read.
CmdWriteRegisters(v) ==
    /\ Talks /\ regs.client.reported = regs.vcpu.reported
    /\ LET set == [regs.client EXCEPT !.reported = v]
       IN  regs' = [vcpu |-> set, buffer |-> set, client |-> set]
    /\ UNCHANGED <<attached, payload, sw, hw, debug, dr_regs, hit, reply, crash>>

-----------------------------------------------------------------------------
(* Debug exits *)

\* A vcpu runs into a trap instruction, has made one step, or touches what a
\* debug register watches.  (A code of 2 watches I/O ports and never fires.)
DebugExit ==
    /\ crash = "none" /\ hit.how = "none" /\ reply.how = "none"
    /\ \/ \E bp \in sw :
             /\ debug.sw /\ bp.addr \in payload.mapped /\ payload.mem[bp.addr] = "int3"
             /\ hit' = [how |-> "int3", addr |-> bp.addr, n |-> 0, code |-> 0, changed |-> FALSE]
       \/ /\ debug.step
          /\ hit' = [how |-> "step", addr |-> 0, n |-> 0, code |-> 0, changed |-> FALSE]
       \/ \E n \in DOMAIN debug.hw :
             /\ debug.hw[n].code # 2
             /\ hit' = [how |-> "hw", addr |-> debug.hw[n].addr, n |-> n,
                        code |-> debug.hw[n].code, changed |-> FALSE]
    /\ UNCHANGED <<attached, payload, sw, hw, debug, dr_regs, reply, regs, crash>>

\* The register that DR6 names is looked up in what km keeps, now.
km_gdb_get_hwbreak_info(h) == dr_regs[h.n]

\* gdb_delete_stale_events: no breakpoint covers the address that triggered.
Trigger(h) == IF h.how = "hw" THEN km_gdb_get_hwbreak_info(h) ELSE h.addr
DeleteStale ==
    /\ Talks /\ hit.how \in {"int3", "hw"}
    /\ ~km_gdb_find_breakpoint(Trigger(hit))
    /\ hit' = NoHit
    /\ UNCHANGED <<attached, payload, sw, hw, debug, dr_regs, reply, regs, crash>>

\* km_gdb_exit_debug_stopreply, for a client that has said hwbreak+.
km_gdb_exit_debug_stopreply ==
    /\ Talks /\ hit.how # "none"
    /\ reply' = [how |-> CASE hit.how = "int3" -> "trap"
                           [] hit.how = "step" \/ (hit.how = "hw" /\ hit.code = 0) -> "hwbreak"
                           [] hit.how = "hw" /\ hit.code = 1 -> "watch"
                           [] hit.how = "hw" /\ hit.code = 3 -> "awatch",
                 addr |-> IF hit.how = "hw" THEN km_gdb_get_hwbreak_info(hit) ELSE 0,
                 of |-> hit]
    /\ hit' = NoHit
    /\ UNCHANGED <<attached, payload, sw, hw, debug, dr_regs, regs, crash>>

\* The client has read the reply, or has left; a debug exit without a client
\* is ignored.
Handled ==
    /\ crash = "none" /\ (reply.how # "none" \/ (~attached /\ hit.how # "none"))
    /\ reply' = NoReply
    /\ hit' = IF attached THEN hit ELSE NoHit
    /\ UNCHANGED <<attached, payload, sw, hw, debug, dr_regs, regs, crash>>

Breakpoint(types) ==
    \E type \in types, a \in Addrs : \/ \E len \in Sizes : km_gdb_add_breakpoint(type, a, len)
                                     \/ km_gdb_remove_breakpoint(type, a)
Session == km_gdb_detach \/ ForkChild \/ Attach
DebugStep == DebugExit \/ DeleteStale \/ km_gdb_exit_debug_stopreply \/ Handled

\* Software breakpoints in a memory that client and payload change.
TrapNext == \/ Breakpoint({"SW"}) \/ Session \/ DebugStep
            \/ \E a \in Addrs : PayloadMap(a) \/ \E b \in Bytes : km_guest_hex2mem(a, b)
\* Debug registers.
WatchNext == \/ Breakpoint(HwTypes) \/ Session \/ DebugStep
             \/ \E on \in BOOLEAN : SingleStep(on)
RegisterNext == CmdReadRegisters \/ \E v \in Values : CmdWriteRegisters(v)

-----------------------------------------------------------------------------
(* Properties *)

\* While nobody has written over a breakpoint, the payload's memory differs
\* from what it would be without a debugger exactly by the planted trap
\* instructions, each of which remembers the byte it has replaced, and the
\* client that reads memory sees none of them.
PlantedExactly ==
    \A a \in payload.mapped \ payload.disturbed :
       /\ payload.mem[a] = IF bp_list_find("SW", a) = {} THEN payload.prog[a] ELSE "int3"
       /\ km_guest_mem2hex(a) = payload.prog[a]

\* Once the client has left, the payload runs its own code and no vcpu watches
\* anything; a software breakpoint is only left where the payload has unmapped
\* the page.
DetachedClean ==
    ~attached => /\ \A a \in payload.mapped \ payload.disturbed : payload.mem[a] = payload.prog[a]
                 /\ ~debug.step /\ debug.hw = <<>> /\ hw = <<>>
                 /\ \A bp \in sw : bp.addr \in payload.disturbed

\* Every vcpu watches what the lists say, in the order of the list, and no
\* more than the debug registers can hold.
RegistersMatchLists ==
    /\ Len(hw) <= MAX_HW_BREAKPOINTS
    /\ Len(debug.hw) = Len(hw)
    /\ \A n \in DOMAIN hw : /\ debug.hw[n].addr = hw[n].addr
                            /\ dr_regs[n] = hw[n].addr
    /\ debug.sw => sw # {}
    /\ (\E bp \in sw : bp.addr \notin payload.disturbed) => debug.sw

\* A stop reply for a watchpoint gives the address that has been touched,
\* unless the client has changed the breakpoints since.
HitNamed ==
    reply.how \in {"watch", "awatch"} /\ ~reply.of.changed => reply.addr = reply.of.addr

\* What the comment of km_gdb_get_hwbreak_info says: it discovers "what kind of
\* hw breakpoint fired and the address that caused it".
HitAlwaysNamed == reply.how \in {"watch", "awatch"} => reply.addr = reply.of.addr

\* A write of the registers by a client that has read them changes only the
\* register the client has changed: km_gdb_read_registers fills in "each guest
\* register".
RegistersPreserved == [][regs'.vcpu.r12 = regs.vcpu.r12]_bpvars

=============================================================================
