----------------------------- MODULE GdbPackets -----------------------------
(***************************************************************************)
(* The dialogue of the gdb stub with its client, command by command.  The  *)
(* commands touch disjoint parts of the state; subject says which of them  *)
(* a behaviour is about.                                                   *)
(***************************************************************************)
EXTENDS GdbBreakpoints, GdbTransfer

CONSTANT Subjects

VARIABLE subject
vars == <<subject, bpvars, trvars>>

About(s, few, all) == IF subject = s THEN all ELSE few
Init ==
    /\ subject \in Subjects
    /\ BpInit
    /\ LinkInit
    /\ XferInit(About("transfer", {"threads"}, Kinds), About("transfer", {<<>>}, Documents))
    /\ VfileInit(About("files", {<<>>}, Documents))
    /\ VContInit(About("vCont", {<<>>}, VContPackets))
    /\ SigInit(About("signals", {1}, Signals))

Next ==
    \/ subject = "traps" /\ TrapNext /\ UNCHANGED <<subject, trvars>>
    \/ subject = "watchpoints" /\ WatchNext /\ UNCHANGED <<subject, trvars>>
    \/ subject = "registers" /\ RegisterNext /\ UNCHANGED <<subject, trvars>>
    \/ subject = "packets" /\ LinkNext /\ UNCHANGED <<subject, bpvars, xfer, vfile, vcont, sig>>
    \/ subject = "transfer" /\ XferNext /\ UNCHANGED <<subject, bpvars, link, vfile, vcont, sig>>
    \/ subject = "files" /\ VfileNext /\ UNCHANGED <<subject, bpvars, link, xfer, vcont, sig>>
    \/ /\ subject = "vCont" /\ km_gdb_handle_vcontpacket
       /\ UNCHANGED <<subject, bpvars, link, xfer, vfile, sig>>
    \/ subject = "signals" /\ SigNext /\ UNCHANGED <<subject, bpvars, link, xfer, vfile, vcont>>

\* Both ends of the connection go on reading and writing.
Fairness == WF_vars(subject = "packets" /\ LinkNext
                      /\ UNCHANGED <<subject, bpvars, xfer, vfile, vcont, sig>>)
Spec == Init /\ [][Next]_vars /\ Fairness

TypeOK ==
    /\ subject \in Subjects /\ attached \in BOOLEAN
    /\ payload.mapped \subseteq Addrs /\ payload.disturbed \subseteq Addrs
    /\ \A bp \in sw : bp.type = "SW" /\ bp.addr \in Addrs /\ bp.len \in Sizes
    /\ \A bp \in Range(hw) : bp.type \in HwTypes /\ bp.addr \in Addrs /\ bp.len \in Sizes
    /\ \A n \in DOMAIN debug.hw : debug.hw[n].code \in 0 .. 3
    /\ regs.vcpu.reported \in Values
    /\ crash \in {"none", "int3"}
    /\ link.rx \in {"start", "data", "sum", "reply"}
    /\ link.client \in {"send", "ack", "reply"}
    /\ xfer.state \in {"read", "done", "error"}
    /\ vfile.host \subseteq HostFds
    /\ vcont.answer \in {"none", "error", "resume"}
    /\ sig.back \in 0 .. 64

\* A client that repeats a packet until it is acknowledged gets an answer to
\* its last one in the end.
AllAnswered == subject = "packets" ~> link.replies = Len(Packets)

\* Breakpoints as a whole: the payload's memory and debug registers hold what the
\* lists say and nothing once the client has left, and a hit is reported where it
\* was.
BreakpointsExact ==
    TypeOK /\ PlantedExactly /\ DetachedClean /\ RegistersMatchLists /\ HitNamed

\* What crosses the connection arrives whole: packets once and in order, documents
\* and files without loss however they are cut, and no file stays open unknown.
DataExact == HandledInOrder /\ TransferExact /\ PreadExact /\ VfilesAccounted

\* What the client says of a thread is what the thread does: the leftmost action
\* of vCont that names it, and the signal that was reported.
ActionsExact == VContLeftmost /\ SignalReturns

=============================================================================
