------------------------------- MODULE GdbStub -------------------------------
(***************************************************************************)
(* The gdb server of KM: the main thread in km_gdb_main_loop, the vcpu     *)
(* threads that report events to it through km_gdb_notify, and the gdb     *)
(* client at the other end of the connection.                              *)
(*                                                                         *)
(* The commands that change neither the run of the vcpus nor the           *)
(* breakpoints are in GdbPackets.  Here a breakpoint is an address, and    *)
(* which one a vcpu runs into is free.  An entry of the event queue is the *)
(* number of the vcpu that holds it, or Ge, the entry on the stack of the  *)
(* main thread that stands for a ^C.                                       *)
(*                                                                         *)
(* scenario (constant in a behaviour) says what the payload and the client *)
(* do, and whether a vcpu may be preempted between its last look at        *)
(* pause_requested and the assignment of IN_GUEST to its state.  A failed  *)
(* assertion, an abort or a null pointer ends the behaviour (crash).       *)
(***************************************************************************)
EXTENDS Naturals, Sequences, FiniteSets, Functions, Queue

CONSTANTS N,           \* vcpus the machine may have
          Addrs,       \* addresses the client sets breakpoints at
          Scenarios,   \* what payload and client do, see ScenarioOK
          MaxExits     \* bound: guest exits other than kicks, and posted signals

Vcpus == 1 .. N
Ge == 0

PayloadDoes == {"breakpoint", "signal", "block", "clone", "exit", "exit_group", "fork"}
ClientDoes == {"break", "step", "vCont", "range", "interrupt", "detach", "drop"}
ScenarioOK == \A s \in Scenarios : /\ s.vcpus \in Vcpus
                                   /\ s.payload \subseteq PayloadDoes
                                   /\ s.client \subseteq ClientDoes
                                   /\ s.clients \in Nat       \* bound: connections
                                   /\ s.waits \in BOOLEAN
                                   /\ s.preempted \in BOOLEAN

ASSUME GdbAssumption == N \in Nat \ {0} /\ ScenarioOK

VARIABLES
    scenario,
    main,      \* where km_gdb_main_loop is
    gdbstub,   \* the stub: client attached, session, event queue, breakpoints
    machine,   \* intr_fd, pause_requested, exit_group, the fork state
    vcpu,      \* the vcpu threads and their gdb_vcpu_state
    remote,    \* the client's end
    crash,
    exits, conns   \* how much of the bounds is used

vars == <<scenario, main, gdbstub, machine, vcpu, remote, crash, exits, conns>>

Signos == {"none", "KVMEXIT", "THREADEXIT", "DOFORK", "SIG", "INT"}
RunStates == {"RUNNING", "STEPPING", "RANGESTEPPING", "PAUSED"}
Pcs == {"none", "pause", "paused", "enter", "guest", "debug", "hcall", "blocked", "stop_check",
        "signals", "notify", "enqueue", "exit_all", "stop", "parked"}

MainPcs == {"accept", "first_pause", "first", "first_clear", "first_resume", "poll", "wait", "drain",
            "select", "talk", "stale", "resume", "done"}

\* A thread that has not started, or that km_gdb_vcpu_state_init has readied.
NewVcpu(where) == [pc |-> where, run_state |-> "RUNNING", ss |-> FALSE, cause |-> "none",
                   pending |-> FALSE, signo |-> "none", active |-> FALSE, event |-> "none"]

Init == /\ scenario \in Scenarios
        /\ main = "accept"
        /\ gdbstub = [attached |-> FALSE, session_requested |-> FALSE, queue |-> <<>>,
                      ge |-> 1, stepping |-> FALSE, breakpoints |-> {}, seen |-> FALSE]
        /\ machine = [intr |-> FALSE, pause_requested |-> scenario.waits, exit_group |-> FALSE,
                      fork_in_progress |-> FALSE, listening |-> TRUE]
        /\ vcpu = [v \in Vcpus |-> NewVcpu(IF v <= scenario.vcpus THEN "pause" ELSE "none")]
        /\ remote = [client |-> "none", inbox |-> "none", owed |-> FALSE]
        /\ crash = "none" /\ exits = 0 /\ conns = 0

Payload(what) == what \in scenario.payload
Client(what) == what \in scenario.client
At(v, where) == crash = "none" /\ vcpu[v].pc = where
MainAt(where) == crash = "none" /\ main = where
Goto(v, where) == vcpu' = [vcpu EXCEPT ![v].pc = where]

\* The vcpus that km_vcpu_apply_all visits and km_vcpu_fetch_by_tid finds.
Live == {v \in Vcpus : vcpu[v].pc \notin {"none", "parked"}}

-----------------------------------------------------------------------------
(* The vcpu threads: km_vcpu_run as far as gdb is concerned *)

\* Mutant of MustPause: pause_requested is not looked at.
MustPauseMutant(v) == gdbstub.attached /\ vcpu[v].run_state = "PAUSED" /\ ~machine.exit_group

\* The condition of the loop in km_vcpu_handle_pause.
MustPause(v) ==
    /\ machine.pause_requested \/ (gdbstub.attached /\ vcpu[v].run_state = "PAUSED")
    /\ ~machine.exit_group

km_vcpu_handle_pause(v) ==
    /\ At(v, "pause")
    /\ Goto(v, IF MustPause(v) THEN "paused"
               ELSE IF machine.exit_group THEN "stop"
               ELSE IF scenario.preempted THEN "enter" ELSE "guest")
    /\ UNCHANGED <<scenario, main, gdbstub, machine, remote, crash, exits, conns>>

\* The first assignment of km_vcpu_one_kvm_run.
EnterGuest(v) ==
    /\ At(v, "enter")
    /\ Goto(v, "guest")
    /\ UNCHANGED <<scenario, main, gdbstub, machine, remote, crash, exits, conns>>

\* KVM_RUN returns with EINTR: the stop signal of km_vcpu_pause_all, or the
\* one that tells of a pending guest signal.
Kicked(v) ==
    /\ At(v, "guest")
    /\ main \in {"first_pause", "wait"} \/ vcpu[v].pending \/ machine.exit_group
    /\ Goto(v, "signals")
    /\ UNCHANGED <<scenario, main, gdbstub, machine, remote, crash, exits, conns>>

\* KVM_EXIT_DEBUG for a single step or a breakpoint.
DebugExit(v) ==
    /\ At(v, "guest") /\ exits < MaxExits
    /\ \E why \in {s \in {"step"} : vcpu[v].ss} \cup
                  {a \in gdbstub.breakpoints : Payload("breakpoint")} :
          vcpu' = [vcpu EXCEPT ![v].pc = "debug", ![v].cause = why]
    /\ exits' = exits + 1
    /\ UNCHANGED <<scenario, main, gdbstub, machine, remote, crash, conns>>

\* Go to km_gdb_notify with a signal number.
Notify(v, signo) == vcpu' = [vcpu EXCEPT ![v].pc = "notify", ![v].signo = signo]

\* The KVM_EXIT_DEBUG case: a step inside the range goes on at once; without a
\* client the exit is ignored.
HandleDebug(v) ==
    /\ At(v, "debug")
    /\ \/ /\ gdbstub.attached /\ vcpu[v].run_state = "RANGESTEPPING" /\ vcpu[v].cause = "step"
          /\ Goto(v, "pause")
       \/ gdbstub.attached /\ Notify(v, "KVMEXIT")
       \/ ~gdbstub.attached /\ Goto(v, "signals")
    /\ UNCHANGED <<scenario, main, gdbstub, machine, remote, crash, exits, conns>>

\* The end of the loop: km_dequeue_signal, then km_gdb_notify or km_deliver_signal.
HandleSignals(v) ==
    /\ At(v, "signals")
    /\ LET tell == vcpu[v].pending /\ gdbstub.attached
       IN  vcpu' = [vcpu EXCEPT ![v].pending = FALSE,
                                ![v].signo = IF tell THEN "SIG" ELSE @,
                                ![v].pc = IF tell THEN "notify" ELSE "pause"]
    /\ UNCHANGED <<scenario, main, gdbstub, machine, remote, crash, exits, conns>>

\* km_gdb_notify sets pause_requested under pause_mtx ...
NotifyPause(v) ==
    /\ At(v, "notify")
    /\ machine' = [machine EXCEPT !.pause_requested = TRUE]
    /\ Goto(v, "enqueue")
    /\ UNCHANGED <<scenario, main, gdbstub, remote, crash, exits, conns>>

\* ... and queues the event under notify_mutex.  An entry that is active stops
\* KM; one that is linked without being active breaks the list.
AfterNotify(signo) == CASE signo \in {"KVMEXIT", "DOFORK"} -> "signals"
                        [] signo = "SIG" -> "pause"
                        [] signo = "THREADEXIT" -> "stop"

\* Mutant of NotifyEnqueue: the main thread is not woken.
NotifyEnqueueMutant(v) ==
    /\ At(v, "enqueue") /\ ~vcpu[v].active /\ v \notin Range(gdbstub.queue)
    /\ gdbstub' = [gdbstub EXCEPT !.queue = Append(@, v), !.session_requested = TRUE]
    /\ vcpu' = [vcpu EXCEPT ![v].active = TRUE, ![v].event = vcpu[v].signo,
                            ![v].signo = "none",
                            ![v].pc = AfterNotify(vcpu[v].signo)]
    /\ UNCHANGED <<scenario, main, machine, remote, crash, exits, conns>>

NotifyEnqueue(v) ==
    /\ At(v, "enqueue")
    /\ IF vcpu[v].active \/ v \in Range(gdbstub.queue)
       THEN /\ crash' = IF vcpu[v].active THEN "already queued" ELSE "list broken"
            /\ UNCHANGED <<gdbstub, machine, vcpu>>
       ELSE /\ gdbstub' = [gdbstub EXCEPT !.queue = Append(@, v), !.session_requested = TRUE]
            /\ machine' = [machine EXCEPT !.intr = @ \/ ~gdbstub.session_requested]
            /\ vcpu' = [vcpu EXCEPT ![v].active = TRUE, ![v].event = vcpu[v].signo,
                                    ![v].signo = "none",
                                    ![v].pc = AfterNotify(vcpu[v].signo)]
            /\ UNCHANGED crash
    /\ UNCHANGED <<scenario, main, remote, exits, conns>>

\* KVM_EXIT_IO: a hypercall that may block, end the thread, or do more.
Hypercall(v) ==
    /\ At(v, "guest") /\ exits < MaxExits
    /\ exits' = exits + 1
    /\ \/ Payload("block") /\ Goto(v, "blocked")
       \/ Payload("exit") /\ Goto(v, "stop_check")
       \/ (Payload("clone") \/ Payload("fork") \/ Payload("exit_group")) /\ Goto(v, "hcall")
    /\ UNCHANGED <<scenario, main, gdbstub, machine, remote, crash, conns>>

Unblocked(v) ==
    /\ At(v, "blocked")
    /\ Goto(v, "signals")
    /\ UNCHANGED <<scenario, main, gdbstub, machine, remote, crash, exits, conns>>

\* HC_STOP: gdb is told when it has paused every other thread.
HcStop(v) ==
    /\ At(v, "stop_check")
    /\ IF gdbstub.attached /\ \A u \in Live \ {v} : vcpu[u].run_state = "PAUSED"
       THEN Notify(v, "THREADEXIT")
       ELSE Goto(v, "stop")
    /\ UNCHANGED <<scenario, main, gdbstub, machine, remote, crash, exits, conns>>

\* km_vcpu_stopped and km_vcpu_put; the last one calls km_signal_machine_fini.
VcpuStopped(v) ==
    /\ At(v, "stop")
    /\ Goto(v, "parked")
    /\ machine' = [machine EXCEPT !.intr = @ \/ (Live = {v} /\ gdbstub.attached)]
    /\ UNCHANGED <<scenario, main, gdbstub, remote, crash, exits, conns>>

\* km_clone: a parked or a new vcpu, or none; km_gdb_vcpu_state_init; and
\* km_gdb_update_vcpu_debug with the stepping flag of the moment.
Clone(v) ==
    /\ At(v, "hcall") /\ Payload("clone")
    /\ LET free == {u \in Vcpus : vcpu[u].pc \in {"parked", "none"} /\ ~machine.exit_group}
       IN  IF free = {}
           THEN Goto(v, "signals")
           ELSE \E u \in free :
                   vcpu' = [vcpu EXCEPT ![v].pc = "signals",
                                        ![u] = [NewVcpu("pause") EXCEPT
                                                  !.event = vcpu[u].event,
                                                  !.ss = IF gdbstub.attached THEN gdbstub.stepping
                                                         ELSE vcpu[u].ss]]
    /\ UNCHANGED <<scenario, main, gdbstub, machine, remote, crash, exits, conns>>

\* km_before_fork, then HC_DOFORK.
StartFork(v) ==
    /\ At(v, "hcall") /\ Payload("fork") /\ ~machine.fork_in_progress
    /\ machine' = [machine EXCEPT !.fork_in_progress = TRUE]
    /\ Notify(v, "DOFORK")
    /\ UNCHANGED <<scenario, main, gdbstub, remote, crash, exits, conns>>

\* HC_ALLSTOP: km_gdb_accept_stop, and km_vcpu_exit_all up to its wait.
ExitGroup(v) ==
    /\ At(v, "hcall") /\ Payload("exit_group")
    /\ machine' = [machine EXCEPT !.listening = @ /\ gdbstub.attached, !.exit_group = TRUE,
                                  !.pause_requested = @ \/ ~machine.exit_group]
    /\ Goto(v, IF machine.exit_group THEN "stop" ELSE "exit_all")
    /\ UNCHANGED <<scenario, main, gdbstub, remote, crash, exits, conns>>

\* The rest of km_vcpu_exit_all, when everybody else is paused or parked.
ExitAllPaused(v) ==
    /\ At(v, "exit_all")
    /\ \A u \in Live \ {v} : vcpu[u].pc = "paused"
    /\ machine' = [machine EXCEPT !.intr = @ \/ gdbstub.attached]
    /\ Goto(v, "stop")
    /\ UNCHANGED <<scenario, main, gdbstub, remote, crash, exits, conns>>

\* km_post_signal by another thread or from outside.
PostSignal(v) ==
    /\ crash = "none" /\ Payload("signal") /\ v \in Live /\ ~vcpu[v].pending /\ exits < MaxExits
    /\ vcpu' = [vcpu EXCEPT ![v].pending = TRUE]
    /\ exits' = exits + 1
    /\ UNCHANGED <<scenario, main, gdbstub, machine, remote, crash, conns>>

VcpuStep(v) == \/ km_vcpu_handle_pause(v) \/ EnterGuest(v) \/ Kicked(v)
               \/ HandleDebug(v) \/ HandleSignals(v) \/ NotifyPause(v) \/ NotifyEnqueue(v)
               \/ Unblocked(v) \/ HcStop(v) \/ VcpuStopped(v)
               \/ Clone(v) \/ StartFork(v) \/ ExitGroup(v) \/ ExitAllPaused(v)

PayloadStep(v) == DebugExit(v) \/ Hypercall(v) \/ PostSignal(v)

-----------------------------------------------------------------------------
(* The main thread: helpers *)

\* Mutant of Resumed: the broadcast is forgotten.
ResumedMutant == vcpu

\* km_vcpu_resume_all wakes who waits on pause_cv.
Resumed == [v \in Vcpus |-> [vcpu[v] EXCEPT !.pc = IF @ = "paused" THEN "pause" ELSE @]]
NobodyInGuest == \A v \in Live : vcpu[v].pc # "guest"
SignoOf(e) == IF e = Ge THEN "INT" ELSE vcpu[e].event
VcpuOf(e) == IF e = Ge THEN gdbstub.ge ELSE e
\* Where gdb_select_event stops: an entry that asks for a fork or tells of a
\* thread's exit, or one of a vcpu that gdb has not paused.
Stops(e) == \/ SignoOf(e) \in {"DOFORK", "THREADEXIT"}
            \/ VcpuOf(e) \notin Live
            \/ vcpu[VcpuOf(e)].run_state # "PAUSED"

Positions == DOMAIN gdbstub.queue
Candidates == Remaining(gdbstub.queue, {i \in Positions : Stops(gdbstub.queue[i])})
NothingSelected == IF Candidates = <<>> THEN TRUE ELSE SignoOf(Head(Candidates)) = "THREADEXIT"
\* The event that is selected asks for a fork.
ForkSelected == Candidates # <<>> /\ \E v \in Vcpus : v = Head(Candidates) /\ vcpu[v].event = "DOFORK"
Delinked(e) == Remaining(gdbstub.queue, {i \in Positions : gdbstub.queue[i] # e})
Inactive(r) == [r EXCEPT !.active = FALSE, !.event = "none", !.cause = "none"]
\* Mutant of Deactivated: the entry stays marked as queued.
DeactivatedMutant(e) == vcpu

Deactivated(e) == IF e = Ge THEN vcpu ELSE [vcpu EXCEPT ![e] = Inactive(@)]

\* km_gdb_vcpu_disengage, for all vcpus that live.
Disengaged == [v \in Vcpus |-> IF v \in Live THEN [vcpu[v] EXCEPT !.run_state = "RUNNING",
                                                                 !.ss = FALSE]
                               ELSE vcpu[v]]

\* km_gdb_detach, on the stub.
Detached == [gdbstub EXCEPT !.attached = FALSE, !.breakpoints = {}, !.stepping = FALSE]

\* km_dofork: this process goes on as the parent, whose vcpus are resumed, or
\* as the child, with km_gdb_fork_reset and a machine of one vcpu, which is
\* resumed unless the child has to wait for a client.
km_dofork(next, intr) ==
    LET e == Head(Candidates)
    IN  \/ /\ gdbstub' = [gdbstub EXCEPT !.queue = Delinked(e)]
           /\ machine' = [machine EXCEPT !.intr = intr, !.fork_in_progress = FALSE,
                                         !.pause_requested = FALSE]
           /\ vcpu' = [Resumed EXCEPT ![e] = Inactive(@)]
           /\ main' = next
           /\ UNCHANGED remote
        \/ /\ gdbstub' = [gdbstub EXCEPT !.attached = FALSE, !.session_requested = FALSE,
                                         !.queue = <<>>, !.breakpoints = {}]
           /\ \E wait \in BOOLEAN :
                 machine' = [machine EXCEPT !.intr = FALSE, !.fork_in_progress = FALSE,
                                            !.listening = TRUE,
                                            !.pause_requested = @ /\ wait]
           /\ vcpu' = [v \in Vcpus |-> NewVcpu(IF v = 1 THEN "pause" ELSE "none")]
           /\ remote' = [client |-> "none", inbox |-> "none", owed |-> FALSE]
           /\ main' = "accept"

-----------------------------------------------------------------------------
(* The main thread without a client *)

\* poll returns for intr_fd: "this can only be a fork signal".
AcceptIntr ==
    /\ MainAt("accept") /\ machine.intr
    /\ IF ~ForkSelected
       THEN crash' = "not a fork" /\ UNCHANGED <<main, gdbstub, machine, vcpu, remote>>
       ELSE km_dofork("accept", FALSE) /\ UNCHANGED crash
    /\ UNCHANGED <<scenario, exits, conns>>

\* km_gdb_accept_connection, and the start of km_vcpu_pause_all.
AcceptClient ==
    /\ MainAt("accept") /\ ~machine.intr /\ machine.listening /\ remote.client = "connecting"
    /\ main' = "first_pause"
    /\ gdbstub' = [gdbstub EXCEPT !.attached = TRUE]
    /\ machine' = [machine EXCEPT !.pause_requested = TRUE]
    /\ remote' = [remote EXCEPT !.client = "open"]
    /\ UNCHANGED <<scenario, vcpu, crash, exits, conns>>

\* accept fails with EINVAL after km_gdb_accept_stop.
AcceptStopped ==
    /\ MainAt("accept") /\ ~machine.intr /\ ~machine.listening
    /\ main' = "done"
    /\ UNCHANGED <<scenario, gdbstub, machine, vcpu, remote, crash, exits, conns>>

\* km_vcpu_pause_all(NULL, GUEST_ONLY) returns.
FirstPaused ==
    /\ MainAt("first_pause") /\ NobodyInGuest
    /\ main' = "first"
    /\ UNCHANGED <<scenario, gdbstub, machine, vcpu, remote, crash, exits, conns>>

\* The first dialogue is over: session_requested is cleared without
\* notify_mutex, then the vcpus are resumed.
FirstClear ==
    /\ MainAt("first_clear")
    /\ gdbstub' = [gdbstub EXCEPT !.session_requested = FALSE]
    /\ main' = "first_resume"
    /\ UNCHANGED <<scenario, machine, vcpu, remote, crash, exits, conns>>

\* The test of the while loop: with no client left the connection is closed.
LoopOrAccept ==
    /\ main' = IF gdbstub.attached THEN "poll" ELSE "accept"
    /\ remote' = IF gdbstub.attached THEN remote
                 ELSE [client |-> "none", inbox |-> "none", owed |-> FALSE]

FirstResume ==
    /\ MainAt("first_resume")
    /\ machine' = [machine EXCEPT !.pause_requested = FALSE]
    /\ vcpu' = Resumed
    /\ LoopOrAccept
    /\ UNCHANGED <<scenario, gdbstub, crash, exits, conns>>

-----------------------------------------------------------------------------
(* The main thread with a client *)

\* poll returns; the vcpus are told to stop.
PollWakes ==
    /\ MainAt("poll") /\ (machine.intr \/ remote.inbox # "none")
    /\ gdbstub' = [gdbstub EXCEPT !.seen = remote.inbox # "none"]
    /\ machine' = [machine EXCEPT !.pause_requested = TRUE]
    /\ main' = "wait"
    /\ UNCHANGED <<scenario, vcpu, remote, crash, exits, conns>>

\* Mutant of Interrupted: the session is noted, the event not queued.
InterruptedMutant(running) ==
    [gdbstub EXCEPT !.seen = FALSE, !.session_requested = @ \/ running # {}]

\* A ^C as the first event, for the first vcpu that gdb has not paused.
Interrupted(running) ==
    IF gdbstub.session_requested \/ running = {}
    THEN [gdbstub EXCEPT !.seen = FALSE]
    ELSE [gdbstub EXCEPT !.session_requested = TRUE, !.seen = FALSE, !.queue = <<Ge>> \o @,
                         !.ge = CHOOSE v \in running : \A u \in running : v <= u]

\* The vcpus have left the guest; a character from the client is a ^C, which
\* becomes the first event unless a session is requested already, or the end
\* of the connection.
GotChar ==
    /\ MainAt("wait") /\ NobodyInGuest
    /\ \/ /\ ~gdbstub.seen
          /\ main' = "drain"
          /\ UNCHANGED <<gdbstub, vcpu, remote>>
       \/ /\ gdbstub.seen /\ remote.inbox = "EOF"
          /\ gdbstub' = [Detached EXCEPT !.seen = FALSE]
          /\ vcpu' = Disengaged
          /\ main' = "accept"
          /\ remote' = [client |-> "none", inbox |-> "none", owed |-> FALSE]
       \/ /\ gdbstub.seen /\ remote.inbox = "^C"
          /\ gdbstub' = Interrupted({v \in Live : vcpu[v].run_state # "PAUSED"})
          /\ remote' = [remote EXCEPT !.inbox = "none"]
          /\ main' = "drain"
          /\ UNCHANGED vcpu
    /\ UNCHANGED <<scenario, machine, crash, exits, conns>>

\* km_empty_out_eventfd; the payload may have ended.
Drain ==
    /\ MainAt("drain")
    /\ machine' = [machine EXCEPT !.intr = FALSE]
    /\ IF Live = {}
       THEN /\ main' = "done"
            /\ gdbstub' = Detached
            /\ remote' = [client |-> "none", inbox |-> "none", owed |-> FALSE]
       ELSE main' = "select" /\ UNCHANGED <<gdbstub, remote>>
    /\ UNCHANGED <<scenario, vcpu, crash, exits, conns>>

\* gdb_select_event and what follows: nothing to report ("N" is sent for a
\* thread's exit), a fork, or the stop reply and the dialogue.
Select ==
    /\ MainAt("select")
    /\ \/ /\ NothingSelected
          /\ main' = "resume"
          /\ remote' = [remote EXCEPT !.owed = @ /\ Candidates = <<>>]
          /\ UNCHANGED <<gdbstub, machine, vcpu, crash>>
       \/ /\ ForkSelected
          /\ km_dofork("select", machine.intr)
          /\ UNCHANGED crash
       \/ /\ ~NothingSelected /\ ~ForkSelected
          /\ IF VcpuOf(Head(Candidates)) \notin Live
             THEN crash' = "no such vcpu" /\ UNCHANGED <<main, gdbstub, vcpu, remote>>
             ELSE /\ gdbstub' = [gdbstub EXCEPT !.queue = Delinked(Head(Candidates)), !.ge = 1]
                  /\ vcpu' = Deactivated(Head(Candidates))
                  /\ remote' = [remote EXCEPT !.owed = FALSE]
                  /\ main' = "talk"
                  /\ UNCHANGED crash
          /\ UNCHANGED machine
    /\ UNCHANGED <<scenario, exits, conns>>

\* gdb_delete_stale_events: the breakpoint a running vcpu has hit is gone.
Stale(e) == /\ VcpuOf(e) \in Live /\ vcpu[VcpuOf(e)].run_state = "RUNNING"
            /\ SignoOf(e) = "KVMEXIT"
            /\ vcpu[e].cause \notin gdbstub.breakpoints \cup {"step"}

FreshEvents == Remaining(gdbstub.queue, {i \in Positions : ~Stale(gdbstub.queue[i])})

gdb_delete_stale_events ==
    /\ MainAt("stale")
    /\ gdbstub' = [gdbstub EXCEPT !.queue = FreshEvents]
    /\ vcpu' = [v \in Vcpus |-> IF v \in Range(gdbstub.queue) /\ Stale(v) THEN Inactive(vcpu[v])
                                ELSE vcpu[v]]
    /\ main' = "select"
    /\ UNCHANGED <<scenario, machine, remote, crash, exits, conns>>

\* The end of the loop, under notify_mutex.
Resume ==
    /\ MainAt("resume")
    /\ gdbstub' = [gdbstub EXCEPT !.session_requested = FALSE]
    /\ machine' = [machine EXCEPT !.pause_requested = FALSE]
    /\ vcpu' = Resumed
    /\ LoopOrAccept
    /\ UNCHANGED <<scenario, crash, exits, conns>>

MainStep == \/ AcceptIntr \/ AcceptClient \/ AcceptStopped \/ FirstPaused \/ FirstClear
            \/ FirstResume \/ PollWakes \/ GotChar \/ Drain \/ Select
            \/ gdb_delete_stale_events \/ Resume

-----------------------------------------------------------------------------
(* gdb_handle_remote_commands *)

Talking == crash = "none" /\ main \in {"first", "talk"}
\* Out of the dialogue.
EndTalk == main' = IF main = "first" THEN "first_clear" ELSE "stale"
\* The characters before the next "$" are skipped, a ^C among them.
TakesPacket == Talking /\ remote.client = "open"
\* The client has resumed the payload and waits for a stop reply.
Resumes == remote' = [remote EXCEPT !.inbox = "none", !.owed = TRUE]
SetSs(on) == [v \in Vcpus |-> [vcpu[v] EXCEPT !.ss = IF v \in Live THEN on ELSE @]]

\* Mutant of SetBreakpoint: the dialogue ends with the answer.
SetBreakpointMutant ==
    /\ TakesPacket /\ Client("break")
    /\ \E a \in Addrs :
          gdbstub' = [gdbstub EXCEPT !.breakpoints = IF a \in @ THEN @ \ {a} ELSE @ \cup {a}]
    /\ vcpu' = SetSs(gdbstub.stepping)
    /\ remote' = [remote EXCEPT !.inbox = "none"]
    /\ EndTalk
    /\ UNCHANGED <<scenario, machine, crash, exits, conns>>

\* Z and z: the list, and km_gdb_update_guest_debug on all vcpus.
SetBreakpoint ==
    /\ TakesPacket /\ Client("break")
    /\ \E a \in Addrs :
          gdbstub' = [gdbstub EXCEPT !.breakpoints = IF a \in @ THEN @ \ {a} ELSE @ \cup {a}]
    /\ vcpu' = SetSs(gdbstub.stepping)
    /\ remote' = [remote EXCEPT !.inbox = "none"]
    /\ UNCHANGED <<scenario, main, machine, crash, exits, conns>>

\* c: km_gdb_disable_ss; the run states stay as they are.
CmdContinue ==
    /\ TakesPacket
    /\ gdbstub' = [gdbstub EXCEPT !.stepping = FALSE]
    /\ vcpu' = SetSs(FALSE)
    /\ EndTalk /\ Resumes
    /\ UNCHANGED <<scenario, machine, crash, exits, conns>>

\* s: single step for the thread that H or the last stop reply has chosen.
CmdStep ==
    /\ TakesPacket /\ Client("step")
    /\ gdbstub' = [gdbstub EXCEPT !.stepping = TRUE]
    /\ \E v \in Live : vcpu' = [SetSs(FALSE) EXCEPT ![v].ss = TRUE]
    /\ EndTalk /\ Resumes
    /\ UNCHANGED <<scenario, machine, crash, exits, conns>>

\* vCont: km_gdb_set_thread_vcont_actions, in the order of the vcpus.  A vcpu
\* that the packet does not mention is paused.
SteppingAfter(act) ==
    LET told == {v \in Live : act[v] # "PAUSED"}
    IN  IF told = {} THEN gdbstub.stepping
        ELSE act[CHOOSE v \in told : \A u \in told : v >= u] # "RUNNING"

CmdVCont ==
    /\ TakesPacket /\ Client("vCont")
    /\ \E act \in [Live -> {"RUNNING", "STEPPING", "PAUSED"} \cup
                           {r \in {"RANGESTEPPING"} : Client("range")}] :
          /\ \E v \in Live : act[v] # "PAUSED"
          /\ IF NobodyInGuest
             THEN /\ gdbstub' = [gdbstub EXCEPT !.stepping = SteppingAfter(act)]
                  /\ vcpu' = [v \in Vcpus |->
                                IF v \notin Live THEN vcpu[v]
                                ELSE [vcpu[v] EXCEPT !.run_state = act[v],
                                                     !.ss = IF act[v] = "PAUSED" THEN @
                                                            ELSE act[v] # "RUNNING"]]
                  /\ EndTalk /\ Resumes
                  /\ UNCHANGED crash
             ELSE crash' = "vCont in guest" /\ UNCHANGED <<main, gdbstub, vcpu, remote>>
    /\ UNCHANGED <<scenario, machine, exits, conns>>

\* D, or the end of the connection: km_gdb_detach.
CmdDetach ==
    /\ Talking
    /\ remote.client = "open" => Client("detach")
    /\ gdbstub' = Detached
    /\ vcpu' = Disengaged
    /\ remote' = [client |-> "gone", inbox |-> "EOF", owed |-> FALSE]
    /\ EndTalk
    /\ UNCHANGED <<scenario, machine, crash, exits, conns>>

-----------------------------------------------------------------------------
(* The client *)

Connect ==
    /\ crash = "none" /\ remote.client = "none" /\ conns < scenario.clients
    /\ remote' = [remote EXCEPT !.client = "connecting"]
    /\ conns' = conns + 1
    /\ UNCHANGED <<scenario, main, gdbstub, machine, vcpu, crash, exits>>

\* ^C while the payload runs; or, after "N", the next packet, which the stub
\* takes for a ^C.
Interrupt ==
    /\ crash = "none" /\ remote.client = "open" /\ remote.inbox = "none"
    /\ remote.owed \/ main = "poll"
    /\ Client("interrupt")
    /\ remote' = [remote EXCEPT !.inbox = "^C"]
    /\ UNCHANGED <<scenario, main, gdbstub, machine, vcpu, crash, exits, conns>>

Drop ==
    /\ crash = "none" /\ remote.client = "open" /\ remote.inbox = "none" /\ Client("drop")
    /\ remote' = [remote EXCEPT !.client = "gone", !.inbox = "EOF"]
    /\ UNCHANGED <<scenario, main, gdbstub, machine, vcpu, crash, exits, conns>>

ClientCommand == SetBreakpoint \/ CmdStep \/ CmdVCont \/ CmdDetach
ClientStep == Connect \/ Interrupt \/ Drop

Next == \/ \E v \in Vcpus : VcpuStep(v) \/ PayloadStep(v)
        \/ MainStep \/ CmdContinue \/ ClientCommand \/ ClientStep

\* Threads run, and a client that has been given a stop reply resumes the
\* payload or leaves; what the payload and the client choose to do is not fair.
Fairness == /\ \A v \in 1 .. N : WF_vars(VcpuStep(v))
            /\ WF_vars(MainStep)
            /\ WF_vars(CmdContinue \/ CmdDetach)

Spec == Init /\ [][Next]_vars /\ Fairness

-----------------------------------------------------------------------------
(* Properties *)

TypeOK ==
    /\ scenario \in Scenarios /\ main \in MainPcs
    /\ gdbstub \in [attached : BOOLEAN, session_requested : BOOLEAN,
                    queue : UNION {[1 .. n -> Vcpus \cup {Ge}] : n \in 0 .. N + 1},
                    ge : Vcpus, stepping : BOOLEAN, breakpoints : SUBSET Addrs, seen : BOOLEAN]
    /\ machine \in [intr : BOOLEAN, pause_requested : BOOLEAN, exit_group : BOOLEAN,
                    fork_in_progress : BOOLEAN, listening : BOOLEAN]
    /\ vcpu \in [Vcpus -> [pc : Pcs, run_state : RunStates, ss : BOOLEAN, pending : BOOLEAN,
                           cause : Addrs \cup {"none", "step"}, signo : Signos,
                           active : BOOLEAN, event : Signos]]
    /\ remote \in [client : {"none", "connecting", "open", "gone"},
                   inbox : {"none", "^C", "EOF"}, owed : BOOLEAN]

\* The main thread does not sleep on a session: whenever it polls with
\* session_requested set, which keeps vcpus from waking it again, intr_fd is
\* readable.
Announced == MainAt("poll") /\ gdbstub.session_requested => machine.intr

\* The event queue holds an entry once, and entry_is_active tells whether it is
\* linked.  The exception is the entry of a thread that ends before the main
\* thread takes it: the entry stays linked when the vcpu is used again.
QueueOk ==
    /\ \A i, j \in DOMAIN gdbstub.queue : gdbstub.queue[i] = gdbstub.queue[j] => i = j
    /\ \A v \in Vcpus :
          /\ vcpu[v].active => v \in Range(gdbstub.queue)
          /\ v \in Range(gdbstub.queue) => vcpu[v].active \/ Payload("clone")

Forks == "fork" \in scenario.payload

\* No vcpu executes guest code while the client talks to the stub.  km_dofork
\* resumes the vcpus in the middle of a session, so this is about payloads
\* that do not fork, and about vcpus that are not preempted on their way into
\* the guest.
AllStopped == ~scenario.preempted /\ ~Forks /\ Talking => NobodyInGuest

\* Why it holds: from the moment the main thread has asked the vcpus to pause
\* until it resumes them pause_requested stays set, and once it has seen them
\* out of the guest nothing lets them back in.
Asked == MainPcs \ {"accept", "poll", "done"}
Held == Asked \ {"first_pause", "wait"}
StopInv ==
    ~scenario.preempted /\ ~Forks =>
       /\ main \in Asked => machine.pause_requested
       /\ main \in Held => \A v \in Vcpus : vcpu[v].pc # "guest"
       /\ \A v \in Vcpus : /\ vcpu[v].pc # "enter"
                            /\ vcpu[v].signo # "DOFORK" /\ vcpu[v].event # "DOFORK"

\* What the stub's main loop says: it "stops all vcpus and lets GDB handle the
\* exit".
StopsAllVcpus == Talking => NobodyInGuest

\* A thread the client has not resumed executes no guest code.
GdbPausedStays ==
    ~scenario.preempted /\ ~Forks /\ gdbstub.attached
       => \A v \in Live : vcpu[v].run_state = "PAUSED" => vcpu[v].pc # "guest"

\* When the stub waits for a client, nothing of the last one is left in the
\* vcpus: no breakpoint, no thread held back, no single step.  A vcpu that was
\* parked when the client left is not visited, so the last is about payloads
\* whose vcpus are not used again.
DetachClean ==
    MainAt("accept") =>
       /\ gdbstub.breakpoints = {}
       /\ \A v \in Live : vcpu[v].run_state = "RUNNING" /\ (vcpu[v].ss => Payload("clone"))

\* The session's bookkeeping: the queue is intact, threads the client holds stay
\* held, and a client that leaves takes everything along.
SessionOk == TypeOK /\ QueueOk /\ GdbPausedStays /\ DetachClean

\* A stop reply answers a command that has resumed the payload: the client gets
\* one per command.  After the "N" for the last running thread its next packet
\* is taken for a ^C, so this is about payloads whose threads do not end.
StopReplyOwed ==
    [][main = "select" /\ main' = "talk" /\ ~Payload("exit")
          => remote.owed \/ ~gdbstub.attached]_vars

\* When the last thread of a payload that the first client has held since its
\* start ends, the main loop reports it and ends.  (A payload that ends while
\* nobody is attached leaves the stub waiting for a client; a later client is
\* not told either.)
ExitReported ==
    (scenario.waits /\ conns = 1 /\ Live = {} /\ gdbstub.attached)
       ~> (main = "done" \/ ~gdbstub.attached \/ crash # "none")

\* A ^C is answered by a stop reply (or the payload, or the connection, ends
\* first) when the client lets all threads run and none of them forks.
InterruptAnswered ==
    (remote.inbox = "^C" /\ remote.owed)
       ~> (~remote.owed \/ crash # "none" \/ Client("vCont") \/ Forks)

\* The same for every payload: the stub takes a session that a thread has
\* requested as the reason for breaking to gdb command level, and so forgets
\* the ^C.
InterruptNeverLost ==
    (remote.inbox = "^C" /\ remote.owed) ~> (~remote.owed \/ crash # "none")

\* A vcpu that stops for gdb runs again, unless the client that has to resume
\* it closes the connection.
StoppedRuns ==
    \A v \in 1 .. N : (vcpu[v].pc = "paused")
       ~> (vcpu[v].pc # "paused" \/ crash # "none" \/ main = "done" \/ Client("drop")
           \/ Client("vCont") \/ (scenario.waits /\ conns = 0) \/ Forks)

\* The stub attends to the payload: a stopped vcpu runs again, and the end of the
\* last one is reported.
PayloadAttended == StoppedRuns /\ ExitReported

=============================================================================
