------------------------------- MODULE VcpuRun -------------------------------
(***************************************************************************)
(* The life of the vcpu threads of one KM process: the km_vcpu_run loop,   *)
(* the pause protocol (km_vcpu_pause_all, km_vcpu_handle_pause,            *)
(* km_vcpu_resume_all), vcpu allocation, parking and reuse (km_vcpu_get,   *)
(* km_vcpu_put, km_vcpu_stopped, km_clone), process exit                   *)
(* (km_vcpu_exit_all, km_machine_fini) and the requests that stop the      *)
(* machine: snapshot (hypercall or management thread), fork and a fatal    *)
(* signal.                                                                 *)
(*                                                                         *)
(* Threads: one per vcpu, numbered by guest tid (slot + 1); the main       *)
(* thread; the management thread.  Every shared variable that the code     *)
(* accesses outside a lock is accessed in a step of its own.  gdb is not   *)
(* enabled here.  The budget of 100 tries of a GUEST_ONLY pause is taken   *)
(* to suffice: the loop is unbounded.                                      *)
(***************************************************************************)
EXTENDS Integers, Sequences, FiniteSets

CONSTANTS MaxVcpus,     \* KVM_MAX_VCPUS
          Hypercalls,   \* what the payload's threads may do, see Entry
          Management,   \* TRUE when the management thread takes requests
          CreateFails   \* TRUE when pthread_create may fail

Vcpus == 1 .. MaxVcpus
Main == 0
Mgt == MaxVcpus + 1
Threads == 0 .. MaxVcpus + 1
NoThread == -1

AllHypercalls == {"nop", "block", "suspend", "clone", "exit", "exit_group",
                  "fork", "snapshot", "fatal"}

ASSUME ConstantsAssumption ==
    /\ MaxVcpus \in Nat \ {0}
    /\ Hypercalls \subseteq AllHypercalls
    /\ Management \in BOOLEAN
    /\ CreateFails \in BOOLEAN

VARIABLES
    state,            \* vcpu->state; "NONE" for an empty slot of vm_vcpus
    created,          \* the vcpus whose vcpu_thread is set
    restart,          \* the vcpus whose interrupted hypercall is to be redone
    vm_vcpu_cnt,      \* allocated vcpus: 1 .. vm_vcpu_cnt
    idle,             \* vm_idle_vcpus, head first
    run_cnt,          \* vm_vcpu_run_cnt
    vcpu_mtx,         \* owner of vm_vcpu_mtx
    exit_group,
    pause_requested,
    stopsig,          \* vcpus with a KM_SIGVCPUSTOP | VCPU_STOP not yet handled
    scan,             \* loop variables of the km_vcpu_apply_all under way
    shutdown_fd,      \* the eventfd's counter is not zero
    fork_in_progress,
    forker,           \* the vcpu whose registers km_fork_state holds
    in_snapshot,
    freed,            \* vcpus 1 .. freed are gone (km_vcpu_fini)
    pc,               \* where each thread is
    ret,              \* where each thread's km_vcpu_pause_all returns to
    child,            \* km_clone's new_vcpu
    seen              \* what an unlocked km_vcpu_put has read

sharedVars == <<run_cnt, idle, vm_vcpu_cnt, created, child, seen>>
flagVars == <<exit_group, pause_requested, shutdown_fd, fork_in_progress, forker, in_snapshot>>
scanVars == <<vcpu_mtx, scan, ret>>
vars == <<state, restart, stopsig, freed, pc, sharedVars, flagVars, scanVars>>

States == {"NONE", "PARKED_IDLE", "STARTING", "HYPERCALL", "HCALL_INT", "IN_GUEST", "PAUSED"}
Returns == {"exit_fini", "snap_create", "fork_kick", "fatal_dump"}
PausePCs == {"pause_all", "apply_all", "scan"}
SnapshotPCs == {"snap_block", "snap_create", "unblock_cont", "unblock_stop", "resume_cont", "resume_stop"}
ParkPCs == {"parking", "parked", "waking", "unpark"}
VcpuPCs == PausePCs \cup SnapshotPCs \cup ParkPCs \cup Returns \cup
           {"none", "handle_pause", "paused", "woken", "leave_pause", "enter", "guest", "hcall",
            "blocked", "suspended", "clone_get", "clone_run", "clone_put", "clone_dec", "stopped",
            "exited", "exit_all", "fork", "fatal"}
MgtPCs == PausePCs \cup SnapshotPCs \cup {"idle", "exited"}
MainPCs == {"wait", "dofork", "forking", "resume", "fini", "join", "exited"}

VcpuTypeOK ==
    /\ state \in [Vcpus -> States]
    /\ created \in SUBSET Vcpus
    /\ restart \in SUBSET Vcpus
    /\ stopsig \in SUBSET Vcpus
    /\ vm_vcpu_cnt \in 0 .. MaxVcpus

ListTypeOK ==
    /\ idle \in Seq(Vcpus)
    /\ run_cnt \in Int
    /\ child \in [Vcpus -> Vcpus]
    /\ seen \in [Vcpus -> [idle : Seq(Vcpus), run_cnt : Int]]

PauseTypeOK ==
    /\ exit_group \in BOOLEAN
    /\ pause_requested \in BOOLEAN
    /\ shutdown_fd \in BOOLEAN
    /\ fork_in_progress \in BOOLEAN
    /\ forker \in Vcpus
    /\ in_snapshot \in BOOLEAN
    /\ vcpu_mtx \in Threads \cup {NoThread}
    /\ scan \in [i : 1 .. MaxVcpus + 1, count : Nat]
    /\ ret \in [Threads -> Returns]

PcTypeOK ==
    /\ pc \in [Threads -> VcpuPCs \cup MgtPCs \cup MainPCs]
    /\ \A v \in Vcpus : pc[v] \in VcpuPCs
    /\ pc[Mgt] \in MgtPCs
    /\ pc[Mgt] \in PausePCs => ret[Mgt] = "snap_create"
    /\ pc[Main] \in MainPCs
    /\ freed \in 0 .. vm_vcpu_cnt
    /\ pc[Main] = "join" => freed < vm_vcpu_cnt

\* Type correctness of the machine and vcpu fields; only the vcpus that exist
\* are freed.
TypeOK == VcpuTypeOK /\ ListTypeOK /\ PauseTypeOK /\ PcTypeOK

-----------------------------------------------------------------------------
\* The payload's first vcpu has just been started by km_start_vcpus.
Init ==
    /\ state = [v \in Vcpus |-> IF v = 1 THEN "HYPERCALL" ELSE "NONE"]
    /\ created = {1}
    /\ restart = {}
    /\ stopsig = {}
    /\ vm_vcpu_cnt = 1
    /\ idle = <<>>
    /\ run_cnt = 1
    /\ vcpu_mtx = NoThread
    /\ exit_group = FALSE
    /\ pause_requested = FALSE
    /\ shutdown_fd = FALSE
    /\ fork_in_progress = FALSE
    /\ forker = 1
    /\ in_snapshot = FALSE
    /\ scan = [i |-> 1, count |-> 0]
    /\ freed = 0
    /\ pc = [t \in Threads |-> CASE t = Main -> "wait"
                                 [] t = Mgt -> "idle"
                                 [] t = 1 -> "handle_pause"
                                 [] OTHER -> "none"]
    /\ ret = [t \in Threads |-> "exit_fini"]
    /\ child = [v \in Vcpus |-> 1]
    /\ seen = [v \in Vcpus |-> [idle |-> <<>>, run_cnt |-> 0]]

Alive == pc[Main] # "exited"
Goto(t, l) == pc' = [pc EXCEPT ![t] = l]
SetState(v, s) == state' = [state EXCEPT ![v] = s]
MtxFree == vcpu_mtx = NoThread
\* Mutant of ThrFree: nobody takes thr_mtx.
ThrFreeMutant(v) == TRUE

\* thr_mtx of v: held by its own thread from km_vcpu_put to cond_wait, and by
\* a km_clone whose pthread_create failed until it has put the vcpu back.
ThrFree(v) == /\ pc[v] # "parking"
              /\ \A u \in Vcpus : ~(pc[u] \in {"clone_put", "clone_dec"} /\ child[u] = v)

-----------------------------------------------------------------------------
(* km_vcpu_run and km_vcpu_handle_pause *)

MustPause(v) == pause_requested /\ ~exit_group

\* Mutant of HandlePause: "if" for "while" around cond_wait.
HandlePauseMutant(v) ==
    /\ pc[v] \in {"handle_pause", "woken"}
    /\ IF MustPause(v) /\ pc[v] = "handle_pause"
       THEN SetState(v, "PAUSED") /\ Goto(v, "paused")
       ELSE /\ SetState(v, IF pc[v] = "woken" THEN "HYPERCALL" ELSE state[v])
            /\ Goto(v, "leave_pause")
    /\ UNCHANGED <<restart, stopsig, freed, sharedVars, flagVars, scanVars>>

\* The test under pause_mtx, on entry and after every return of cond_wait.
HandlePause(v) ==
    /\ pc[v] \in {"handle_pause", "woken"}
    /\ IF MustPause(v)
       THEN SetState(v, "PAUSED") /\ Goto(v, "paused")
       ELSE /\ SetState(v, IF pc[v] = "woken" THEN "HYPERCALL" ELSE state[v])
            /\ Goto(v, "leave_pause")
    /\ UNCHANGED <<restart, stopsig, freed, sharedVars, flagVars, scanVars>>

\* cond_wait(pause_cv) may return without a broadcast.
SpuriousResume(v) ==
    /\ pc[v] = "paused"
    /\ Goto(v, "woken")
    /\ UNCHANGED <<state, restart, stopsig, freed, sharedVars, flagVars, scanVars>>

\* pause_mtx is released; the vcpu exits, redoes its hypercall or enters KVM.
LeavePause(v) ==
    /\ pc[v] = "leave_pause"
    /\ IF exit_group
       THEN Goto(v, "stopped") /\ UNCHANGED <<state, restart>>
       ELSE IF v \in restart
       THEN Goto(v, "blocked") /\ restart' = restart \ {v} /\ UNCHANGED state
       ELSE Goto(v, "enter") /\ SetState(v, "IN_GUEST") /\ UNCHANGED restart
    /\ UNCHANGED <<stopsig, freed, sharedVars, flagVars, scanVars>>

\* ioctl(KVM_RUN), some instructions after vcpu->state was set.
KvmRun(v) ==
    /\ pc[v] = "enter"
    /\ Goto(v, "guest")
    /\ UNCHANGED <<state, restart, stopsig, freed, sharedVars, flagVars, scanVars>>

\* The guest executes the OUT instruction of a hypercall.
KvmExitIo(v) ==
    /\ pc[v] = "guest"
    /\ SetState(v, "HYPERCALL")
    /\ Goto(v, "hcall")
    /\ UNCHANGED <<restart, stopsig, freed, sharedVars, flagVars, scanVars>>

\* Mutant of StopSignal: installed with SA_RESTART, it does not end system calls.
StopSignalMutant(v) ==
    /\ v \in stopsig
    /\ pc[v] # "exited"
    /\ stopsig' = stopsig \ {v}
    /\ SetState(v, IF pc[v] = "guest" THEN "HYPERCALL" ELSE state[v])
    /\ IF pc[v] = "guest" THEN Goto(v, "handle_pause") ELSE UNCHANGED pc
    /\ UNCHANGED <<restart, freed, sharedVars, flagVars, scanVars>>

\* km_vcpu_pause_sighandler for a signal with VCPU_STOP.  It ends KVM_RUN or an
\* interruptible system call with EINTR; a signal that is handled before
\* KVM_RUN or the system call is entered has no such effect.
StopSignal(v) ==
    /\ v \in stopsig
    /\ pc[v] # "exited"
    /\ stopsig' = stopsig \ {v}
    /\ SetState(v, CASE pc[v] = "guest" -> "HYPERCALL"
                     [] state[v] = "HYPERCALL" -> "HCALL_INT"
                     [] OTHER -> state[v])
    /\ IF pc[v] \in {"guest", "blocked"} THEN Goto(v, "handle_pause") ELSE UNCHANGED pc
    /\ restart' = IF pc[v] = "blocked" THEN restart \cup {v} ELSE restart
    /\ UNCHANGED <<freed, sharedVars, flagVars, scanVars>>

\* Where the code of a hypercall starts.
Entry(h) ==
    CASE h = "nop" -> "handle_pause"       [] h = "block" -> "blocked"
      [] h = "suspend" -> "suspended"      [] h = "clone" -> "clone_get"
      [] h = "exit" -> "stopped"           [] h = "exit_group" -> "exit_all"
      [] h = "fork" -> "fork"              [] h = "snapshot" -> "snap_block"
      [] h = "fatal" -> "fatal"

\* hypercall(): the table call.
Hypercall(v) ==
    /\ pc[v] = "hcall"
    /\ \E h \in Hypercalls : Goto(v, Entry(h))
    /\ UNCHANGED <<state, restart, stopsig, freed, sharedVars, flagVars, scanVars>>

\* A blocking system call, or the wait of sigsuspend, is over.
HypercallReturns(v) ==
    /\ pc[v] \in {"blocked", "suspended"}
    /\ Goto(v, "handle_pause")
    /\ UNCHANGED <<state, restart, stopsig, freed, sharedVars, flagVars, scanVars>>

-----------------------------------------------------------------------------
(* Allocation, reuse and parking *)

\* The error returns of km_vcpu_get and the failure of km_vcpu_init: EAGAIN.
GetFails(v) ==
    /\ exit_group \/ idle = <<>>
    /\ Goto(v, "handle_pause")
    /\ UNCHANGED <<state, sharedVars>>


GetIdle(v) ==
    LET new == Head(idle) IN
    /\ ~exit_group
    /\ idle # <<>>
    /\ ThrFree(new)
    /\ idle' = Tail(idle)
    /\ run_cnt' = run_cnt + 1
    /\ SetState(new, "STARTING")
    /\ child' = [child EXCEPT ![v] = new]
    /\ Goto(v, "clone_run")
    /\ UNCHANGED <<vm_vcpu_cnt, created, seen>>

GetNew(v) ==
    /\ ~exit_group
    /\ idle = <<>>
    /\ vm_vcpu_cnt < MaxVcpus
    /\ vm_vcpu_cnt' = vm_vcpu_cnt + 1
    /\ run_cnt' = run_cnt + 1
    /\ SetState(vm_vcpu_cnt + 1, "STARTING")
    /\ child' = [child EXCEPT ![v] = vm_vcpu_cnt + 1]
    /\ Goto(v, "clone_run")
    /\ UNCHANGED <<idle, created, seen>>

\* km_vcpu_get, all of it under vm_vcpu_mtx.
CloneGet(v) ==
    /\ pc[v] = "clone_get"
    /\ MtxFree
    /\ GetFails(v) \/ GetIdle(v) \/ GetNew(v)
    /\ UNCHANGED <<restart, stopsig, freed, flagVars, scanVars>>

\* km_run_vcpu_thread under the new vcpu's thr_mtx: wake its parked thread,
\* create a thread for it, or fail to.
CloneRun(v) ==
    LET new == child[v] IN
    /\ pc[v] = "clone_run"
    /\ ThrFree(new)
    /\ \/ /\ new \in created
          /\ SetState(new, "HYPERCALL")
          /\ pc' = [pc EXCEPT ![v] = "handle_pause",
                              ![new] = IF @ = "parked" THEN "waking" ELSE @]
          /\ UNCHANGED <<created, seen>>
       \/ /\ new \notin created
          /\ SetState(new, "HYPERCALL")
          /\ created' = created \cup {new}
          /\ pc' = [pc EXCEPT ![v] = "handle_pause", ![new] = "handle_pause"]
          /\ UNCHANGED seen
       \/ /\ CreateFails
          /\ new \notin created
          /\ seen' = [seen EXCEPT ![v].idle = idle]
          /\ Goto(v, "clone_put")
          /\ UNCHANGED <<state, created>>
    /\ UNCHANGED <<restart, stopsig, freed, run_cnt, idle, vm_vcpu_cnt, child, flagVars, scanVars>>

\* km_clone puts the vcpu back without vm_vcpu_mtx: the list head has been read
\* before, and the counter is read before it is written, so that the accesses
\* of other threads may come in between.
ClonePut(v) ==
    /\ pc[v] = "clone_put"
    /\ SetState(child[v], "PARKED_IDLE")
    /\ idle' = <<child[v]>> \o seen[v].idle
    /\ seen' = [seen EXCEPT ![v].run_cnt = run_cnt]
    /\ Goto(v, "clone_dec")
    /\ UNCHANGED <<restart, stopsig, freed, run_cnt, vm_vcpu_cnt, created, child, flagVars, scanVars>>

\* Mutant of CloneDec: the vcpu that was put back still counts as running.
CloneDecMutant(v) ==
    /\ pc[v] = "clone_dec"
    /\ Goto(v, "handle_pause")
    /\ UNCHANGED <<state, restart, stopsig, freed, sharedVars, flagVars, scanVars>>

CloneDec(v) ==
    /\ pc[v] = "clone_dec"
    /\ run_cnt' = seen[v].run_cnt - 1
    /\ shutdown_fd' = (shutdown_fd \/ run_cnt' = 0)
    /\ Goto(v, "handle_pause")
    /\ UNCHANGED <<state, restart, stopsig, freed, idle, vm_vcpu_cnt, created, child, seen,
                   exit_group, pause_requested, fork_in_progress, forker, in_snapshot, scanVars>>

\* km_vcpu_stopped up to the release of vm_vcpu_mtx: km_exit, km_vcpu_put.
Stopped(v) ==
    /\ pc[v] = "stopped"
    /\ MtxFree
    /\ SetState(v, "PARKED_IDLE")
    /\ idle' = <<v>> \o idle
    /\ run_cnt' = run_cnt - 1
    /\ shutdown_fd' = (shutdown_fd \/ run_cnt' = 0)
    /\ Goto(v, "parking")
    /\ UNCHANGED <<restart, stopsig, freed, vm_vcpu_cnt, created, child, seen, exit_group,
                   pause_requested, fork_in_progress, forker, in_snapshot, scanVars>>

\* Mutant of Park: the loop does not look at exit_group.
ParkMutant(v) ==
    /\ pc[v] \in {"parking", "waking"}
    /\ Goto(v, IF state[v] \in {"HYPERCALL", "HCALL_INT"} THEN "unpark" ELSE "parked")
    /\ UNCHANGED <<state, restart, stopsig, freed, sharedVars, flagVars, scanVars>>

\* The loop around cond_wait(thr_cv), under thr_mtx.
Park(v) ==
    /\ pc[v] \in {"parking", "waking"}
    /\ Goto(v, IF exit_group \/ state[v] \in {"HYPERCALL", "HCALL_INT"} THEN "unpark" ELSE "parked")
    /\ UNCHANGED <<state, restart, stopsig, freed, sharedVars, flagVars, scanVars>>

SpuriousUnpark(v) ==
    /\ pc[v] = "parked"
    /\ Goto(v, "waking")
    /\ UNCHANGED <<state, restart, stopsig, freed, sharedVars, flagVars, scanVars>>

\* The end of km_vcpu_stopped: exit the thread or serve the next guest thread.
Unpark(v) ==
    /\ pc[v] = "unpark"
    /\ IF exit_group
       THEN SetState(v, "PARKED_IDLE") /\ Goto(v, "exited")
       ELSE Goto(v, "handle_pause") /\ UNCHANGED state
    /\ UNCHANGED <<restart, stopsig, freed, sharedVars, flagVars, scanVars>>

-----------------------------------------------------------------------------
(* km_vcpu_pause_all and km_vcpu_resume_all *)

PauseAll(t, l) ==
    /\ Goto(t, "pause_all")
    /\ ret' = [ret EXCEPT ![t] = l]

\* ALL for exit_group and snapshot, GUEST_ONLY for fork and fatal signals.
PauseType(t) == IF ret[t] \in {"exit_fini", "snap_create"} THEN "ALL" ELSE "GUEST_ONLY"

RequestPause(t) ==
    /\ pc[t] = "pause_all"
    /\ pause_requested' = TRUE
    /\ Goto(t, "apply_all")
    /\ UNCHANGED <<state, restart, stopsig, freed, sharedVars, exit_group, shutdown_fd,
                   fork_in_progress, forker, in_snapshot, scanVars>>

ApplyAll(t) ==
    /\ pc[t] = "apply_all"
    /\ MtxFree
    /\ vcpu_mtx' = t
    /\ scan' = [i |-> 1, count |-> 0]
    /\ Goto(t, "scan")
    /\ UNCHANGED <<state, restart, stopsig, freed, sharedVars, flagVars, ret>>

\* Mutant of Counts: every pause is GUEST_ONLY.
CountsMutant(t, v) == v # t /\ state[v] = "IN_GUEST"

\* km_vcpu_not_paused for ALL, km_vcpu_in_guest for GUEST_ONLY.
Counts(t, v) ==
    /\ v # t
    /\ IF PauseType(t) = "ALL" THEN state[v] \notin {"PARKED_IDLE", "PAUSED"}
                               ELSE state[v] = "IN_GUEST"

\* One vcpu of the scan: count it and send it KM_SIGVCPUSTOP.
ScanVcpu(t) ==
    /\ pc[t] = "scan"
    /\ freed < scan.i /\ scan.i <= vm_vcpu_cnt
    /\ ThrFree(scan.i)
    /\ scan' = [i |-> scan.i + 1, count |-> IF Counts(t, scan.i) THEN scan.count + 1 ELSE scan.count]
    /\ stopsig' = IF Counts(t, scan.i) /\ scan.i \in created THEN stopsig \cup {scan.i} ELSE stopsig
    /\ UNCHANGED <<state, restart, freed, pc, sharedVars, flagVars, vcpu_mtx, ret>>

\* An empty slot ends the scan; km_vcpu_pause_all returns or tries again in 1 ms.
ScanEnds(t) ==
    /\ pc[t] = "scan"
    /\ ~(freed < scan.i /\ scan.i <= vm_vcpu_cnt)
    /\ vcpu_mtx' = NoThread
    /\ Goto(t, IF scan.count = 0 THEN ret[t] ELSE "apply_all")
    /\ UNCHANGED <<state, restart, stopsig, freed, sharedVars, flagVars, scan, ret>>

\* km_vcpu_resume_all by t, which goes on at l: the broadcast of pause_cv.
ResumeAll(t, l) ==
    /\ pause_requested' = FALSE
    /\ pc' = [u \in Threads |-> IF u = t THEN l
                                ELSE IF pc[u] = "paused" THEN "woken" ELSE pc[u]]

-----------------------------------------------------------------------------
(* exit_group and the fatal signal *)

\* km_vcpu_exit_all: the first caller stops the others, a later one just stops.
ExitAll(v) ==
    /\ pc[v] = "exit_all"
    /\ MtxFree
    /\ exit_group' = TRUE
    /\ IF exit_group THEN Goto(v, "stopped") /\ UNCHANGED ret ELSE PauseAll(v, "exit_fini")
    /\ UNCHANGED <<state, restart, stopsig, freed, sharedVars, pause_requested, shutdown_fd,
                   fork_in_progress, forker, in_snapshot, vcpu_mtx, scan>>

\* km_signal_machine_fini, then km_vcpu_stopped.
ExitFini(v) ==
    /\ pc[v] = "exit_fini"
    /\ shutdown_fd' = TRUE
    /\ Goto(v, "stopped")
    /\ UNCHANGED <<state, restart, stopsig, freed, sharedVars, exit_group, pause_requested,
                   fork_in_progress, forker, in_snapshot, scanVars>>

\* km_deliver_signal, default action that terminates.
Fatal(v) ==
    /\ pc[v] = "fatal"
    /\ PauseAll(v, "fatal_dump")
    /\ UNCHANGED <<state, restart, stopsig, freed, sharedVars, flagVars, vcpu_mtx, scan>>

\* After the core dump KM kills itself with the same signal.
FatalDump(v) ==
    /\ pc[v] = "fatal_dump"
    /\ Goto(Main, "exited")
    /\ UNCHANGED <<state, restart, stopsig, freed, sharedVars, flagVars, scanVars>>

-----------------------------------------------------------------------------
(* Snapshot: snapshot_hcall on a vcpu, mgt_main on the management thread *)

MgtRequest ==
    /\ Management
    /\ pc[Mgt] = "idle"
    /\ Goto(Mgt, "snap_block")
    /\ UNCHANGED <<state, restart, stopsig, freed, sharedVars, flagVars, scanVars>>

Continue(t) == IF t = Mgt THEN "idle" ELSE "handle_pause"

\* km_snapshot_block: one snapshot at a time, EAGAIN for the others.
SnapshotBlock(t) ==
    /\ pc[t] = "snap_block"
    /\ IF in_snapshot
       THEN Goto(t, Continue(t)) /\ UNCHANGED <<in_snapshot, ret>>
       ELSE in_snapshot' = TRUE /\ PauseAll(t, "snap_create")
    /\ UNCHANGED <<state, restart, stopsig, freed, sharedVars, exit_group, pause_requested,
                   shutdown_fd, fork_in_progress, forker, vcpu_mtx, scan>>

\* km_snapshot_create: live or failed, the payload goes on; otherwise it ends,
\* and the management thread says so by setting exit_group itself.
SnapshotCreate(t) ==
    /\ pc[t] = "snap_create"
    /\ \/ Goto(t, "unblock_cont") /\ UNCHANGED exit_group
       \/ Goto(t, "unblock_stop") /\ exit_group' = (exit_group \/ t = Mgt)
    /\ UNCHANGED <<state, restart, stopsig, freed, sharedVars, pause_requested, shutdown_fd,
                   fork_in_progress, forker, in_snapshot, scanVars>>

\* km_snapshot_unblock, first under snap_mutex ...
SnapshotUnblock(t) ==
    /\ pc[t] \in {"unblock_cont", "unblock_stop"}
    /\ in_snapshot' = FALSE
    /\ Goto(t, IF pc[t] = "unblock_cont" THEN "resume_cont" ELSE "resume_stop")
    /\ UNCHANGED <<state, restart, stopsig, freed, sharedVars, exit_group, pause_requested,
                   shutdown_fd, fork_in_progress, forker, scanVars>>

\* ... then km_vcpu_resume_all.  A vcpu's destructive snapshot is HC_ALLSTOP.
SnapshotResume(t) ==
    /\ pc[t] \in {"resume_cont", "resume_stop"}
    /\ ResumeAll(t, CASE pc[t] = "resume_cont" -> Continue(t)
                      [] t = Mgt -> "exited"
                      [] OTHER -> "exit_all")
    /\ UNCHANGED <<state, restart, stopsig, freed, sharedVars, exit_group, shutdown_fd,
                   fork_in_progress, forker, in_snapshot, scanVars>>

-----------------------------------------------------------------------------
(* fork and the main thread *)

\* Mutant of BeforeFork: forks are not serialised.
BeforeForkMutant(v) ==
    /\ pc[v] = "fork"
    /\ fork_in_progress' = TRUE /\ forker' = v /\ PauseAll(v, "fork_kick")
    /\ UNCHANGED <<state, restart, stopsig, freed, sharedVars, exit_group, pause_requested,
                   shutdown_fd, in_snapshot, vcpu_mtx, scan>>

\* km_before_fork: forks are serialised; reading the registers may fail.
BeforeFork(v) ==
    /\ pc[v] = "fork"
    /\ ~fork_in_progress
    /\ \/ fork_in_progress' = TRUE /\ forker' = v /\ PauseAll(v, "fork_kick")
       \/ Goto(v, "handle_pause") /\ UNCHANGED <<fork_in_progress, forker, ret>>
    /\ UNCHANGED <<state, restart, stopsig, freed, sharedVars, exit_group, pause_requested,
                   shutdown_fd, in_snapshot, vcpu_mtx, scan>>

\* HC_DOFORK: hand over to the main thread.
ForkKick(v) ==
    /\ pc[v] = "fork_kick"
    /\ shutdown_fd' = TRUE
    /\ Goto(v, "handle_pause")
    /\ UNCHANGED <<state, restart, stopsig, freed, sharedVars, exit_group, pause_requested,
                   fork_in_progress, forker, in_snapshot, scanVars>>

\* km_wait_on_eventfd: the read takes the whole count.
MainWakes ==
    /\ pc[Main] = "wait"
    /\ shutdown_fd
    /\ shutdown_fd' = FALSE
    /\ Goto(Main, "dofork")
    /\ UNCHANGED <<state, restart, stopsig, freed, sharedVars, exit_group, pause_requested,
                   fork_in_progress, forker, in_snapshot, scanVars>>

\* km_dofork: nothing to fork means that the payload is done.
MainDofork ==
    /\ pc[Main] = "dofork"
    /\ Goto(Main, IF fork_in_progress THEN "forking" ELSE "fini")
    /\ UNCHANGED <<state, restart, stopsig, freed, sharedVars, flagVars, scanVars>>

\* Mutant of MainForked: the parent does not resume its vcpus.
MainForkedMutant ==
    /\ pc[Main] = "forking"
    /\ fork_in_progress' = FALSE
    /\ Goto(Main, "wait")
    /\ UNCHANGED <<state, restart, stopsig, freed, sharedVars, exit_group, pause_requested,
                   shutdown_fd, forker, in_snapshot, scanVars>>

\* The parent's side after fork(), succeeded or not.
MainForked ==
    /\ pc[Main] = "forking"
    /\ fork_in_progress' = FALSE
    /\ Goto(Main, "resume")
    /\ UNCHANGED <<state, restart, stopsig, freed, sharedVars, exit_group, pause_requested,
                   shutdown_fd, forker, in_snapshot, scanVars>>

MainResumes ==
    /\ pc[Main] = "resume"
    /\ ResumeAll(Main, "wait")
    /\ UNCHANGED <<state, restart, stopsig, freed, sharedVars, exit_group, shutdown_fd,
                   fork_in_progress, forker, in_snapshot, scanVars>>

\* km_machine_fini, km_vcpu_fini: signal thr_cv of the next vcpu and join it.
MainFini ==
    /\ pc[Main] = "fini"
    /\ IF freed = vm_vcpu_cnt
       THEN Goto(Main, "exited") /\ UNCHANGED freed
       ELSE IF freed + 1 \in created
       THEN /\ pc' = [pc EXCEPT ![Main] = "join",
                                ![freed + 1] = IF @ = "parked" THEN "waking" ELSE @]
            /\ UNCHANGED freed
       ELSE freed' = freed + 1 /\ UNCHANGED pc
    /\ UNCHANGED <<state, restart, stopsig, sharedVars, flagVars, scanVars>>

MainJoins ==
    /\ pc[Main] = "join"
    /\ pc[freed + 1] = "exited"
    /\ freed' = freed + 1
    /\ Goto(Main, "fini")
    /\ UNCHANGED <<state, restart, stopsig, sharedVars, flagVars, scanVars>>

-----------------------------------------------------------------------------
Pauser(t) == RequestPause(t) \/ ApplyAll(t) \/ ScanVcpu(t) \/ ScanEnds(t)
Snapshot(t) == SnapshotBlock(t) \/ SnapshotCreate(t) \/ SnapshotUnblock(t) \/ SnapshotResume(t)

VcpuNext(v) ==
    \/ HandlePause(v) \/ SpuriousResume(v) \/ LeavePause(v) \/ KvmRun(v) \/ KvmExitIo(v)
    \/ StopSignal(v) \/ Hypercall(v) \/ HypercallReturns(v)
    \/ CloneGet(v) \/ CloneRun(v) \/ ClonePut(v) \/ CloneDec(v)
    \/ Stopped(v) \/ Park(v) \/ SpuriousUnpark(v) \/ Unpark(v)
    \/ ExitAll(v) \/ ExitFini(v) \/ Fatal(v) \/ FatalDump(v)
    \/ BeforeFork(v) \/ ForkKick(v)
    \/ Pauser(v) \/ Snapshot(v)

MgtNext == MgtRequest \/ Pauser(Mgt) \/ Snapshot(Mgt)

MainNext == MainWakes \/ MainDofork \/ MainForked \/ MainResumes \/ MainFini \/ MainJoins

\* The process is gone.
Dead == ~Alive /\ UNCHANGED vars

Next ==
    \/ Alive /\ ((\E v \in Vcpus : VcpuNext(v)) \/ MgtNext \/ MainNext)
    \/ Dead

Spec == Init /\ [][Next]_vars

-----------------------------------------------------------------------------
(* Fairness.  The kernel schedules every thread and delivers every pending  *)
(* signal; a pthread mutex that is free again and again (the pausers sleep  *)
(* 1 ms between scans) is eventually acquired.  The guest need not make     *)
(* hypercalls, a system call need not return and no wakeup is spurious.     *)

Unblocked(v) ==
    \/ HandlePause(v) \/ LeavePause(v) \/ KvmRun(v) \/ Hypercall(v) \/ CloneRun(v)
    \/ ClonePut(v) \/ CloneDec(v) \/ Park(v) \/ Unpark(v) \/ ExitFini(v) \/ Fatal(v) \/ FatalDump(v)
    \/ BeforeFork(v) \/ ForkKick(v) \/ RequestPause(v) \/ ScanVcpu(v) \/ ScanEnds(v)
    \/ Snapshot(v)
Locking(v) == CloneGet(v) \/ Stopped(v) \/ ApplyAll(v) \/ ExitAll(v)

Fairness ==
    /\ \A v \in Vcpus : /\ WF_vars(Alive /\ Unblocked(v))
                        /\ WF_vars(Alive /\ StopSignal(v))
                        /\ SF_vars(Alive /\ Locking(v))
    /\ WF_vars(Alive /\ (RequestPause(Mgt) \/ ScanVcpu(Mgt) \/ ScanEnds(Mgt) \/ Snapshot(Mgt)))
    /\ SF_vars(Alive /\ ApplyAll(Mgt))
    /\ WF_vars(Alive /\ MainNext)

FairSpec == Spec /\ Fairness

-----------------------------------------------------------------------------
(* Properties *)

\* What vm_vcpu_mtx protects: the idle list holds parked vcpus only (the
\* km_assert of km_vcpu_get), each once, and all of them until the process
\* exits, and vm_vcpu_run_cnt counts the others.
IdleListOk ==
    /\ \A i \in 1 .. Len(idle) : state[idle[i]] = "PARKED_IDLE"
    /\ \A i, j \in 1 .. Len(idle) : idle[i] = idle[j] => i = j
    /\ ~exit_group => \A v \in Vcpus : state[v] = "PARKED_IDLE" => \E i \in 1 .. Len(idle) : idle[i] = v
    /\ (\A v \in Vcpus : pc[v] # "clone_dec") => run_cnt = vm_vcpu_cnt - Len(idle)

\* A vcpu that km_clone is setting up belongs to that km_clone alone, and its
\* thread, if it has one, is still waiting on thr_cv (or is exiting).
NewVcpuExclusive ==
    \A v \in Vcpus : pc[v] \in {"clone_run", "clone_put"} =>
        /\ \A u \in Vcpus \ {v} : pc[u] \in {"clone_run", "clone_put"} => child[u] # child[v]
        /\ child[v] \in created =>
              \/ pc[child[v]] \in {"parked", "waking"}
              \/ exit_group /\ pc[child[v]] \in {"unpark", "exited"}

\* t is past km_vcpu_pause_all(ALL) and has not yet let the others go.
StopsWorld(t) ==
    \/ pc[t] \in {"snap_create", "unblock_cont", "unblock_stop", "resume_cont", "resume_stop"}
    \/ pc[t] = "exit_fini"

\* v runs neither guest code nor a hypercall and will not before it is resumed.
Quiet(v) ==
    \/ pc[v] \in {"none", "paused", "woken", "parking", "parked", "waking", "unpark", "exited"}
    \/ exit_group /\ pc[v] \in {"leave_pause", "stopped"}

\* While a snapshot is written, and from the moment exit_group has stopped the
\* machine, no other vcpu executes guest code or a hypercall.
StopTheWorld ==
    \A t \in Threads : StopsWorld(t) /\ pc[Main] \notin {"fini", "join", "exited"} =>
        \A v \in Vcpus \ {t} : Quiet(v)

\* km_machine_fini frees the vcpus only when none of them runs any more.
TeardownQuiet ==
    pc[Main] \in {"fini", "join"} => \A v \in Vcpus : Quiet(v)

\* Once exit_group is under way while guest threads run, the process ends.
ExitTerminates == (exit_group /\ run_cnt > 0) ~> ~Alive

\* Once the last vcpu is parked the process ends.
LastExitTerminates == (run_cnt = 0) ~> ~Alive

\* A snapshot request of the management thread is answered.
SnapshotAnswered == (pc[Mgt] = "snap_block") ~> (pc[Mgt] \in {"idle", "exited"} \/ ~Alive)

\* The vcpu that forks waits in km_vcpu_handle_pause while the main thread forks.
ForkerWaits ==
    pc[Main] = "forking" => pc[forker] \in {"handle_pause", "paused", "woken"} \/ exit_group

\* A paused vcpu is let go, or the process ends.
PausedResumes == \A v \in Vcpus : (pc[v] = "paused") ~> (pc[v] # "paused" \/ ~Alive)
=============================================================================
