----------------------------- MODULE VcpuRunInv -----------------------------
(* The inductive invariants behind IdleListOk, StopTheWorld and TeardownQuiet  *)
(* of VcpuRun.                                                                 *)
EXTENDS VcpuRun

\* pthread_create succeeds: no km_vcpu_put happens outside vm_vcpu_mtx.
LockedPuts == CreateFails = FALSE

\* At most one source of km_vcpu_resume_all: the snapshots of vcpus, which
\* exclude each other, or those of the management thread.
SingleResumer ==
    /\ "fork" \notin Hypercalls
    /\ "snapshot" \in Hypercalls => ~Management

-----------------------------------------------------------------------------
InIdle(v) == \E i \in 1 .. Len(idle) : idle[i] = v
Allocated == 1 .. vm_vcpu_cnt

\* Where the thread of a vcpu that is not in use can be: none yet, on its way
\* into or in cond_wait(thr_cv), or leaving because of exit_group.
Resting(v) ==
    \/ pc[v] \in {"none", "parking", "parked", "waking"}
    \/ exit_group /\ pc[v] \in {"unpark", "exited"}

SlotsOk ==
    /\ \A v \in Vcpus : (v \in Allocated) <=> state[v] # "NONE"
    /\ \A v \in Vcpus : (v \in created) <=> pc[v] # "none"
    /\ created \subseteq Allocated

IdleOk ==
    /\ \A i \in 1 .. Len(idle) :
          /\ idle[i] \in Allocated
          /\ state[idle[i]] = "PARKED_IDLE"
          /\ Resting(idle[i])
    /\ \A i, j \in 1 .. Len(idle) : idle[i] = idle[j] => i = j
    /\ ~exit_group => \A v \in Vcpus : state[v] = "PARKED_IDLE" => InIdle(v)
    /\ run_cnt = vm_vcpu_cnt - Len(idle)

CloneOk ==
    /\ \A v \in Vcpus : pc[v] \notin {"clone_put", "clone_dec"}
    /\ \A v \in Vcpus : pc[v] = "clone_run" =>
          /\ child[v] \in Allocated
          /\ ~InIdle(child[v])
          /\ Resting(child[v])
          /\ pc[child[v]] # "parking"
          /\ state[child[v]] = "STARTING" \/ pc[child[v]] = "exited"
    /\ \A u, v \in Vcpus : pc[u] = "clone_run" /\ pc[v] = "clone_run" /\ child[u] = child[v] => u = v

\* What vcpu->state, which a scan reads, says of where the thread is.
StateOk ==
    \A v \in Vcpus :
        /\ state[v] = "PAUSED" => pc[v] \in {"paused", "woken"}
        /\ state[v] = "PARKED_IDLE" => Resting(v)
        /\ pc[v] = "parking" => state[v] = "PARKED_IDLE"
        /\ pc[v] = "unpark" => exit_group \/ state[v] \in {"HYPERCALL", "HCALL_INT"}
        /\ pc[v] = "none" => state[v] \in {"NONE", "STARTING", "PARKED_IDLE"}

ListInv == TypeOK /\ SlotsOk /\ StateOk /\ CloneOk /\ IdleOk

-----------------------------------------------------------------------------
Running == pc[Main] \notin {"fini", "join", "exited"}
InPauseAll(t) == pc[t] \in PausePCs /\ PauseType(t) = "ALL"

\* v is stopped and nothing but a resume or a km_vcpu_get can change that.
Still(v) ==
    \/ pc[v] \in {"paused", "woken", "exited"}
    \/ pc[v] \in {"none", "parking", "parked", "waking"} /\ state[v] \in {"PARKED_IDLE", "NONE"}
    \/ exit_group /\ pc[v] \in {"leave_pause", "stopped", "unpark"}

RolesOk ==
    /\ \A t \in Threads : pc[t] = "scan" <=> vcpu_mtx = t
    /\ \A v \in Vcpus : pc[v] \notin {"fork", "fork_kick"}
    /\ ~fork_in_progress
    /\ pc[Main] \notin {"forking", "resume"}
    /\ \A v \in Vcpus : pc[v] \in SnapshotPCs => "snapshot" \in Hypercalls
    /\ \A v \in Vcpus : pc[v] \in PausePCs /\ ret[v] = "snap_create" => "snapshot" \in Hypercalls
    /\ \A v \in Vcpus : pc[v] \in PausePCs => ret[v] # "fork_kick"
    /\ pc[Mgt] \notin {"idle", "exited"} => Management
    /\ pc[Mgt] \in PausePCs => ret[Mgt] = "snap_create"
    /\ \A v \in Vcpus : pc[v] = "exit_fini" \/ (pc[v] \in PausePCs /\ ret[v] = "exit_fini") => exit_group
    /\ Running => freed = 0

\* While t waits for the others or has stopped them, they cannot slip through
\* km_vcpu_handle_pause.
HeldBack ==
    \A t \in Threads : (InPauseAll(t) /\ pc[t] # "pause_all") \/ StopsWorld(t) => pause_requested \/ exit_group

\* A scan that has counted nobody so far has passed only vcpus that are still.
ScanOk ==
    \A t \in Threads : pc[t] = "scan" /\ PauseType(t) = "ALL" /\ scan.count = 0 =>
        \A v \in Vcpus : v < scan.i /\ v # t => Still(v)

StoppedOk ==
    \A t \in Threads : StopsWorld(t) => \A v \in Vcpus : v # t => Still(v)

PauseInv == RolesOk /\ (Running => HeldBack /\ ScanOk /\ StoppedOk)

\* The whole invariant.
Inv == ListInv /\ PauseInv
-----------------------------------------------------------------------------
\* The machine may be torn down: every vcpu is parked, or exit_group has made
\* every one of them stop for good.
Ready == run_cnt = 0 \/ (exit_group /\ \A v \in Vcpus : Quiet(v))

\* v is between km_before_fork and the kick of the main thread.
InFork(v) == pc[v] = "fork_kick" \/ (pc[v] \in PausePCs /\ ret[v] = "fork_kick")

\* v is between setting exit_group and the kick of the main thread.
InExit(v) == pc[v] = "exit_fini" \/ (pc[v] \in PausePCs /\ ret[v] = "exit_fini")

\* The exiting vcpu has stopped all the others when its scan counts nobody:
\* exit_group, which is never reset, keeps them stopped whoever resumes them.
ExitOk ==
    /\ \A t \in Threads : pc[t] = "scan" <=> vcpu_mtx = t
    /\ \A v \in Vcpus : InExit(v) => exit_group
    /\ Running => freed = 0
    /\ Running => \A v \in Vcpus : pc[v] = "scan" /\ ret[v] = "exit_fini" /\ scan.count = 0 =>
          \A u \in Vcpus : u < scan.i /\ u # v => Still(u)
    /\ Running => \A v \in Vcpus : pc[v] = "exit_fini" => \A u \in Vcpus : u # v => Still(u)

\* A wakeup of the main thread is for the fork under way or for the end.
ForkOk ==
    /\ \A v \in Vcpus : InFork(v) => /\ fork_in_progress
                                     /\ ~shutdown_fd
                                     /\ pc[Main] \notin {"dofork", "forking"}
    /\ \A u, v \in Vcpus : InFork(u) /\ InFork(v) => u = v
    /\ shutdown_fd \/ pc[Main] = "dofork" => fork_in_progress \/ Ready
    /\ pc[Main] = "forking" => fork_in_progress
    /\ pc[Main] \in {"dofork", "forking"} /\ shutdown_fd => Ready
    /\ pc[Main] \in {"fini", "join"} => Ready

TeardownInv == ListInv /\ ExitOk /\ ForkOk
=============================================================================
