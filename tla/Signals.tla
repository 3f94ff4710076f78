------------------------------- MODULE Signals -------------------------------
(***************************************************************************)
(* Guest signals (km_signal.c): posting to the process or to one vcpu, the *)
(* pending queues and the pool of entries, masks, rt_sigsuspend,           *)
(* rt_sigtimedwait, the sleep queue of epoll_pwait, and delivery at the    *)
(* end of the km_vcpu_run loop with handlers and rt_sigreturn.             *)
(*                                                                         *)
(* Everything under machine.signal_mutex is one step; what km_post_signal  *)
(* does between two critical sections are steps of their own.  Signals are *)
(* their numbers; posts are numbered, and the number stands for siginfo.   *)
(* Waits on signal_wait_cv are taken not to end spuriously.                *)
(***************************************************************************)
EXTENDS Integers, FiniteSets, Queue

CONSTANTS Vcpus,
          VM,           \* the target of a process-wide signal, and KM's main thread
          Signals,      \* a set of signal numbers
          perror_signals, ign_block_signals, def_ign_signals,
          SIGRTMIN,
          NSIGENTRY,    \* entries in the pool
          Masks,        \* the sets a guest passes as masks
          Acts,         \* the actions a guest sets for each signal
          Calls,        \* the system calls each thread makes (the main thread: kill)
          MaxPosts      \* bound: signals posted in a behaviour

Handlers == {"SIG_IGN", "SIG_DFL", "handler"}
\* sa_mask is {} where the code does not use it (no SA_SIGINFO).
Actions == [handler : Handlers, sa_mask : SUBSET Signals, resethand : BOOLEAN]

ASSUME SignalsAssumption ==
    /\ IsFiniteSet(Vcpus) /\ VM \notin Vcpus
    /\ Signals \subseteq Nat \ {0} /\ Signals # {}
    /\ perror_signals \cup ign_block_signals \cup def_ign_signals \subseteq Signals
    /\ Masks \subseteq SUBSET Signals
    /\ DOMAIN Calls = Vcpus \cup {VM}
    /\ Acts \in [Signals -> SUBSET Actions]
    /\ SIGRTMIN \in Nat /\ NSIGENTRY \in Nat /\ MaxPosts \in Nat \ {0}

VARIABLES
    sigpending,      \* per vcpu, and for VM machine.sigpending
    sigfree,         \* how many entries of the pool are free
    sigmask, saved_sigmask, in_sigsuspend,
    returns_signal,  \* the vcpus with hypercall_returns_signal set
    wait_queue,      \* km_signal_wait_queue
    sleep_queue,     \* km_signal_sleep_queue
    sigactions,
    kicked,          \* vcpus with a KM_SIGVCPUSTOP under way
    pc,              \* where each vcpu's thread, and the main thread, is
    post,            \* the arguments of each thread's km_post_signal
    oldmask,         \* origmask of rt_sigtimedwait, oldset of pselect6
    frames,          \* the handler frames on each vcpu's guest stack
    outcome,         \* "running", or how the process or the queues ended
    posted,          \* how many signals have been posted
    done,            \* the posts that were dequeued or discarded
    base,            \* the mask the guest code outside handlers has set
    unblocked,       \* what the guest has unblocked itself in a handler
    suspended        \* the vcpus that have been in rt_sigsuspend

queueVars == <<sigpending, sigfree, wait_queue, sleep_queue, posted, done, post>>
maskVars == <<sigmask, saved_sigmask, in_sigsuspend, oldmask, base, unblocked, suspended>>
runVars == <<returns_signal, sigactions, kicked, frames, outcome>>
vars == <<queueVars, maskVars, runVars, pc>>

Threads == Vcpus \cup {VM}
Entries == [signo : Signals, kernel : BOOLEAN, target : Threads, id : 1 .. MaxPosts]
PCs == {"enter", "guest", "wakeup", "enqueue", "interrupt", "suspend", "suspend_woken",
        "timedwait", "timedwait_timed", "timedwait_woken", "timedwait_expired",
        "epoll", "epoll_return", "pselect", "deliver"}

\* Type correctness of the signal state.
TypeOK ==
    /\ sigpending \in [Threads -> Seq(Entries)]
    /\ sigfree \in 0 .. NSIGENTRY
    /\ sigmask \in [Vcpus -> SUBSET Signals]
    /\ saved_sigmask \in [Vcpus -> SUBSET Signals]
    /\ oldmask \in [Vcpus -> SUBSET Signals]
    /\ base \in [Vcpus -> SUBSET Signals]
    /\ unblocked \in [Vcpus -> SUBSET Signals]
    /\ in_sigsuspend \in SUBSET Vcpus
    /\ returns_signal \in SUBSET Vcpus
    /\ kicked \in SUBSET Vcpus
    /\ suspended \in SUBSET Vcpus
    /\ wait_queue \in Seq(Vcpus)
    /\ sleep_queue \in Seq(Vcpus)
    /\ sigactions \in [Signals -> Actions]
    /\ pc \in [Threads -> PCs]
    /\ post \in [Threads -> Entries]
    /\ frames \in [Vcpus -> Seq([signo : Signals, mask : SUBSET Signals])]
    /\ outcome \in {"running", "killed", "aborted", "corrupt"}
    /\ posted \in 0 .. MaxPosts
    /\ done \in SUBSET (1 .. MaxPosts)

-----------------------------------------------------------------------------
NoPost == [signo |-> CHOOSE s \in Signals : TRUE, kernel |-> FALSE, target |-> VM, id |-> 1]

Init ==
    /\ sigpending = [t \in Threads |-> <<>>]
    /\ sigfree = NSIGENTRY
    /\ sigmask = [v \in Vcpus |-> {}]
    /\ saved_sigmask = [v \in Vcpus |-> {}]
    /\ oldmask = [v \in Vcpus |-> {}]
    /\ base = [v \in Vcpus |-> {}]
    /\ unblocked = [v \in Vcpus |-> {}]
    /\ in_sigsuspend = {}
    /\ returns_signal = {}
    /\ kicked = {}
    /\ suspended = {}
    /\ wait_queue = <<>>
    /\ sleep_queue = <<>>
    /\ sigactions = [s \in Signals |-> [handler |-> "handler", sa_mask |-> {}, resethand |-> FALSE]]
    /\ pc = [t \in Threads |-> "guest"]
    /\ post = [t \in Threads |-> NoPost]
    /\ frames = [v \in Vcpus |-> <<>>]
    /\ outcome = "running"
    /\ posted = 0
    /\ done = {}

Goto(t, l) == pc' = [pc EXCEPT ![t] = l]
\* The end of a hypercall; the main thread's handler returns.
Return(t) == Goto(t, IF t = VM THEN "guest" ELSE "deliver")

\* is_blocked: a fault of the CPU is not held back by the mask.
IsBlocked(mask, sig) == sig.signo \in mask /\ ~(sig.signo \in ign_block_signals /\ sig.kernel)

sigpri(signo) == IF signo \in perror_signals THEN 0 ELSE -signo

Unblocked(q, mask) == {i \in DOMAIN q : ~IsBlocked(mask, q[i])}

\* dequeue_signal: the first of the highest priority.
Chosen(q, mask) ==
    CHOOSE i \in Unblocked(q, mask) : \A j \in Unblocked(q, mask) :
        \/ sigpri(q[i].signo) > sigpri(q[j].signo)
        \/ sigpri(q[i].signo) = sigpri(q[j].signo) /\ i <= j

\* km_dequeue_signal_nolock: the vcpu's own queue first.
Source(v, mask) == IF Unblocked(sigpending[v], mask) # {} THEN v ELSE VM

Dequeued(v, mask) == LET src == Source(v, mask) IN sigpending[src][Chosen(sigpending[src], mask)]

Dequeue(v, mask) ==
    LET src == Source(v, mask) IN
    /\ sigpending' = [sigpending EXCEPT ![src] = Removed(@, Chosen(@, mask))]
    /\ sigfree' = sigfree + 1
    /\ done' = done \cup {Dequeued(v, mask).id}
    /\ UNCHANGED <<wait_queue, sleep_queue, posted, post>>

\* enqueue_signal_nolock: without a free entry KM aborts.
Enqueue(t, sig) ==
    IF sigfree > 0
    THEN /\ sigpending' = [sigpending EXCEPT ![t] = Append(@, sig)]
         /\ sigfree' = sigfree - 1
         /\ UNCHANGED outcome
    ELSE outcome' = "aborted" /\ UNCHANGED <<sigpending, sigfree>>

\* TAILQ_INSERT_TAIL through the one signal_link of the vcpu: inserting a vcpu
\* that is linked already leaves the queues undefined.
Linked(v) == OnQueue(wait_queue, v) \/ OnQueue(sleep_queue, v)
InsertWait(v) ==
    /\ wait_queue' = Append(wait_queue, v)
    /\ outcome' = IF Linked(v) THEN "corrupt" ELSE outcome
    /\ UNCHANGED sleep_queue
RemoveFrom(q, v) == IF OnQueue(q, v) THEN Removed(q, CHOOSE i \in DOMAIN q : q[i] = v) ELSE q

-----------------------------------------------------------------------------
(* km_post_signal *)

\* signal_pending looks at the target's queue and at the process's.
Pending(sig) ==
    \E t \in {sig.target, VM} : \E i \in DOMAIN sigpending[t] : sigpending[t][i].signo = sig.signo

\* The consolidation of signals that are not realtime; a discarded post is over.
PostSignal(t, sig) ==
    /\ posted' = posted + 1
    /\ IF sig.signo < SIGRTMIN /\ Pending(sig)
       THEN /\ done' = done \cup {sig.id}
            /\ Return(t)
            /\ UNCHANGED post
       ELSE /\ post' = [post EXCEPT ![t] = sig]
            /\ Goto(t, "wakeup")
            /\ UNCHANGED done
    /\ UNCHANGED <<sigpending, sigfree, wait_queue, sleep_queue, maskVars, runVars>>

NewPost(target, signo, kernel) ==
    [signo |-> signo, kernel |-> kernel, target |-> target, id |-> posted + 1]

\* kill: km_kill of the own process, and the main thread's km_signal_passthru.
Kill(t) ==
    /\ "kill" \in Calls[t] /\ pc[t] = "guest" /\ posted < MaxPosts
    /\ \E s \in Signals : PostSignal(t, NewPost(VM, s, FALSE))

Tkill(v) ==
    /\ "tkill" \in Calls[v] /\ pc[v] = "guest" /\ posted < MaxPosts
    /\ \E w \in Vcpus, s \in Signals : PostSignal(v, NewPost(w, s, FALSE))

\* A fault of the guest: EFAULT of KVM_RUN, HLT, a bad hypercall.
Fault(v) ==
    /\ "fault" \in Calls[v] /\ pc[v] = "guest" /\ posted < MaxPosts
    /\ \E s \in ign_block_signals : PostSignal(v, NewPost(v, s, TRUE))

Waiters(signo) == {i \in DOMAIN wait_queue : signo \notin sigmask[wait_queue[i]]}

\* km_wakeup_suspended_thread.
Wakeup(t) ==
    LET sig == post[t]
        i == CHOOSE k \in Waiters(sig.signo) : \A j \in Waiters(sig.signo) : k <= j
        w == wait_queue[i]
    IN
    /\ pc[t] = "wakeup"
    /\ IF Waiters(sig.signo) = {}
       THEN Goto(t, "enqueue") /\ UNCHANGED <<sigpending, sigfree, wait_queue, post, outcome>>
       ELSE /\ wait_queue' = Removed(wait_queue, i)
            /\ Enqueue(w, sig)
            /\ post' = [post EXCEPT ![t] = NoPost]
            /\ pc' = [pc EXCEPT ![t] = IF t = VM THEN "guest" ELSE "deliver",
                                ![w] = CASE @ = "suspend" -> "suspend_woken"
                                         [] @ \in {"timedwait", "timedwait_timed"} -> "timedwait_woken"
                                         [] OTHER -> @]
    /\ UNCHANGED <<sleep_queue, posted, done, maskVars, returns_signal, sigactions, kicked, frames>>

EnqueueSignal(t) ==
    /\ pc[t] = "enqueue"
    /\ Enqueue(post[t].target, post[t])
    /\ Goto(t, "interrupt")
    /\ UNCHANGED <<wait_queue, sleep_queue, posted, done, post, maskVars, returns_signal,
                   sigactions, kicked, frames>>

\* km_interrupt_thread for a process-wide signal, km_signal_vcpu_signal for one
\* vcpu, whose mask is read without the lock.
Interrupt(t) ==
    LET sig == post[t]
        v == Head(sleep_queue)
    IN
    /\ pc[t] = "interrupt"
    /\ IF sig.target = VM
       THEN IF sleep_queue # <<>> /\ sig.signo \notin sigmask[v]
            THEN sleep_queue' = Tail(sleep_queue) /\ kicked' = kicked \cup {v}
            ELSE UNCHANGED <<sleep_queue, kicked>>
       ELSE /\ kicked' = IF sig.signo \in sigmask[sig.target] THEN kicked ELSE kicked \cup {sig.target}
            /\ UNCHANGED sleep_queue
    /\ Return(t)
    /\ post' = [post EXCEPT ![t] = NoPost]
    /\ UNCHANGED <<sigpending, sigfree, wait_queue, posted, done, maskVars,
                   returns_signal, sigactions, frames, outcome>>

\* KM_SIGVCPUSTOP without VCPU_STOP ends KVM_RUN or a system call.
Kick(v) ==
    /\ v \in kicked
    /\ kicked' = kicked \ {v}
    /\ Goto(v, CASE pc[v] = "guest" -> "deliver"
                 [] pc[v] = "epoll" -> "epoll_return"
                 [] OTHER -> pc[v])
    /\ UNCHANGED <<queueVars, maskVars, returns_signal, sigactions, frames, outcome>>

-----------------------------------------------------------------------------
(* System calls of the guest *)

\* km_signal_ready_nolock: a process-wide signal is claimed by moving it.
Ready(v, mask) == Unblocked(sigpending[Source(v, mask)], mask) # {}
\* Mutant: the claimed signal stays in the process's queue.
ClaimMutant(v, mask) ==
    LET q == sigpending[VM]
        i == CHOOSE k \in Unblocked(q, mask) : \A j \in Unblocked(q, mask) : k <= j
    IN  IF Source(v, mask) = VM /\ Ready(v, mask)
        THEN sigpending' = [sigpending EXCEPT ![v] = Append(@, q[i])]
        ELSE UNCHANGED sigpending
Claim(v, mask) ==
    LET q == sigpending[VM]
        i == CHOOSE k \in Unblocked(q, mask) : \A j \in Unblocked(q, mask) : k <= j
    IN  IF Source(v, mask) = VM /\ Ready(v, mask)
        THEN sigpending' = [sigpending EXCEPT ![VM] = Removed(@, i), ![v] = Append(@, q[i])]
        ELSE UNCHANGED sigpending

\* km_rt_sigsuspend up to its first wait; a signal that is ready ends it at once.
Sigsuspend(v) ==
    /\ "sigsuspend" \in Calls[v] /\ pc[v] = "guest"
    /\ \E mask \in Masks :
          /\ in_sigsuspend' = in_sigsuspend \cup {v}
          /\ saved_sigmask' = [saved_sigmask EXCEPT ![v] = sigmask[v]]
          /\ sigmask' = [sigmask EXCEPT ![v] = mask]
          /\ Claim(v, mask)
          /\ Goto(v, IF Ready(v, mask) THEN "deliver" ELSE "suspend")
    /\ InsertWait(v)
    /\ suspended' = suspended \cup {v}
    /\ UNCHANGED <<sigfree, posted, done, post, oldmask, base, unblocked, returns_signal,
                   sigactions, kicked, frames>>

SuspendWoken(v) ==
    /\ pc[v] = "suspend_woken"
    /\ Claim(v, sigmask[v])
    /\ Goto(v, IF Ready(v, sigmask[v]) THEN "deliver" ELSE "suspend")
    /\ UNCHANGED <<sigfree, wait_queue, sleep_queue, posted, done, post, maskVars, runVars>>

\* km_rt_sigtimedwait: take a pending signal of the set, give up (timeout 0) or wait.
Sigtimedwait(v) ==
    /\ "sigtimedwait" \in Calls[v] /\ pc[v] = "guest"
    /\ \E set \in Masks : LET mask == Signals \ set IN
          \/ /\ Ready(v, mask)
             /\ Dequeue(v, mask)
             /\ returns_signal' = returns_signal \cup {v}
             /\ Return(v)
             /\ UNCHANGED <<sigmask, oldmask, outcome>>
          \/ /\ ~Ready(v, mask)
             /\ Return(v)
             /\ UNCHANGED <<queueVars, sigmask, oldmask, returns_signal, outcome>>
          \/ /\ ~Ready(v, mask)
             /\ oldmask' = [oldmask EXCEPT ![v] = sigmask[v]]
             /\ sigmask' = [sigmask EXCEPT ![v] = mask]
             /\ InsertWait(v)
             /\ \E l \in {"timedwait", "timedwait_timed"} : Goto(v, l)
             /\ UNCHANGED <<sigpending, sigfree, posted, done, post, returns_signal>>
    /\ UNCHANGED <<saved_sigmask, in_sigsuspend, base, unblocked, suspended, sigactions, kicked, frames>>

\* The time is up; the thread has yet to get signal_mutex back.
Expire(v) ==
    /\ pc[v] = "timedwait_timed"
    /\ Goto(v, "timedwait_expired")
    /\ UNCHANGED <<queueVars, maskVars, runVars>>

\* ETIMEDOUT: TAILQ_REMOVE of a vcpu that a waker has removed corrupts the queue.
TimedOut(v) ==
    /\ pc[v] = "timedwait_expired"
    /\ wait_queue' = RemoveFrom(wait_queue, v)
    /\ outcome' = IF OnQueue(wait_queue, v) THEN outcome ELSE "corrupt"
    /\ sigmask' = [sigmask EXCEPT ![v] = oldmask[v]]
    /\ oldmask' = [oldmask EXCEPT ![v] = {}]
    /\ Return(v)
    /\ UNCHANGED <<sigpending, sigfree, sleep_queue, posted, done, post, saved_sigmask, in_sigsuspend,
                   base, unblocked, suspended, returns_signal, sigactions, kicked, frames>>

\* A waker has queued a signal for v.
TimedwaitWoken(v) ==
    /\ pc[v] = "timedwait_woken"
    /\ IF Ready(v, sigmask[v]) THEN Dequeue(v, sigmask[v]) ELSE UNCHANGED queueVars
    /\ returns_signal' = returns_signal \cup {v}
    /\ sigmask' = [sigmask EXCEPT ![v] = oldmask[v]]
    /\ oldmask' = [oldmask EXCEPT ![v] = {}]
    /\ Return(v)
    /\ UNCHANGED <<saved_sigmask, in_sigsuspend, base, unblocked, suspended,
                   sigactions, kicked, frames, outcome>>

\* km_fs_epoll_pwait: km_queue_sig_sleep, the system call, km_dequeue_sig_sleep.
Epoll(v) ==
    /\ "epoll" \in Calls[v] /\ pc[v] = "guest"
    /\ sleep_queue' = Append(sleep_queue, v)
    /\ outcome' = IF Linked(v) THEN "corrupt" ELSE outcome
    /\ Goto(v, "epoll")
    /\ UNCHANGED <<sigpending, sigfree, wait_queue, posted, done, post, maskVars,
                   returns_signal, sigactions, kicked, frames>>

EpollReady(v) ==
    /\ pc[v] = "epoll"
    /\ Goto(v, "epoll_return")
    /\ UNCHANGED <<queueVars, maskVars, runVars>>

\* Mutant: the vcpu stays in the sleep queue.
EpollReturnMutant(v) ==
    /\ pc[v] = "epoll_return"
    /\ Return(v)
    /\ UNCHANGED <<queueVars, maskVars, runVars>>

EpollReturn(v) ==
    /\ pc[v] = "epoll_return"
    /\ sleep_queue' = RemoveFrom(sleep_queue, v)
    /\ Return(v)
    /\ UNCHANGED <<sigpending, sigfree, wait_queue, posted, done, post, maskVars, runVars>>

\* km_fs_pselect6: the mask holds for the system call only.
Pselect(v) ==
    /\ "pselect" \in Calls[v] /\ pc[v] = "guest"
    /\ oldmask' = [oldmask EXCEPT ![v] = sigmask[v]]
    /\ \E mask \in Masks : sigmask' = [sigmask EXCEPT ![v] = mask]
    /\ Goto(v, "pselect")
    /\ UNCHANGED <<queueVars, saved_sigmask, in_sigsuspend, base, unblocked, suspended, runVars>>

PselectReturn(v) ==
    /\ pc[v] = "pselect"
    /\ sigmask' = [sigmask EXCEPT ![v] = oldmask[v]]
    /\ oldmask' = [oldmask EXCEPT ![v] = {}]
    /\ Return(v)
    /\ UNCHANGED <<queueVars, saved_sigmask, in_sigsuspend, base, unblocked, suspended, runVars>>

\* km_rt_sigprocmask: SIG_BLOCK, SIG_UNBLOCK or SIG_SETMASK.
Sigprocmask(v) ==
    /\ "sigprocmask" \in Calls[v] /\ pc[v] = "guest"
    /\ \E set \in Masks :
          \/ sigmask' = [sigmask EXCEPT ![v] = @ \cup set]
          \/ sigmask' = [sigmask EXCEPT ![v] = @ \ set]
          \/ sigmask' = [sigmask EXCEPT ![v] = set]
    /\ base' = IF frames[v] = <<>> THEN [base EXCEPT ![v] = sigmask'[v]] ELSE base
    /\ unblocked' = [unblocked EXCEPT ![v] = @ \cup (sigmask[v] \ sigmask'[v])]
    /\ Return(v)
    /\ UNCHANGED <<queueVars, saved_sigmask, in_sigsuspend, oldmask, suspended, runVars>>

Sigaction(v) ==
    /\ "sigaction" \in Calls[v] /\ pc[v] = "guest"
    /\ \E s \in Signals : \E act \in Acts[s] : sigactions' = [sigactions EXCEPT ![s] = act]
    /\ Return(v)
    /\ UNCHANGED <<queueVars, maskVars, returns_signal, kicked, frames, outcome>>

Sigreturn(v) ==
    /\ pc[v] = "guest" /\ frames[v] # <<>>
    /\ sigmask' = [sigmask EXCEPT ![v] = Head(frames[v]).mask]
    /\ frames' = [frames EXCEPT ![v] = Tail(@)]
    /\ unblocked' = IF Len(frames[v]) = 1 THEN [unblocked EXCEPT ![v] = {}] ELSE unblocked
    /\ Return(v)
    /\ UNCHANGED <<queueVars, saved_sigmask, in_sigsuspend, oldmask, base, suspended,
                   returns_signal, sigactions, kicked, outcome>>

\* Any other exit from the guest.
OtherCall(v) ==
    /\ pc[v] = "guest"
    /\ Goto(v, "deliver")
    /\ UNCHANGED <<queueVars, maskVars, runVars>>

-----------------------------------------------------------------------------
(* The end of the km_vcpu_run loop *)

\* Mutant: the signal is not deferred while its handler runs.
DeliverSignalMutant(v, sig) ==
    LET act == sigactions[sig.signo]
        handled == act.handler = "handler"
    IN
    /\ frames' = IF handled
                 THEN [frames EXCEPT ![v] = <<[signo |-> sig.signo, mask |-> sigmask[v]]>> \o @]
                 ELSE frames
    /\ sigmask' = [sigmask EXCEPT ![v] = IF v \in in_sigsuspend THEN saved_sigmask[v] ELSE @]
    /\ in_sigsuspend' = in_sigsuspend \ {v}
    /\ UNCHANGED <<sigactions, outcome>>

\* km_deliver_signal, then km_rt_sigsuspend_revert.
DeliverSignal(v, sig) ==
    LET act == sigactions[sig.signo]
        handled == act.handler = "handler"
    IN
    /\ frames' = IF handled
                 THEN [frames EXCEPT ![v] = <<[signo |-> sig.signo, mask |-> sigmask[v]]>> \o @]
                 ELSE frames
    /\ sigmask' = [sigmask EXCEPT ![v] = IF v \in in_sigsuspend THEN saved_sigmask[v]
                                         ELSE IF handled THEN @ \cup act.sa_mask \cup {sig.signo}
                                         ELSE @]
    /\ in_sigsuspend' = in_sigsuspend \ {v}
    /\ sigactions' = IF handled /\ act.resethand
                     THEN [sigactions EXCEPT ![sig.signo].handler = "SIG_DFL",
                                             ![sig.signo].resethand = FALSE]
                     ELSE sigactions
    /\ outcome' = IF act.handler = "SIG_DFL" /\ sig.signo \notin def_ign_signals
                  THEN "killed" ELSE outcome

Deliver(v) ==
    /\ pc[v] = "deliver"
    /\ Goto(v, "enter")
    /\ \/ /\ v \in returns_signal
          /\ returns_signal' = returns_signal \ {v}
          /\ UNCHANGED <<queueVars, sigmask, in_sigsuspend, sigactions, frames, outcome>>
       \/ /\ v \notin returns_signal /\ Ready(v, sigmask[v])
          /\ Dequeue(v, sigmask[v])
          /\ DeliverSignal(v, Dequeued(v, sigmask[v]))
          /\ UNCHANGED returns_signal
       \/ /\ v \notin returns_signal /\ ~Ready(v, sigmask[v])
          /\ UNCHANGED <<queueVars, sigmask, in_sigsuspend, returns_signal, sigactions, frames, outcome>>
    /\ UNCHANGED <<saved_sigmask, oldmask, base, unblocked, suspended, kicked>>

KvmRun(v) ==
    /\ pc[v] = "enter"
    /\ Goto(v, "guest")
    /\ UNCHANGED <<queueVars, maskVars, runVars>>

-----------------------------------------------------------------------------
Posting(t) == Kill(t) \/ Wakeup(t) \/ EnqueueSignal(t) \/ Interrupt(t)

Call(v) ==
    \/ Tkill(v) \/ Fault(v) \/ Sigsuspend(v) \/ Sigtimedwait(v) \/ Epoll(v) \/ Pselect(v)
    \/ Sigprocmask(v) \/ Sigaction(v) \/ Sigreturn(v) \/ OtherCall(v)

Next ==
    /\ outcome = "running"
    /\ \/ \E t \in Threads : Posting(t)
       \/ \E v \in Vcpus :
             \/ Call(v) \/ Kick(v) \/ SuspendWoken(v) \/ Expire(v) \/ TimedOut(v)
             \/ TimedwaitWoken(v) \/ EpollReady(v) \/ EpollReturn(v) \/ PselectReturn(v)
             \/ Deliver(v) \/ KvmRun(v)

Spec == Init /\ [][Next]_vars

-----------------------------------------------------------------------------
(* Properties *)

InPost(t) == pc[t] \in {"wakeup", "enqueue"}

\* Where the post id is: with its poster, in a pending queue, or over.
WithPoster(id) == {<<"post", t>> : t \in {u \in Threads : InPost(u) /\ post[u].id = id}}
InQueues(id) ==
    UNION {{<<t, i>> : i \in {k \in DOMAIN sigpending[t] : sigpending[t][k].id = id}} : t \in Threads}
Over(id) == IF id \in done THEN {<<"done", VM>>} ELSE {}
Places(id) == WithPoster(id) \cup InQueues(id) \cup Over(id)

\* A woken rt_sigtimedwait finds a signal of its set, so that what it returns is
\* the signal it has dequeued.
TimedwaitFindsSignal ==
    \A v \in Vcpus : outcome = "running" /\ pc[v] = "timedwait_woken" =>
        \E i \in DOMAIN sigpending[v] : ~IsBlocked(sigmask[v], sigpending[v][i])

\* Every post is in exactly one place: none is lost between the process's queue,
\* the vcpus' queues, a waiter and the thread that posts it, none is handed out
\* twice, and the pool accounts for every queued entry; a waiter that is woken has
\* its signal.
SignalsConserved ==
    /\ TimedwaitFindsSignal
    /\ outcome # "aborted" => \A id \in 1 .. posted : Cardinality(Places(id)) = 1
    /\ sigfree = NSIGENTRY - Cardinality({id \in 1 .. posted : \E t \in Threads :
                                \E i \in DOMAIN sigpending[t] : sigpending[t][i].id = id})

\* A vcpu in km_signal_wait_queue is waiting for a signal, one in
\* km_signal_sleep_queue is in epoll_pwait, and none is in a queue twice or in both
\* (which its one signal_link could not express), unless it has used rt_sigsuspend.
QueuesOk ==
    /\ TypeOK
    /\ outcome = "running" =>
       \A v \in Vcpus \ suspended :
          /\ OnQueue(wait_queue, v) => pc[v] \in {"timedwait", "timedwait_timed", "timedwait_expired"}
          /\ pc[v] = "timedwait" => OnQueue(wait_queue, v)
          /\ OnQueue(sleep_queue, v) => pc[v] \in {"epoll", "epoll_return"}
          /\ Cardinality({i \in DOMAIN wait_queue : wait_queue[i] = v})
                + Cardinality({i \in DOMAIN sleep_queue : sleep_queue[i] = v}) <= 1

MaskKept(v) == frames[v] = <<>> /\ pc[v] \in {"enter", "guest"} => sigmask[v] = base[v]
NotReentered(v) ==
    \A i, j \in DOMAIN frames[v] :
        i # j /\ frames[v][i].signo = frames[v][j].signo =>
            frames[v][i].signo \in unblocked[v] \cup ign_block_signals

\* Handlers nest.  Outside handlers a vcpu has the mask its guest thread has set:
\* handlers, rt_sigtimedwait and pselect6 put back what they change; and a handler
\* is not entered again for its signal before it has returned, unless the guest
\* unblocks the signal itself or the signal is a fault in the handler.  This is
\* for vcpus that have not used rt_sigsuspend.
HandlersNest == \A v \in Vcpus \ suspended : MaskKept(v) /\ NotReentered(v)

\* The first half for every vcpu: rt_sigsuspend puts the thread's mask back as well
\* (km_rt_sigsuspend_revert).
SuspendMaskRestored == \A v \in Vcpus : MaskKept(v)

\* A vcpu waits in rt_sigsuspend "until the signal arrives" (km_signal.c:52): it is
\* not left asleep with a signal it could take when nobody is about to post.
SuspendedWoken ==
    \A v \in Vcpus :
        /\ outcome = "running" /\ pc[v] = "suspend"
        /\ \A t \in Threads : pc[t] \notin {"wakeup", "enqueue", "interrupt"}
        => ~Ready(v, sigmask[v])
=============================================================================
