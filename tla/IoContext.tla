------------------------------ MODULE IoContext ------------------------------
(***************************************************************************)
(* Asynchronous I/O (km_iocontext.c and the io_*() hypercalls): KM gives   *)
(* the payload context ids of its own and keeps a table from them to the   *)
(* kernel's, so that the ids stay valid over a snapshot, and it counts the *)
(* requests under way, because a snapshot must not be taken then.          *)
(*                                                                         *)
(* The calls are made by the threads of FdTable beside those on            *)
(* descriptors.  kernel is the host's side (external): a context has an    *)
(* owner, the payload id it was set up for, or 0.  A hypercall that is     *)
(* refused before it changes anything is a stuttering step.                *)
(***************************************************************************)
EXTENDS FdTable, Sequences

CONSTANTS KContexts,   \* ids the kernel may hand out, and hand out again
          NrEvents,    \* sizes of contexts the payload asks for
          COUNTER,     \* values of an unsigned int
          MaxIds       \* bound: calls of io_setup

VARIABLES
    kernel,      \* the kernel's contexts, with requests that run and events nobody has fetched
    iocp,        \* the table km_iocp[0 .. km_iocn - 1]
    km_piocontext,
    km_iocmutex, \* who holds it between two steps, or NoOne
    km_io_active_count,
    iocall,      \* where each thread is in its io_*() call
    held,        \* the ids the payload was given and has not destroyed, with their sizes
    note,        \* the snapshot: what NT_KM_IOCONTEXTS says, and held in the saved memory
    forked       \* this is a child process
iovars == <<kernel, iocp, km_piocontext, km_iocmutex, km_io_active_count, iocall, held, note, forked>>

NoOne == "no thread"
NoNote == <<>>
Unused == [owner |-> 0, nr |-> 0, running |-> 0, done |-> 0]
NoIo == [pc |-> "idle", p |-> 0, k |-> 0, n |-> 0]

IoInit ==
    /\ kernel = [k \in KContexts |-> Unused]
    /\ iocp = <<>> /\ km_piocontext = 0 /\ km_iocmutex = NoOne /\ km_io_active_count = 0
    /\ iocall = [t \in Threads |-> NoIo]
    /\ held = {} /\ note = NoNote /\ forked = FALSE

IoAt(t, pc) == Running(t) /\ iocall[t].pc = pc
IoIdle(t, name) == IoAt(t, "idle") /\ call[t].pc = "idle" /\ name \in payload.calls
IoGoto(t, c) == iocall' = [iocall EXCEPT ![t] = c]
IoReturn(t) == IoGoto(t, NoIo)

-----------------------------------------------------------------------------
(* io_setup *)

\* km_iocontext_add: the next id.  n is the number of events until the call is done.
km_iocontext_add(t) ==
    /\ IoIdle(t, "io_setup") /\ km_piocontext < MaxIds
    /\ km_piocontext' = km_piocontext + 1
    /\ \E nr \in NrEvents : IoGoto(t, [pc |-> "setup", p |-> km_piocontext + 1, k |-> 0, n |-> nr])
    /\ UNCHANGED <<kernel, iocp, km_iocmutex, km_io_active_count, held, note, forked>>

\* The kernel's io_setup (external), which may refuse.
SYS_io_setup(t) ==
    /\ IoAt(t, "setup")
    /\ \/ \E k \in KContexts :
             /\ kernel[k] = Unused
             /\ kernel' = [kernel EXCEPT ![k] = [Unused EXCEPT !.owner = iocall[t].p, !.nr = iocall[t].n]]
             /\ IoGoto(t, [iocall[t] EXCEPT !.pc = "add", !.k = k])
       \/ IoReturn(t) /\ UNCHANGED kernel
    /\ UNCHANGED <<iocp, km_piocontext, km_iocmutex, km_io_active_count, held, note, forked>>

\* The rest of km_iocontext_recover, under the lock; without memory for the
\* table the context is destroyed again.
km_iocontext_recover(t) ==
    /\ IoAt(t, "add") /\ km_iocmutex = NoOne
    /\ \/ /\ iocp' = Append(iocp, [p |-> iocall[t].p, k |-> iocall[t].k, nr |-> iocall[t].n])
          /\ held' = held \cup {<<iocall[t].p, iocall[t].n>>}
          /\ UNCHANGED kernel
       \/ /\ kernel' = [kernel EXCEPT ![iocall[t].k] = Unused]
          /\ UNCHANGED <<iocp, held>>
    /\ IoReturn(t)
    /\ UNCHANGED <<km_piocontext, km_iocmutex, km_io_active_count, note, forked>>

-----------------------------------------------------------------------------
(* io_destroy *)

HeldIds == {h[1] : h \in held}
Outstanding(k) == kernel[k].running + kernel[k].done
\* What an orderly payload promises: it names ids that it holds, and destroys a
\* context when no other call uses it and all its events are fetched.
MayUse(t, p) ==
    payload.orderly => p \in HeldIds /\ \A u \in Threads : iocall[u].pc = "destroy" => iocall[u].p # p
MayDestroy(t, p, k) ==
    payload.orderly => /\ p \in HeldIds /\ Outstanding(k) = 0
                       /\ \A u \in Threads : iocall[u].pc # "idle" => iocall[u].p # p

\* The entry of p: km_iocontext_remove and km_iocontext_xlate_p2k search for the first.
Entries(p) == {i \in DOMAIN iocp : iocp[i].p = p}
First(S) == CHOOSE i \in S : \A j \in S : i <= j

\* km_iocontext_remove finds the entry and keeps the lock for the kernel's io_destroy.
km_iocontext_remove(t, p) ==
    /\ IoIdle(t, "io_destroy") /\ km_iocmutex = NoOne
    /\ Entries(p) # {}
    /\ MayDestroy(t, p, iocp[First(Entries(p))].k)
    /\ km_iocmutex' = t
    /\ IoGoto(t, [pc |-> "destroy", p |-> p, k |-> iocp[First(Entries(p))].k, n |-> 0])
    /\ UNCHANGED <<kernel, iocp, km_piocontext, km_io_active_count, held, note, forked>>

\* Mutant of Shifted: one entry more is left out.
ShiftedMutant(s, i) == [j \in 1 .. Len(s) - 1 |-> IF j <= i THEN s[j] ELSE s[j + 1]]
\* The memcpy that closes the gap.
Shifted(s, i) == [j \in 1 .. Len(s) - 1 |-> IF j < i THEN s[j] ELSE s[j + 1]]

\* The kernel waits for the requests that run.  For a context it does not know
\* it answers EINVAL, and km_iocontext_remove returns with the lock held.
SYS_io_destroy(t) ==
    /\ IoAt(t, "destroy")
    /\ IF kernel[iocall[t].k].owner # 0
       THEN /\ kernel[iocall[t].k].running = 0
            /\ kernel' = [kernel EXCEPT ![iocall[t].k] = Unused]
            /\ iocp' = Shifted(iocp, First(Entries(iocall[t].p)))
            /\ held' = {h \in held : h[1] # iocall[t].p}
            /\ km_iocmutex' = NoOne
       ELSE UNCHANGED <<kernel, iocp, held, km_iocmutex>>
    /\ IoReturn(t)
    /\ UNCHANGED <<km_piocontext, km_io_active_count, note, forked>>

-----------------------------------------------------------------------------
(* io_submit, io_getevents and io_cancel *)

Translated(p) == iocp[First(Entries(p))].k

\* The translation, under the lock; the kernel's id is used after it.
km_iocontext_xlate_p2k(t, p, name) ==
    /\ IoIdle(t, name) /\ km_iocmutex = NoOne
    /\ Entries(p) # {} /\ MayUse(t, p)
    /\ IoGoto(t, [pc |-> name, p |-> p, k |-> Translated(p), n |-> 0])
    /\ UNCHANGED <<kernel, iocp, km_piocontext, km_iocmutex, km_io_active_count, held, note, forked>>

\* A call of the kernel that takes running and done of context k to r and d, with
\* n requests to be counted.
KernelCall(t, r, d, n, next) ==
    /\ kernel[iocall[t].k].owner # 0
    /\ kernel' = [kernel EXCEPT ![iocall[t].k].running = r, ![iocall[t].k].done = d]
    /\ IoGoto(t, [iocall[t] EXCEPT !.pc = next, !.n = n])
Refused(t) == IoReturn(t) /\ UNCHANGED kernel

SYS_io_submit(t) ==
    LET c == kernel[iocall[t].k]
    IN  /\ IoAt(t, "io_submit")
        /\ \/ \E n \in 1 .. c.nr - c.running - c.done : KernelCall(t, c.running + n, c.done, n, "count")
           \/ Refused(t)
        /\ UNCHANGED <<iocp, km_piocontext, km_iocmutex, km_io_active_count, held, note, forked>>

SYS_io_getevents(t) ==
    LET c == kernel[iocall[t].k]
    IN  /\ IoAt(t, "io_getevents")
        /\ \/ \E n \in 1 .. c.done : KernelCall(t, c.running, c.done - n, n, "uncount")
           \/ Refused(t)
        /\ UNCHANGED <<iocp, km_piocontext, km_iocmutex, km_io_active_count, held, note, forked>>

SYS_io_cancel(t) ==
    LET c == kernel[iocall[t].k]
    IN  /\ IoAt(t, "io_cancel")
        /\ \/ c.running > 0 /\ KernelCall(t, c.running - 1, c.done, 1, "uncount")
           \/ Refused(t)
        /\ UNCHANGED <<iocp, km_piocontext, km_iocmutex, km_io_active_count, held, note, forked>>

\* A request ends (external).
Complete(k) ==
    /\ kernel[k].running > 0
    /\ kernel' = [kernel EXCEPT ![k].running = @ - 1, ![k].done = @ + 1]
    /\ UNCHANGED <<iocp, km_piocontext, km_iocmutex, km_io_active_count, iocall, held, note, forked>>

\* Mutant of Counted: only io_submit counts.
CountedMutant(t) == IF iocall[t].pc = "count" THEN iocall[t].n ELSE 0
\* io_submit adds what the kernel has taken, io_getevents and io_cancel subtract.
Counted(t) == IF iocall[t].pc = "count" THEN iocall[t].n ELSE -iocall[t].n

Count(t) ==
    /\ IoAt(t, "count") \/ IoAt(t, "uncount")
    /\ km_io_active_count' = (km_io_active_count + Counted(t)) % COUNTER
    /\ IoReturn(t)
    /\ UNCHANGED <<kernel, iocp, km_piocontext, km_iocmutex, held, note, forked>>

-----------------------------------------------------------------------------
(* Snapshot and fork.  The vcpus have stopped, so that no call is under way. *)

IoQuiet == \A t \in Threads : iocall[t].pc \in {"idle", "gone"}

\* Mutant of MaySnapshot: the requests that run are not looked at.
MaySnapshotMutant == note = NoNote /\ IoQuiet
\* km_dump_core refuses while requests are active.
MaySnapshot == note = NoNote /\ IoQuiet /\ km_io_active_count = 0

km_fs_iocontext_notes_write ==
    /\ crash = "none" /\ "snapshot" \in payload.calls /\ MaySnapshot
    /\ note' = [contexts |-> [i \in DOMAIN iocp |-> [p |-> iocp[i].p, nr |-> iocp[i].nr]],
                piocontext |-> km_piocontext, held |-> held]
    /\ UNCHANGED <<kernel, iocp, km_piocontext, km_iocmutex, km_io_active_count, iocall, held, forked>>

RecoveredId == note.piocontext

\* A new KM sets up as many contexts, in the order of the note; when the kernel
\* refuses one KM ends.
km_fs_recover_iocontexts ==
    /\ crash = "none" /\ note # NoNote
    /\ \E f \in [DOMAIN note.contexts -> KContexts] :
          /\ \A i, j \in DOMAIN f : f[i] = f[j] => i = j
          /\ iocp' = [i \in DOMAIN f |-> [p |-> note.contexts[i].p, k |-> f[i], nr |-> note.contexts[i].nr]]
          /\ kernel' = [k \in KContexts |->
                          IF \E i \in DOMAIN f : f[i] = k
                          THEN LET c == note.contexts[CHOOSE i \in DOMAIN f : f[i] = k]
                               IN  [Unused EXCEPT !.owner = c.p, !.nr = c.nr]
                          ELSE Unused]
    /\ km_piocontext' = RecoveredId
    /\ km_iocmutex' = NoOne /\ km_io_active_count' = 0
    /\ iocall' = [t \in Threads |-> NoIo]
    /\ held' = note.held /\ note' = NoNote /\ forked' = FALSE

\* The child of a fork has the parent's table and count, and the thread that has
\* forked; the kernel does not give it the contexts.
Fork(t) ==
    /\ IoIdle(t, "fork") /\ ~forked
    /\ kernel' = [k \in KContexts |-> Unused]
    /\ iocall' = [u \in Threads |-> IF u = t THEN NoIo ELSE [NoIo EXCEPT !.pc = "gone"]]
    /\ forked' = TRUE
    /\ UNCHANGED <<iocp, km_piocontext, km_iocmutex, km_io_active_count, held, note>>

UsingContext(t, p) ==
    \/ km_iocontext_remove(t, p)
    \/ \E name \in {"io_submit", "io_getevents", "io_cancel"} : km_iocontext_xlate_p2k(t, p, name)

IoNext ==
    \/ \E t \in Threads : \/ km_iocontext_add(t) \/ SYS_io_setup(t) \/ km_iocontext_recover(t)
                          \/ SYS_io_destroy(t) \/ SYS_io_submit(t) \/ SYS_io_getevents(t)
                          \/ SYS_io_cancel(t) \/ Count(t) \/ Fork(t)
    \/ \E t \in Threads, p \in 1 .. km_piocontext : UsingContext(t, p)
    \/ \E k \in KContexts : Complete(k)
    \/ km_fs_iocontext_notes_write \/ km_fs_recover_iocontexts

FsNext == \/ Next /\ UNCHANGED iovars
          \/ IoNext /\ UNCHANGED vars
FsInit == Init /\ IoInit
FsSpec == FsInit /\ [][FsNext]_<<vars, iovars>>

-----------------------------------------------------------------------------
(* Properties *)

\* The types of the state.
IoTypeOK ==
    /\ kernel \in [KContexts -> [owner : 0 .. MaxIds, nr : NrEvents \cup {0}, running : Nat, done : Nat]]
    /\ iocp \in Seq([p : 1 .. MaxIds, k : KContexts, nr : NrEvents])
    /\ km_piocontext \in 0 .. MaxIds /\ km_iocmutex \in Threads \cup {NoOne}
    /\ km_io_active_count \in 0 .. COUNTER - 1
    /\ held \subseteq (1 .. MaxIds) \X NrEvents
    /\ \A t \in Threads : iocall[t].p \in 0 .. MaxIds /\ iocall[t].k \in KContexts \cup {0}

Pairs(s) == {<<s[i].p, s[i].nr>> : i \in DOMAIN s}
Distinct(s) == \A i, j \in DOMAIN s : s[i].p = s[j].p => i = j

\* The ids the payload holds are exactly those of the table, each once and with its
\* size, in whatever order contexts come and go and over a snapshot; and, except
\* in the child of a fork, each has a kernel context of its own.
ContextsMapped ==
    /\ held = Pairs(iocp)
    /\ Distinct(iocp)
    /\ ~forked => \A i \in DOMAIN iocp : /\ kernel[iocp[i].k].owner = iocp[i].p
                                         /\ kernel[iocp[i].k].nr = iocp[i].nr

SettingUp(t) == iocall[t].pc \in {"setup", "add"}

\* An id that is handed out is new: no other call has it and the payload does not
\* hold it, also when the counter comes out of a snapshot.
IdsFresh ==
    /\ \A p \in HeldIds : p <= km_piocontext
    /\ \A t \in Threads : SettingUp(t) =>
          /\ iocall[t].p \notin HeldIds
          /\ \A u \in Threads : SettingUp(u) /\ iocall[u].p = iocall[t].p => u = t

\* The lock is held only for the kernel's io_destroy.  (In the child of a fork
\* io_destroy fails, and the lock is lost.)
LockReturned ==
    ~forked /\ km_iocmutex # NoOne => \E t \in Threads : km_iocmutex = t /\ iocall[t].pc = "destroy"

\* The requests the kernel has, running or over but not fetched.
RequestsOf(K) == LET f[S \in SUBSET KContexts] ==
                       IF S = {} THEN 0 ELSE LET k == CHOOSE x \in S : TRUE
                                             IN  Outstanding(k) + f[S \ {k}]
                 IN  f[K]
\* Between two calls the count of active requests is that of the kernel, for a
\* payload that fetches the events of a context before it destroys it.
CountExact ==
    payload.orderly /\ ~forked /\ IoQuiet => km_io_active_count = RequestsOf(KContexts) % COUNTER

\* A request goes to the context that the payload has named, although the kernel's
\* id is used after the lock is released, for an orderly payload.
RequestsGoHome ==
    payload.orderly /\ ~forked =>
        \A t \in Threads : iocall[t].pc \in {"io_submit", "io_getevents", "io_cancel"} =>
                              kernel[iocall[t].k].owner = iocall[t].p

\* However the threads' calls overlap, ids are new, the lock comes back, requests
\* reach the context they name and the count of them is right once the calls are over.
ContextsSettled == IoTypeOK /\ IdsFresh /\ LockReturned /\ RequestsGoHome /\ CountExact

\* No snapshot is taken while the kernel still has a request or an event of the
\* payload, which the restored KM could not bring back; this is for every payload.
SnapshotDrained ==
    [][note = NoNote /\ note' # NoNote /\ ~forked => \A k \in KContexts : Outstanding(k) = 0]_<<vars, iovars>>
=============================================================================
