------------------------------- MODULE FdTable -------------------------------
(***************************************************************************)
(* The guest's descriptor table (km_filesys.c).  A guest descriptor has    *)
(* the number of the host descriptor behind it, so every call that makes   *)
(* or ends a descriptor first changes the host's table and then, in steps  *)
(* of its own, the slot guest_files[fd], the dup groups and the number of  *)
(* accepted connections.  Threads run such calls side by side, and the     *)
(* main thread may shrink the payload to a listening KM meanwhile.  KM     *)
(* opens descriptors of its own among the payload's numbers before it      *)
(* moves them above nfdmap.  A KM that listened for a shrunken payload     *)
(* hands the connection it accepted to the payload's first accept.         *)
(*                                                                         *)
(* host is the kernel's side (external): which open file description each  *)
(* number stands for, with lowest-number allocation.  A description is a   *)
(* record: the object, which of its ends, and the object's kind.  A host   *)
(* call that fails changes nothing and is a stuttering step.               *)
(***************************************************************************)
EXTENDS Integers, FiniteSets

CONSTANTS Threads,
          nfdmap,      \* slots in guest_files
          KmFds,       \* host descriptors KM itself has open, above nfdmap
          KM_MGM_ACCEPT, \* the one that holds a connection for the payload
          HostFds,     \* all numbers the host may hand out
          Objects,     \* names for host objects
          Payloads,    \* the payloads considered: records, see below
          MaxDups      \* bound: dups in a behaviour

Fds == 0 .. nfdmap - 1
NoFd == -1
Hows == {"OPEN", "PIPE_0", "PIPE_1", "EPOLLFD", "SOCKET", "ACCEPT",
         "SOCKETPAIR0", "SOCKETPAIR1", "RECVMSG", "EVENTFD", "TIMERFD"}
\* "listener" is a listening socket that a snapshot brought back; its sockinfo does not say so.
Kinds == {"file", "fifo", "sock", "listener", "epoll", "eventfd", "timerfd", "km"}
SockStates == {"OPEN", "BIND", "LISTEN", "ACCEPT", "CONNECT"}
Descriptions == [obj : Objects, end : 0 .. 1, kind : Kinds]
Closed == [obj |-> NoFd, end |-> 0, kind |-> "file"]

ASSUME FdTableAssumption ==
    /\ nfdmap \in Nat
    /\ HostFds \subseteq Nat /\ Fds \subseteq HostFds
    /\ KmFds \subseteq HostFds \ Fds /\ KM_MGM_ACCEPT \in KmFds
    /\ Objects \subseteq Nat
    /\ MaxDups \in Nat
    /\ \A p \in Payloads :
         /\ p.timeout \in Int           \* light_snap_accept_timeout
         /\ p.recovered \subseteq Fds    \* what a snapshot brought back as failed sockets
         /\ \A i \in DOMAIN p.listeners : p.listeners[i] \in Fds   \* and as listeners
         /\ p.dups \subseteq Hows        \* the sorts of descriptors it duplicates
         /\ p.careful \in BOOLEAN       \* it closes no descriptor that another call uses

VARIABLES
    payload,     \* what the payload does; never changes
    host,        \* the host's descriptor table
    interest,    \* what the host's epoll objects watch: <<epoll object, fd, description>>
    guest_files,
    dup_data,    \* the dup groups
    call,        \* where each thread is in the call it makes
    accept_cnt,
    listening,   \* km_snap_listening_state_p: <<>> when there is none, or it was freed
    internal,    \* KM's own open, accept or eventfd: where it is and what it made
    shutdown,    \* machine.shutdown_fd is readable; the loop never reads it
    shrink,      \* where the main thread is in shrinking the payload
    paused,      \* km_vcpu_pause_all(ALL) has stopped the payload
    unreadable,  \* readlink of /proc/self/exe failed since the payload was stopped
    crash,       \* "none", or the assertion or fault that ended KM
    dups         \* how many descriptors were duplicated (bound)

mainVars == <<listening, internal, shrink, paused, unreadable>>
vars == <<payload, host, interest, guest_files, dup_data, call, accept_cnt, shutdown, mainVars, crash, dups>>

-----------------------------------------------------------------------------
(* km_file_t.  A NULL sockinfo is state "NULL".                             *)
Slots == [inuse : BOOLEAN, how : Hows, error : BOOLEAN, ofd : Fds \cup {NoFd},
          sock : SockStates \cup {"NULL"}, events : SUBSET Fds]
EmptySlot == [inuse |-> FALSE, how |-> "OPEN", error |-> FALSE, ofd |-> 0,
              sock |-> "NULL", events |-> {}]

NoInternal == [pc |-> "no", fd |-> NoFd, obj |-> NoFd]
NoCall == [pc |-> "idle", fd |-> NoFd, fd2 |-> NoFd, how |-> "OPEN", sock |-> "NULL", ret |-> "idle"]
Pcs == {"idle", "take", "dup_taken", "del", "del_dup", "del_ofd", "host_close", "add", "add_2", "connect",
        "accept", "count", "dup_add", "dup3", "dup3_add", "dup_data", "bind", "listen", "connected",
        "event_add", "event_mod", "event_del"}

Listeners == {payload.listeners[i] : i \in DOMAIN payload.listeners}
ConnectionFds == IF Listeners = {} THEN {} ELSE {KM_MGM_ACCEPT}

\* KM waits for a connection to one of the snapshot's listeners before it starts the
\* payload; readiness probes are answered and closed on the way.
light_snap_listen(fds) ==
    IF fds = <<>> THEN {<<>>}
    ELSE {[i \in DOMAIN fds |-> [listen_fd |-> fds[i], accept_fd |-> IF i = j THEN KM_MGM_ACCEPT ELSE NoFd]] :
             j \in DOMAIN fds}

Init ==
    /\ payload \in Payloads
    /\ host = [f \in HostFds |->
                 IF f \in KmFds
                 THEN [obj |-> f, end |-> 0, kind |-> IF f \in ConnectionFds THEN "sock" ELSE "km"]
                 ELSE IF f \in Listeners THEN [obj |-> f, end |-> 0, kind |-> "listener"]
                 ELSE IF f \in payload.recovered THEN [obj |-> f, end |-> 0, kind |-> "sock"]
                 ELSE Closed]
    /\ interest = {}
    /\ guest_files = [f \in Fds |->
                        IF f \in payload.recovered
                        THEN [EmptySlot EXCEPT !.inuse = TRUE, !.how = "ACCEPT", !.error = TRUE,
                                               !.ofd = NoFd, !.sock = "OPEN"]
                        ELSE IF f \in Listeners
                        THEN [EmptySlot EXCEPT !.inuse = TRUE, !.how = "SOCKET", !.ofd = NoFd, !.sock = "OPEN"]
                        ELSE EmptySlot]
    /\ dup_data = {}
    /\ call = [t \in Threads |-> NoCall]
    /\ accept_cnt = 0
    /\ listening \in light_snap_listen(payload.listeners)
    /\ internal = NoInternal
    /\ shutdown = FALSE
    /\ shrink = "no" /\ paused = FALSE /\ unreadable = FALSE
    /\ crash = "none"
    /\ dups = 0

-----------------------------------------------------------------------------
(* The host (external). *)
FreeHost == {f \in HostFds : host[f] = Closed}
lowest(S) == CHOOSE f \in S : \A g \in S : f <= g
fresh == CHOOSE o \in Objects : \A f \in HostFds : host[f].obj # o
\* What is still watched once the table is h: a description that no number stands
\* for any more is gone from every epoll object, and so is a closed epoll object.
alive(h, watched) ==
    {w \in watched : (\E f \in HostFds : h[f] = w[3]) /\ (\E f \in HostFds : h[f].obj = w[1])}

Running(t) == crash = "none" /\ ~paused /\ shrink # "done" /\ t \in Threads
Idle(t, name) == Running(t) /\ call[t].pc = "idle" /\ name \in payload.calls
At(t, pc) == Running(t) /\ call[t].pc = pc
Uses(t) == {call[t].fd, call[t].fd2} \ {NoFd}
\* What a careful payload promises: one call per descriptor at a time, and no dup3 onto
\* a number that is not its own.
MayTake(t, S) == payload.careful => internal.fd \notin S /\ \A u \in Threads \ {t} : Uses(u) \cap S = {}
Goto(t, c) == call' = [call EXCEPT ![t] = c]
Return(t) == Goto(t, NoCall)
km_assert(name) == crash' = name

km_fs_g2h_fd(fd) == IF fd \in Fds /\ guest_files[fd].inuse THEN fd ELSE NoFd
km_guestfd_error(fd) == guest_files[fd].error
\* The checks that open most calls: EBADF, or the error of a recovered socket.
Usable(fd) == km_fs_g2h_fd(fd) # NoFd /\ ~km_guestfd_error(fd)

-----------------------------------------------------------------------------
(* Calls that make descriptors: the host's call, then the slot. *)
create(t, name, kind, how, sock) ==
    /\ Idle(t, name)
    /\ FreeHost # {}
    /\ LET f == lowest(FreeHost) IN
         /\ host' = [host EXCEPT ![f] = [obj |-> fresh, end |-> 0, kind |-> kind]]
         /\ Goto(t, [NoCall EXCEPT !.pc = "add", !.fd = f, !.how = how, !.sock = sock])
    /\ UNCHANGED <<payload, interest, guest_files, dup_data, accept_cnt, shutdown, mainVars, crash, dups>>

create_pair(t, name, kind, how, sock) ==
    /\ Idle(t, name)
    /\ Cardinality(FreeHost) >= 2
    /\ LET f == lowest(FreeHost)
           g == lowest(FreeHost \ {f})
       IN /\ host' = [host EXCEPT ![f] = [obj |-> fresh, end |-> 0, kind |-> kind],
                                  ![g] = [obj |-> fresh, end |-> 1, kind |-> kind]]
          /\ Goto(t, [NoCall EXCEPT !.pc = "add_2", !.fd = f, !.fd2 = g, !.how = how, !.sock = sock])
    /\ UNCHANGED <<payload, interest, guest_files, dup_data, accept_cnt, shutdown, mainVars, crash, dups>>

km_fs_open(t) == create(t, "open", "file", "OPEN", "NULL")
km_fs_eventfd2(t) == create(t, "eventfd", "eventfd", "EVENTFD", "NULL")
km_fs_socket(t) == create(t, "socket", "sock", "SOCKET", "OPEN")
km_fs_epoll_create1(t) == create(t, "epoll", "epoll", "EPOLLFD", "NULL")
km_fs_timerfd_create(t) == create(t, "timerfd", "timerfd", "TIMERFD", "NULL")
\* A descriptor that another process sent.
km_fs_recvmsg(t) == create(t, "recvmsg", "file", "RECVMSG", "NULL")
km_fs_pipe(t) == create_pair(t, "pipe", "fifo", "PIPE_0", "NULL")
km_fs_socketpair(t) == create_pair(t, "socketpair", "sock", "SOCKETPAIR0", "OPEN")

\* The slot once it is taken; the error of its last user is left alone.
km_add_guest_fd_internal(slot, how, sock) ==
    [slot EXCEPT !.inuse = TRUE, !.how = how, !.ofd = NoFd, !.sock = sock, !.events = {}]

\* What stops KM instead: the number is outside the table, or the slot is taken.
CannotAdd(fd) ==
    IF fd \notin Fds THEN "host_fd_range" ELSE IF guest_files[fd].inuse THEN "slot_taken" ELSE "none"

add_guest_fd(t, pc, fd, how, sock, next) ==
    /\ At(t, pc)
    /\ crash' = CannotAdd(fd)
    /\ IF CannotAdd(fd) = "none"
       THEN /\ guest_files' = [guest_files EXCEPT ![fd] = km_add_guest_fd_internal(@, how, sock)]
            /\ Goto(t, next)
       ELSE UNCHANGED <<guest_files, call>>
    /\ UNCHANGED <<payload, host, interest, dup_data, accept_cnt, shutdown, mainVars, dups>>

AddOne(t) == add_guest_fd(t, "add", call[t].fd, call[t].how, call[t].sock, NoCall)

other_half(how) == IF how = "PIPE_0" THEN "PIPE_1" ELSE "SOCKETPAIR1"

AddFirst(t) ==
    /\ call[t].ret = "idle"
    /\ add_guest_fd(t, "add_2", call[t].fd, call[t].how, call[t].sock,
                    [call[t] EXCEPT !.ret = "connect"])

AddSecond(t) ==
    /\ call[t].ret = "connect"
    /\ add_guest_fd(t, "add_2", call[t].fd2, other_half(call[t].how), call[t].sock,
                    [call[t] EXCEPT !.pc = "connect"])

km_connect_files(t) ==
    /\ At(t, "connect")
    /\ guest_files' = [guest_files EXCEPT ![call[t].fd].ofd = call[t].fd2,
                                          ![call[t].fd2].ofd = call[t].fd]
    /\ Return(t)
    /\ UNCHANGED <<payload, host, interest, dup_data, accept_cnt, shutdown, mainVars, crash, dups>>

-----------------------------------------------------------------------------
(* Sockets: the host's call, then sockinfo. *)
socket_call(t, name, fd, states, pc) ==
    /\ Idle(t, name)
    /\ Usable(fd) /\ MayTake(t, {fd})
    /\ host[fd].kind = "sock" /\ guest_files[fd].sock \in states
    /\ Goto(t, [NoCall EXCEPT !.pc = pc, !.fd = fd])
    /\ UNCHANGED <<payload, host, interest, guest_files, dup_data, accept_cnt, shutdown, mainVars, crash, dups>>

set_sock_state(t, pc, state) ==
    /\ At(t, pc)
    /\ LET fd == call[t].fd IN
         IF guest_files[fd].sock = "NULL"
         THEN km_assert("null_sockinfo") /\ UNCHANGED <<guest_files, call>>
         ELSE /\ guest_files' = [guest_files EXCEPT ![fd].sock = state]
              /\ Return(t)
              /\ UNCHANGED crash
    /\ UNCHANGED <<payload, host, interest, dup_data, accept_cnt, shutdown, mainVars, dups>>

km_fs_bind(t, fd) == socket_call(t, "bind", fd, {"OPEN"}, "bind")
km_fs_listen(t, fd) == socket_call(t, "listen", fd, {"BIND", "LISTEN"}, "listen")
km_fs_connect(t, fd) == socket_call(t, "connect", fd, {"OPEN", "BIND"}, "connected")
SockDone(t) ==
    \/ set_sock_state(t, "bind", "BIND")
    \/ set_sock_state(t, "listen", "LISTEN")
    \/ set_sock_state(t, "connected", "CONNECT")

MayAccept(t, sockfd) ==
    /\ Idle(t, "accept")
    /\ Usable(sockfd) /\ MayTake(t, {sockfd})
    /\ host[sockfd].kind = "listener" \/ (guest_files[sockfd].sock = "LISTEN" /\ host[sockfd].kind = "sock")

\* The connection that KM accepted for the listener before the payload ran.
waiting(list, sockfd) == {i \in DOMAIN list : list[i].listen_fd = sockfd /\ list[i].accept_fd # NoFd}

\* The new socket's parameters come from the listener's sockinfo, read after the
\* host has accepted.
km_fs_accept4(t, sockfd) ==
    /\ MayAccept(t, sockfd)
    /\ waiting(listening, sockfd) = {}
    /\ FreeHost # {}
    /\ LET f == lowest(FreeHost) IN
         /\ host' = [host EXCEPT ![f] = [obj |-> fresh, end |-> 0, kind |-> "sock"]]
         /\ Goto(t, [NoCall EXCEPT !.pc = "accept", !.fd = f, !.fd2 = sockfd])
    /\ UNCHANGED <<payload, interest, guest_files, dup_data, accept_cnt, shutdown, mainVars, crash, dups>>

\* km_snap_find_accepted reads the number, then resets it and frees the table, which
\* another thread's accept may have done by then; the connection is moved to a number
\* of the payload's.
km_snap_find_accepted(t, sockfd) ==
    /\ MayAccept(t, sockfd)
    /\ \E i \in waiting(listening, sockfd) :
         Goto(t, [NoCall EXCEPT !.pc = "take", !.fd = listening[i].accept_fd, !.fd2 = sockfd])
    /\ UNCHANGED <<payload, host, interest, guest_files, dup_data, accept_cnt, shutdown, mainVars, crash, dups>>

km_snapshot_listenfds_free(t) ==
    /\ At(t, "take")
    /\ IF listening = <<>> THEN km_assert("freed") /\ UNCHANGED <<listening, call>>
       ELSE /\ listening' = <<>>
            /\ Goto(t, [call[t] EXCEPT !.pc = "dup_taken"])
            /\ UNCHANGED crash
    /\ UNCHANGED <<payload, host, interest, guest_files, dup_data, accept_cnt, shutdown,
                   internal, shrink, paused, unreadable, dups>>

DupTaken(t) ==
    /\ At(t, "dup_taken")
    /\ IF FreeHost = {} THEN Return(t) /\ UNCHANGED host
       ELSE LET f == lowest(FreeHost) IN
            /\ host' = [host EXCEPT ![f] = host[call[t].fd], ![call[t].fd] = Closed]
            /\ Goto(t, [call[t] EXCEPT !.pc = "accept", !.fd = f])
    /\ UNCHANGED <<payload, interest, guest_files, dup_data, accept_cnt, shutdown, mainVars, crash, dups>>

AddAccepted(t) ==
    IF At(t, "accept") /\ guest_files[call[t].fd2].sock = "NULL"
    THEN /\ km_assert("null_sockinfo")
         /\ UNCHANGED <<payload, host, interest, guest_files, dup_data, call, accept_cnt, shutdown, mainVars, dups>>
    ELSE add_guest_fd(t, "accept", call[t].fd, "ACCEPT", "ACCEPT", [call[t] EXCEPT !.pc = "count"])

km_set_active_accept(t) ==
    /\ At(t, "count")
    /\ accept_cnt' = IF payload.timeout # 0 THEN accept_cnt + 1 ELSE accept_cnt
    /\ Return(t)
    /\ UNCHANGED <<payload, host, interest, guest_files, dup_data, shutdown, mainVars, crash, dups>>

-----------------------------------------------------------------------------
(* del_guest_fd, in the steps other threads can see, and km_fs_close.  A    *)
(* failed socket of a snapshot is not counted, and its close leaves the     *)
(* host's descriptor open.                                                  *)

km_set_inactive_accept(slot) ==
    IF payload.timeout # 0 /\ slot.how = "ACCEPT" /\ ~slot.error
    THEN accept_cnt - 1 ELSE accept_cnt

\* Mutant: the host's descriptor is never closed.
km_fs_closeMutant(t, fd) ==
    /\ Idle(t, "close")
    /\ km_fs_g2h_fd(fd) # NoFd /\ MayTake(t, {fd})
    /\ Goto(t, [NoCall EXCEPT !.pc = "del", !.fd = fd])
    /\ UNCHANGED <<payload, host, interest, guest_files, dup_data, accept_cnt, shutdown, mainVars, crash, dups>>

km_fs_close(t, fd) ==
    /\ Idle(t, "close")
    /\ km_fs_g2h_fd(fd) # NoFd /\ MayTake(t, {fd})
    /\ Goto(t, [NoCall EXCEPT !.pc = "del", !.fd = fd,
                              !.ret = IF km_guestfd_error(fd) THEN "idle" ELSE "host_close"])
    /\ UNCHANGED <<payload, host, interest, guest_files, dup_data, accept_cnt, shutdown, mainVars, crash, dups>>

del_guest_fd(t) ==
    /\ At(t, "del")
    /\ LET fd == call[t].fd
           cnt == km_set_inactive_accept(guest_files[fd])
       IN IF ~guest_files[fd].inuse THEN km_assert("not_inuse") /\ UNCHANGED <<guest_files, call, accept_cnt, shutdown>>
          ELSE IF cnt < 0 THEN km_assert("accept_cnt") /\ UNCHANGED <<guest_files, call, accept_cnt, shutdown>>
          ELSE /\ accept_cnt' = cnt
               /\ shutdown' = (shutdown \/ (cnt < accept_cnt /\ cnt = 0 /\ payload.timeout < 0))
               /\ guest_files' = [guest_files EXCEPT ![fd].inuse = FALSE, ![fd].sock = "NULL",
                                                     ![fd].events = {}]
               /\ Goto(t, [call[t] EXCEPT !.pc = "del_dup"])
               /\ UNCHANGED crash
    /\ UNCHANGED <<payload, host, interest, dup_data, mainVars, dups>>

\* A group loses fd; a group of two goes with it.
without(groups, fd) == {g \ {fd} : g \in {h \in groups : fd \in h => Cardinality(h) > 2}}

km_fd_close_dup(t) ==
    /\ At(t, "del_dup")
    /\ dup_data' = without(dup_data, call[t].fd)
    /\ Goto(t, [call[t] EXCEPT !.pc = "del_ofd"])
    /\ UNCHANGED <<payload, host, interest, guest_files, accept_cnt, shutdown, mainVars, crash, dups>>

\* Mutant: the other end keeps naming this one.
del_ofdMutant(t) ==
    /\ At(t, "del_ofd")
    /\ guest_files' = [guest_files EXCEPT ![call[t].fd].ofd = NoFd]
    /\ Goto(t, IF call[t].ret = "idle" THEN NoCall ELSE [call[t] EXCEPT !.pc = call[t].ret])
    /\ UNCHANGED <<payload, host, interest, dup_data, accept_cnt, shutdown, mainVars, crash, dups>>

\* The other end forgets this one only if it still names it.
del_ofd(t) ==
    /\ At(t, "del_ofd")
    /\ LET fd == call[t].fd
           other == guest_files[fd].ofd
       IN guest_files' = [f \in Fds |->
                            IF f = fd \/ (f = other /\ guest_files[f].ofd = fd)
                            THEN [guest_files[f] EXCEPT !.ofd = NoFd] ELSE guest_files[f]]
    /\ Goto(t, IF call[t].ret = "idle" THEN NoCall ELSE [call[t] EXCEPT !.pc = call[t].ret])
    /\ UNCHANGED <<payload, host, interest, dup_data, accept_cnt, shutdown, mainVars, crash, dups>>

close_host_fd(t) ==
    /\ At(t, "host_close")
    /\ host' = [host EXCEPT ![call[t].fd] = Closed]
    /\ interest' = alive(host', interest)
    /\ Return(t)
    /\ UNCHANGED <<payload, guest_files, dup_data, accept_cnt, shutdown, mainVars, crash, dups>>

-----------------------------------------------------------------------------
(* dup, F_DUPFD and dup3: the host's call, for dup3 the end of the old      *)
(* descriptor's slot, the copy of the slot, and the dup group.              *)
MayDup(fd) == dups < MaxDups /\ guest_files[fd].how \in payload.dups

km_fs_dup(t, fd) ==
    /\ Idle(t, "dup")
    /\ Usable(fd) /\ MayDup(fd) /\ MayTake(t, {fd})
    /\ FreeHost # {}
    /\ LET f == lowest(FreeHost) IN
         /\ host' = [host EXCEPT ![f] = host[fd]]
         /\ Goto(t, [NoCall EXCEPT !.pc = "dup_add", !.fd = f, !.fd2 = fd])
    /\ dups' = dups + 1
    /\ UNCHANGED <<payload, interest, guest_files, dup_data, accept_cnt, shutdown, mainVars, crash>>

\* dup2 with equal numbers returns at once, and dup3 refuses them.
km_fs_dup3(t, fd, newfd) ==
    /\ Idle(t, "dup3")
    /\ fd # newfd
    /\ newfd \in Fds
    /\ Usable(fd) /\ MayDup(fd) /\ MayTake(t, {fd, newfd})
    /\ host' = [host EXCEPT ![newfd] = host[fd]]
    /\ interest' = alive(host', interest)
    /\ Goto(t, [NoCall EXCEPT !.pc = "dup3", !.fd = newfd, !.fd2 = fd, !.ret = "dup3_add"])
    /\ dups' = dups + 1
    /\ UNCHANGED <<payload, guest_files, dup_data, accept_cnt, shutdown, mainVars, crash>>

dup3_del(t) ==
    /\ At(t, "dup3")
    /\ Goto(t, [call[t] EXCEPT !.pc = IF guest_files[call[t].fd].inuse THEN "del" ELSE "dup3_add"])
    /\ UNCHANGED <<payload, host, interest, guest_files, dup_data, accept_cnt, shutdown, mainVars, crash, dups>>

\* dup copies how; dup3 does so for sockets only.
AddDup(t) ==
    LET src == guest_files[call[t].fd2]
        next == [call[t] EXCEPT !.pc = "dup_data"]
    IN \/ add_guest_fd(t, "dup_add", call[t].fd, src.how, src.sock, next)
       \/ add_guest_fd(t, "dup3_add", call[t].fd, IF src.sock # "NULL" THEN src.how ELSE "OPEN",
                       src.sock, next)

\* The first group that holds old gets new, or the two make a group.
with_dup(groups, new, old) ==
    IF \E g \in groups : old \in g
    THEN LET g == CHOOSE g \in groups : old \in g IN (groups \ {g}) \cup {g \cup {new}}
    ELSE groups \cup {{old, new}}

km_fs_add_to_dup_data(t) ==
    /\ At(t, "dup_data")
    /\ dup_data' = with_dup(dup_data, call[t].fd, call[t].fd2)
    /\ Return(t)
    /\ UNCHANGED <<payload, host, interest, guest_files, accept_cnt, shutdown, mainVars, crash, dups>>

-----------------------------------------------------------------------------
(* epoll_ctl: the host's call, then the list of the epoll descriptor.       *)
epoll_host(t, epfd, fd, pc, ok, watched) ==
    /\ Idle(t, "epoll_ctl")
    /\ km_fs_g2h_fd(epfd) # NoFd /\ km_fs_g2h_fd(fd) # NoFd
    /\ MayTake(t, {epfd, fd})
    /\ host[epfd].kind = "epoll" /\ host[fd].kind # "file" /\ host[fd] # host[epfd]
    /\ ok
    /\ interest' = watched
    /\ Goto(t, [NoCall EXCEPT !.pc = pc, !.fd = epfd, !.fd2 = fd])
    /\ UNCHANGED <<payload, host, guest_files, dup_data, accept_cnt, shutdown, mainVars, crash, dups>>

km_fs_epoll_ctl(t, epfd, fd) ==
    LET w == <<host[epfd].obj, fd, host[fd]>> IN
    \/ epoll_host(t, epfd, fd, "event_add", w \notin interest, interest \cup {w})
    \/ epoll_host(t, epfd, fd, "event_mod", w \in interest, interest)
    \/ epoll_host(t, epfd, fd, "event_del", w \in interest, interest \ {w})

\* km_fs_event_add, km_fs_event_mod and km_fs_event_del with their assertions.
event_list(t, pc, present, events) ==
    /\ At(t, pc)
    /\ LET epfd == call[t].fd IN
         IF (call[t].fd2 \in guest_files[epfd].events) # present
         THEN km_assert(pc) /\ UNCHANGED <<guest_files, call>>
         ELSE /\ guest_files' = [guest_files EXCEPT ![epfd].events = events]
              /\ Return(t)
              /\ UNCHANGED crash
    /\ UNCHANGED <<payload, host, interest, dup_data, accept_cnt, shutdown, mainVars, dups>>

EventList(t) ==
    /\ call[t].fd \in Fds
    /\ LET events == guest_files[call[t].fd].events IN
       \/ event_list(t, "event_add", FALSE, events \cup {call[t].fd2})
       \/ event_list(t, "event_mod", TRUE, events)
       \/ event_list(t, "event_del", TRUE, events \ {call[t].fd2})

-----------------------------------------------------------------------------
(* A descriptor of KM's own: the host's call gives it one of the payload's  *)
(* numbers, km_internal_fd moves it above nfdmap and closes the first.      *)
(* Bound: once in a behaviour.                                              *)
km_internal_open ==
    /\ crash = "none" /\ payload.internal /\ internal.pc = "no" /\ FreeHost # {}
    /\ LET f == lowest(FreeHost) IN
         /\ host' = [host EXCEPT ![f] = [obj |-> fresh, end |-> 0, kind |-> "km"]]
         /\ internal' = [pc |-> "move", fd |-> f, obj |-> fresh]
    /\ UNCHANGED <<payload, interest, guest_files, dup_data, call, accept_cnt, listening, shutdown, shrink,
                   paused, unreadable, crash, dups>>

\* A fixed number (KM_GDB_ACCEPT, KM_MGM_ACCEPT) or the next one of a counter.
km_internal_fd ==
    /\ crash = "none"
    /\ internal.pc = "move"
    /\ \E km_fd \in KmFds \ ConnectionFds : host' = [host EXCEPT ![km_fd] = host[internal.fd]]
    /\ internal' = [internal EXCEPT !.pc = "close"]
    /\ UNCHANGED <<payload, interest, guest_files, dup_data, call, accept_cnt, listening, shutdown, shrink,
                   paused, unreadable, crash, dups>>

km_internal_close ==
    /\ crash = "none" /\ internal.pc = "close"
    /\ host' = [host EXCEPT ![internal.fd] = Closed]
    /\ interest' = alive(host', interest)
    /\ internal' = [NoInternal EXCEPT !.pc = "done"]
    /\ UNCHANGED <<payload, guest_files, dup_data, call, accept_cnt, listening, shutdown, shrink,
                   paused, unreadable, crash, dups>>

-----------------------------------------------------------------------------
(* The main thread's loop over light_snap_accept_timeout and                *)
(* km_shrink_footprint.  km_vcpu_pause_all(ALL) returns when no vcpu is in  *)
(* a hypercall.  execve keeps the listening sockets for the KM it starts.   *)
OnlyShrink == UNCHANGED <<payload, host, interest, guest_files, dup_data, call, accept_cnt, listening, internal,
                          shutdown, crash, dups>>
MainAt(where) == crash = "none" /\ shrink = where

\* select returns: the payload's last connection is gone, or the time is over.
MainWakes ==
    /\ MainAt("no")
    /\ shutdown \/ payload.timeout > 0
    /\ shrink' = "check"
    /\ OnlyShrink /\ UNCHANGED <<paused, unreadable>>

\* With a timeout, a connection may also have been accepted too recently.
km_active_accept ==
    /\ MainAt("check")
    /\ \/ accept_cnt = 0 /\ shrink' = "pause"
       \/ (accept_cnt # 0 \/ payload.timeout > 0) /\ shrink' = "no"
    /\ OnlyShrink /\ UNCHANGED <<paused, unreadable>>

PauseAll ==
    /\ MainAt("pause")
    /\ \A t \in Threads : call[t].pc = "idle"
    /\ paused' = TRUE
    /\ shrink' = "recheck"
    /\ OnlyShrink /\ UNCHANGED unreadable

\* Mutant: connections are not looked for again once the payload has stopped.
km_shrink_footprintMutant ==
    /\ MainAt("recheck")
    /\ shrink' = "done" /\ UNCHANGED <<paused, unreadable>>
    /\ OnlyShrink

\* execve starts KM anew or fails; when readlink fails the function returns at once.
km_shrink_footprint ==
    /\ MainAt("recheck")
    /\ \/ accept_cnt = 0 /\ shrink' = "done" /\ UNCHANGED <<paused, unreadable>>
       \/ accept_cnt = 0 /\ shrink' = "no" /\ unreadable' = TRUE /\ UNCHANGED paused
       \/ shrink' = "no" /\ paused' = FALSE /\ unreadable' = FALSE
    /\ OnlyShrink

Shrink == MainWakes \/ km_active_accept \/ PauseAll \/ km_shrink_footprint

-----------------------------------------------------------------------------
Create(t) ==
    \/ km_fs_open(t) \/ km_fs_eventfd2(t) \/ km_fs_socket(t) \/ km_fs_epoll_create1(t)
    \/ km_fs_timerfd_create(t) \/ km_fs_recvmsg(t) \/ km_fs_pipe(t) \/ km_fs_socketpair(t)

OnFd(t, fd) ==
    \/ km_fs_bind(t, fd) \/ km_fs_listen(t, fd) \/ km_fs_connect(t, fd) \/ km_fs_accept4(t, fd)
    \/ km_snap_find_accepted(t, fd) \/ km_fs_close(t, fd) \/ km_fs_dup(t, fd)

OnTwoFds(t, fd, fd2) == km_fs_dup3(t, fd, fd2) \/ km_fs_epoll_ctl(t, fd, fd2)

Finish(t) ==
    \/ AddOne(t) \/ AddFirst(t) \/ AddSecond(t) \/ km_connect_files(t)
    \/ SockDone(t) \/ km_snapshot_listenfds_free(t) \/ DupTaken(t) \/ AddAccepted(t) \/ km_set_active_accept(t)
    \/ del_guest_fd(t) \/ km_fd_close_dup(t) \/ del_ofd(t) \/ close_host_fd(t)
    \/ dup3_del(t) \/ AddDup(t) \/ km_fs_add_to_dup_data(t) \/ EventList(t)

Next ==
    \/ \E t \in Threads : Create(t) \/ Finish(t)
    \/ \E t \in Threads, fd \in Fds : OnFd(t, fd)
    \/ \E t \in Threads, fd \in Fds, fd2 \in HostFds : OnTwoFds(t, fd, fd2)
    \/ km_internal_open \/ km_internal_fd \/ km_internal_close
    \/ Shrink

Spec == Init /\ [][Next]_vars

-----------------------------------------------------------------------------
CallRecords == [pc : Pcs, fd : HostFds \cup {NoFd}, fd2 : HostFds \cup {NoFd}, how : Hows,
                sock : SockStates \cup {"NULL"}, ret : Pcs]

\* The types of the state.
TypeOK ==
    /\ host \in [HostFds -> Descriptions \cup {Closed}]
    /\ interest \subseteq Objects \X Fds \X Descriptions
    /\ guest_files \in [Fds -> Slots]
    /\ dup_data \subseteq SUBSET Fds
    /\ call \in [Threads -> CallRecords]
    /\ accept_cnt \in 0 .. nfdmap /\ dups \in 0 .. MaxDups
    /\ shutdown \in BOOLEAN /\ paused \in BOOLEAN /\ unreadable \in BOOLEAN
    /\ shrink \in {"no", "check", "pause", "recheck", "done"}

InCall(fd) == fd = internal.fd \/ \E t \in Threads : fd \in Uses(t)
Settled(fd) == payload.careful /\ crash = "none" /\ ~InCall(fd)

\* Outside calls the table and the host agree on which numbers are open: a slot in
\* use has a host descriptor, and a host descriptor below nfdmap has its slot, except
\* that of a failed socket the payload has closed (km_fs_close, del_guest_fd).
SlotsAgree ==
    \A fd \in Fds : Settled(fd) =>
        /\ guest_files[fd].inuse => host[fd] # Closed
        /\ host[fd] # Closed => guest_files[fd].inuse \/ guest_files[fd].error

\* No slot is taken twice, given up twice or used without its sockinfo, as the
\* assertions of km_add_guest_fd_internal and del_guest_fd demand.
SlotsDisciplined == payload.careful => crash \notin {"slot_taken", "not_inuse", "null_sockinfo", "freed"}

\* Dup groups are exact: two descriptors in use are in one group if and only if they
\* stand for one open file description, groups have two members or more and are
\* disjoint, and their members are in use (km_fs_add_to_dup_data, km_fd_close_dup).
DupGroupsExact ==
    /\ payload.careful => \A g, h \in dup_data : g = h \/ g \cap h = {}
    /\ payload.careful => \A g \in dup_data : Cardinality(g) >= 2
    /\ \A fd, fd2 \in {f \in Fds : Settled(f) /\ (guest_files[f].inuse \/ f \in UNION dup_data)} :
         fd # fd2 =>
            ((host[fd] = host[fd2] /\ guest_files[fd].inuse /\ guest_files[fd2].inuse)
                <=> \E g \in dup_data : {fd, fd2} \subseteq g)

\* The two ends of a pipe or socket pair name each other, and belong to one object,
\* whatever order two threads close them in (km_connect_files, del_guest_fd).
PairsMatch ==
    \A fd \in Fds : Settled(fd) /\ guest_files[fd].inuse /\ guest_files[fd].ofd # NoFd =>
        LET o == guest_files[fd].ofd IN
        InCall(o) \/ (/\ guest_files[o].inuse /\ guest_files[o].ofd = fd
                      /\ host[o].obj = host[fd].obj /\ host[o].end # host[fd].end)

\* KM's own numbers stand for what KM opened: the payload opens, closes or replaces none
\* of them, only takes the connection KM has accepted for it, and it is not between KM's
\* call and km_internal_fd that a careful payload could slip in a descriptor.
KmFdsKept ==
    /\ payload.careful => \A f \in KmFds \ ConnectionFds : host[f].kind = "km"
    /\ payload.careful /\ listening # <<>> => \A f \in ConnectionFds : host[f] # Closed
    /\ internal.pc \in {"move", "close"} /\ payload.careful => host[internal.fd].obj = internal.obj

\* The table as a whole: its slots and the host's numbers agree outside calls, no
\* assertion about a slot fails, and KM's own numbers are left alone.
TableExact == TypeOK /\ SlotsAgree /\ SlotsDisciplined /\ KmFdsKept

OpenAccepted == {f \in Fds : guest_files[f].inuse /\ guest_files[f].how = "ACCEPT" /\ ~guest_files[f].error}

\* accept_cnt is the number of accepted connections that are open, when the payload
\* does not duplicate them (km_set_active_accept, km_set_inactive_accept).
AcceptCounted ==
    payload.careful /\ crash = "none" /\ payload.timeout # 0 /\ "ACCEPT" \notin payload.dups =>
        accept_cnt + Cardinality({t \in Threads : call[t].pc = "count"}) = Cardinality(OpenAccepted)

\* KM shrinks the payload only when no accepted connection is open, also when one was
\* accepted between the main thread's check and the stop of the vcpus.
ShrinkOnlyIdle == payload.careful /\ shrink = "done" /\ "ACCEPT" \notin payload.dups => OpenAccepted = {}

\* A shrink that is given up lets the payload run again, but for a failing readlink.
ResumedAfterShrink == paused /\ shrink = "no" => unreadable

\* A payload is shrunk only when it is idle, by a count that is right, and one that is
\* not shrunk goes on.
ShrinkSafe == AcceptCounted /\ ShrinkOnlyIdle /\ ResumedAfterShrink

\* Everything the host watches for an epoll descriptor is in the list a snapshot is
\* written from, when the payload does not duplicate epoll descriptors.
EpollListed ==
    "EPOLLFD" \notin payload.dups =>
    \A w \in interest, fd \in Fds :
        Settled(fd) /\ Settled(w[2]) /\ guest_files[fd].inuse /\ host[fd].obj = w[1]
        => w[2] \in guest_files[fd].events

\* What KM knows of how descriptors hang together is what the host does with them: dup
\* groups, the ends of pipes and socket pairs, and the lists of epoll descriptors.
LinksExact == DupGroupsExact /\ PairsMatch /\ EpollListed

\* The assertion of km_set_inactive_accept: the count never drops below zero.
AcceptCntNonNegative == crash # "accept_cnt"
=============================================================================
