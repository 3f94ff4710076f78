----------------------------- MODULE FdSnapshot -----------------------------
(***************************************************************************)
(* The descriptor table in a snapshot and across execve: the notes that    *)
(* km_fs_core_notes_write makes of a table, the table and the host's       *)
(* descriptors that km_fs_recover makes of the notes in a new KM, and the  *)
(* list that km_exec_save_fd hands to the KM that execve starts.           *)
(*                                                                         *)
(* Both start from a table no call is changing: the vcpus are paused.  A   *)
(* recovery is a record: did it work, the host's table, guest_files, what  *)
(* the host watches, the state the host gave each socket, and the ends at  *)
(* which data can be read.  Every read end of a pipe, and both ends of a   *)
(* socket pair, have data queued when the snapshot is taken.  The model's  *)
(* numbers are those above the standard ones, whose pipes are not saved.   *)
(***************************************************************************)
EXTENDS FdTable, SequencesExt

-----------------------------------------------------------------------------
(* Writing the notes. *)
fnote_state(sock) ==
    IF sock \in {"OPEN", "BIND", "LISTEN"} THEN sock ELSE "ERROR"

note_type(slot) ==
    CASE slot.how = "EPOLLFD" -> "EPOLLFD"
      [] slot.how = "EVENTFD" -> "EVENTFD"
      [] slot.sock = "NULL" -> "FILE"
      [] OTHER -> "SOCKET"

\* data is the other end of a pipe, else the position lseek reports: zero for the files
\* of this model, -1 for what has none.
fs_core_write_nonsocket(fd) ==
    [type |-> "FILE", fd |-> fd, how |-> guest_files[fd].how, mode |-> host[fd].kind,
     data |-> IF host[fd].kind = "fifo" THEN guest_files[fd].ofd
              ELSE IF host[fd].kind = "file" THEN 0 ELSE NoFd]

fs_core_write_socket(fd) ==
    [type |-> "SOCKET", fd |-> fd, how |-> guest_files[fd].how, other |-> guest_files[fd].ofd,
     state |-> fnote_state(guest_files[fd].sock)]

fs_core_write_eventfd(fd) == [type |-> "EVENTFD", fd |-> fd, how |-> "EVENTFD"]

fs_core_write_epollfd(fd) ==
    [type |-> "EPOLLFD", fd |-> fd, how |-> "EPOLLFD",
     events |-> SetToSortSeq(guest_files[fd].events, LAMBDA a, b : a < b)]

write_note(fd) ==
    CASE note_type(guest_files[fd]) = "FILE" -> fs_core_write_nonsocket(fd)
      [] note_type(guest_files[fd]) = "SOCKET" -> fs_core_write_socket(fd)
      [] note_type(guest_files[fd]) = "EVENTFD" -> fs_core_write_eventfd(fd)
      [] note_type(guest_files[fd]) = "EPOLLFD" -> fs_core_write_epollfd(fd)

\* Queued data is read for the note and written back: through the other end, or, when that
\* is closed, into a new pipe that takes the descriptor's place.
has_data(how) == how \in {"PIPE_0", "SOCKETPAIR0", "SOCKETPAIR1"}

fs_core_save_pipe_contents(h, fd) ==
    IF has_data(guest_files[fd].how) /\ guest_files[fd].ofd = NoFd
    THEN [h EXCEPT ![fd] = [@ EXCEPT !.obj = CHOOSE o \in Objects : \A f \in HostFds : h[f].obj # o]] ELSE h

Used == {fd \in Fds : guest_files[fd].inuse}

\* A timerfd makes the snapshot fail.
km_fs_core_notes_write ==
    [ok |-> \A fd \in Used : guest_files[fd].how # "TIMERFD",
     notes |-> LET order == SetToSortSeq(Used, LAMBDA a, b : a < b)
               IN [i \in DOMAIN order |-> write_note(order[i])],
     host |-> FoldLeft(fs_core_save_pipe_contents, host, SetToSortSeq(Used, LAMBDA a, b : a < b))]

-----------------------------------------------------------------------------
(* Recovery. *)
Fail(r) == [r EXCEPT !.ok = FALSE]
lowest_free(r) == lowest({f \in HostFds : r.host[f] = Closed})
new_object(r) == CHOOSE o \in Objects : \A f \in HostFds : r.host[f].obj # o
open_host(r, f, obj, end, kind) == [r EXCEPT !.host[f] = [obj |-> obj, end |-> end, kind |-> kind]]

km_fs_recover_fd(r, guestfd, hostfd, how, ofd) ==
    IF guestfd = NoFd THEN [r EXCEPT !.host[hostfd] = Closed]
    ELSE [r EXCEPT !.host = IF guestfd = hostfd THEN @
                            ELSE [@ EXCEPT ![guestfd] = r.host[hostfd], ![hostfd] = Closed],
                   !.files[guestfd] = [@ EXCEPT !.inuse = TRUE, !.how = how, !.ofd = ofd, !.events = {}]]

\* Mutant: the first descriptor always moves first.
km_fs_recover_fdpairMutant(r, guestfd, hostfd, how) ==
    LET one(q) == km_fs_recover_fd(q, guestfd[1], hostfd[1], how[1], guestfd[2])
        two(q) == km_fs_recover_fd(q, guestfd[2], hostfd[2], how[2], guestfd[1])
    IN two(one(r))

\* The second descriptor moves first when the first one's number is its own.
km_fs_recover_fdpair(r, guestfd, hostfd, how) ==
    LET one(q) == km_fs_recover_fd(q, guestfd[1], hostfd[1], how[1], guestfd[2])
        two(q) == km_fs_recover_fd(q, guestfd[2], hostfd[2], how[2], guestfd[1])
    IN IF guestfd[1] = hostfd[2] THEN one(two(r)) ELSE two(one(r))

\* Data written into the other end of description d can be read at d.
queue_at(r, d) == [r EXCEPT !.queued = @ \cup {d}]
opposite(d) == [d EXCEPT !.end = 1 - @]

\* A new pair of host descriptors, filled for the end the note is for, then moved to where
\* the payload had them.
new_pair(r, kind, guestfd, how, filled) ==
    LET f == lowest_free(r)
        g == lowest({h \in HostFds \ {f} : r.host[h] = Closed})
        o == new_object(r)
        opened == open_host(open_host(r, f, o, 0, kind), g, o, 1, kind)
    IN km_fs_recover_fdpair(IF filled = NoFd THEN opened
                            ELSE queue_at(opened, [obj |-> o, end |-> filled, kind |-> kind]),
                            guestfd, <<f, g>>, how)

\* Data of an end that came back with its other one is written into that one.
km_fs_recover_pipedata(r, fd, ofd) ==
    IF has_data(r.files[fd].how) THEN queue_at(r, opposite(r.host[ofd])) ELSE r

\* A pipe's flags say which end the note is for.
km_fs_recover_pipe(r, n) ==
    IF r.files[n.fd].inuse
    THEN IF r.files[n.fd].ofd = n.data THEN km_fs_recover_pipedata(r, n.fd, n.data) ELSE Fail(r)
    ELSE new_pair(r, "fifo", IF n.how = "PIPE_1" THEN <<n.data, n.fd>> ELSE <<n.fd, n.data>>,
                  <<"PIPE_0", "PIPE_1">>, IF n.how = "PIPE_0" THEN 0 ELSE NoFd)

km_fs_recover_socketpair(r, n) ==
    IF r.files[n.fd].inuse THEN km_fs_recover_pipedata(r, n.fd, n.other)
    ELSE IF n.how = "SOCKETPAIR0"
    THEN new_pair(r, "sock", <<n.fd, n.other>>, <<"SOCKETPAIR0", "SOCKETPAIR1">>, 0)
    ELSE new_pair(r, "sock", <<n.other, n.fd>>, <<"SOCKETPAIR1", "SOCKETPAIR0">>, 1)

\* A listener, or a bound socket, is set up again; a connected one returns an error.
km_fs_recover_socket(r, n) ==
    IF r.files[n.fd].inuse THEN Fail(r)
    ELSE LET f == lowest_free(r)
             q == km_fs_recover_fd(open_host(r, f, new_object(r), 0, "sock"), n.fd, f, n.how, NoFd)
         IN [q EXCEPT !.socks[n.fd] = IF n.state = "ERROR" THEN "OPEN" ELSE n.state,
                      !.files[n.fd] = [@ EXCEPT !.sock = "OPEN", !.error = (n.state = "ERROR")]]

\* The dup group's member that is back already, -2 if fd is its group's first, -1 if it
\* is in no group.
km_fs_check_for_dups(r, fd) ==
    LET others == UNION {g \in dup_data : fd \in g} \ {fd}
        back == {f \in others : r.files[f].inuse}
    IN IF others = {} THEN -1 ELSE IF back = {} THEN -2 ELSE lowest(back)

\* km_fs_dup3 while the snapshot is recovered: the groups are there already.
recover_dup(r, fd, newfd) ==
    LET src == r.files[fd] IN
    [r EXCEPT !.host[newfd] = r.host[fd],
              !.socks[newfd] = r.socks[fd],
              !.files[newfd] = km_add_guest_fd_internal(
                  @, IF src.sock # "NULL" THEN src.how ELSE "OPEN", src.sock)]

\* open of the name: it finds files, nothing else.
reopen(r, n) ==
    LET f == lowest_free(r) IN
    IF n.mode = "file"
    THEN km_fs_recover_fd(open_host(r, f, new_object(r), 0, "file"), n.fd, f, n.how, n.data)
    ELSE Fail(r)

km_fs_recover_open_file(r, n) ==
    LET dup == km_fs_check_for_dups(r, n.fd) IN
    IF dup >= 0 THEN recover_dup(r, dup, n.fd)
    ELSE IF n.mode = "fifo" THEN km_fs_recover_pipe(r, n)
    ELSE reopen(r, n)

km_fs_recover_open_socket(r, n) ==
    LET dup == km_fs_check_for_dups(r, n.fd) IN
    IF dup >= 0 THEN recover_dup(r, dup, n.fd)
    ELSE IF n.how \in {"SOCKETPAIR0", "SOCKETPAIR1"} THEN km_fs_recover_socketpair(r, n)
    ELSE km_fs_recover_socket(r, n)

recover_anonymous(r, n, kind) ==
    LET f == lowest_free(r) IN
    km_fs_recover_fd(open_host(r, f, new_object(r), 0, kind), n.fd, f, n.how,
                     IF kind = "eventfd" THEN 0 ELSE NoFd)

km_fs_recover_eventfd(r, n) ==
    LET dup == km_fs_check_for_dups(r, n.fd) IN
    IF r.files[n.fd].inuse THEN Fail(r)
    ELSE IF dup >= 0 THEN recover_dup(r, dup, n.fd)
    ELSE recover_anonymous(r, n, "eventfd")

\* The epoll descriptor, then its list: each watched descriptor must be back already.
km_fs_recover_epollfd(r, n) ==
    LET dup == km_fs_check_for_dups(r, n.fd)
        watch(q, fd) == IF q.ok /\ q.files[fd].inuse
                        THEN [q EXCEPT !.watched = @ \cup {<<n.fd, fd>>}, !.files[n.fd].events = @ \cup {fd}]
                        ELSE Fail(q)
    IN IF r.files[n.fd].inuse THEN Fail(r)
       ELSE IF dup >= 0 THEN recover_dup(r, dup, n.fd)
       ELSE FoldLeft(watch, recover_anonymous(r, n, "epoll"), n.events)

\* One pass over the notes of each type, each stopping at its first failure.
km_fs_recover(notes) ==
    LET recover(r, n) ==
            IF ~r.ok THEN r
            ELSE CASE n.type = "FILE" -> km_fs_recover_open_file(r, n)
                   [] n.type = "SOCKET" -> km_fs_recover_open_socket(r, n)
                   [] n.type = "EVENTFD" -> km_fs_recover_eventfd(r, n)
                   [] n.type = "EPOLLFD" -> km_fs_recover_epollfd(r, n)
        of(type) == SelectSeq(notes, LAMBDA n : n.type = type)
    IN FoldLeft(recover,
                [ok |-> TRUE, watched |-> {}, queued |-> {}, socks |-> [fd \in Fds |-> "OPEN"],
                 host |-> [f \in HostFds |-> IF f \in KmFds THEN host[f] ELSE Closed],
                 files |-> [fd \in Fds |-> EmptySlot]],
                of("FILE") \o of("SOCKET") \o of("EVENTFD") \o of("EPOLLFD"))

-----------------------------------------------------------------------------
(* execve: one entry per descriptor, with the other end of a pair and the   *)
(* state of a socket.  An eventfd's entry is closed by the last event of    *)
(* its list, so the entry of one without events stays open, and what        *)
(* follows is read as its events.                                           *)
km_exec_save_fd ==
    LET order == SetToSortSeq(Used, LAMBDA a, b : a < b)
        entry(fd) == [fd |-> fd, how |-> guest_files[fd].how, sock |-> guest_files[fd].sock,
                      ofd |-> guest_files[fd].ofd, mode |-> host[fd].kind,
                      closed |-> guest_files[fd].how # "EVENTFD" \/ guest_files[fd].events # {}]
    IN [i \in DOMAIN order |-> entry(order[i])]

restore_slot(e) ==
    [EmptySlot EXCEPT !.inuse = TRUE, !.how = e.how,
                      !.ofd = IF e.mode = "fifo" \/ e.sock # "NULL" THEN e.ofd ELSE NoFd,
                      !.sock = IF e.how \in {"SOCKETPAIR0", "SOCKETPAIR1"} THEN "CONNECT" ELSE e.sock]

km_exec_restore_fd(entries) ==
    [ok |-> \A i \in DOMAIN entries : entries[i].closed,
     files |-> [fd \in Fds |-> IF \E i \in DOMAIN entries : entries[i].fd = fd
                               THEN restore_slot(CHOOSE e \in Range(entries) : e.fd = fd)
                               ELSE EmptySlot]]

-----------------------------------------------------------------------------
Quiet == payload.careful /\ crash = "none" /\ \A t \in Threads : call[t].pc = "idle"

\* Tables whose every descriptor the recovery knows how to make again: no pipe, eventfd
\* or epoll descriptor was duplicated, files are the only descriptors taken from other
\* processes, and no epoll descriptor lists one that was closed, or an epoll
\* descriptor with a higher number than its own.  A listener that was recovered once is
\* out too: its sockinfo no longer says that it listens.
Recoverable ==
    /\ payload.dups \subseteq {"OPEN", "SOCKET", "RECVMSG"}
    /\ \A fd \in Used : host[fd].kind # "listener"
    /\ \A fd \in Used : guest_files[fd].events \subseteq
           {f \in Used : f < fd \/ guest_files[f].how # "EPOLLFD"}

SamePair(h1, h2, fd, fd2) ==
    /\ (h1[fd] = h1[fd2]) <=> (h2[fd] = h2[fd2])
    /\ (h1[fd].obj = h1[fd2].obj) <=> (h2[fd].obj = h2[fd2].obj)

\* A snapshot taken of such a table can be recovered, and gives back the table: the
\* same descriptors, of the same kinds, duplicates of one another where they were, each
\* pipe end connected to its other end, bound and listening sockets bound and listening,
\* connected ones failed, each epoll descriptor watching what it watched, and the data
\* queued in pipes and socket pairs where it was.
RecoverySame ==
    Quiet /\ Recoverable /\ km_fs_core_notes_write.ok =>
        LET r == km_fs_recover(km_fs_core_notes_write.notes) IN
        /\ r.ok
        /\ {fd \in Fds : r.files[fd].inuse} = Used
        /\ \A fd \in Fds : (r.host[fd] # Closed) <=> fd \in Used
        /\ \A fd \in Used :
             /\ r.host[fd].kind = host[fd].kind
             /\ host[fd].kind = "fifo" => r.host[fd].end = host[fd].end
             /\ guest_files[fd].ofd # NoFd => r.files[fd].ofd = guest_files[fd].ofd
             /\ guest_files[fd].sock \in {"BIND", "LISTEN"} => r.socks[fd] = guest_files[fd].sock
             /\ r.files[fd].error <=> guest_files[fd].sock \in {"ACCEPT", "CONNECT"}
             /\ (r.host[fd] \in r.queued) <=> has_data(guest_files[fd].how)
             /\ \A fd2 \in Used : SamePair(host, r.host, fd, fd2)
        /\ r.watched = {<<fd, fd2>> \in Used \X Used : fd2 \in guest_files[fd].events}

\* A payload that goes on after a snapshot finds its pipes and socket pairs as they were,
\* connected to the same ends.
LiveSnapshotKeeps ==
    Quiet /\ Recoverable => \A fd, fd2 \in Used : SamePair(host, km_fs_core_notes_write.host, fd, fd2)

\* The KM that execve starts finds the descriptors that were open, each made the same
\* way, with its other end and the state of its socket, when none is an eventfd.
ExecSame ==
    Quiet /\ (\A fd \in Used : guest_files[fd].how # "EVENTFD") =>
        LET r == km_exec_restore_fd(km_exec_save_fd) IN
        /\ r.ok
        /\ {fd \in Fds : r.files[fd].inuse} = Used
        /\ \A fd \in Used : /\ r.files[fd].how = guest_files[fd].how
                            /\ r.files[fd].ofd = guest_files[fd].ofd
                            /\ (r.files[fd].sock = "LISTEN") <=> (guest_files[fd].sock = "LISTEN")

\* The table survives a snapshot, in the KM that goes on and in the one that restores
\* it, and an execve.
TableSurvives == RecoverySame /\ LiveSnapshotKeeps /\ ExecSame
=============================================================================
