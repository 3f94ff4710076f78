------------------------------ MODULE FdCalls ------------------------------
(***************************************************************************)
(* The calls that use descriptors and names without changing the table:    *)
(* which host descriptors each one hands to the host, and which answer it  *)
(* gives without asking the host.  An operator gives a record: answer is   *)
(* "host" when the host's call is made, with the descriptors it names, or  *)
(* KM's own answer.  The payload may pass any number.                      *)
(***************************************************************************)
EXTENDS FdSnapshot

Answer(why) == [answer |-> why, names |-> {}]
AskHost(fds) == [answer |-> "host", names |-> fds]

-----------------------------------------------------------------------------
(* One descriptor. *)
checked(fd) ==
    IF km_fs_g2h_fd(fd) = NoFd THEN Answer("EBADF")
    ELSE IF km_guestfd_error(fd) THEN Answer("failed")
    ELSE AskHost({fd})

km_fs_flock(fd) == checked(fd)
km_fs_shutdown(fd) == checked(fd)
km_fs_ioctl(fd) == checked(fd)
km_fs_fstat(fd) == checked(fd)
km_fs_fstatfs(fd) == checked(fd)
km_fs_fchmod(fd) == checked(fd)
km_fs_ftruncate(fd) == checked(fd)
km_fs_fsync(fd) == checked(fd)
km_fs_fdatasync(fd) == checked(fd)
km_fs_getsockopt(fd) == checked(fd)
km_fs_setsockopt(fd) == checked(fd)
km_fs_sendrecvmmsg(fd) == checked(fd)
km_fs_get_sock_peer_name(fd) == checked(fd)
km_fs_sendto(fd) == checked(fd)
km_fs_recvfrom(fd) == checked(fd)
\* fchown does not look at the error of a recovered socket.
km_fs_fchown(fd) == IF km_fs_g2h_fd(fd) = NoFd THEN Answer("EBADF") ELSE AskHost({fd})

(* ops are the operations that KM replaces for the files below /proc.       *)
refused(fd, ops, which) ==
    IF checked(fd).answer = "host" /\ which \in ops THEN Answer("EINVAL") ELSE checked(fd)

\* A replaced read asks the host for the same descriptor; pread only from the start.
km_fs_prw(fd, ops, at_start) == IF at_start THEN checked(fd) ELSE refused(fd, ops, "read")
km_fs_prwv(fd, ops) == refused(fd, ops, "read")
km_fs_lseek(fd, ops, rewind) == IF rewind THEN checked(fd) ELSE refused(fd, ops, "read")
km_fs_getdents(fd) == checked(fd)
km_fs_getdents64(fd) == checked(fd)
km_fs_fchdir(fd, ops) == IF checked(fd).answer = "host" /\ ops # {} THEN Answer("EINVAL") ELSE checked(fd)

OneFdCalls(fd, ops, yes) ==
    {km_fs_flock(fd), km_fs_shutdown(fd), km_fs_ioctl(fd), km_fs_fstat(fd), km_fs_fstatfs(fd),
     km_fs_fchmod(fd), km_fs_ftruncate(fd), km_fs_fsync(fd), km_fs_fdatasync(fd),
     km_fs_getsockopt(fd), km_fs_setsockopt(fd), km_fs_sendrecvmmsg(fd),
     km_fs_get_sock_peer_name(fd), km_fs_sendto(fd), km_fs_recvfrom(fd),
     km_fs_prw(fd, ops, yes), km_fs_prwv(fd, ops), km_fs_lseek(fd, ops, yes),
     km_fs_getdents(fd), km_fs_getdents64(fd), km_fs_fchdir(fd, ops)}

-----------------------------------------------------------------------------
(* Two descriptors, or many. *)

km_fs_sendfile(out_fd, in_fd, ops) ==
    IF checked(out_fd).answer # "host" THEN checked(out_fd)
    ELSE IF refused(in_fd, ops, "read").answer # "host" THEN refused(in_fd, ops, "read")
    ELSE AskHost({out_fd, in_fd})

\* Mutant: the second descriptor is not looked up.
km_fs_copy_file_rangeMutant(fd_in, fd_out, ops) ==
    IF checked(fd_out).answer # "host" THEN checked(fd_out) ELSE AskHost({fd_out, fd_in})

\* The second look at the error is at fd_out's again.
km_fs_copy_file_range(fd_in, fd_out, ops) ==
    IF checked(fd_out).answer # "host" THEN checked(fd_out)
    ELSE IF km_fs_g2h_fd(fd_in) = NoFd THEN Answer("EBADF")
    ELSE IF "read" \in ops THEN Answer("EINVAL")
    ELSE AskHost({fd_out, fd_in})

\* A descriptor to be sent that is not the payload's is sent as -1, which the host refuses.
km_fs_sendmsg(sockfd, rights) ==
    IF checked(sockfd).answer # "host" THEN checked(sockfd)
    ELSE AskHost({sockfd} \cup ({km_fs_g2h_fd(fd) : fd \in rights} \ {NoFd}))

\* The first descriptor of the list that settles the call; asks tells the entries that
\* ask for errors or for no events, ready what KM knows of a waiting connection: it
\* looks at the entry of the listeners' table with the number of the list's entry.
poll_ready(i, fd) == /\ fd \in {listening[j].listen_fd : j \in DOMAIN listening}
                     /\ i \in DOMAIN listening /\ listening[i].accept_fd # NoFd
poll_settles(fds, asks, i) ==
    \/ km_fs_g2h_fd(fds[i]) = NoFd
    \/ asks[i] /\ km_guestfd_error(fds[i])
    \/ poll_ready(i, fds[i])

km_fs_poll(fds, asks) ==
    LET settled == {i \in DOMAIN fds : poll_settles(fds, asks, i)} IN
    IF settled = {} THEN AskHost(Range(fds))
    ELSE IF km_fs_g2h_fd(fds[lowest(settled)]) = NoFd THEN Answer("EBADF") ELSE Answer("ready")

km_fs_ppoll(fds, asks) == km_fs_poll(fds, asks)

\* A failed socket in a set is reported at once; so is a listener with a connection.  The
\* sets go to the host as they are.
km_fs_select_error(fds) == \E fd \in fds \cap Fds : guest_files[fd].inuse /\ guest_files[fd].error

select_waiting(readfds) ==
    \E i \in DOMAIN listening : listening[i].listen_fd \in readfds /\ listening[i].accept_fd # NoFd

km_fs_pselect6(readfds, others) ==
    IF km_fs_select_error(readfds \cup others) THEN Answer("ready")
    ELSE IF select_waiting(readfds) THEN Answer("ready")
    ELSE AskHost(readfds \cup others)

\* events is the list of the epoll descriptor.
km_fs_epoll_pwait(epfd, events) ==
    IF km_fs_g2h_fd(epfd) = NoFd THEN Answer("EBADF")
    ELSE IF select_waiting(events) THEN Answer("ready")
    ELSE AskHost({epfd})

-----------------------------------------------------------------------------
(* Names: an ordinary one, or one KM watches for below /proc.               *)
Names == [what : {"plain", "exe", "fd_dir", "sched", "auxv", "cmdline"}, n : {NoFd}]
             \cup [what : {"fd"}, n : HostFds]

\* proc_self_fd_name hides KM's numbers; proc_self_exe_name gives the payload's file, cut
\* to the buffer: an operation that passes no buffer sees no match.
km_fs_g2h_filename(name, buffer) ==
    CASE name.what = "fd" /\ name.n \notin Fds -> [match |-> "ENOENT", host |-> name]
      [] name.what = "exe" /\ buffer -> [match |-> "new", host |-> [what |-> "plain", n |-> NoFd]]
      [] name.what \in {"fd_dir", "sched", "auxv", "cmdline"} -> [match |-> "new", host |-> name]
      [] OTHER -> [match |-> "none", host |-> name]

name_to_host(name) == IF name.what = "fd" THEN {name.n} ELSE {}

\* open, truncate, mkdir, rmdir, unlink, mknod, chown, lchown, chmod, stat, lstat, access.
named(name) ==
    LET g == km_fs_g2h_filename(name, TRUE) IN
    IF g.match = "ENOENT" THEN Answer("ENOENT") ELSE AskHost(name_to_host(g.host))

km_fs_mkdir(name) == named(name)
km_fs_mknod(name) == named(name)
km_fs_stat(name) == named(name)
km_fs_access(name) == named(name)
km_fs_truncate(name) == named(name)
km_fs_chmod(name) == named(name)

\* symlink, link and chdir want names that KM does not watch for.
unwatched(name) ==
    IF km_fs_g2h_filename(name, FALSE).match = "none" THEN AskHost(name_to_host(name)) ELSE Answer("EINVAL")

km_fs_symlink(name) == unwatched(name)
km_fs_link(name) == unwatched(name)
km_fs_chdir(name) == unwatched(name)

km_fs_rename(name) ==
    IF km_fs_g2h_filename(name, FALSE).match = "ENOENT" THEN Answer("ENOENT") ELSE AskHost(name_to_host(name))

\* The directory of a relative name, which must not be one of the watched ones.
km_fs_at(dirfd, relative, ops) ==
    IF relative /\ km_fs_g2h_fd(dirfd) = NoFd THEN Answer("EBADF")
    ELSE IF relative /\ "getdents" \in ops THEN Answer("EINVAL")
    ELSE AskHost(IF relative THEN {dirfd} ELSE {})

at_named(dirfd, relative, ops, name) ==
    LET d == km_fs_at(dirfd, relative, ops) IN
    IF d.answer # "host" THEN d
    ELSE IF named(name).answer # "host" THEN named(name)
    ELSE AskHost(d.names \cup named(name).names)

km_fs_openat(dirfd, relative, ops, name) == at_named(dirfd, relative, ops, name)
km_fs_unlinkat(dirfd, relative, ops, name) == at_named(dirfd, relative, ops, name)
km_fs_statx(dirfd, relative, ops, name) == at_named(dirfd, relative, ops, name)
km_fs_faccessat(dirfd, relative, ops, name) == at_named(dirfd, relative, ops, name)

\* A link of the watched table, or the host's: one that leads to KM's own file is
\* answered with the payload's.
km_fs_g2h_readlink(name) ==
    CASE name.what = "fd" -> IF name.n \in Fds THEN "host" ELSE "ENOENT"
      [] name.what = "exe" -> "payload"
      [] name.what = "plain" -> "host"
      [] OTHER -> "ENOENT"

km_fs_readlink(name, leads_to_km) ==
    LET g == km_fs_g2h_readlink(name) IN
    IF g = "host" THEN (IF leads_to_km THEN Answer("payload") ELSE AskHost(name_to_host(name))) ELSE Answer(g)

-----------------------------------------------------------------------------
(* The list that a directory of descriptors gives the payload: it ends      *)
(* before the first entry of KM's.                                          *)
proc_self_getdents(entries) ==
    LET kms == {i \in DOMAIN entries : entries[i] \notin Fds}
    IN IF kms = {} THEN entries ELSE SubSeq(entries, 1, lowest(kms) - 1)

-----------------------------------------------------------------------------
Args == HostFds \cup {NoFd}
TwoArgs == {<<a, b>> : a \in Args, b \in Args}
OpsSets == {{}, {"read"}, {"getdents"}}
OpenFds == SetToSortSeq({f \in HostFds : host[f] # Closed}, LAMBDA a, b : a < b)

FdAnswers ==
    UNION {OneFdCalls(fd, ops, yes) \cup {km_fs_fchown(fd), km_fs_epoll_pwait(fd, {})} :
              fd \in Args, ops \in OpsSets, yes \in BOOLEAN}
    \cup UNION {{km_fs_sendfile(p[1], p[2], ops), km_fs_copy_file_range(p[1], p[2], ops),
                 km_fs_sendmsg(p[1], {p[1], p[2]}), km_fs_poll(p, <<TRUE, FALSE>>), km_fs_ppoll(p, <<FALSE, TRUE>>)} :
              p \in TwoArgs, ops \in OpsSets}

NameAnswers ==
    UNION {{km_fs_mkdir(name), km_fs_mknod(name), km_fs_stat(name), km_fs_access(name), km_fs_truncate(name),
            km_fs_chmod(name), km_fs_symlink(name), km_fs_link(name), km_fs_chdir(name), km_fs_rename(name),
            km_fs_readlink(name, TRUE), km_fs_readlink(name, FALSE)} : name \in Names}
    \cup UNION {{km_fs_openat(a, b, ops, name), km_fs_unlinkat(a, b, ops, name), km_fs_statx(a, b, ops, name),
                 km_fs_faccessat(a, b, ops, name)} :
              a \in Args, b \in BOOLEAN, ops \in OpsSets, name \in Names}

\* Whatever numbers and names the payload passes, the host is asked about none of KM's own
\* descriptors, and only about descriptors of the payload where it passes numbers; a list
\* of the open descriptors shows none of KM's.  select is left out: its sets go to the
\* host as they are.
PayloadFdsOnly ==
    Quiet => /\ \A a \in FdAnswers : a.names \subseteq Used
             /\ \A a \in NameAnswers : a.names \cap KmFds = {}
             /\ Range(proc_self_getdents(OpenFds)) \cap KmFds = {}

\* A call on a socket that did not survive a snapshot answers with its error, except
\* fchown, the input of copy_file_range, epoll_ctl and poll for other events.
FailedAnswers ==
    \A fd \in Used : guest_files[fd].error =>
        /\ \A ops \in OpsSets, yes \in BOOLEAN : \A a \in OneFdCalls(fd, ops, yes) : a.answer = "failed"
        /\ \A fd2 \in Used : km_fs_sendfile(fd, fd2, {}).answer = "failed"
        /\ \A fd2 \in Used : Usable(fd2) => km_fs_sendfile(fd2, fd, {}).answer = "failed"
        /\ km_fs_pselect6({fd}, {}).answer = "ready" /\ km_fs_poll(<<fd>>, <<TRUE>>).answer = "ready"

\* The connection KM has accepted for a listener shows in select and epoll_pwait on that
\* listener, until an accept takes it: the host does not show it any more.
WaitingSeen ==
    Quiet => \A i \in DOMAIN listening : listening[i].accept_fd # NoFd =>
        /\ km_fs_pselect6({listening[i].listen_fd}, {}).answer = "ready"
        /\ \A epfd \in Used : km_fs_epoll_pwait(epfd, {listening[i].listen_fd}).answer = "ready"

\* The calls that only use the table stay inside it: they reach no descriptor of KM's,
\* and answer for what the host does not know, failed sockets and accepted connections.
CallsContained == PayloadFdsOnly /\ FailedAnswers /\ WaitingSeen
=============================================================================
