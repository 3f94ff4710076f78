----------------------------- MODULE MCFdTable -----------------------------
EXTENDS FdCalls, IoContext
CONSTANTS t1, t2

Symmetry == Permutations(Threads)

Payload(calls, hows) ==
    [calls |-> calls, dups |-> hows, timeout |-> 0, recovered |-> {}, listeners |-> <<>>,
     internal |-> FALSE, careful |-> TRUE, orderly |-> TRUE]

Workloads ==
    {Payload({"open", "dup", "dup3", "close"}, {"OPEN"}),
     [Payload({"open", "dup3"}, {"OPEN"}) EXCEPT !.internal = TRUE],
     [Payload({"pipe", "close"}, {}) EXCEPT !.internal = TRUE],
     Payload({"pipe", "dup3", "close"}, {"PIPE_0", "PIPE_1", "OPEN"}),
     Payload({"socketpair", "recvmsg", "close"}, {}),
     Payload({"timerfd", "recvmsg", "close"}, {}),
     Payload({"eventfd", "epoll", "epoll_ctl"}, {}),
     Payload({"close", "epoll", "epoll_ctl"}, {}),
     [Payload({"accept", "connect", "socket"}, {}) EXCEPT !.timeout = -1,
        !.listeners = <<1, 0>>],
     [Payload({"socket", "accept", "close"}, {}) EXCEPT !.careful = FALSE, !.listeners = <<0>>],
     [Payload({"socket", "bind", "listen", "accept", "close"}, {}) EXCEPT !.timeout = -1, !.recovered = {0}],
     [Payload({"socket", "bind", "listen", "accept", "close"}, {}) EXCEPT !.timeout = 1],
     [Payload({"io_setup", "io_destroy", "io_submit", "io_getevents", "io_cancel", "snapshot"}, {}) EXCEPT !.careful = FALSE],
     [Payload({"io_setup", "io_destroy", "io_submit", "io_getevents", "snapshot", "fork"}, {}) EXCEPT
        !.careful = FALSE, !.orderly = FALSE]}
=============================================================================
