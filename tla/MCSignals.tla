----------------------------- MODULE MCSignals -----------------------------
EXTENDS Signals

CONSTANTS v1, v2

ASSUME TwoVcpus == Vcpus = {v1, v2}

\* Two threads wait, send each other signals and change masks and actions, and
\* signals come from outside.
WaitAndHandle ==
    [t \in Threads |->
        CASE t = VM -> {"kill"}
          [] t = v1 -> {"sigsuspend", "sigtimedwait", "epoll", "sigaction"}
          [] t = v2 -> {"sigtimedwait", "tkill", "fault", "sigprocmask", "pselect"}]

\* One thread that uses rt_sigsuspend, with signals from outside.
Suspend == [t \in Threads |-> IF t = VM THEN {"kill"} ELSE {"sigsuspend", "sigprocmask"}]

\* The realtime signal's handler may become a one-shot one.
OneShot == [s \in Signals |->
               IF s < SIGRTMIN THEN {}
               ELSE {[handler |-> "handler", sa_mask |-> perror_signals, resethand |-> TRUE]}]
=============================================================================
