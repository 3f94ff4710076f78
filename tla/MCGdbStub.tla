------------------------------ MODULE MCGdbStub ------------------------------
(* Small instances of GdbStub: what payloads and clients do together. *)
EXTENDS GdbStub

Scenario(n, payload, does, clients) ==
    [vcpus |-> n, payload |-> payload, client |-> does, clients |-> clients,
     waits |-> TRUE, preempted |-> FALSE]
\* KM is not told to wait for the client.
Started(s) == [s EXCEPT !.waits = FALSE]
\* A vcpu may be held up on its way into the guest.
Preempted(s) == [s EXCEPT !.preempted = TRUE]

MCScenarios == {
    Scenario(2, {"breakpoint", "signal"}, {"break", "vCont"}, 1),
    Scenario(2, {"breakpoint"}, {"break", "step", "interrupt", "detach"}, 1),
    Scenario(2, {"signal"}, {"interrupt", "drop"}, 2),
    Scenario(2, {"exit", "block"}, {"vCont", "range"}, 1),
    Scenario(1, {"exit", "clone"}, {"detach", "step"}, 2),
    Scenario(2, {"fork"}, {"interrupt", "detach"}, 1),
    Scenario(2, {"exit_group", "breakpoint"}, {"break", "interrupt", "detach", "drop"}, 1),
    Started(Scenario(1, {"exit_group", "clone"}, {"detach", "drop"}, 2)),
    Preempted(Started(Scenario(2, {"breakpoint"}, {"break", "interrupt"}, 1)))
}

\* For the interrupt that is lost behind a fork.
MCForks == {Scenario(2, {"fork"}, {"interrupt"}, 1)}
=============================================================================
