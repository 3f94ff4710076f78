---------------------------- MODULE GdbStubProofs ----------------------------
(* The gdb stub stops every vcpu before it talks to the client, does not sleep  *)
(* on an event, keeps its event queue and the threads a client holds in order,  *)
(* cleans up behind a client and sends it no stop reply it does not wait for:   *)
(* for every number of vcpus and every client and payload.                      *)
EXTENDS GdbStub, TLAPS

Fields == {"pc", "run_state", "ss", "pending", "cause", "signo", "active", "event"}

\* The fields of the records: all that the proofs need of the types.
StubShape(g) == DOMAIN g = {"attached", "session_requested", "queue", "ge", "stepping",
                            "breakpoints", "seen"}
VcpuShape(f) == DOMAIN f = Vcpus /\ \A v \in Vcpus : DOMAIN f[v] = Fields
Shape ==
    /\ StubShape(gdbstub) /\ VcpuShape(vcpu)
    /\ DOMAIN machine = {"intr", "pause_requested", "exit_group", "fork_in_progress", "listening"}

\* The vcpus f as the main thread leaves them: woken from a pause at most, with
\* events that it has taken.
Tame(f) ==
    /\ VcpuShape(f)
    /\ \A v \in Vcpus : /\ f[v].pc \in {vcpu[v].pc, "pause"}
                        /\ f[v].signo = vcpu[v].signo
                        /\ f[v].event \in {vcpu[v].event, "none"}

\* The updates that the main thread makes to the vcpus (resume, single step,
\* end of a session, removal of an event) start no vcpu and report nothing.
LEMMA TameUpdates ==
    ASSUME Shape
    PROVE  /\ Tame(vcpu) /\ Tame(Resumed) /\ Tame(Disengaged)
           /\ \A on : Tame(SetSs(on))
           /\ \A e : Tame(Deactivated(e))
<1> USE DEF Shape, VcpuShape, Fields, Tame
<1>1. Tame(vcpu)
  BY SMTT(30)
<1>2. Tame(Resumed)
  BY SMTT(30) DEF Resumed
<1>3. Tame(Disengaged)
  BY SMTT(30) DEF Disengaged
<1>4. ASSUME NEW on PROVE Tame(SetSs(on))
  BY SMTT(30) DEF SetSs
<1>5. ASSUME NEW e PROVE Tame(Deactivated(e))
  <2>1. CASE e = Ge
    BY <1>1, <2>1, SMTT(30) DEF Deactivated
  <2>2. CASE e # Ge /\ e \in Vcpus
    BY <2>2, SMTT(30) DEF Deactivated, Inactive
  <2>3. CASE e # Ge /\ e \notin Vcpus
    BY <2>3, SMTT(30) DEF Deactivated
  <2>4. QED
    BY <2>1, <2>2, <2>3, SMTT(30)
<1>6. QED
  BY <1>1, <1>2, <1>3, <1>4, <1>5, SMTT(30)

\* Detaching and an interrupt keep the fields of gdbstub.
LEMMA StubUpdates ==
    ASSUME StubShape(gdbstub)
    PROVE  StubShape(Detached) /\ \A r : StubShape(Interrupted(r))
  BY SMTT(30) DEF StubShape, Detached, Interrupted

\* What the main thread and the client do to the vcpus.
MainActs == MainStep \/ CmdContinue \/ ClientCommand \/ ClientStep

\* The main thread calls km_dofork.
Forking == ForkSelected /\ \E next, intr : km_dofork(next, intr)

\* Every step of the main thread and the client but km_dofork is tame.
LEMMA MainTame ==
    ASSUME Shape, MainActs, ~Forking
    PROVE  Shape' /\ Tame(vcpu')
<1>a. StubShape(gdbstub) /\ StubShape(Detached) /\ \A r : StubShape(Interrupted(r))
  BY StubUpdates, SMTT(30) DEF Shape
<1>b. /\ Tame(Resumed) /\ Tame(Disengaged) /\ \A on : Tame(SetSs(on))
      /\ \A e : Tame(Deactivated(e))
  BY TameUpdates, SMTT(30)
<1>c. ASSUME vcpu' = vcpu PROVE Tame(vcpu')
  BY <1>c, TameUpdates, SMTT(30)
<1>d. \A on : StubShape([gdbstub EXCEPT !.stepping = on])
  BY <1>a, SMTT(30) DEF StubShape
<1> SUFFICES StubShape(gdbstub)' /\ Tame(vcpu') /\ DOMAIN machine' = DOMAIN machine
  BY ZenonT(30) DEF Shape, Tame
<1>1. CASE AcceptIntr
  BY <1>a, <1>c, <1>1, ZenonT(30) DEF AcceptIntr, Forking
<1>2. CASE AcceptClient
  BY <1>a, <1>c, <1>2, SMTT(30) DEF AcceptClient, StubShape
<1>3. CASE AcceptStopped \/ FirstPaused
  BY <1>a, <1>c, <1>3, ZenonT(30) DEF AcceptStopped, FirstPaused
<1>4. CASE FirstClear
  BY <1>a, <1>c, <1>4, SMTT(30) DEF FirstClear, StubShape
<1>5. CASE FirstResume
  BY <1>a, <1>b, <1>5, SMTT(30) DEF FirstResume
<1>6. CASE PollWakes
  BY <1>a, <1>c, <1>6, SMTT(30) DEF PollWakes, StubShape
<1>7. CASE GotChar
  <2>1. StubShape([Detached EXCEPT !.seen = FALSE])
    BY <1>a, SMTT(30) DEF StubShape
  <2>2. QED
    BY <1>a, <1>b, <1>c, <1>7, <2>1, ZenonT(30) DEF GotChar
<1>8. CASE Drain
  BY <1>a, <1>c, <1>8, SMTT(30) DEF Drain
<1>9. CASE Select
  <2>1. \A q : StubShape([gdbstub EXCEPT !.queue = q, !.ge = 1])
    BY <1>a, SMTT(30) DEF StubShape
  <2>2. QED
    BY <1>a, <1>b, <1>c, <1>9, <2>1, ZenonT(30) DEF Select, Forking
<1>10. CASE gdb_delete_stale_events
  <2>1. /\ gdbstub' = [gdbstub EXCEPT !.queue = FreshEvents] /\ machine' = machine
        /\ DOMAIN vcpu' = Vcpus
        /\ \A v \in Vcpus : vcpu'[v] = vcpu[v] \/ vcpu'[v] = Inactive(vcpu[v])
    BY <1>10, ZenonT(30) DEF gdb_delete_stale_events
  <2>2. StubShape(gdbstub)'
    BY <1>a, <2>1, SMTT(30) DEF StubShape
  <2>3. ASSUME NEW v \in Vcpus
        PROVE  /\ DOMAIN Inactive(vcpu[v]) = Fields
               /\ Inactive(vcpu[v]).pc = vcpu[v].pc /\ Inactive(vcpu[v]).signo = vcpu[v].signo
               /\ Inactive(vcpu[v]).event = "none"
    BY SMTT(30) DEF Inactive, Shape, VcpuShape, Fields
  <2>4. \A v \in Vcpus : DOMAIN vcpu[v] = Fields
    BY SMTT(30) DEF Shape, VcpuShape
  <2>5. Tame(vcpu')
    BY <2>1, <2>3, <2>4, SMTT(30) DEF Tame, VcpuShape
  <2>6. QED
    BY <2>1, <2>2, <2>5, SMTT(30)
<1>11. CASE Resume
  BY <1>a, <1>b, <1>11, SMTT(30) DEF Resume, StubShape
<1>12. CASE CmdContinue
  BY <1>b, <1>d, <1>12, ZenonT(30) DEF CmdContinue
<1>13. CASE SetBreakpoint
  <2>1. \A b : StubShape([gdbstub EXCEPT !.breakpoints = b])
    BY <1>a, SMTT(30) DEF StubShape
  <2>2. QED
    BY <1>b, <1>13, <2>1, ZenonT(30) DEF SetBreakpoint
<1>14. CASE CmdStep
  <2>1. /\ gdbstub' = [gdbstub EXCEPT !.stepping = TRUE] /\ machine' = machine
        /\ \E v \in Live : vcpu' = [SetSs(FALSE) EXCEPT ![v].ss = TRUE]
    BY <1>14, ZenonT(30) DEF CmdStep
  <2>2. Tame(SetSs(FALSE))
    BY <1>b, ZenonT(30)
  <2>3. ASSUME NEW f, NEW v, Tame(f) PROVE Tame([f EXCEPT ![v].ss = TRUE])
    BY <2>3, SMTT(30) DEF Tame, VcpuShape, Fields
  <2>4. PICK v \in Live : vcpu' = [SetSs(FALSE) EXCEPT ![v].ss = TRUE]
    BY <2>1, ZenonT(30)
  <2>5. Tame([SetSs(FALSE) EXCEPT ![v].ss = TRUE])
    BY <2>2, <2>3, ZenonT(30)
  <2>6. QED
    BY <1>d, <2>1, <2>4, <2>5, ZenonT(30)
<1>15. CASE CmdVCont
  <2>1. CASE UNCHANGED <<gdbstub, vcpu>>
    BY <1>a, <1>c, <1>15, <2>1, ZenonT(30) DEF CmdVCont
  <2>2. ASSUME NEW act, gdbstub' = [gdbstub EXCEPT !.stepping = SteppingAfter(act)],
               vcpu' = [v \in Vcpus |->
                          IF v \notin Live THEN vcpu[v]
                          ELSE [vcpu[v] EXCEPT !.run_state = act[v],
                                               !.ss = IF act[v] = "PAUSED" THEN @
                                                      ELSE act[v] # "RUNNING"]]
        PROVE  StubShape(gdbstub)' /\ Tame(vcpu')
    <3>1. DOMAIN vcpu' = Vcpus
      BY <2>2, ZenonT(30)
    <3>2. ASSUME NEW v \in Vcpus
          PROVE  /\ DOMAIN vcpu'[v] = Fields
                 /\ vcpu'[v].pc = vcpu[v].pc /\ vcpu'[v].signo = vcpu[v].signo
                 /\ vcpu'[v].event = vcpu[v].event
      <4>1. DOMAIN vcpu[v] = Fields
        BY SMTT(30) DEF Shape, VcpuShape
      <4>2. CASE vcpu'[v] = vcpu[v]
        BY <4>1, <4>2, SMTT(30)
      <4>3. ASSUME NEW r, NEW on, vcpu'[v] = [vcpu[v] EXCEPT !.run_state = r, !.ss = on]
            PROVE  /\ DOMAIN vcpu'[v] = Fields
                   /\ vcpu'[v].pc = vcpu[v].pc /\ vcpu'[v].signo = vcpu[v].signo
                   /\ vcpu'[v].event = vcpu[v].event
        BY <4>1, <4>3, SMTT(30) DEF Fields
      <4>4. vcpu'[v] = vcpu[v] \/ \E r, on : vcpu'[v] = [vcpu[v] EXCEPT !.run_state = r, !.ss = on]
        BY <2>2, ZenonT(30)
      <4>5. QED
        BY <4>2, <4>3, <4>4, ZenonT(30)
    <3>3. Tame(vcpu')
      BY <3>1, <3>2, ZenonT(30) DEF Tame, VcpuShape
    <3>4. QED
      BY <1>d, <2>2, <3>3, ZenonT(30)
  <2>3. QED
    BY <1>15, <2>1, <2>2, ZenonT(30) DEF CmdVCont
<1>16. CASE CmdDetach
  BY <1>a, <1>b, <1>16, ZenonT(30) DEF CmdDetach
<1>17. CASE ClientStep
  BY <1>a, <1>c, <1>17, ZenonT(30) DEF ClientStep, Connect, Interrupt, Drop
<1>18. QED
  BY <1>1, <1>2, <1>3, <1>4, <1>5, <1>6, <1>7, <1>8, <1>9, <1>10, <1>11, <1>12, <1>13, <1>14,
     <1>15, <1>16, <1>17, ZenonT(30) DEF MainActs, MainStep, ClientCommand

-----------------------------------------------------------------------------
(* The vcpu threads *)

\* A vcpu on its way through km_gdb_notify has something to report.
Reports == \A v \in Vcpus : vcpu[v].pc \in {"notify", "enqueue"} =>
                               vcpu[v].signo \in {"KVMEXIT", "DOFORK", "SIG", "THREADEXIT"}

\* km_dofork resumes the parent's vcpus, or starts the child.
LEMMA DoforkShape ==
    ASSUME Shape, Reports, Forking
    PROVE  Shape' /\ Reports'
<1>0. PICK next, intr : km_dofork(next, intr)
  BY SMTT(30) DEF Forking
<1>1. PICK e \in Vcpus : e = Head(Candidates)
  BY SMTT(30) DEF Forking, ForkSelected
<1> DEFINE Fine(f) == VcpuShape(f) /\ \A v \in Vcpus : f[v].pc \in {"notify", "enqueue"} =>
                         f[v].signo \in {"KVMEXIT", "DOFORK", "SIG", "THREADEXIT"}
<1>2. ASSUME NEW f, Tame(f) PROVE Fine([f EXCEPT ![e] = Inactive(@)])
  BY <1>2, SMTT(30) DEF Tame, VcpuShape, Inactive, Fields, Reports
<1>3. Fine([Resumed EXCEPT ![e] = Inactive(@)])
  BY <1>2, TameUpdates, SMTT(30)
<1>4. Fine([v \in Vcpus |-> NewVcpu(IF v = 1 THEN "pause" ELSE "none")])
  BY SMTT(30) DEF VcpuShape, NewVcpu, Fields
<1> HIDE DEF Fine
<1>5. Fine(vcpu')
  BY <1>0, <1>1, <1>3, <1>4, ZenonT(30) DEF km_dofork
<1>6. StubShape(gdbstub')
  <2>1. /\ \A q : StubShape([gdbstub EXCEPT !.queue = q])
        /\ StubShape([gdbstub EXCEPT !.attached = FALSE, !.session_requested = FALSE,
                                     !.queue = <<>>, !.breakpoints = {}])
    BY SMTT(30) DEF Shape, StubShape
  <2>2. QED
    BY <1>0, <2>1, ZenonT(30) DEF km_dofork
<1>7. DOMAIN machine' = DOMAIN machine
  BY <1>0, ZenonT(30) DEF km_dofork
<1>8. QED
  BY <1>5, <1>6, <1>7, ZenonT(30) DEF Shape, Reports, Fine

\* What a step of a vcpu thread may do: it does not get into the guest past a
\* pause, it asks for a fork only if the payload forks, and the session it
\* requests is announced.
OrderlyVcpus ==
    \A u \in Vcpus :
       /\ vcpu'[u].pc = "guest" => vcpu[u].pc \in {"guest", "enter"} \/ ~machine.pause_requested
       /\ vcpu'[u].pc = "enter" => vcpu[u].pc = "enter" \/ scenario.preempted
       /\ vcpu'[u].signo = "DOFORK" => vcpu[u].signo = "DOFORK" \/ Forks
       /\ vcpu'[u].event = "DOFORK" => vcpu[u].event = "DOFORK" \/ vcpu[u].signo = "DOFORK"

Orderly ==
    /\ main' = main /\ scenario' = scenario
    /\ machine.pause_requested => machine'.pause_requested
    /\ machine.intr => machine'.intr
    /\ gdbstub'.session_requested => gdbstub.session_requested \/ machine'.intr
    /\ OrderlyVcpus

\* A vcpu that goes anywhere but into the guest or to km_gdb_notify.
LEMMA GotoOrderly ==
    ASSUME Shape, Reports, NEW v \in Vcpus, NEW w, Goto(v, w),
           w \notin {"guest", "enter", "notify", "enqueue"}
    PROVE  VcpuShape(vcpu') /\ Reports' /\ OrderlyVcpus
  BY SMTT(30) DEF Goto, Shape, VcpuShape, Fields, Reports, OrderlyVcpus

\* The fields of the machine that a step sets.
LEMMA MachineUpdates ==
    ASSUME Shape, NEW b
    PROVE  /\ \A m : m = [machine EXCEPT !.intr = b] =>
                 DOMAIN m = DOMAIN machine /\ m.intr = b /\ m.pause_requested = machine.pause_requested
           /\ \A l, g, m : m = [machine EXCEPT !.listening = l, !.exit_group = g, !.pause_requested = b]
                 => DOMAIN m = DOMAIN machine /\ m.intr = machine.intr /\ m.pause_requested = b
  BY ZenonT(30) DEF Shape

\* A step of a vcpu takes it only along the order of km_vcpu_run: pause, guest,
\* report to gdb, wait.
LEMMA VcpuOrderly ==
    ASSUME Shape, Reports, NEW v \in Vcpus, VcpuStep(v) \/ PayloadStep(v)
    PROVE  Shape' /\ Reports' /\ Orderly
<1> USE DEF Orderly
<1>1. CASE km_vcpu_handle_pause(v)
  BY <1>1, SMTT(30)
  DEF km_vcpu_handle_pause, MustPause, At, Goto, Shape, StubShape, VcpuShape, Fields, Reports,
      OrderlyVcpus
<1>2. CASE EnterGuest(v)
  BY <1>2, SMTT(30)
  DEF EnterGuest, At, Goto, Shape, StubShape, VcpuShape, Fields, Reports,
      OrderlyVcpus
<1>3. CASE Kicked(v)
  BY <1>3, SMTT(30)
  DEF Kicked, At, Goto, Shape, StubShape, VcpuShape, Fields, Reports,
      OrderlyVcpus
<1>4. CASE HandleDebug(v)
  BY <1>4, SMTT(30)
  DEF HandleDebug, Notify, At, Goto, Shape, StubShape, VcpuShape, Fields, Reports,
      OrderlyVcpus
<1>5. CASE HandleSignals(v)
  BY <1>5, SMTT(30)
  DEF HandleSignals, At, Shape, StubShape, VcpuShape, Fields, Reports,
      OrderlyVcpus
<1>6. CASE NotifyPause(v)
  BY <1>6, SMTT(30)
  DEF NotifyPause, At, Goto, Shape, StubShape, VcpuShape, Fields, Reports,
      OrderlyVcpus
<1>7. CASE NotifyEnqueue(v)
  <2>1. CASE UNCHANGED <<gdbstub, machine, vcpu>>
    <3>1. main' = main /\ scenario' = scenario
      BY <1>7, ZenonT(30) DEF NotifyEnqueue
    <3>2. QED
      BY <2>1, <3>1, ZenonT(30) DEF Shape, Reports, OrderlyVcpus
  <2>2. CASE ~UNCHANGED <<gdbstub, machine, vcpu>>
    <3>1. /\ At(v, "enqueue") /\ main' = main /\ scenario' = scenario
          /\ gdbstub' = [gdbstub EXCEPT !.queue = Append(@, v), !.session_requested = TRUE]
          /\ machine' = [machine EXCEPT !.intr = @ \/ ~gdbstub.session_requested]
          /\ vcpu' = [vcpu EXCEPT ![v].active = TRUE, ![v].event = vcpu[v].signo,
                                  ![v].signo = "none", ![v].pc = AfterNotify(vcpu[v].signo)]
      BY <1>7, <2>2, ZenonT(30) DEF NotifyEnqueue
    <3>2. StubShape(gdbstub')
      BY <3>1, SMTT(30) DEF Shape, StubShape
    <3>3. /\ DOMAIN machine' = DOMAIN machine
          /\ machine'.intr = (machine.intr \/ ~gdbstub.session_requested)
          /\ machine'.pause_requested = machine.pause_requested
      <4> DEFINE b == machine.intr \/ ~gdbstub.session_requested
      <4>1. machine' = [machine EXCEPT !.intr = b]
        BY <3>1, SMTT(30)
      <4> HIDE DEF b
      <4>2. /\ DOMAIN machine' = DOMAIN machine /\ machine'.intr = b
            /\ machine'.pause_requested = machine.pause_requested
        BY <4>1, MachineUpdates, ZenonT(30)
      <4>3. QED
        BY <4>2, SMTT(30) DEF b
    <3>4. AfterNotify(vcpu[v].signo) \in {"signals", "pause", "stop"}
      BY <3>1, SMTT(30) DEF At, Reports, AfterNotify
    <3>5. VcpuShape(vcpu') /\ Reports' /\ OrderlyVcpus
      BY <3>1, <3>4, SMTT(30) DEF Shape, VcpuShape, Fields, Reports, OrderlyVcpus
    <3>6. QED
      BY <3>1, <3>2, <3>3, <3>5, ZenonT(30) DEF Shape
  <2>3. QED
    BY <2>1, <2>2, SMTT(30)
<1>8. CASE Unblocked(v)
  BY <1>8, SMTT(30)
  DEF Unblocked, At, Goto, Shape, StubShape, VcpuShape, Fields, Reports,
      OrderlyVcpus
<1>9. CASE HcStop(v)
  BY <1>9, SMTT(30)
  DEF HcStop, Notify, At, Goto, Shape, StubShape, VcpuShape, Fields, Reports,
      OrderlyVcpus
<1>10. CASE VcpuStopped(v)
  <2>1. VcpuShape(vcpu') /\ Reports' /\ OrderlyVcpus
    BY <1>10, GotoOrderly, SMTT(30) DEF VcpuStopped
  <2>2. QED
    BY <1>10, <2>1, MachineUpdates, ZenonT(30) DEF VcpuStopped, Shape
<1>11. CASE Clone(v)
  <2>1. CASE Goto(v, "signals")
    BY <1>11, <2>1, GotoOrderly, ZenonT(30) DEF Clone, Shape
  <2>2. ASSUME NEW u \in Vcpus, NEW on,
               vcpu' = [vcpu EXCEPT ![v].pc = "signals",
                                    ![u] = [NewVcpu("pause") EXCEPT !.event = vcpu[u].event, !.ss = on]]
        PROVE  VcpuShape(vcpu') /\ Reports' /\ OrderlyVcpus
    BY <2>2, SMTT(30) DEF NewVcpu, Shape, VcpuShape, Fields, Reports, OrderlyVcpus
  <2>3. CASE ~Goto(v, "signals")
    <3>1. \E u \in Vcpus : \E on :
             vcpu' = [vcpu EXCEPT ![v].pc = "signals",
                                  ![u] = [NewVcpu("pause") EXCEPT !.event = vcpu[u].event, !.ss = on]]
      BY <1>11, <2>3, ZenonT(30) DEF Clone
    <3>2. QED
      BY <1>11, <2>2, <3>1, ZenonT(30) DEF Clone, Shape
  <2>4. QED
    BY <2>1, <2>3, SMTT(30)
<1>12. CASE StartFork(v)
  BY <1>12, SMTT(30)
  DEF StartFork, Notify, At, Payload, Forks, Shape, StubShape, VcpuShape, Fields, Reports,
      OrderlyVcpus
<1>13. CASE ExitGroup(v)
  <2>1. VcpuShape(vcpu') /\ Reports' /\ OrderlyVcpus
    BY <1>13, GotoOrderly, SMTT(30) DEF ExitGroup
  <2>2. QED
    BY <1>13, <2>1, MachineUpdates, ZenonT(30) DEF ExitGroup, Shape
<1>14. CASE ExitAllPaused(v)
  <2>1. VcpuShape(vcpu') /\ Reports' /\ OrderlyVcpus
    BY <1>14, GotoOrderly, SMTT(30) DEF ExitAllPaused
  <2>2. QED
    BY <1>14, <2>1, MachineUpdates, ZenonT(30) DEF ExitAllPaused, Shape
<1>15. CASE DebugExit(v)
  BY <1>15, SMTT(30)
  DEF DebugExit, At, Shape, StubShape, VcpuShape, Fields, Reports,
      OrderlyVcpus
<1>16. CASE Hypercall(v)
  BY <1>16, SMTT(30)
  DEF Hypercall, At, Goto, Shape, StubShape, VcpuShape, Fields, Reports,
      OrderlyVcpus
<1>17. CASE PostSignal(v)
  BY <1>17, SMTT(30)
  DEF PostSignal, Shape, StubShape, VcpuShape, Fields, Reports,
      OrderlyVcpus
<1>18. QED
  BY <1>1, <1>2, <1>3, <1>4, <1>5, <1>6, <1>7, <1>8, <1>9, <1>10, <1>11, <1>12, <1>13, <1>14,
     <1>15, <1>16, <1>17, ZenonT(30)
  DEF VcpuStep, PayloadStep

-----------------------------------------------------------------------------
(* The theorems *)

\* A command of the client leaves the dialogue as it is, or ends it.
LEMMA Commands ==
    ASSUME CmdContinue \/ ClientCommand
    PROVE  /\ main \in {"first", "talk"} /\ main' \in {main, "first_clear", "stale"}
           /\ UNCHANGED <<scenario, machine>>
<1> USE DEF EndTalk, TakesPacket, Talking
<1>1. CASE CmdContinue
  BY <1>1, ZenonT(30) DEF CmdContinue
<1>2. CASE SetBreakpoint
  BY <1>2, ZenonT(30) DEF SetBreakpoint
<1>3. CASE CmdStep
  BY <1>3, ZenonT(30) DEF CmdStep
<1>4. CASE CmdVCont
  BY <1>4, ZenonT(30) DEF CmdVCont
<1>5. CASE CmdDetach
  BY <1>5, ZenonT(30) DEF CmdDetach
<1>6. QED
  BY <1>1, <1>2, <1>3, <1>4, <1>5, SMTT(30) DEF ClientCommand

\* The main thread does not get out of a session, or to a dialogue, by any
\* other way than the ones that resume the vcpus or wait for them.
LEMMA MainHolds ==
    ASSUME Shape, MainActs, ~Forking
    PROVE  /\ scenario' = scenario
           /\ main' \in Asked => \/ machine'.pause_requested
                                 \/ main \in Asked /\ machine'.pause_requested = machine.pause_requested
           /\ main' \in Held => main \in Held \/ NobodyInGuest
<1> USE DEF Asked, Held, MainPcs, MainAt
<1>m. /\ "pause_requested" \in DOMAIN machine /\ "intr" \in DOMAIN machine
  BY SMTT(30) DEF Shape
<1>1. CASE AcceptIntr
  BY <1>1, ZenonT(30) DEF AcceptIntr, Forking
<1>2. CASE AcceptClient
  BY <1>m, <1>2, SMTT(30) DEF AcceptClient
<1>3. CASE AcceptStopped \/ FirstPaused \/ FirstClear
  BY <1>3, SMTT(30) DEF AcceptStopped, FirstPaused, FirstClear
<1>4. CASE FirstResume \/ Resume
  BY <1>4, SMTT(30) DEF FirstResume, Resume, LoopOrAccept
<1>5. CASE PollWakes
  BY <1>m, <1>5, SMTT(30) DEF PollWakes
<1>6. CASE GotChar
  BY <1>6, SMTT(30) DEF GotChar
<1>7. CASE Drain
  BY <1>m, <1>7, SMTT(30) DEF Drain
<1>8. CASE Select
  BY <1>8, ZenonT(30) DEF Select, Forking
<1>9. CASE gdb_delete_stale_events
  BY <1>9, SMTT(30) DEF gdb_delete_stale_events
<1>10. CASE CmdContinue \/ ClientCommand
  BY <1>10, Commands, SMTT(30)
<1>11. CASE ClientStep
  BY <1>11, SMTT(30) DEF ClientStep, Connect, Interrupt, Drop
<1>12. QED
  BY <1>1, <1>2, <1>3, <1>4, <1>5, <1>6, <1>7, <1>8, <1>9, <1>10, <1>11, ZenonT(30)
  DEF MainActs, MainStep

\* The main thread that is about to poll has not cleared what wakes it.
Awake == main \in {"first_resume", "poll"} /\ gdbstub.session_requested => machine.intr

\* The main thread never reaches its poll with a session requested and its
\* wakeup cleared.
LEMMA MainAwake ==
    ASSUME Shape, Awake, MainActs
    PROVE  Awake' /\ scenario' = scenario
<1> USE DEF Awake, MainAt
<1>1. CASE AcceptIntr
  BY <1>1, ZenonT(30) DEF AcceptIntr, km_dofork
<1>2. CASE AcceptClient \/ AcceptStopped \/ FirstPaused \/ PollWakes
  BY <1>2, SMTT(30) DEF AcceptClient, AcceptStopped, FirstPaused, PollWakes
<1>3. CASE FirstClear \/ Resume
  BY <1>3, SMTT(30) DEF FirstClear, Resume, Shape, StubShape
<1>4. CASE FirstResume
  BY <1>4, SMTT(30) DEF FirstResume, LoopOrAccept, Shape
<1>5. CASE GotChar
  BY <1>5, SMTT(30) DEF GotChar
<1>6. CASE Drain
  BY <1>6, SMTT(30) DEF Drain
<1>7. CASE Select
  BY <1>7, ZenonT(30) DEF Select, km_dofork
<1>8. CASE gdb_delete_stale_events
  BY <1>8, SMTT(30) DEF gdb_delete_stale_events
<1>9. CASE CmdContinue \/ ClientCommand
  BY <1>9, Commands, SMTT(30)
<1>10. CASE ClientStep
  BY <1>10, SMTT(30) DEF ClientStep, Connect, Interrupt, Drop
<1>11. QED
  BY <1>1, <1>2, <1>3, <1>4, <1>5, <1>6, <1>7, <1>8, <1>9, <1>10, ZenonT(30)
  DEF MainActs, MainStep

IInv == Shape /\ Reports /\ StopInv /\ Awake

\* The inductive invariant holds before the first client.
LEMMA InitIInv == Init => IInv
<1> SUFFICES ASSUME Init PROVE IInv
  BY SMTT(30)
<1>1. \A v \in Vcpus : vcpu[v] = NewVcpu(IF v <= scenario.vcpus THEN "pause" ELSE "none")
  BY SMTT(30) DEF Init
<1>2. ASSUME NEW v \in Vcpus
      PROVE  /\ DOMAIN vcpu[v] = Fields /\ vcpu[v].pc \in {"pause", "none"}
             /\ vcpu[v].signo = "none" /\ vcpu[v].event = "none"
  <2>1. ASSUME NEW w, NEW r, r = NewVcpu(w)
        PROVE  DOMAIN r = Fields /\ r.pc = w /\ r.signo = "none" /\ r.event = "none"
    BY <2>1, SMTT(30) DEF NewVcpu, Fields
  <2>2. \E w \in {"pause", "none"} : vcpu[v] = NewVcpu(w)
    BY <1>1, ZenonT(30)
  <2>3. QED
    BY <2>1, <2>2, ZenonT(30)
<1>3. Shape
  <2>1. StubShape(gdbstub)
    BY SMTT(30) DEF Init, StubShape
  <2>2. VcpuShape(vcpu)
    BY <1>2, SMTT(30) DEF Init, VcpuShape
  <2>3. QED
    BY <2>1, <2>2, SMTT(30) DEF Init, Shape
<1>4. main = "accept"
  BY SMTT(30) DEF Init
<1>5. QED
  BY <1>2, <1>3, <1>4, SMTT(30) DEF IInv, Reports, StopInv, Awake, Asked, Held, MainPcs

\* Every step of the stub, the vcpus and the client keeps it.
LEMMA NextIInv == IInv /\ [Next]_vars => IInv'
<1> SUFFICES ASSUME IInv, [Next]_vars PROVE IInv'
  BY SMTT(30)
<1> USE DEF IInv
<1>1. ASSUME NEW v \in Vcpus, VcpuStep(v) \/ PayloadStep(v) PROVE IInv'
  <2>1. Shape' /\ Reports' /\ Orderly
    BY <1>1, VcpuOrderly, SMTT(30)
  <2>2. Forks' = Forks /\ scenario' = scenario /\ main' = main
    BY <2>1, SMTT(30) DEF Orderly, Forks
  <2>3. StopInv'
    BY <2>1, <2>2, SMTT(30) DEF StopInv, Orderly, OrderlyVcpus, Asked, Held, MainPcs
  <2>4. Awake'
    BY <2>1, SMTT(30) DEF Awake, Orderly
  <2>5. QED
    BY <2>1, <2>3, <2>4, SMTT(30)
<1>2. CASE MainActs
  <2>1. Awake' /\ scenario' = scenario /\ Forks' = Forks
    BY <1>2, MainAwake, SMTT(30) DEF Forks
  <2>2. CASE Forking
    <3>1. Shape' /\ Reports'
      BY <2>2, DoforkShape, SMTT(30)
    <3>2. \E v \in Vcpus : vcpu[v].event = "DOFORK"
      BY <2>2, SMTT(30) DEF Forking, ForkSelected
    <3>3. StopInv'
      BY <2>1, <3>2, ZenonT(30) DEF StopInv
    <3>4. QED
      BY <2>1, <3>1, <3>3, SMTT(30)
  <2>3. CASE ~Forking
    <3>1. Shape' /\ Tame(vcpu')
      BY <1>2, <2>3, MainTame, SMTT(30)
    <3>2. Reports'
      BY <3>1, SMTT(30) DEF Reports, Tame
    <3>3. StopInv'
      <4>1. /\ main' \in Asked => \/ machine'.pause_requested
                                  \/ main \in Asked /\ machine'.pause_requested = machine.pause_requested
            /\ main' \in Held => main \in Held \/ \A v \in Vcpus : vcpu[v].pc # "guest"
        BY <1>2, <2>3, MainHolds, SMTT(30) DEF NobodyInGuest, Live
      <4>2. QED
        BY <2>1, <3>1, <4>1, SMTT(30) DEF StopInv, Tame
    <3>4. QED
      BY <2>1, <3>1, <3>2, <3>3, SMTT(30)
  <2>4. QED
    BY <2>2, <2>3, SMTT(30)
<1>3. CASE UNCHANGED vars
  BY <1>3, SMTT(30) DEF vars, Shape, StubShape, VcpuShape, Reports, StopInv, Awake, Forks
<1>4. QED
  BY <1>1, <1>2, <1>3, ZenonT(30) DEF Next, MainActs

\* The inductive invariant holds in every reachable state of the stub.
LEMMA IInvCorrect == Spec => []IInv
  BY InitIInv, NextIInv, PTL DEF Spec

\* Once km_vcpu_pause_all has returned no vcpu executes guest code until the
\* client lets it: for every number of vcpus, breakpoint and payload, with the
\* two reservations of AllStopped.
THEOREM AllStoppedCorrect == Spec => []AllStopped
<1>1. IInv => AllStopped
  BY SMTT(30) DEF IInv, StopInv, AllStopped, Talking, NobodyInGuest, Live, Asked, Held, MainPcs
<1>2. QED
  BY <1>1, IInvCorrect, PTL

\* The event that keeps the vcpus from waking the main thread again has woken
\* it: km_gdb_main_loop never polls on a session that nobody announces.
THEOREM AnnouncedCorrect == Spec => []Announced
<1>1. IInv => Announced
  BY SMTT(30) DEF IInv, Awake, Announced, MainAt
<1>2. QED
  BY <1>1, IInvCorrect, PTL

-----------------------------------------------------------------------------
(* The session's bookkeeping: types *)

Entries == Vcpus \cup {Ge}
StubType == [attached : BOOLEAN, session_requested : BOOLEAN, queue : Seq(Entries), ge : Vcpus,
             stepping : BOOLEAN, breakpoints : SUBSET Addrs, seen : BOOLEAN]
VcpuType == [pc : Pcs, run_state : RunStates, ss : BOOLEAN, pending : BOOLEAN,
             cause : Addrs \cup {"none", "step"}, signo : Signos, active : BOOLEAN, event : Signos]
MachineType == [intr : BOOLEAN, pause_requested : BOOLEAN, exit_group : BOOLEAN,
                fork_in_progress : BOOLEAN, listening : BOOLEAN]
RemoteType == [client : {"none", "connecting", "open", "gone"}, inbox : {"none", "^C", "EOF"},
               owed : BOOLEAN]
Typed == /\ scenario \in Scenarios /\ main \in MainPcs /\ gdbstub \in StubType
         /\ machine \in MachineType /\ vcpu \in [Vcpus -> VcpuType] /\ remote \in RemoteType

\* What a walk over the event queue gives, the fact that the least of some vcpus
\* exists, and the length of a queue without repetitions; proved below.
Distinct(q) == \A i, j \in DOMAIN q : q[i] = q[j] => i = j
RemainingLaw(S, q, K) ==
    q \in Seq(S) /\ K \subseteq DOMAIN q =>
       /\ Remaining(q, K) \in Seq(S)
       /\ \A e : e \in Range(Remaining(q, K)) <=> \E i \in K : q[i] = e
       /\ Distinct(q) => Distinct(Remaining(q, K))
       /\ 1 \in K => Remaining(q, K) # <<>> /\ Remaining(q, K)[1] = q[1]
QueueLaws ==
    /\ \A S, q, K : RemainingLaw(S, q, K)
    /\ \A R \in SUBSET Vcpus : R # {} => \E v \in R : \A u \in R : v <= u
    /\ \A q \in Seq(Entries) : Distinct(q) => Len(q) <= N + 1

\* The updates of the vcpus that the main thread makes keep their type.
LEMMA TypedVcpus ==
    ASSUME Typed
    PROVE  /\ Resumed \in [Vcpus -> VcpuType] /\ Disengaged \in [Vcpus -> VcpuType]
           /\ \A on \in BOOLEAN : SetSs(on) \in [Vcpus -> VcpuType]
           /\ \A e \in Entries : Deactivated(e) \in [Vcpus -> VcpuType]
           /\ \A r \in VcpuType : Inactive(r) \in VcpuType
           /\ \A w \in Pcs : NewVcpu(w) \in VcpuType
<1>0. vcpu \in [Vcpus -> VcpuType]
  BY Zenon DEF Typed
<1>1. Resumed \in [Vcpus -> VcpuType]
  BY <1>0, ZenonT(30) DEF Resumed, VcpuType, Pcs
<1>2. Disengaged \in [Vcpus -> VcpuType]
  BY <1>0, ZenonT(30) DEF Disengaged, VcpuType, RunStates
<1>3. ASSUME NEW on \in BOOLEAN PROVE SetSs(on) \in [Vcpus -> VcpuType]
  BY <1>0, SMTT(30) DEF SetSs, VcpuType
<1>4. ASSUME NEW r \in VcpuType PROVE Inactive(r) \in VcpuType
  BY ZenonT(30) DEF Inactive, VcpuType, Signos
<1>5. ASSUME NEW e \in Entries PROVE Deactivated(e) \in [Vcpus -> VcpuType]
  BY <1>0, <1>4, SMTT(30) DEF Deactivated, Entries
<1>6. ASSUME NEW w \in Pcs PROVE NewVcpu(w) \in VcpuType
  BY SMTT(30) DEF NewVcpu, VcpuType, RunStates, Signos
<1>7. QED
  BY <1>1, <1>2, <1>3, <1>4, <1>5, <1>6, Zenon

\* So does a vcpu thread that goes on ...
LEMMA TypedGoto ==
    ASSUME Typed, NEW v \in Vcpus, NEW w \in Pcs, Goto(v, w)
    PROVE  vcpu' \in [Vcpus -> VcpuType]
  BY SMTT(30) DEF Typed, Goto, VcpuType

\* ... or goes to report an event.
LEMMA TypedNotify ==
    ASSUME Typed, NEW v \in Vcpus, NEW w \in Signos, Notify(v, w)
    PROVE  vcpu' \in [Vcpus -> VcpuType]
<1>1. vcpu[v] \in VcpuType /\ vcpu \in [Vcpus -> VcpuType] /\ "notify" \in Pcs
  BY Zenon DEF Typed, Pcs
<1>2. [vcpu[v] EXCEPT !.pc = "notify", !.signo = w] \in VcpuType
  BY <1>1, ZenonT(30) DEF VcpuType
<1>3. vcpu' = [vcpu EXCEPT ![v] = [vcpu[v] EXCEPT !.pc = "notify", !.signo = w]]
  BY <1>1, Zenon DEF Notify
<1>4. QED
  BY <1>1, <1>2, <1>3, Zenon

\* The steps of a vcpu keep the types.
LEMMA TypedVcpuStep ==
    ASSUME Typed, Reports, NEW v \in Vcpus, VcpuStep(v) \/ PayloadStep(v)
    PROVE  Typed'
<1> USE DEF Pcs
<1>a. /\ v \in Vcpus /\ gdbstub \in StubType /\ machine \in MachineType
      /\ vcpu \in [Vcpus -> VcpuType] /\ vcpu[v] \in VcpuType
  BY Zenon DEF Typed
<1>1. CASE \/ km_vcpu_handle_pause(v) \/ EnterGuest(v) \/ Kicked(v) \/ Unblocked(v) \/ Hypercall(v)
  <2>1. \E w \in Pcs : Goto(v, w)
    BY <1>1, SMTT(30) DEF km_vcpu_handle_pause, EnterGuest, Kicked, Unblocked, Hypercall
  <2>2. vcpu' \in [Vcpus -> VcpuType]
    BY <2>1, TypedGoto, Zenon
  <2>3. QED
    BY <1>1, <2>2, Zenon DEF Typed, km_vcpu_handle_pause, EnterGuest, Kicked, Unblocked, Hypercall
<1>2. CASE HandleDebug(v)
  <2>1. vcpu' \in [Vcpus -> VcpuType]
    BY <1>2, TypedGoto, TypedNotify, SMTT(30) DEF HandleDebug, Signos
  <2>3. QED
    BY <1>2, <2>1, Zenon DEF Typed, HandleDebug
<1>3. CASE HandleSignals(v)
  <2>1. vcpu' \in [Vcpus -> VcpuType]
    BY <1>a, <1>3, ZenonT(30) DEF HandleSignals, Signos, VcpuType
  <2>3. QED
    BY <1>3, <2>1, Zenon DEF Typed, HandleSignals
<1>4. CASE NotifyPause(v)
  <2>1. vcpu' \in [Vcpus -> VcpuType]
    BY <1>4, TypedGoto, SMTT(30) DEF NotifyPause
  <2>2. machine' \in MachineType
    BY <1>a, <1>4, ZenonT(30) DEF NotifyPause, MachineType
  <2>3. QED
    BY <1>4, <2>1, <2>2, Zenon DEF Typed, NotifyPause
<1>5. CASE NotifyEnqueue(v)
  <2>1. CASE UNCHANGED <<gdbstub, machine, vcpu>>
    BY <1>5, <2>1, Zenon DEF Typed, NotifyEnqueue
  <2>2. CASE ~UNCHANGED <<gdbstub, machine, vcpu>>
    <3>1. /\ At(v, "enqueue") /\ UNCHANGED <<main, scenario, remote>>
          /\ gdbstub' = [gdbstub EXCEPT !.queue = Append(@, v), !.session_requested = TRUE]
          /\ machine' = [machine EXCEPT !.intr = @ \/ ~gdbstub.session_requested]
          /\ vcpu' = [vcpu EXCEPT ![v].active = TRUE, ![v].event = vcpu[v].signo,
                                  ![v].signo = "none", ![v].pc = AfterNotify(vcpu[v].signo)]
      BY <1>5, <2>2, ZenonT(30) DEF NotifyEnqueue
    <3>2. gdbstub' \in StubType
      <4>1. gdbstub.queue \in Seq(Entries) /\ v \in Entries
        BY <1>a, SMTT(30) DEF StubType, Entries
      <4>2. Append(gdbstub.queue, v) \in Seq(Entries)
        BY <4>1, SMTT(30)
      <4>3. QED
        BY <1>a, <3>1, <4>2, ZenonT(30) DEF StubType
    <3>3. machine' \in MachineType
      BY <1>a, <3>1, ZenonT(30) DEF MachineType
    <3>4. AfterNotify(vcpu[v].signo) \in {"signals", "pause", "stop"}
      BY <3>1, SMTT(30) DEF At, Reports, AfterNotify
    <3>5. vcpu' \in [Vcpus -> VcpuType]
      BY <1>a, <3>1, <3>4, ZenonT(30) DEF VcpuType, Signos
    <3>6. QED
      BY <3>1, <3>2, <3>3, <3>5, Zenon DEF Typed
  <2>3. QED
    BY <2>1, <2>2, Zenon
<1>6. CASE HcStop(v)
  <2>1. vcpu' \in [Vcpus -> VcpuType]
    BY <1>6, TypedGoto, TypedNotify, SMTT(30) DEF HcStop, Signos
  <2>2. QED
    BY <1>6, <2>1, Zenon DEF Typed, HcStop
<1>7. CASE VcpuStopped(v) \/ ExitAllPaused(v)
  <2>1. vcpu' \in [Vcpus -> VcpuType]
    BY <1>7, TypedGoto, SMTT(30) DEF VcpuStopped, ExitAllPaused
  <2>2. machine' \in MachineType
    BY <1>a, <1>7, SMTT(30) DEF VcpuStopped, ExitAllPaused, MachineType, StubType
  <2>3. QED
    BY <1>7, <2>1, <2>2, Zenon DEF Typed, VcpuStopped, ExitAllPaused
<1>8. CASE Clone(v)
  <2>1. CASE Goto(v, "signals")
    BY <1>8, <2>1, TypedGoto, ZenonT(30) DEF Clone, Typed
  <2>2. ASSUME NEW u \in Vcpus, NEW on \in BOOLEAN,
               vcpu' = [vcpu EXCEPT ![v].pc = "signals",
                                    ![u] = [NewVcpu("pause") EXCEPT !.event = vcpu[u].event, !.ss = on]]
        PROVE  vcpu' \in [Vcpus -> VcpuType]
    <3>1. NewVcpu("pause") \in VcpuType /\ vcpu[u] \in VcpuType
      BY TypedVcpus, <1>a, Zenon
    <3>2. [NewVcpu("pause") EXCEPT !.event = vcpu[u].event, !.ss = on] \in VcpuType
      BY <3>1, ZenonT(30) DEF VcpuType
    <3>3. QED
      BY <1>a, <2>2, <3>2, SMTT(30) DEF VcpuType
  <2>3. CASE ~Goto(v, "signals")
    <3>1. PICK u \in Vcpus :
             vcpu' = [vcpu EXCEPT ![v].pc = "signals",
                                  ![u] = [NewVcpu("pause") EXCEPT
                                            !.event = vcpu[u].event,
                                            !.ss = IF gdbstub.attached THEN gdbstub.stepping
                                                   ELSE vcpu[u].ss]]
      BY <1>8, <2>3, ZenonT(30) DEF Clone
    <3>2. (IF gdbstub.attached THEN gdbstub.stepping ELSE vcpu[u].ss) \in BOOLEAN
      BY <1>a, SMTT(30) DEF StubType, VcpuType
    <3>3. vcpu' \in [Vcpus -> VcpuType]
      BY <2>2, <3>1, <3>2, Zenon
    <3>4. QED
      BY <1>8, <3>3, ZenonT(30) DEF Clone, Typed
  <2>4. QED
    BY <2>1, <2>3, Zenon
<1>9. CASE StartFork(v)
  <2>1. vcpu' \in [Vcpus -> VcpuType]
    BY <1>9, TypedNotify, SMTT(30) DEF StartFork, Signos
  <2>2. machine' \in MachineType
    BY <1>a, <1>9, ZenonT(30) DEF StartFork, MachineType
  <2>3. QED
    BY <1>9, <2>1, <2>2, Zenon DEF Typed, StartFork
<1>10. CASE ExitGroup(v)
  <2>1. vcpu' \in [Vcpus -> VcpuType]
    BY <1>10, TypedGoto, SMTT(30) DEF ExitGroup
  <2>2. machine' \in MachineType
    BY <1>a, <1>10, ZenonT(30) DEF ExitGroup, MachineType, StubType
  <2>3. QED
    BY <1>10, <2>1, <2>2, Zenon DEF Typed, ExitGroup
<1>11. CASE DebugExit(v)
  <2>1. PICK why \in Addrs \cup {"step"} : vcpu' = [vcpu EXCEPT ![v].pc = "debug", ![v].cause = why]
    BY <1>a, <1>11, ZenonT(30) DEF DebugExit, StubType
  <2>2. vcpu' \in [Vcpus -> VcpuType]
    BY <1>a, <2>1, ZenonT(30) DEF VcpuType
  <2>3. QED
    BY <1>11, <2>2, Zenon DEF Typed, DebugExit
<1>12. CASE PostSignal(v)
  <2>1. vcpu' \in [Vcpus -> VcpuType]
    BY <1>a, <1>12, ZenonT(30) DEF PostSignal, VcpuType
  <2>2. QED
    BY <1>12, <2>1, Zenon DEF Typed, PostSignal
<1>13. QED
  BY <1>1, <1>2, <1>3, <1>4, <1>5, <1>6, <1>7, <1>8, <1>9, <1>10, <1>11, <1>12, ZenonT(30)
  DEF VcpuStep, PayloadStep

\* The updates of the stub's record that the main thread and the client make
\* keep its type.
LEMMA TypedStub ==
    ASSUME Typed
    PROVE  /\ \A b \in BOOLEAN : /\ [gdbstub EXCEPT !.attached = b] \in StubType
                                 /\ [gdbstub EXCEPT !.session_requested = b] \in StubType
                                 /\ [gdbstub EXCEPT !.seen = b] \in StubType
                                 /\ [gdbstub EXCEPT !.stepping = b] \in StubType
           /\ Detached \in StubType /\ [Detached EXCEPT !.seen = FALSE] \in StubType
           /\ \A q \in Seq(Entries) : /\ [gdbstub EXCEPT !.queue = q] \in StubType
                                      /\ \A v \in Vcpus :
                                           /\ [gdbstub EXCEPT !.queue = q, !.ge = v] \in StubType
                                           /\ [gdbstub EXCEPT !.session_requested = TRUE, !.seen = FALSE,
                                                              !.queue = q, !.ge = v] \in StubType
                                      /\ [gdbstub EXCEPT !.attached = FALSE, !.session_requested = FALSE,
                                                         !.queue = q, !.breakpoints = {}] \in StubType
           /\ \A b \in SUBSET Addrs : [gdbstub EXCEPT !.breakpoints = b] \in StubType
<1>1. gdbstub \in StubType /\ {} \in SUBSET Addrs /\ TRUE \in BOOLEAN /\ FALSE \in BOOLEAN
  BY Zenon DEF Typed
<1>2. ASSUME NEW b \in BOOLEAN
      PROVE  /\ [gdbstub EXCEPT !.attached = b] \in StubType
             /\ [gdbstub EXCEPT !.session_requested = b] \in StubType
             /\ [gdbstub EXCEPT !.seen = b] \in StubType
             /\ [gdbstub EXCEPT !.stepping = b] \in StubType
  BY <1>1, ZenonT(30) DEF StubType
<1>3. Detached \in StubType
  BY <1>1, ZenonT(30) DEF StubType, Detached
<1>4. [Detached EXCEPT !.seen = FALSE] \in StubType
  BY <1>1, <1>3, ZenonT(30) DEF StubType
<1>5. ASSUME NEW q \in Seq(Entries)
      PROVE  /\ [gdbstub EXCEPT !.queue = q] \in StubType
             /\ [gdbstub EXCEPT !.attached = FALSE, !.session_requested = FALSE,
                                !.queue = q, !.breakpoints = {}] \in StubType
  BY <1>1, ZenonT(30) DEF StubType
<1>6. ASSUME NEW q \in Seq(Entries), NEW v \in Vcpus
      PROVE  /\ [gdbstub EXCEPT !.queue = q, !.ge = v] \in StubType
             /\ [gdbstub EXCEPT !.session_requested = TRUE, !.seen = FALSE,
                                !.queue = q, !.ge = v] \in StubType
  BY <1>1, ZenonT(30) DEF StubType
<1>7. ASSUME NEW b \in SUBSET Addrs PROVE [gdbstub EXCEPT !.breakpoints = b] \in StubType
  BY <1>1, ZenonT(30) DEF StubType
<1>8. QED
  BY <1>2, <1>3, <1>4, <1>5, <1>6, <1>7, Zenon

\* The same for the machine and the client's end.
LEMMA TypedRest ==
    ASSUME Typed
    PROVE  /\ \A b \in BOOLEAN : /\ [machine EXCEPT !.intr = b] \in MachineType
                                 /\ [machine EXCEPT !.pause_requested = b] \in MachineType
           /\ \A a, b, c, d \in BOOLEAN :
                /\ [machine EXCEPT !.intr = a, !.fork_in_progress = b, !.pause_requested = c] \in MachineType
                /\ [machine EXCEPT !.intr = a, !.fork_in_progress = b, !.listening = c,
                                   !.pause_requested = d] \in MachineType
           /\ \A b \in BOOLEAN : [remote EXCEPT !.owed = b] \in RemoteType
           /\ \A i \in {"none", "^C", "EOF"} : [remote EXCEPT !.inbox = i] \in RemoteType
           /\ \A c \in {"none", "connecting", "open", "gone"} : [remote EXCEPT !.client = c] \in RemoteType
           /\ [remote EXCEPT !.inbox = "none", !.owed = TRUE] \in RemoteType
           /\ [remote EXCEPT !.client = "gone", !.inbox = "EOF"] \in RemoteType
           /\ [client |-> "none", inbox |-> "none", owed |-> FALSE] \in RemoteType
           /\ [client |-> "gone", inbox |-> "EOF", owed |-> FALSE] \in RemoteType
<1>1. machine \in MachineType /\ remote \in RemoteType
  BY Zenon DEF Typed
<1>2. ASSUME NEW b \in BOOLEAN
      PROVE  [machine EXCEPT !.intr = b] \in MachineType /\ [machine EXCEPT !.pause_requested = b] \in MachineType
  BY <1>1, ZenonT(30) DEF MachineType
<1>3. ASSUME NEW a \in BOOLEAN, NEW b \in BOOLEAN, NEW c \in BOOLEAN, NEW d \in BOOLEAN
      PROVE  /\ [machine EXCEPT !.intr = a, !.fork_in_progress = b, !.pause_requested = c] \in MachineType
             /\ [machine EXCEPT !.intr = a, !.fork_in_progress = b, !.listening = c,
                                !.pause_requested = d] \in MachineType
  BY <1>1, ZenonT(30) DEF MachineType
<1>4. /\ \A b \in BOOLEAN : [remote EXCEPT !.owed = b] \in RemoteType
      /\ \A i \in {"none", "^C", "EOF"} : [remote EXCEPT !.inbox = i] \in RemoteType
      /\ \A c \in {"none", "connecting", "open", "gone"} : [remote EXCEPT !.client = c] \in RemoteType
  BY <1>1, ZenonT(30) DEF RemoteType
<1>5. /\ [remote EXCEPT !.inbox = "none", !.owed = TRUE] \in RemoteType
      /\ [remote EXCEPT !.client = "gone", !.inbox = "EOF"] \in RemoteType
  BY <1>1, ZenonT(30) DEF RemoteType
<1>6. /\ [client |-> "none", inbox |-> "none", owed |-> FALSE] \in RemoteType
      /\ [client |-> "gone", inbox |-> "EOF", owed |-> FALSE] \in RemoteType
  BY SMTT(30) DEF RemoteType
<1>7. QED
  BY <1>2, <1>3, <1>4, <1>5, <1>6, Zenon

\* The walks over the event queue give queues.
LEMMA TypedWalks ==
    ASSUME QueueLaws, Typed
    PROVE  /\ Candidates \in Seq(Entries) /\ FreshEvents \in Seq(Entries)
           /\ \A e : Delinked(e) \in Seq(Entries)
           /\ Candidates # <<>> => /\ Head(Candidates) = Candidates[1]
                                   /\ Head(Candidates) \in Entries
                                   /\ Head(Candidates) \in Range(gdbstub.queue)
                                   /\ Stops(Head(Candidates))
           /\ gdbstub.queue \in Seq(Entries)
<1>1. gdbstub.queue \in Seq(Entries)
  BY Zenon DEF Typed, StubType
<1>2. \A K \in SUBSET Positions : /\ Remaining(gdbstub.queue, K) \in Seq(Entries)
                                  /\ \A e : e \in Range(Remaining(gdbstub.queue, K)) <=> \E i \in K : gdbstub.queue[i] = e
  BY <1>1, Zenon DEF QueueLaws, RemainingLaw, Positions
<1>3. Candidates \in Seq(Entries) /\ FreshEvents \in Seq(Entries) /\ \A e : Delinked(e) \in Seq(Entries)
  BY <1>2, ZenonT(30) DEF Candidates, FreshEvents, Delinked
<1>4. ASSUME Candidates # <<>>
      PROVE  /\ Head(Candidates) = Candidates[1] /\ Head(Candidates) \in Entries
             /\ Head(Candidates) \in Range(gdbstub.queue) /\ Stops(Head(Candidates))
  <2>1. /\ Head(Candidates) = Candidates[1] /\ Head(Candidates) \in Entries /\ 1 \in DOMAIN Candidates
    <3> HIDE DEF Candidates
    <3>1. QED
      BY <1>3, <1>4, SMTT(30)
  <2>2. Candidates[1] \in Range(Candidates)
    BY <2>1, Zenon DEF Range
  <2>3. \E i \in Positions : Stops(gdbstub.queue[i]) /\ gdbstub.queue[i] = Candidates[1]
    <3> DEFINE K == {i \in Positions : Stops(gdbstub.queue[i])}
    <3>1. K \in SUBSET Positions /\ Candidates = Remaining(gdbstub.queue, K)
      BY Zenon DEF Candidates
    <3>2. \A i \in K : i \in Positions /\ Stops(gdbstub.queue[i])
      BY Zenon
    <3> HIDE DEF K, Candidates, Stops
    <3>3. \E i \in K : gdbstub.queue[i] = Candidates[1]
      BY <1>2, <2>2, <3>1, Zenon
    <3>4. QED
      BY <3>2, <3>3, Zenon
  <2>4. QED
    BY <2>1, <2>3, Zenon DEF Range, Positions
<1>5. QED
  BY <1>1, <1>3, <1>4, Zenon

\* km_dofork keeps the types in the parent and in the child.
LEMMA TypedFork ==
    ASSUME QueueLaws, Typed, ForkSelected, NEW next \in MainPcs, NEW intr \in BOOLEAN, km_dofork(next, intr)
    PROVE  /\ gdbstub' \in StubType /\ machine' \in MachineType /\ vcpu' \in [Vcpus -> VcpuType]
           /\ remote' \in RemoteType /\ main' \in MainPcs
<1>0. PICK e \in Vcpus : e = Head(Candidates)
  BY Zenon DEF ForkSelected
<1>1. "accept" \in MainPcs /\ machine.pause_requested \in BOOLEAN /\ <<>> \in Seq(Entries)
      /\ remote \in RemoteType
  BY SMTT(30) DEF MainPcs, Typed, MachineType
<1>2. Delinked(e) \in Seq(Entries)
  BY TypedWalks, Zenon
<1>3. [Resumed EXCEPT ![e] = Inactive(@)] \in [Vcpus -> VcpuType]
  <2>1. Resumed \in [Vcpus -> VcpuType] /\ \A r \in VcpuType : Inactive(r) \in VcpuType
    BY TypedVcpus, Zenon
  <2>2. QED
    BY <2>1, ZenonT(30)
<1>4. [v \in Vcpus |-> NewVcpu(IF v = 1 THEN "pause" ELSE "none")] \in [Vcpus -> VcpuType]
  <2>1. \A w \in Pcs : NewVcpu(w) \in VcpuType
    BY TypedVcpus, Zenon
  <2>2. "pause" \in Pcs /\ "none" \in Pcs
    BY SMTT(30) DEF Pcs
  <2>3. QED
    BY <2>1, <2>2, ZenonT(30)
<1>5. CASE /\ gdbstub' = [gdbstub EXCEPT !.queue = Delinked(e)]
           /\ machine' = [machine EXCEPT !.intr = intr, !.fork_in_progress = FALSE,
                                         !.pause_requested = FALSE]
           /\ vcpu' = [Resumed EXCEPT ![e] = Inactive(@)]
           /\ main' = next /\ UNCHANGED remote
  BY <1>1, <1>2, <1>3, <1>5, TypedStub, TypedRest, ZenonT(30)
<1>6. ASSUME NEW wait \in BOOLEAN,
             gdbstub' = [gdbstub EXCEPT !.attached = FALSE, !.session_requested = FALSE,
                                        !.queue = <<>>, !.breakpoints = {}],
             machine' = [machine EXCEPT !.intr = FALSE, !.fork_in_progress = FALSE, !.listening = TRUE,
                                        !.pause_requested = @ /\ wait],
             vcpu' = [v \in Vcpus |-> NewVcpu(IF v = 1 THEN "pause" ELSE "none")],
             remote' = [client |-> "none", inbox |-> "none", owed |-> FALSE], main' = "accept"
      PROVE  /\ gdbstub' \in StubType /\ machine' \in MachineType /\ vcpu' \in [Vcpus -> VcpuType]
             /\ remote' \in RemoteType /\ main' \in MainPcs
  <2>1. (machine.pause_requested /\ wait) \in BOOLEAN
    BY <1>1, Zenon
  <2>2. machine' \in MachineType
    <3> DEFINE d == machine.pause_requested /\ wait
    <3>1. d \in BOOLEAN /\ TRUE \in BOOLEAN /\ FALSE \in BOOLEAN
      BY <2>1, Zenon
    <3>2. machine' = [machine EXCEPT !.intr = FALSE, !.fork_in_progress = FALSE, !.listening = TRUE,
                                     !.pause_requested = d]
      BY <1>6, Zenon
    <3> HIDE DEF d
    <3>3. QED
      BY <3>1, <3>2, TypedRest, Zenon
  <2>3. gdbstub' \in StubType /\ remote' \in RemoteType
    BY <1>1, <1>6, TypedStub, TypedRest, ZenonT(30)
  <2>4. QED
    BY <1>1, <1>4, <1>6, <2>2, <2>3, Zenon
<1>7. QED
  BY <1>0, <1>5, <1>6, ZenonT(30) DEF km_dofork

\* A ^C keeps the type: the least of the vcpus that run exists.
LEMMA TypedInterrupt ==
    ASSUME QueueLaws, Typed, NEW R \in SUBSET Vcpus
    PROVE  Interrupted(R) \in StubType
<1>1. CASE gdbstub.session_requested \/ R = {}
  BY <1>1, TypedStub, Zenon DEF Interrupted
<1>2. CASE ~(gdbstub.session_requested \/ R = {})
  <2> DEFINE least == CHOOSE v \in R : \A u \in R : v <= u
  <2>1. \E v \in R : \A u \in R : v <= u
    BY <1>2, Zenon DEF QueueLaws
  <2>2. least \in R
    BY <2>1, Zenon
  <2>3. least \in Vcpus
    BY <2>2, Zenon
  <2>4. <<Ge>> \o gdbstub.queue \in Seq(Entries)
    <3>1. gdbstub.queue \in Seq(Entries) /\ Ge \in Entries
      BY Zenon DEF Typed, StubType, Entries
    <3>2. QED
      BY <3>1, SMTT(30)
  <2>5. Interrupted(R) = [gdbstub EXCEPT !.session_requested = TRUE, !.seen = FALSE,
                                         !.queue = <<Ge>> \o gdbstub.queue, !.ge = least]
    BY <1>2, Zenon DEF Interrupted
  <2> HIDE DEF least
  <2>6. QED
    BY <2>3, <2>4, <2>5, TypedStub, ZenonT(30)
<1>3. QED
  BY <1>1, <1>2, Zenon

\* The steps of the main thread and the client keep the types.
LEMMA TypedMain ==
    ASSUME QueueLaws, Typed, MainActs
    PROVE  Typed'
<1>a. /\ gdbstub \in StubType /\ machine \in MachineType /\ remote \in RemoteType /\ main \in MainPcs
      /\ vcpu \in [Vcpus -> VcpuType] /\ scenario \in Scenarios /\ 1 \in Vcpus
      /\ TRUE \in BOOLEAN /\ FALSE \in BOOLEAN /\ machine.intr \in BOOLEAN
  BY GdbAssumption, SMTT(30) DEF Typed, MachineType, Vcpus
<1>p. /\ {"accept", "first_pause", "first", "first_clear", "first_resume", "poll", "wait", "drain",
          "select", "talk", "stale", "resume", "done"} \subseteq MainPcs
  BY Zenon DEF MainPcs
<1>1. CASE AcceptIntr
  <2>1. CASE ForkSelected
    BY <1>a, <1>p, <1>1, <2>1, TypedFork, ZenonT(30) DEF AcceptIntr, Typed
  <2>2. CASE ~ForkSelected
    BY <1>1, <2>2, ZenonT(30) DEF AcceptIntr, Typed
  <2>3. QED
    BY <2>1, <2>2, Zenon
<1>2. CASE AcceptClient
  BY <1>a, <1>p, <1>2, TypedStub, TypedRest, ZenonT(30) DEF AcceptClient, Typed
<1>3. CASE AcceptStopped \/ FirstPaused
  BY <1>a, <1>p, <1>3, ZenonT(30) DEF AcceptStopped, FirstPaused, Typed
<1>4. CASE FirstClear
  BY <1>a, <1>p, <1>4, TypedStub, ZenonT(30) DEF FirstClear, Typed
<1>5. CASE FirstResume \/ Resume
  <2>1. main' \in MainPcs /\ remote' \in RemoteType
    BY <1>a, <1>p, <1>5, TypedRest, ZenonT(30) DEF FirstResume, Resume, LoopOrAccept
  <2>2. QED
    BY <1>a, <1>5, <2>1, TypedStub, TypedRest, TypedVcpus, ZenonT(30) DEF FirstResume, Resume, Typed
<1>6. CASE PollWakes
  <2>1. (remote.inbox # "none") \in BOOLEAN
    BY Zenon
  <2>2. QED
    BY <1>a, <1>p, <1>6, <2>1, TypedStub, TypedRest, ZenonT(30) DEF PollWakes, Typed
<1>7. CASE GotChar
  <2>1. {v \in Live : vcpu[v].run_state # "PAUSED"} \in SUBSET Vcpus
    BY Zenon DEF Live
  <2>2. /\ Interrupted({v \in Live : vcpu[v].run_state # "PAUSED"}) \in StubType
        /\ [Detached EXCEPT !.seen = FALSE] \in StubType
        /\ Disengaged \in [Vcpus -> VcpuType]
        /\ [client |-> "none", inbox |-> "none", owed |-> FALSE] \in RemoteType
        /\ [remote EXCEPT !.inbox = "none"] \in RemoteType
    BY <2>1, TypedInterrupt, TypedStub, TypedRest, TypedVcpus, ZenonT(30)
  <2>3. QED
    BY <1>a, <1>p, <1>7, <2>2, ZenonT(30) DEF GotChar, Typed
<1>8. CASE Drain
  BY <1>a, <1>p, <1>8, TypedStub, TypedRest, ZenonT(30) DEF Drain, Typed
<1>9. CASE Select
  <2>1. CASE ForkSelected
    BY <1>a, <1>p, <1>9, <2>1, TypedFork, TypedRest, ZenonT(30) DEF Select, Typed, NothingSelected, ForkSelected
  <2>2. CASE ~ForkSelected /\ NothingSelected
    <3>1. (remote.owed /\ Candidates = <<>>) \in BOOLEAN
      BY <1>a, Zenon DEF RemoteType
    <3>2. [remote EXCEPT !.owed = @ /\ Candidates = <<>>] \in RemoteType
      <4> DEFINE b == remote.owed /\ Candidates = <<>>
      <4>1. [remote EXCEPT !.owed = @ /\ Candidates = <<>>] = [remote EXCEPT !.owed = b] /\ b \in BOOLEAN
        BY <3>1, Zenon
      <4> HIDE DEF b
      <4>2. QED
        BY <4>1, TypedRest, Zenon
    <3>3. QED
      BY <1>a, <1>p, <1>9, <2>2, <3>2, ZenonT(30) DEF Select, Typed
  <2>3. CASE ~ForkSelected /\ ~NothingSelected
    <3>1. Candidates # <<>>
      BY <2>3, Zenon DEF NothingSelected
    <3>2. /\ Head(Candidates) \in Entries /\ Delinked(Head(Candidates)) \in Seq(Entries)
      BY <3>1, TypedWalks, Zenon
    <3>3. /\ [gdbstub EXCEPT !.queue = Delinked(Head(Candidates)), !.ge = 1] \in StubType
          /\ Deactivated(Head(Candidates)) \in [Vcpus -> VcpuType]
          /\ [remote EXCEPT !.owed = FALSE] \in RemoteType
      BY <1>a, <3>2, TypedStub, TypedRest, TypedVcpus, ZenonT(30)
    <3>4. QED
      BY <1>a, <1>p, <1>9, <2>3, <3>3, ZenonT(30) DEF Select, Typed
  <2>4. QED
    BY <2>1, <2>2, <2>3, Zenon
<1>10. CASE gdb_delete_stale_events
  <2>1. \A v \in Vcpus : Inactive(vcpu[v]) \in VcpuType
    BY <1>a, TypedVcpus, Zenon
  <2>2. vcpu' \in [Vcpus -> VcpuType]
    BY <1>a, <1>10, <2>1, ZenonT(30) DEF gdb_delete_stale_events
  <2>3. gdbstub' \in StubType
    BY <1>10, TypedWalks, TypedStub, ZenonT(30) DEF gdb_delete_stale_events
  <2>4. QED
    BY <1>a, <1>p, <1>10, <2>2, <2>3, Zenon DEF gdb_delete_stale_events, Typed
<1>e. EndTalk => main' \in MainPcs
  BY <1>p, Zenon DEF EndTalk
<1>11. CASE CmdContinue
  BY <1>a, <1>e, <1>11, TypedStub, TypedRest, TypedVcpus, ZenonT(30) DEF CmdContinue, Resumes, Typed
<1>12. CASE SetBreakpoint
  <2>1. PICK a \in Addrs : gdbstub' = [gdbstub EXCEPT !.breakpoints = IF a \in @ THEN @ \ {a} ELSE @ \cup {a}]
    BY <1>12, Zenon DEF SetBreakpoint
  <2>2. (IF a \in gdbstub.breakpoints THEN gdbstub.breakpoints \ {a} ELSE gdbstub.breakpoints \cup {a}) \in SUBSET Addrs
        /\ gdbstub.stepping \in BOOLEAN
    BY <1>a, ZenonT(30) DEF StubType
  <2>3. gdbstub' \in StubType /\ SetSs(gdbstub.stepping) \in [Vcpus -> VcpuType]
    BY <2>1, <2>2, TypedStub, TypedVcpus, ZenonT(30)
  <2>4. QED
    BY <1>a, <1>12, <2>3, TypedRest, ZenonT(30) DEF SetBreakpoint, Typed
<1>13. CASE CmdStep
  <2>1. PICK v \in Live : vcpu' = [SetSs(FALSE) EXCEPT ![v].ss = TRUE]
    BY <1>13, Zenon DEF CmdStep
  <2>2. SetSs(FALSE) \in [Vcpus -> VcpuType]
    BY <1>a, TypedVcpus, Zenon
  <2>3. \A r \in VcpuType : [r EXCEPT !.ss = TRUE] \in VcpuType
    BY <1>a, ZenonT(30) DEF VcpuType
  <2>4. vcpu' \in [Vcpus -> VcpuType]
    BY <2>1, <2>2, <2>3, ZenonT(30) DEF Live
  <2>5. QED
    BY <1>a, <1>e, <1>13, <2>4, TypedStub, TypedRest, ZenonT(30) DEF CmdStep, Resumes, Typed
<1>14. CASE CmdVCont
  <2>1. CASE ~NobodyInGuest
    BY <1>14, <2>1, ZenonT(30) DEF CmdVCont, Typed
  <2>2. CASE NobodyInGuest
    <3>1. PICK act \in [Live -> {"RUNNING", "STEPPING", "PAUSED"} \cup {r \in {"RANGESTEPPING"} : Client("range")}] :
             /\ gdbstub' = [gdbstub EXCEPT !.stepping = SteppingAfter(act)]
             /\ vcpu' = [v \in Vcpus |->
                           IF v \notin Live THEN vcpu[v]
                           ELSE [vcpu[v] EXCEPT !.run_state = act[v],
                                                !.ss = IF act[v] = "PAUSED" THEN @ ELSE act[v] # "RUNNING"]]
             /\ EndTalk /\ Resumes
      BY <1>14, <2>2, ZenonT(30) DEF CmdVCont
    <3>2. SteppingAfter(act) \in BOOLEAN
      BY <1>a, ZenonT(30) DEF SteppingAfter, StubType
    <3>3. \A v \in Live : act[v] \in RunStates
      BY ZenonT(30) DEF RunStates
    <3>5. ASSUME NEW v \in Vcpus PROVE vcpu'[v] \in VcpuType
      <4>1. CASE v \notin Live
        BY <1>a, <3>1, <4>1, Zenon
      <4>2. CASE v \in Live
        <5> DEFINE F(w) == IF w \notin Live THEN vcpu[w]
                           ELSE [vcpu[w] EXCEPT !.run_state = act[w],
                                                !.ss = IF act[w] = "PAUSED" THEN @ ELSE act[w] # "RUNNING"]
                   b == IF act[v] = "PAUSED" THEN vcpu[v].ss ELSE act[v] # "RUNNING"
        <5>1. vcpu' = [w \in Vcpus |-> F(w)]
          BY <3>1, Zenon
        <5>2. F(v) = [vcpu[v] EXCEPT !.run_state = act[v], !.ss = b]
          BY <4>2, Zenon
        <5>3. vcpu[v].ss \in BOOLEAN /\ vcpu[v] \in VcpuType
          BY <1>a, Zenon DEF VcpuType
        <5>4. b \in BOOLEAN
          BY <5>3, Zenon
        <5> HIDE DEF F, b
        <5>5. vcpu'[v] = F(v)
          BY <5>1, Zenon
        <5>6. act[v] \in RunStates
          BY <3>3, <4>2, Zenon
        <5>7. [vcpu[v] EXCEPT !.run_state = act[v], !.ss = b] \in VcpuType
          BY <5>3, <5>4, <5>6, ZenonT(30) DEF VcpuType
        <5>8. QED
          BY <5>2, <5>5, <5>7, Zenon
      <4>3. QED
        BY <4>1, <4>2, Zenon
    <3>6. vcpu' \in [Vcpus -> VcpuType]
      BY <3>1, <3>5, Zenon
    <3>7. gdbstub' \in StubType /\ remote' \in RemoteType /\ main' \in MainPcs
      BY <1>e, <3>1, <3>2, TypedStub, TypedRest, Zenon DEF Resumes
    <3>8. machine' = machine /\ scenario' = scenario
      BY <1>14, Zenon DEF CmdVCont
    <3>9. QED
      BY <1>a, <3>6, <3>7, <3>8, Zenon DEF Typed
  <2>3. QED
    BY <2>1, <2>2, Zenon
<1>15. CASE CmdDetach
  BY <1>a, <1>e, <1>15, TypedStub, TypedRest, TypedVcpus, ZenonT(30) DEF CmdDetach, Typed
<1>16. CASE ClientStep
  BY <1>a, <1>16, TypedRest, ZenonT(30) DEF ClientStep, Connect, Interrupt, Drop, Typed
<1>17. QED
  BY <1>1, <1>2, <1>3, <1>4, <1>5, <1>6, <1>7, <1>8, <1>9, <1>10, <1>11, <1>12, <1>13, <1>14,
     <1>15, <1>16, ZenonT(30) DEF MainActs, MainStep, ClientCommand

-----------------------------------------------------------------------------
(* The session's bookkeeping: the vcpu threads *)

Alive(r) == r.pc \notin {"none", "parked"}

\* What a step may make of a vcpu's record: it does not run past a client that
\* holds it, it comes back to life only by clone, and it reports its end only in
\* HC_STOP.  on: a client is attached.
Steps(r, s, on) ==
    /\ s.run_state \in {r.run_state, "RUNNING"}
    /\ Alive(s) => Alive(r) \/ (s.run_state = "RUNNING" /\ Payload("clone"))
    /\ s.ss => r.ss \/ Payload("clone")
    /\ s.pc = "guest" => r.pc \in {"guest", "enter"} \/ ~on \/ s.run_state # "PAUSED"
    /\ s.pc = "stop_check" => r.pc = "stop_check" \/ Payload("exit")
    /\ s.signo = "THREADEXIT" => r.signo = "THREADEXIT" \/ r.pc = "stop_check"
    /\ s.event = "THREADEXIT" => r.event = "THREADEXIT" \/ r.signo = "THREADEXIT"

\* What a step of a vcpu does to the session: nothing but the event it queues.
Reported ==
    \/ /\ gdbstub'.queue = gdbstub.queue
       /\ \A u \in Vcpus : vcpu'[u].active = vcpu[u].active \/ (~vcpu'[u].active /\ Payload("clone"))
    \/ \E v \in Vcpus : /\ v \notin Range(gdbstub.queue)
                        /\ gdbstub'.queue = Append(gdbstub.queue, v)
                        /\ \A u \in Vcpus : vcpu'[u].active <=> vcpu[u].active \/ u = v
VcpuEffect ==
    /\ \A u \in Vcpus : Steps(vcpu[u], vcpu'[u], gdbstub.attached)
    /\ Reported
    /\ gdbstub'.attached = gdbstub.attached /\ gdbstub'.breakpoints = gdbstub.breakpoints
    /\ gdbstub'.ge = gdbstub.ge
    /\ UNCHANGED <<scenario, main, remote>>

\* A step that only moves its own vcpu.
LEMMA OwnStep ==
    ASSUME Typed, NEW v \in Vcpus, NEW r, vcpu' = [vcpu EXCEPT ![v] = r],
           Steps(vcpu[v], r, gdbstub.attached), r.active = vcpu[v].active,
           UNCHANGED <<scenario, main, gdbstub, remote>>
    PROVE  VcpuEffect
<1>1. vcpu \in [Vcpus -> VcpuType]
  BY Zenon DEF Typed
<1>2. ASSUME NEW u \in Vcpus PROVE vcpu'[u] = IF u = v THEN r ELSE vcpu[u]
  BY <1>1, Zenon
<1>3. \A u \in Vcpus : Steps(vcpu[u], vcpu[u], gdbstub.attached)
  BY Zenon DEF Steps
<1>4. \A u \in Vcpus : Steps(vcpu[u], vcpu'[u], gdbstub.attached) /\ vcpu'[u].active = vcpu[u].active
  BY <1>2, <1>3, Zenon
<1>5. QED
  BY <1>4, Zenon DEF VcpuEffect, Reported

\* The fields of a vcpu's record.
LEMMA Fielded == ASSUME NEW r \in VcpuType PROVE DOMAIN r = Fields
  BY Zenon DEF VcpuType, Fields

\* A vcpu that lives goes on, to a place it may go to.
LEMMA GotoEffect ==
    ASSUME Typed, NEW v \in Vcpus, NEW w, Goto(v, w), Alive(vcpu[v]),
           w = "guest" => vcpu[v].pc = "enter" \/ ~gdbstub.attached \/ vcpu[v].run_state # "PAUSED",
           w = "stop_check" => Payload("exit"),
           UNCHANGED <<scenario, main, gdbstub, remote>>
    PROVE  VcpuEffect
<1> DEFINE s == [vcpu[v] EXCEPT !.pc = w]
<1>1. DOMAIN vcpu[v] = Fields
  BY Fielded, Zenon DEF Typed
<1>2. s.pc = w /\ \A x \in Fields \ {"pc"} : s[x] = vcpu[v][x]
  BY <1>1, ZenonT(30) DEF Fields
<1>3. vcpu' = [vcpu EXCEPT ![v] = s]
  BY Zenon DEF Goto
<1> HIDE DEF s
<1>4. Steps(vcpu[v], s, gdbstub.attached) /\ s.active = vcpu[v].active
  BY <1>2, ZenonT(30) DEF Steps, Fields
<1>5. QED
  BY <1>3, <1>4, OwnStep, Zenon

\* It goes to km_gdb_notify; it reports its end from HC_STOP only.
LEMMA NotifyEffect ==
    ASSUME Typed, NEW v \in Vcpus, NEW g, Notify(v, g), Alive(vcpu[v]),
           g = "THREADEXIT" => vcpu[v].pc = "stop_check",
           UNCHANGED <<scenario, main, gdbstub, remote>>
    PROVE  VcpuEffect
<1> DEFINE s == [vcpu[v] EXCEPT !.pc = "notify", !.signo = g]
<1>1. DOMAIN vcpu[v] = Fields
  BY Fielded, Zenon DEF Typed
<1>2. s.pc = "notify" /\ s.signo = g /\ \A x \in Fields \ {"pc", "signo"} : s[x] = vcpu[v][x]
  BY <1>1, ZenonT(30) DEF Fields
<1>3. vcpu' = [vcpu EXCEPT ![v] = s]
  BY Zenon DEF Notify
<1> HIDE DEF s
<1>4. Steps(vcpu[v], s, gdbstub.attached) /\ s.active = vcpu[v].active
  BY <1>2, ZenonT(30) DEF Steps, Fields
<1>5. QED
  BY <1>3, <1>4, OwnStep, Zenon

\* Every step of a vcpu thread keeps to that.
LEMMA VcpuEffects ==
    ASSUME Typed, Reports, NEW v \in Vcpus, VcpuStep(v) \/ PayloadStep(v)
    PROVE  VcpuEffect
<1>a. /\ vcpu[v] \in VcpuType /\ vcpu \in [Vcpus -> VcpuType] /\ gdbstub \in StubType
      /\ DOMAIN vcpu[v] = Fields
  BY Fielded, Zenon DEF Typed
<1>1. CASE km_vcpu_handle_pause(v)
  <2>1. PICK w : Goto(v, w) /\ (w = "guest" => ~MustPause(v) /\ ~machine.exit_group) /\ w # "stop_check"
    BY <1>1, ZenonT(30) DEF km_vcpu_handle_pause
  <2>2. w = "guest" => ~gdbstub.attached \/ vcpu[v].run_state # "PAUSED"
    BY <2>1, Zenon DEF MustPause
  <2>3. Alive(vcpu[v]) /\ UNCHANGED <<scenario, main, gdbstub, remote>>
    BY <1>1, Zenon DEF km_vcpu_handle_pause, At, Alive
  <2>4. QED
    BY <2>1, <2>2, <2>3, GotoEffect, Zenon
<1>2. CASE EnterGuest(v) \/ Kicked(v) \/ Unblocked(v) \/ NotifyPause(v) \/ VcpuStopped(v)
           \/ ExitAllPaused(v) \/ ExitGroup(v)
  <2>1. /\ \/ vcpu[v].pc = "enter" /\ Goto(v, "guest")
           \/ \E w \in {"signals", "enqueue", "parked", "stop", "exit_all"} : Goto(v, w)
        /\ Alive(vcpu[v]) /\ UNCHANGED <<scenario, main, gdbstub, remote>>
    BY <1>2, ZenonT(30)
    DEF EnterGuest, Kicked, Unblocked, NotifyPause, VcpuStopped, ExitAllPaused, ExitGroup, At, Alive
  <2>2. QED
    BY <2>1, GotoEffect, ZenonT(30)
<1>3. CASE HandleDebug(v)
  <2>1. /\ Goto(v, "pause") \/ Goto(v, "signals") \/ Notify(v, "KVMEXIT")
        /\ Alive(vcpu[v]) /\ UNCHANGED <<scenario, main, gdbstub, remote>>
    BY <1>3, ZenonT(30) DEF HandleDebug, At, Alive
  <2>2. QED
    BY <2>1, GotoEffect, NotifyEffect, ZenonT(30)
<1>4. CASE HandleSignals(v)
  <2> DEFINE tell == vcpu[v].pending /\ gdbstub.attached
             g == IF tell THEN "SIG" ELSE vcpu[v].signo
             w == IF tell THEN "notify" ELSE "pause"
             s == [vcpu[v] EXCEPT !.pending = FALSE, !.signo = g, !.pc = w]
  <2>1. s.pc = w /\ s.signo = g /\ \A x \in Fields \ {"pc", "signo", "pending"} : s[x] = vcpu[v][x]
    BY <1>a, ZenonT(30) DEF Fields
  <2>2. vcpu' = [vcpu EXCEPT ![v] = s]
    BY <1>4, Zenon DEF HandleSignals
  <2>3. w \in {"notify", "pause"} /\ g \in {"SIG", vcpu[v].signo}
    BY Zenon
  <2> HIDE DEF s, w, g
  <2>4. Alive(vcpu[v]) /\ UNCHANGED <<scenario, main, gdbstub, remote>>
    BY <1>4, Zenon DEF HandleSignals, At, Alive
  <2>5. Steps(vcpu[v], s, gdbstub.attached) /\ s.active = vcpu[v].active
    BY <2>1, <2>3, <2>4, ZenonT(30) DEF Steps, Fields
  <2>6. QED
    BY <2>2, <2>4, <2>5, OwnStep, Zenon
<1>5. CASE NotifyEnqueue(v)
  <2>1. CASE UNCHANGED <<gdbstub, machine, vcpu>>
    <3>1. UNCHANGED <<scenario, main, remote>>
      BY <1>5, Zenon DEF NotifyEnqueue
    <3>2. QED
      BY <2>1, <3>1, Zenon DEF VcpuEffect, Reported, Steps
  <2>2. CASE ~UNCHANGED <<gdbstub, machine, vcpu>>
    <3>1. /\ At(v, "enqueue") /\ v \notin Range(gdbstub.queue) /\ UNCHANGED <<scenario, main, remote>>
          /\ gdbstub' = [gdbstub EXCEPT !.queue = Append(@, v), !.session_requested = TRUE]
          /\ vcpu' = [vcpu EXCEPT ![v].active = TRUE, ![v].event = vcpu[v].signo,
                                  ![v].signo = "none", ![v].pc = AfterNotify(vcpu[v].signo)]
      BY <1>5, <2>2, ZenonT(30) DEF NotifyEnqueue
    <3>2. /\ gdbstub'.queue = Append(gdbstub.queue, v) /\ gdbstub'.attached = gdbstub.attached
          /\ gdbstub'.breakpoints = gdbstub.breakpoints /\ gdbstub'.ge = gdbstub.ge
      BY <1>a, <3>1, ZenonT(30) DEF StubType
    <3>3. AfterNotify(vcpu[v].signo) \in {"signals", "pause", "stop"}
      BY <3>1, SMTT(30) DEF At, Reports, AfterNotify
    <3> DEFINE w == AfterNotify(vcpu[v].signo)
               s == [vcpu[v] EXCEPT !.active = TRUE, !.event = vcpu[v].signo, !.signo = "none", !.pc = w]
    <3>4. /\ s.pc = w /\ s.signo = "none" /\ s.active = TRUE /\ s.event = vcpu[v].signo
          /\ s.run_state = vcpu[v].run_state /\ s.ss = vcpu[v].ss
      BY <1>a, ZenonT(30) DEF VcpuType
    <3>5. \A u \in Vcpus : vcpu'[u] = IF u = v THEN s ELSE vcpu[u]
      BY <1>a, <3>1, ZenonT(30)
    <3>6. Alive(vcpu[v])
      BY <3>1, Zenon DEF At, Alive
    <3> HIDE DEF s, w
    <3>7. w \in {"signals", "pause", "stop"}
      BY <3>3, Zenon DEF w
    <3>8. Steps(vcpu[v], s, gdbstub.attached)
      BY <3>4, <3>6, <3>7, ZenonT(30) DEF Steps
    <3>9. \A u \in Vcpus : Steps(vcpu[u], vcpu[u], gdbstub.attached)
      BY Zenon DEF Steps
    <3>10. \A u \in Vcpus : Steps(vcpu[u], vcpu'[u], gdbstub.attached) /\ (vcpu'[u].active <=> vcpu[u].active \/ u = v)
      BY <3>4, <3>5, <3>8, <3>9, ZenonT(30)
    <3>11. QED
      BY <3>1, <3>2, <3>10, Zenon DEF VcpuEffect, Reported
  <2>3. QED
    BY <2>1, <2>2, Zenon
<1>6. CASE HcStop(v)
  <2>1. /\ Goto(v, "stop") \/ Notify(v, "THREADEXIT")
        /\ vcpu[v].pc = "stop_check" /\ Alive(vcpu[v]) /\ UNCHANGED <<scenario, main, gdbstub, remote>>
    BY <1>6, ZenonT(30) DEF HcStop, At, Alive
  <2>2. QED
    BY <2>1, GotoEffect, NotifyEffect, ZenonT(30)
<1>7. CASE Clone(v)
  <2>0. Alive(vcpu[v]) /\ UNCHANGED <<scenario, main, gdbstub, remote>> /\ Payload("clone")
    BY <1>7, Zenon DEF Clone, At, Alive
  <2>1. CASE Goto(v, "signals")
    BY <2>0, <2>1, GotoEffect, Zenon
  <2>2. CASE ~Goto(v, "signals")
    <3>1. \E u \in Vcpus : \E on :
             vcpu' = [vcpu EXCEPT ![v].pc = "signals",
                                  ![u] = [NewVcpu("pause") EXCEPT !.event = vcpu[u].event, !.ss = on]]
      BY <1>7, <2>2, ZenonT(30) DEF Clone
    <3>1a. PICK u \in Vcpus : \E on :
             vcpu' = [vcpu EXCEPT ![v].pc = "signals",
                                  ![u] = [NewVcpu("pause") EXCEPT !.event = vcpu[u].event, !.ss = on]]
      BY <3>1, Zenon
    <3>2. PICK on :
             vcpu' = [vcpu EXCEPT ![v].pc = "signals",
                                  ![u] = [NewVcpu("pause") EXCEPT !.event = vcpu[u].event, !.ss = on]]
      BY <3>1a, Zenon
    <3> DEFINE s == [vcpu[v] EXCEPT !.pc = "signals"]
               n == [NewVcpu("pause") EXCEPT !.event = vcpu[u].event, !.ss = on]
    <3>3. s.pc = "signals" /\ \A x \in Fields \ {"pc"} : s[x] = vcpu[v][x]
      BY <1>a, ZenonT(30) DEF Fields
    <3>4. n.pc = "pause" /\ n.run_state = "RUNNING" /\ n.signo = "none" /\ n.event = vcpu[u].event /\ n.active = FALSE
      BY SMTT(30) DEF NewVcpu
    <3>5. \A x \in Vcpus : vcpu'[x] = IF x = u THEN n ELSE IF x = v THEN s ELSE vcpu[x]
      BY <1>a, <3>2, ZenonT(30)
    <3> HIDE DEF s, n
    <3>6. Steps(vcpu[v], s, gdbstub.attached) /\ s.active = vcpu[v].active
      BY <2>0, <3>3, ZenonT(30) DEF Steps, Fields
    <3>7. Steps(vcpu[u], n, gdbstub.attached) /\ ~n.active
      BY <2>0, <3>4, ZenonT(30) DEF Steps
    <3>8. \A x \in Vcpus : Steps(vcpu[x], vcpu[x], gdbstub.attached)
      BY Zenon DEF Steps
    <3>9. \A x \in Vcpus : Steps(vcpu[x], vcpu'[x], gdbstub.attached) /\ (vcpu'[x].active = vcpu[x].active \/ ~vcpu'[x].active)
      BY <3>5, <3>6, <3>7, <3>8, ZenonT(30)
    <3>10. QED
      BY <2>0, <3>9, ZenonT(30) DEF VcpuEffect, Reported
  <2>3. QED
    BY <2>1, <2>2, Zenon
<1>8. CASE StartFork(v)
  <2>1. Notify(v, "DOFORK") /\ Alive(vcpu[v]) /\ UNCHANGED <<scenario, main, gdbstub, remote>>
    BY <1>8, Zenon DEF StartFork, At, Alive
  <2>2. QED
    BY <2>1, NotifyEffect, Zenon
<1>9. CASE DebugExit(v)
  <2>1. PICK why : vcpu' = [vcpu EXCEPT ![v].pc = "debug", ![v].cause = why]
    BY <1>9, Zenon DEF DebugExit
  <2> DEFINE s == [vcpu[v] EXCEPT !.pc = "debug", !.cause = why]
  <2>2. s.pc = "debug" /\ \A x \in Fields \ {"pc", "cause"} : s[x] = vcpu[v][x]
    BY <1>a, ZenonT(30) DEF Fields
  <2>3. vcpu' = [vcpu EXCEPT ![v] = s]
    BY <2>1, Zenon
  <2> HIDE DEF s
  <2>4. Alive(vcpu[v]) /\ UNCHANGED <<scenario, main, gdbstub, remote>>
    BY <1>9, Zenon DEF DebugExit, At, Alive
  <2>5. Steps(vcpu[v], s, gdbstub.attached) /\ s.active = vcpu[v].active
    BY <2>2, <2>4, ZenonT(30) DEF Steps, Fields
  <2>6. QED
    BY <2>3, <2>4, <2>5, OwnStep, Zenon
<1>10. CASE Hypercall(v)
  <2>1. /\ Goto(v, "blocked") \/ (Payload("exit") /\ Goto(v, "stop_check")) \/ Goto(v, "hcall")
        /\ Alive(vcpu[v]) /\ UNCHANGED <<scenario, main, gdbstub, remote>>
    BY <1>10, ZenonT(30) DEF Hypercall, At, Alive
  <2>2. QED
    BY <2>1, GotoEffect, ZenonT(30)
<1>11. CASE PostSignal(v)
  <2> DEFINE s == [vcpu[v] EXCEPT !.pending = TRUE]
  <2>1. \A x \in Fields \ {"pending"} : s[x] = vcpu[v][x]
    BY <1>a, ZenonT(30) DEF Fields
  <2>2. vcpu' = [vcpu EXCEPT ![v] = s] /\ UNCHANGED <<scenario, main, gdbstub, remote>>
    BY <1>11, Zenon DEF PostSignal
  <2> HIDE DEF s
  <2>3. Steps(vcpu[v], s, gdbstub.attached) /\ s.active = vcpu[v].active
    BY <2>1, ZenonT(30) DEF Steps, Fields, Alive
  <2>4. QED
    BY <2>2, <2>3, OwnStep, Zenon
<1>12. QED
  BY <1>1, <1>2, <1>3, <1>4, <1>5, <1>6, <1>7, <1>8, <1>9, <1>10, <1>11, ZenonT(30)
  DEF VcpuStep, PayloadStep

-----------------------------------------------------------------------------
(* The session's bookkeeping: the event queue *)

Linked(e) == e \in Range(gdbstub.queue)

\* QueueOk, and where the entry of a ^C may be: at the head of the queue, for a
\* vcpu that the client has not paused, until the main thread has selected it.
CtrlC == /\ main \in {"drain", "select", "done"} /\ gdbstub.queue[1] = Ge
         /\ vcpu[gdbstub.ge].run_state # "PAUSED"
QueueInv ==
    /\ Distinct(gdbstub.queue)
    /\ \A v \in Vcpus : /\ vcpu[v].active => Linked(v)
                        /\ Linked(v) => vcpu[v].active \/ Payload("clone")
    /\ Linked(Ge) => CtrlC

\* The queue and the marks stay as they are.
LEMMA QueueSame ==
    ASSUME QueueInv, gdbstub'.queue = gdbstub.queue, scenario' = scenario,
           \A v \in Vcpus : vcpu'[v].active = vcpu[v].active, Linked(Ge) => CtrlC'
    PROVE  QueueInv'
  BY ZenonT(30) DEF QueueInv, Linked, Payload

\* Entries are unlinked, by gdb_select_event or gdb_delete_stale_events.
LEMMA QueueUnlink ==
    ASSUME QueueLaws, Typed, QueueInv, NEW D,
           gdbstub'.queue = Remaining(gdbstub.queue, {i \in Positions : gdbstub.queue[i] \notin D}),
           scenario' = scenario, \A v \in Vcpus : vcpu'[v].active <=> vcpu[v].active /\ v \notin D,
           Linked(Ge) => Ge \in D
    PROVE  QueueInv'
<1> DEFINE K == {i \in Positions : gdbstub.queue[i] \notin D}
<1>1. gdbstub.queue \in Seq(Entries) /\ K \subseteq DOMAIN gdbstub.queue
  BY Zenon DEF Typed, StubType, Positions
<1>2. \A i : i \in K <=> i \in DOMAIN gdbstub.queue /\ gdbstub.queue[i] \notin D
  BY Zenon DEF Positions
<1>3. gdbstub'.queue = Remaining(gdbstub.queue, K)
  BY Zenon
<1> HIDE DEF K
<1>4. RemainingLaw(Entries, gdbstub.queue, K) /\ Distinct(gdbstub.queue)
  BY Zenon DEF QueueLaws, QueueInv
<1>5. /\ \A e : e \in Range(gdbstub'.queue) <=> \E i \in K : gdbstub.queue[i] = e
      /\ Distinct(gdbstub'.queue)
  BY <1>1, <1>3, <1>4, Zenon DEF RemainingLaw
<1>6. \A e : e \in Range(gdbstub'.queue) <=> e \in Range(gdbstub.queue) /\ e \notin D
  <2>1. ASSUME NEW e, e \in Range(gdbstub'.queue) PROVE e \in Range(gdbstub.queue) /\ e \notin D
    <3>1. PICK i \in K : gdbstub.queue[i] = e
      BY <1>5, <2>1, Zenon
    <3>2. i \in DOMAIN gdbstub.queue /\ gdbstub.queue[i] \notin D
      BY <1>2, Zenon
    <3>3. QED
      BY <3>1, <3>2, Zenon DEF Range
  <2>2. ASSUME NEW e, e \in Range(gdbstub.queue), e \notin D PROVE e \in Range(gdbstub'.queue)
    <3>1. PICK i \in DOMAIN gdbstub.queue : gdbstub.queue[i] = e
      BY <2>2, Zenon DEF Range
    <3>2. i \in K
      BY <1>2, <2>2, <3>1, Zenon
    <3>3. QED
      BY <1>5, <3>1, <3>2, Zenon
  <2>3. QED
    BY <2>1, <2>2, Zenon
<1>7. ASSUME NEW v \in Vcpus
      PROVE  /\ vcpu'[v].active => v \in Range(gdbstub'.queue)
             /\ v \in Range(gdbstub'.queue) => vcpu'[v].active \/ "clone" \in scenario'.payload
  BY <1>6, Zenon DEF QueueInv, Linked, Payload
<1>8. Ge \notin Range(gdbstub'.queue)
  BY <1>6, Zenon DEF Linked
<1>9. QED
  BY <1>5, <1>7, <1>8, Zenon DEF QueueInv, Linked, Payload

\* A ^C is put at the head of a queue that has none.
LEMMA QueueCtrlC ==
    ASSUME Typed, QueueInv, ~Linked(Ge), gdbstub'.queue = <<Ge>> \o gdbstub.queue,
           scenario' = scenario, vcpu' = vcpu,
           main' \in {"drain", "select", "done"}, vcpu[gdbstub'.ge].run_state # "PAUSED"
    PROVE  QueueInv'
<1> DEFINE q == gdbstub.queue
           r == <<Ge>> \o gdbstub.queue
<1>1. q \in Seq(Entries) /\ Len(q) \in Nat /\ DOMAIN q = 1 .. Len(q)
  BY SMTT(30) DEF Typed, StubType
<1>2. /\ DOMAIN r = 1 .. Len(q) + 1 /\ r[1] = Ge /\ \A i \in 1 .. Len(q) : r[i + 1] = q[i]
  BY <1>1, SMTT(30)
<1> HIDE DEF q, r
<1>3. \A i \in DOMAIN r : i = 1 \/ (i - 1 \in 1 .. Len(q) /\ r[i] = q[i - 1] /\ i = (i - 1) + 1)
  BY <1>1, <1>2, SMTT(30)
<1>4. \A i \in 1 .. Len(q) : q[i] # Ge
  BY <1>1, Zenon DEF Linked, Range, q
<1>5. Distinct(q)
  BY Zenon DEF QueueInv, q
<1>6. Distinct(r)
  <2>1. ASSUME NEW i \in DOMAIN r, NEW j \in DOMAIN r, r[i] = r[j] PROVE i = j
    <3>1. CASE i = 1 \/ j = 1
      BY <1>2, <1>3, <1>4, <2>1, <3>1, Zenon
    <3>2. CASE i # 1 /\ j # 1
      <4>1. /\ i - 1 \in 1 .. Len(q) /\ r[i] = q[i - 1] /\ i = (i - 1) + 1
            /\ j - 1 \in 1 .. Len(q) /\ r[j] = q[j - 1] /\ j = (j - 1) + 1
        BY <1>3, <3>2, Zenon
      <4>2. i - 1 = j - 1
        BY <1>1, <1>5, <2>1, <4>1, Zenon DEF Distinct
      <4>3. QED
        BY <4>1, <4>2, Zenon
    <3>3. QED
      BY <3>1, <3>2, Zenon
  <2>2. QED
    BY <2>1, Zenon DEF Distinct
<1>7. \A e : e \in Range(r) <=> e = Ge \/ e \in Range(q)
  <2>1. ASSUME NEW e, e \in Range(r) PROVE e = Ge \/ e \in Range(q)
    <3>1. PICK i \in DOMAIN r : r[i] = e
      BY <2>1, Zenon DEF Range
    <3>2. i = 1 \/ (i - 1 \in DOMAIN q /\ r[i] = q[i - 1])
      BY <1>1, <1>3, Zenon
    <3>3. QED
      BY <1>2, <3>1, <3>2, Zenon DEF Range
  <2>2. ASSUME NEW i \in 1 .. Len(q) PROVE q[i] \in Range(r)
    <3>1. i + 1 \in DOMAIN r
      BY <1>1, <1>2, SMTT(30)
    <3>2. QED
      BY <1>2, <3>1, Zenon DEF Range
  <2>3. 1 \in DOMAIN r
    BY <1>1, <1>2, SMTT(30)
  <2>4. QED
    BY <1>1, <1>2, <2>1, <2>2, <2>3, ZenonT(30) DEF Range
<1>8. \A v \in Vcpus : v # Ge
  BY SMTT(30) DEF Vcpus, Ge
<1>9. gdbstub'.queue = r /\ \A e : Linked(e) <=> e \in Range(q)
  BY Zenon DEF q, r, Linked
<1>10. QED
  BY <1>2, <1>6, <1>7, <1>8, <1>9, ZenonT(30) DEF QueueInv, CtrlC, Payload, Linked

\* The steps of the vcpus keep the queue right.
LEMMA QueueVcpu ==
    ASSUME Typed, QueueInv, VcpuEffect
    PROVE  QueueInv'
<1>0. /\ gdbstub.queue \in Seq(Entries) /\ gdbstub.ge \in Vcpus /\ \A v \in Vcpus : v # Ge
  BY SMTT(30) DEF Typed, StubType, Vcpus, Ge
<1>1. /\ vcpu[gdbstub.ge].run_state # "PAUSED" => vcpu'[gdbstub'.ge].run_state # "PAUSED"
      /\ scenario' = scenario /\ main' = main
  BY <1>0, ZenonT(30) DEF VcpuEffect, Steps
<1>2. CASE /\ gdbstub'.queue = gdbstub.queue
           /\ \A u \in Vcpus : vcpu'[u].active = vcpu[u].active \/ (~vcpu'[u].active /\ Payload("clone"))
  BY <1>1, <1>2, ZenonT(30) DEF QueueInv, CtrlC, Linked, Payload
<1>3. ASSUME NEW v \in Vcpus, v \notin Range(gdbstub.queue), gdbstub'.queue = Append(gdbstub.queue, v),
             \A u \in Vcpus : vcpu'[u].active <=> vcpu[u].active \/ u = v
      PROVE  QueueInv'
  <2> DEFINE q == gdbstub.queue
             r == Append(gdbstub.queue, v)
  <2>1. Len(q) \in Nat /\ DOMAIN q = 1 .. Len(q)
    BY <1>0, SMTT(30)
  <2>2. /\ DOMAIN r = 1 .. Len(q) + 1 /\ r[Len(q) + 1] = v /\ \A i \in 1 .. Len(q) : r[i] = q[i]
    BY <1>0, SMTT(30)
  <2> HIDE DEF q, r
  <2>3. /\ \A i \in DOMAIN r : i \in DOMAIN q \/ i = Len(q) + 1
        /\ \A i \in DOMAIN q : i \in DOMAIN r
        /\ Len(q) + 1 \in DOMAIN r /\ (DOMAIN q # {} => 1 \in DOMAIN q)
    BY <2>1, <2>2, SMTT(30)
  <2>4. \A i \in DOMAIN q : q[i] # v /\ r[i] = q[i]
    BY <1>3, <2>1, <2>2, Zenon DEF Range, q
  <2>5. Distinct(r)
    BY <2>2, <2>3, <2>4, ZenonT(30) DEF Distinct, QueueInv, q
  <2>6. \A e : e \in Range(r) <=> e = v \/ e \in Range(q)
    BY <2>2, <2>3, <2>4, ZenonT(30) DEF Range
  <2>7. gdbstub'.queue = r /\ \A e : Linked(e) <=> e \in Range(q)
    BY <1>3, Zenon DEF q, r, Linked
  <2>8. Linked(Ge) => r[1] = q[1]
    BY <2>3, <2>4, <2>7, Zenon DEF Range
  <2>9. Linked(Ge)' => CtrlC'
    BY <1>0, <1>1, <2>6, <2>7, <2>8, ZenonT(30) DEF QueueInv, CtrlC, Linked, q
  <2>10. QED
    BY <1>1, <1>3, <2>5, <2>6, <2>7, <2>9, ZenonT(30) DEF QueueInv, Linked, Payload
<1>4. QED
  BY <1>2, <1>3, Zenon DEF VcpuEffect, Reported

-----------------------------------------------------------------------------
(* The session's bookkeeping: the main thread and the client *)

\* What the main thread may make of a vcpu's record without detaching or vCont.
Same(r, s) ==
    /\ s.pc = r.pc \/ (r.pc = "paused" /\ s.pc = "pause")
    /\ s.run_state = r.run_state /\ s.signo = r.signo /\ s.event \in {r.event, "none"}

\* The updates of the vcpus that the main thread makes, field by field.
LEMMA Updated ==
    ASSUME Typed, NEW v \in Vcpus
    PROVE  /\ Same(vcpu[v], Resumed[v]) /\ Resumed[v].ss = vcpu[v].ss /\ Resumed[v].active = vcpu[v].active
           /\ \A on : Same(vcpu[v], SetSs(on)[v]) /\ SetSs(on)[v].active = vcpu[v].active
           /\ Same(vcpu[v], Inactive(vcpu[v])) /\ Inactive(vcpu[v]).ss = vcpu[v].ss
           /\ Inactive(vcpu[v]).active = FALSE
           /\ \A e \in Entries : /\ Same(vcpu[v], Deactivated(e)[v]) /\ Deactivated(e)[v].ss = vcpu[v].ss
                                 /\ Deactivated(e)[v].active <=> vcpu[v].active /\ v # e
           /\ Disengaged[v].active = vcpu[v].active /\ Disengaged[v].pc = vcpu[v].pc
           /\ Disengaged[v].signo = vcpu[v].signo /\ Disengaged[v].event = vcpu[v].event
           /\ Disengaged[v].run_state \in {vcpu[v].run_state, "RUNNING"}
           /\ Alive(vcpu[v]) => Disengaged[v].run_state = "RUNNING" /\ ~Disengaged[v].ss
<1>a. vcpu[v] \in VcpuType /\ vcpu \in [Vcpus -> VcpuType] /\ DOMAIN vcpu[v] = Fields
  BY Fielded, Zenon DEF Typed
<1> USE DEF Same
<1>1. Same(vcpu[v], Resumed[v]) /\ Resumed[v].ss = vcpu[v].ss /\ Resumed[v].active = vcpu[v].active
  <2>1. Resumed[v] = [vcpu[v] EXCEPT !.pc = IF @ = "paused" THEN "pause" ELSE @]
    BY Zenon DEF Resumed
  <2>2. QED
    BY <1>a, <2>1, ZenonT(30) DEF Fields
<1>2. ASSUME NEW on PROVE Same(vcpu[v], SetSs(on)[v]) /\ SetSs(on)[v].active = vcpu[v].active
  <2>1. SetSs(on)[v] = [vcpu[v] EXCEPT !.ss = IF v \in Live THEN on ELSE @]
    BY Zenon DEF SetSs
  <2>2. QED
    BY <1>a, <2>1, ZenonT(30) DEF Fields
<1>3. /\ Same(vcpu[v], Inactive(vcpu[v])) /\ Inactive(vcpu[v]).ss = vcpu[v].ss
      /\ Inactive(vcpu[v]).active = FALSE
  BY <1>a, ZenonT(30) DEF Fields, Inactive
<1>4. ASSUME NEW e \in Entries
      PROVE  /\ Same(vcpu[v], Deactivated(e)[v]) /\ Deactivated(e)[v].ss = vcpu[v].ss
             /\ Deactivated(e)[v].active <=> vcpu[v].active /\ v # e
  <2>1. v # Ge
    BY SMTT(30) DEF Vcpus, Ge
  <2>2. Deactivated(e)[v] = IF v = e THEN Inactive(vcpu[v]) ELSE vcpu[v]
    BY <1>a, <2>1, ZenonT(30) DEF Deactivated
  <2> HIDE DEF Same
  <2>3. Same(vcpu[v], vcpu[v])
    BY Zenon DEF Same
  <2>4. QED
    BY <1>3, <2>2, <2>3, ZenonT(30)
<1>5. /\ Disengaged[v].active = vcpu[v].active /\ Disengaged[v].pc = vcpu[v].pc
      /\ Disengaged[v].signo = vcpu[v].signo /\ Disengaged[v].event = vcpu[v].event
      /\ Disengaged[v].run_state \in {vcpu[v].run_state, "RUNNING"}
      /\ Alive(vcpu[v]) => Disengaged[v].run_state = "RUNNING" /\ ~Disengaged[v].ss
  <2>1. Disengaged[v] = IF v \in Live THEN [vcpu[v] EXCEPT !.run_state = "RUNNING", !.ss = FALSE]
                        ELSE vcpu[v]
    BY Zenon DEF Disengaged
  <2>2. Alive(vcpu[v]) <=> v \in Live
    BY Zenon DEF Alive, Live
  <2>3. QED
    BY <1>a, <2>1, <2>2, ZenonT(30) DEF Fields
<1> HIDE DEF Same
<1>6. QED
  BY <1>1, <1>2, <1>3, <1>4, <1>5, Zenon

\* The parent's vcpus after km_dofork, with the entry of the fork unlinked.
LEMMA ForkedParent ==
    ASSUME Typed, NEW e \in Vcpus, NEW v \in Vcpus, NEW s, s = [Resumed EXCEPT ![e] = Inactive(@)][v]
    PROVE  /\ Same(vcpu[v], s) /\ s.ss = vcpu[v].ss
           /\ s.active <=> vcpu[v].active /\ v # e
<1>1. Resumed \in [Vcpus -> VcpuType]
  BY TypedVcpus, Zenon
<1>2. Same(vcpu[v], Resumed[v]) /\ Resumed[v].ss = vcpu[v].ss /\ Resumed[v].active = vcpu[v].active
  BY Updated, Zenon
<1>3. s = IF v = e THEN Inactive(Resumed[v]) ELSE Resumed[v]
  BY <1>1, Zenon
<1>4. DOMAIN Resumed[v] = Fields
  BY <1>1, Fielded, Zenon
<1>5. /\ Inactive(Resumed[v]).pc = Resumed[v].pc /\ Inactive(Resumed[v]).run_state = Resumed[v].run_state
      /\ Inactive(Resumed[v]).signo = Resumed[v].signo /\ Inactive(Resumed[v]).event = "none"
      /\ Inactive(Resumed[v]).ss = Resumed[v].ss /\ Inactive(Resumed[v]).active = FALSE
  BY <1>4, ZenonT(30) DEF Inactive, Fields
<1>6. QED
  BY <1>2, <1>3, <1>5, ZenonT(30) DEF Same

\* The fields of the stub that the invariants tell of are as they were.
Unaltered(s) == /\ s.attached = gdbstub.attached /\ s.breakpoints = gdbstub.breakpoints
                /\ s.queue = gdbstub.queue /\ s.ge = gdbstub.ge

\* What the updates of the stub change of them.
LEMMA StubUpdated ==
    ASSUME Typed
    PROVE  /\ \A b : /\ Unaltered([gdbstub EXCEPT !.session_requested = b])
                     /\ Unaltered([gdbstub EXCEPT !.seen = b])
                     /\ Unaltered([gdbstub EXCEPT !.stepping = b])
           /\ \A s \in {Detached, [Detached EXCEPT !.seen = FALSE]} :
                 s.attached = FALSE /\ s.breakpoints = {} /\ s.queue = gdbstub.queue /\ s.ge = gdbstub.ge
           /\ \A q : /\ [gdbstub EXCEPT !.queue = q].attached = gdbstub.attached
                     /\ [gdbstub EXCEPT !.queue = q].breakpoints = gdbstub.breakpoints
                     /\ [gdbstub EXCEPT !.queue = q].queue = q
<1>1. gdbstub \in StubType
  BY Zenon DEF Typed
<1>2. \A b : /\ Unaltered([gdbstub EXCEPT !.session_requested = b])
             /\ Unaltered([gdbstub EXCEPT !.seen = b])
             /\ Unaltered([gdbstub EXCEPT !.stepping = b])
  BY <1>1, ZenonT(30) DEF StubType, Unaltered
<1>3. \A s \in {Detached, [Detached EXCEPT !.seen = FALSE]} :
         s.attached = FALSE /\ s.breakpoints = {} /\ s.queue = gdbstub.queue /\ s.ge = gdbstub.ge
  BY <1>1, ZenonT(30) DEF StubType, Detached
<1>4. \A q : /\ [gdbstub EXCEPT !.queue = q].attached = gdbstub.attached
             /\ [gdbstub EXCEPT !.queue = q].breakpoints = gdbstub.breakpoints
             /\ [gdbstub EXCEPT !.queue = q].queue = q
  BY <1>1, ZenonT(30) DEF StubType
<1>5. QED
  BY <1>2, <1>3, <1>4, Zenon

\* A session belongs to a client that is connected and is served; without one
\* nothing is left of the last; while the client waits it is owed a stop reply;
\* and threads that do not end report no end.
Late == {"first_clear", "first_resume", "poll", "wait", "drain", "select", "stale", "resume"}
Endless(r) == r.pc # "stop_check" /\ r.signo # "THREADEXIT" /\ r.event # "THREADEXIT"
Clean(r) == Alive(r) => r.run_state = "RUNNING" /\ (r.ss => Payload("clone"))
SessionInv ==
    /\ remote.client = "open" => gdbstub.attached
    /\ gdbstub.attached => main \notin {"accept", "done"}
    /\ ~gdbstub.attached => gdbstub.breakpoints = {} /\ \A v \in Vcpus : Clean(vcpu[v])
    /\ ~Payload("exit") => /\ gdbstub.attached /\ main \in Late => remote.owed
                           /\ \A v \in Vcpus : Endless(vcpu[v])
HeldInv ==
    ~scenario.preempted /\ ~Forks /\ gdbstub.attached
       => \A v \in Vcpus : vcpu[v].run_state = "PAUSED" => vcpu[v].pc # "guest"

\* A step that neither begins nor ends the session and resumes no vcpu.
LEMMA SessionKept ==
    ASSUME SessionInv, HeldInv, scenario' = scenario, gdbstub'.attached = gdbstub.attached,
           gdbstub.attached \/ gdbstub'.breakpoints = gdbstub.breakpoints,
           \A v \in Vcpus : Same(vcpu[v], vcpu'[v]) /\ (vcpu'[v].ss => vcpu[v].ss \/ gdbstub.attached),
           remote'.client = "open" => remote.client = "open",
           gdbstub.attached => main' \notin {"accept", "done"},
           ~Payload("exit") /\ gdbstub.attached /\ main' \in Late => remote'.owed
    PROVE  SessionInv' /\ HeldInv'
<1>1. ASSUME NEW v \in Vcpus
      PROVE  /\ vcpu'[v].run_state = vcpu[v].run_state
             /\ vcpu'[v].pc = vcpu[v].pc \/ (vcpu[v].pc = "paused" /\ vcpu'[v].pc = "pause")
             /\ Alive(vcpu'[v]) => Alive(vcpu[v])
             /\ Endless(vcpu[v]) => Endless(vcpu'[v])
             /\ ~gdbstub.attached /\ Clean(vcpu[v]) =>
                  (Alive(vcpu'[v]) => vcpu'[v].run_state = "RUNNING" /\ (vcpu'[v].ss => Payload("clone")))
  BY ZenonT(30) DEF Same, Alive, Endless, Clean
<1>2. HeldInv'
  BY <1>1, ZenonT(30) DEF HeldInv, Forks
<1>3. SessionInv'
  BY <1>1, ZenonT(30) DEF SessionInv, Clean, Payload
<1>4. QED
  BY <1>2, <1>3, Zenon

\* The end of a session.
LEMMA SessionEnds ==
    ASSUME SessionInv, scenario' = scenario, ~gdbstub'.attached, gdbstub'.breakpoints = {},
           \A v \in Vcpus : /\ Alive(vcpu'[v]) => vcpu'[v].run_state = "RUNNING" /\ ~vcpu'[v].ss
                            /\ Endless(vcpu[v]) => Endless(vcpu'[v]),
           remote'.client # "open"
    PROVE  SessionInv' /\ HeldInv'
<1>1. HeldInv'
  BY Zenon DEF HeldInv
<1>2. SessionInv'
  BY ZenonT(30) DEF SessionInv, Clean, Payload
<1>3. QED
  BY <1>1, <1>2, Zenon

\* A step of a vcpu keeps the session.
LEMMA SessionVcpu ==
    ASSUME StopInv, SessionInv, HeldInv, VcpuEffect
    PROVE  SessionInv' /\ HeldInv'
<1>1. ASSUME NEW v \in Vcpus PROVE Steps(vcpu[v], vcpu'[v], gdbstub.attached)
  BY Zenon DEF VcpuEffect
<1>2. /\ gdbstub'.attached = gdbstub.attached /\ gdbstub'.breakpoints = gdbstub.breakpoints
      /\ scenario' = scenario /\ main' = main /\ remote' = remote
  BY Zenon DEF VcpuEffect
<1>3. HeldInv'
  <2> SUFFICES ASSUME ~scenario.preempted, ~Forks, gdbstub.attached, NEW v \in Vcpus,
                      vcpu'[v].run_state = "PAUSED", vcpu'[v].pc = "guest"
               PROVE  FALSE
    BY <1>2, Zenon DEF HeldInv, Forks
  <2>1. vcpu[v].run_state = "PAUSED" /\ vcpu[v].pc \in {"guest", "enter"}
    BY <1>1, ZenonT(30) DEF Steps
  <2>2. vcpu[v].pc # "enter"
    BY Zenon DEF StopInv
  <2>3. QED
    BY <2>1, <2>2, Zenon DEF HeldInv
<1>4. ASSUME NEW v \in Vcpus
      PROVE  /\ ~Payload("exit") /\ Endless(vcpu[v]) => Endless(vcpu'[v])
             /\ Clean(vcpu[v]) =>
                  (Alive(vcpu'[v]) => vcpu'[v].run_state = "RUNNING" /\ (vcpu'[v].ss => Payload("clone")))
  BY <1>1, ZenonT(30) DEF Steps, Endless, Clean
<1>5. SessionInv'
  BY <1>2, <1>4, ZenonT(30) DEF SessionInv, Clean, Payload
<1>6. QED
  BY <1>3, <1>5, Zenon

\* A ^C that is linked is the event that gdb_select_event selects.
LEMMA SelectsCtrlC ==
    ASSUME QueueLaws, Typed, QueueInv, Linked(Ge)
    PROVE  Candidates # <<>> /\ Head(Candidates) = Ge
<1> DEFINE K == {i \in Positions : Stops(gdbstub.queue[i])}
<1>1. gdbstub.queue \in Seq(Entries) /\ K \subseteq DOMAIN gdbstub.queue
  BY Zenon DEF Typed, StubType, Positions
<1>2. gdbstub.queue[1] = Ge /\ vcpu[gdbstub.ge].run_state # "PAUSED"
  BY Zenon DEF QueueInv, CtrlC
<1>3. 1 \in DOMAIN gdbstub.queue
  <2>1. DOMAIN gdbstub.queue # {}
    BY Zenon DEF Linked, Range
  <2>2. QED
    BY <1>1, <2>1, SMTT(30)
<1>4. Stops(Ge)
  BY <1>2, Zenon DEF Stops, VcpuOf
<1>5. 1 \in K
  BY <1>2, <1>3, <1>4, Zenon DEF Positions
<1>6. Candidates = Remaining(gdbstub.queue, K)
  BY Zenon DEF Candidates
<1> HIDE DEF K
<1>7. RemainingLaw(Entries, gdbstub.queue, K)
  BY Zenon DEF QueueLaws
<1>8. Candidates \in Seq(Entries) /\ Candidates # <<>> /\ Candidates[1] = Ge
  BY <1>1, <1>2, <1>5, <1>6, <1>7, Zenon DEF RemainingLaw
<1>9. QED
  BY <1>8, SMTT(30)

Session == QueueInv /\ SessionInv /\ HeldInv

\* Steps that leave the queue and the vcpus' marks alone, but for a ^C that waits.
LEMMA SessionSame ==
    ASSUME Session, scenario' = scenario, gdbstub'.queue = gdbstub.queue, main \notin {"drain", "select", "done"},
           \A v \in Vcpus : vcpu'[v].active = vcpu[v].active, SessionInv' /\ HeldInv'
    PROVE  Session'
<1>1. ~Linked(Ge)
  BY Zenon DEF Session, QueueInv, CtrlC
<1>2. QueueInv'
  BY <1>1, QueueSame, Zenon DEF Session
<1>3. QED
  BY <1>2, Zenon DEF Session

\* One that does not touch the vcpus either.
LEMMA Untouched ==
    \A v \in Vcpus : Same(vcpu[v], vcpu[v])
  BY Zenon DEF Same

\* km_dofork keeps the session's bookkeeping, in the parent and in the child.
LEMMA SessionFork ==
    ASSUME QueueLaws, Typed, Session, NEW intr, ForkSelected, main \in {"accept", "select"},
           km_dofork(main, intr), scenario' = scenario
    PROVE  Session'
<1>1. ~Linked(Ge)
  <2>1. \A v \in Vcpus : v # Ge
    BY SMTT(30) DEF Vcpus, Ge
  <2>2. QED
    BY <2>1, SelectsCtrlC, Zenon DEF ForkSelected, Session
<1> DEFINE e == Head(Candidates)
<1>2. e \in Vcpus
  BY Zenon DEF ForkSelected
<1>3. CASE /\ gdbstub' = [gdbstub EXCEPT !.queue = Delinked(e)]
           /\ vcpu' = [Resumed EXCEPT ![e] = Inactive(@)] /\ main' = main /\ remote' = remote
  <2> HIDE DEF e
  <2>1. /\ gdbstub'.attached = gdbstub.attached /\ gdbstub'.breakpoints = gdbstub.breakpoints
        /\ gdbstub'.queue = Delinked(e)
    BY <1>3, StubUpdated, ZenonT(30)
  <2>2. ASSUME NEW v \in Vcpus
        PROVE  /\ Same(vcpu[v], vcpu'[v]) /\ vcpu'[v].ss = vcpu[v].ss
               /\ vcpu'[v].active <=> vcpu[v].active /\ v # e
    <3>1. vcpu'[v] = [Resumed EXCEPT ![e] = Inactive(@)][v]
      BY <1>3, Zenon
    <3>2. QED
      BY <1>2, <3>1, ForkedParent, Zenon
  <2>3. SessionInv' /\ HeldInv'
    BY <1>3, <2>1, <2>2, SessionKept, ZenonT(30) DEF Session, SessionInv
  <2>4. Delinked(e) = Remaining(gdbstub.queue, {i \in Positions : gdbstub.queue[i] \notin {e}})
    <3>1. {i \in Positions : gdbstub.queue[i] \notin {e}} = {i \in Positions : gdbstub.queue[i] # e}
      BY Zenon
    <3>2. QED
      BY <3>1, Zenon DEF Delinked
  <2>5. \A v \in Vcpus : vcpu'[v].active <=> vcpu[v].active /\ v \notin {e}
    BY <2>2, Zenon
  <2>6. QueueInv'
    BY <1>1, <2>1, <2>4, <2>5, QueueUnlink, Zenon DEF Session
  <2>7. QED
    BY <2>3, <2>6, Zenon DEF Session
<1>4. CASE /\ gdbstub' = [gdbstub EXCEPT !.attached = FALSE, !.session_requested = FALSE,
                                         !.queue = <<>>, !.breakpoints = {}]
           /\ vcpu' = [v \in Vcpus |-> NewVcpu(IF v = 1 THEN "pause" ELSE "none")]
           /\ remote' = [client |-> "none", inbox |-> "none", owed |-> FALSE]
  <2>1. gdbstub'.attached = FALSE /\ gdbstub'.breakpoints = {} /\ gdbstub'.queue = <<>>
    BY <1>4, ZenonT(30) DEF Typed, StubType
  <2>2. ASSUME NEW w
        PROVE  /\ NewVcpu(w).pc = w /\ NewVcpu(w).run_state = "RUNNING" /\ NewVcpu(w).ss = FALSE
               /\ NewVcpu(w).signo = "none" /\ NewVcpu(w).event = "none" /\ NewVcpu(w).active = FALSE
    BY SMTT(30) DEF NewVcpu
  <2>3. ASSUME NEW v \in Vcpus
        PROVE  /\ vcpu'[v].run_state = "RUNNING" /\ ~vcpu'[v].ss /\ ~vcpu'[v].active
               /\ Endless(vcpu'[v])
    <3>1. PICK w \in {"pause", "none"} : vcpu'[v] = NewVcpu(w)
      BY <1>4, ZenonT(30)
    <3>2. QED
      BY <2>2, <3>1, ZenonT(30) DEF Endless
  <2>4. remote'.client = "none"
    BY <1>4, Zenon
  <2>5. SessionInv' /\ HeldInv'
    BY <2>1, <2>3, <2>4, SessionEnds, Zenon DEF Session
  <2>6. DOMAIN <<>> = {} /\ \A x : x \notin Range(<<>>)
    BY SMTT(30) DEF Range
  <2>7. QueueInv'
    BY <2>1, <2>3, <2>6, ZenonT(30) DEF QueueInv, Linked, Distinct
  <2>8. QED
    BY <2>5, <2>7, Zenon DEF Session
<1>5. QED
  BY <1>3, <1>4, Zenon DEF km_dofork

\* gdb_select_event and the report of what it selects keep it.
LEMMA SessionSelect ==
    ASSUME QueueLaws, Typed, Session, Select
    PROVE  Session'
<1>0. main = "select" /\ scenario' = scenario
  BY Zenon DEF Select, MainAt
<1>1. CASE ForkSelected /\ km_dofork("select", machine.intr)
  BY <1>0, <1>1, SessionFork, Zenon
<1>2. CASE NothingSelected /\ main' = "resume" /\ remote' = [remote EXCEPT !.owed = @ /\ Candidates = <<>>]
           /\ UNCHANGED <<gdbstub, vcpu>>
  <2>1. SignoOf(Ge) # "THREADEXIT"
    BY Zenon DEF SignoOf
  <2>2. ~Linked(Ge)
    BY <1>2, <2>1, SelectsCtrlC, Zenon DEF NothingSelected, Session
  <2>3. /\ remote'.client = remote.client /\ remote'.inbox = remote.inbox
        /\ remote'.owed <=> remote.owed /\ Candidates = <<>>
    BY <1>2, ZenonT(30) DEF Typed, RemoteType
  <2>4. ASSUME ~Payload("exit"), gdbstub.attached PROVE remote'.owed
    <3>1. remote.owed
      BY <1>0, <2>4, Zenon DEF Session, SessionInv, Late
    <3>2. ASSUME Candidates # <<>> PROVE FALSE
      <4>1. Head(Candidates) \in Entries
        BY <3>2, TypedWalks, Zenon
      <4>2. SignoOf(Head(Candidates)) = "THREADEXIT"
        BY <1>2, <3>2, Zenon DEF NothingSelected
      <4>3. \A v \in Vcpus : vcpu[v].event # "THREADEXIT"
        BY <2>4, Zenon DEF Session, SessionInv, Endless
      <4>4. QED
        BY <2>1, <4>1, <4>2, <4>3, ZenonT(30) DEF SignoOf, Entries
    <3>3. QED
      BY <2>3, <3>1, <3>2, Zenon
  <2>5. SessionInv' /\ HeldInv'
    BY <1>0, <1>2, <2>3, <2>4, Untouched, SessionKept, ZenonT(30) DEF Session
  <2>6. QueueInv'
    BY <1>0, <1>2, <2>2, QueueSame, Zenon DEF Session
  <2>7. QED
    BY <2>5, <2>6, Zenon DEF Session
<1>3. CASE UNCHANGED <<main, gdbstub, vcpu, remote>>
  <2>1. SessionInv' /\ HeldInv'
    BY <1>0, <1>3, Untouched, SessionKept, ZenonT(30) DEF Session, SessionInv
  <2>2. QueueInv'
    BY <1>0, <1>3, QueueSame, Zenon DEF Session, QueueInv, CtrlC
  <2>3. QED
    BY <2>1, <2>2, Zenon DEF Session
<1>4. CASE /\ ~NothingSelected
           /\ gdbstub' = [gdbstub EXCEPT !.queue = Delinked(Head(Candidates)), !.ge = 1]
           /\ vcpu' = Deactivated(Head(Candidates)) /\ remote' = [remote EXCEPT !.owed = FALSE]
           /\ main' = "talk"
  <2> DEFINE e == Head(Candidates)
  <2>1. e \in Entries
    BY <1>4, TypedWalks, Zenon DEF NothingSelected
  <2>2. Linked(Ge) => Ge \in {e}
    BY SelectsCtrlC, Zenon DEF Session
  <2>3. /\ gdbstub' = [gdbstub EXCEPT !.queue = Delinked(e), !.ge = 1] /\ vcpu' = Deactivated(e)
    BY <1>4, Zenon
  <2> HIDE DEF e
  <2>4. /\ gdbstub'.attached = gdbstub.attached /\ gdbstub'.breakpoints = gdbstub.breakpoints
        /\ gdbstub'.queue = Delinked(e)
    BY <2>3, ZenonT(30) DEF Typed, StubType
  <2>5. ASSUME NEW v \in Vcpus
        PROVE  /\ Same(vcpu[v], vcpu'[v]) /\ vcpu'[v].ss = vcpu[v].ss
               /\ vcpu'[v].active <=> vcpu[v].active /\ v # e
    BY <2>1, <2>3, Updated, Zenon
  <2>6. remote'.client = remote.client
    BY <1>4, ZenonT(30) DEF Typed, RemoteType
  <2>7. SessionInv' /\ HeldInv'
    BY <1>0, <1>4, <2>4, <2>5, <2>6, SessionKept, ZenonT(30) DEF Session, Late
  <2>8. Delinked(e) = Remaining(gdbstub.queue, {i \in Positions : gdbstub.queue[i] \notin {e}})
    <3>1. {i \in Positions : gdbstub.queue[i] \notin {e}} = {i \in Positions : gdbstub.queue[i] # e}
      BY Zenon
    <3>2. QED
      BY <3>1, Zenon DEF Delinked
  <2>9. \A v \in Vcpus : vcpu'[v].active <=> vcpu[v].active /\ v \notin {e}
    BY <2>5, Zenon
  <2>10. QueueInv'
    BY <1>0, <2>2, <2>4, <2>8, <2>9, QueueUnlink, Zenon DEF Session
  <2>11. QED
    BY <2>7, <2>10, Zenon DEF Session
<1>5. QED
  BY <1>1, <1>2, <1>3, <1>4, ZenonT(30) DEF Select

\* A character from the client, or the end of the connection.
LEMMA SessionChar ==
    ASSUME QueueLaws, Typed, Session, GotChar
    PROVE  Session'
<1>0. main = "wait" /\ scenario' = scenario
  BY Zenon DEF GotChar, MainAt
<1>o. ~Payload("exit") /\ gdbstub.attached => remote.owed
  BY <1>0, Zenon DEF Session, SessionInv, Late
<1>1. CASE main' = "drain" /\ UNCHANGED <<gdbstub, vcpu, remote>>
  <2>1. SessionInv' /\ HeldInv'
    BY <1>0, <1>o, <1>1, Untouched, SessionKept, ZenonT(30) DEF Session
  <2>2. QED
    BY <1>0, <1>1, <2>1, SessionSame, Zenon
<1>2. CASE /\ gdbstub' = [Detached EXCEPT !.seen = FALSE] /\ vcpu' = Disengaged
           /\ remote' = [client |-> "none", inbox |-> "none", owed |-> FALSE]
  <2>1. gdbstub'.attached = FALSE /\ gdbstub'.breakpoints = {} /\ gdbstub'.queue = gdbstub.queue
    BY <1>2, StubUpdated, ZenonT(30)
  <2>2. ASSUME NEW v \in Vcpus
        PROVE  /\ vcpu'[v].active = vcpu[v].active
               /\ Alive(vcpu'[v]) => vcpu'[v].run_state = "RUNNING" /\ ~vcpu'[v].ss
               /\ Endless(vcpu[v]) => Endless(vcpu'[v])
    BY <1>2, Updated, ZenonT(30) DEF Endless, Alive
  <2>3. remote'.client = "none"
    BY <1>2, Zenon
  <2>4. SessionInv' /\ HeldInv'
    BY <1>0, <2>1, <2>2, <2>3, SessionEnds, Zenon DEF Session
  <2>5. QED
    BY <1>0, <2>1, <2>2, <2>4, SessionSame, Zenon
<1>3. CASE /\ gdbstub' = Interrupted({v \in Live : vcpu[v].run_state # "PAUSED"})
           /\ remote' = [remote EXCEPT !.inbox = "none"] /\ main' = "drain" /\ vcpu' = vcpu
  <2> DEFINE R == {v \in Live : vcpu[v].run_state # "PAUSED"}
  <2>1. remote'.client = remote.client /\ remote'.owed = remote.owed
    BY <1>3, ZenonT(30) DEF Typed, RemoteType
  <2>2. CASE gdbstub' = [gdbstub EXCEPT !.seen = FALSE]
    <3>1. Unaltered(gdbstub')
      BY <2>2, StubUpdated, Zenon
    <3>2. SessionInv' /\ HeldInv'
      BY <1>0, <1>o, <1>3, <2>1, <3>1, Untouched, SessionKept, ZenonT(30) DEF Session, Unaltered
    <3>3. QED
      BY <1>0, <1>3, <3>1, <3>2, SessionSame, Zenon DEF Unaltered
  <2>3. CASE gdbstub' # [gdbstub EXCEPT !.seen = FALSE]
    <3> DEFINE g == CHOOSE v \in R : \A u \in R : v <= u
    <3>1. R # {} /\ gdbstub' = [gdbstub EXCEPT !.session_requested = TRUE, !.seen = FALSE,
                                               !.queue = <<Ge>> \o @, !.ge = g]
      BY <1>3, <2>3, ZenonT(30) DEF Interrupted
    <3>2. R \in SUBSET Vcpus
      BY Zenon DEF Live
    <3>3. \E v \in R : \A u \in R : v <= u
      BY <3>1, <3>2, Zenon DEF QueueLaws
    <3>4. g \in R
      BY <3>3, Zenon
    <3>5. vcpu[g].run_state # "PAUSED"
      BY <3>4, Zenon
    <3> HIDE DEF g, R
    <3>6. /\ gdbstub'.attached = gdbstub.attached /\ gdbstub'.breakpoints = gdbstub.breakpoints
          /\ gdbstub'.queue = <<Ge>> \o gdbstub.queue /\ gdbstub'.ge = g
      BY <3>1, ZenonT(30) DEF Typed, StubType
    <3>7. SessionInv' /\ HeldInv'
      BY <1>0, <1>o, <1>3, <2>1, <3>6, Untouched, SessionKept, ZenonT(30) DEF Session
    <3>8. ~Linked(Ge)
      BY <1>0, Zenon DEF Session, QueueInv, CtrlC
    <3>9. QueueInv'
      BY <1>0, <1>3, <3>5, <3>6, <3>8, QueueCtrlC, Zenon DEF Session
    <3>10. QED
      BY <3>7, <3>9, Zenon DEF Session
  <2>4. QED
    BY <2>2, <2>3, Zenon
<1>4. QED
  BY <1>1, <1>2, <1>3, ZenonT(30) DEF GotChar

\* gdb_delete_stale_events unlinks entries and marks them so.
LEMMA SessionStale ==
    ASSUME QueueLaws, Typed, Session, gdb_delete_stale_events
    PROVE  Session'
<1> DEFINE D == {e \in Entries : Stale(e)}
<1>0. main = "stale" /\ main' = "select" /\ remote' = remote /\ scenario' = scenario
  BY Zenon DEF gdb_delete_stale_events, MainAt
<1>1. ~Linked(Ge)
  BY <1>0, Zenon DEF Session, QueueInv, CtrlC
<1>2. /\ gdbstub'.attached = gdbstub.attached /\ gdbstub'.breakpoints = gdbstub.breakpoints
      /\ gdbstub'.queue = FreshEvents
  BY StubUpdated, ZenonT(30) DEF gdb_delete_stale_events
<1>3. \A i \in Positions : gdbstub.queue[i] \in Entries
  <2>1. gdbstub.queue \in Seq(Entries)
    BY Zenon DEF Typed, StubType
  <2>2. QED
    BY <2>1, SMTT(30) DEF Positions
<1>4. FreshEvents = Remaining(gdbstub.queue, {i \in Positions : gdbstub.queue[i] \notin D})
  <2>1. {i \in Positions : gdbstub.queue[i] \notin D} = {i \in Positions : ~Stale(gdbstub.queue[i])}
    BY <1>3, ZenonT(30)
  <2>2. QED
    BY <2>1, Zenon DEF FreshEvents
<1>5. ASSUME NEW v \in Vcpus
      PROVE  /\ Same(vcpu[v], vcpu'[v]) /\ vcpu'[v].ss = vcpu[v].ss
             /\ vcpu'[v].active <=> vcpu[v].active /\ v \notin D
  <2>1. vcpu'[v] = IF Linked(v) /\ Stale(v) THEN Inactive(vcpu[v]) ELSE vcpu[v]
    BY Zenon DEF gdb_delete_stale_events, Linked
  <2>2. v \in D <=> Stale(v)
    BY Zenon DEF Entries
  <2>3. vcpu[v].active => Linked(v)
    BY Zenon DEF Session, QueueInv
  <2>4. Same(vcpu[v], Inactive(vcpu[v])) /\ Inactive(vcpu[v]).ss = vcpu[v].ss /\ Inactive(vcpu[v]).active = FALSE
    BY Updated, Zenon
  <2> HIDE DEF D
  <2>5. QED
    BY <2>1, <2>2, <2>3, <2>4, Untouched, ZenonT(30)
<1> HIDE DEF D
<1>6. SessionInv' /\ HeldInv'
  BY <1>0, <1>2, <1>5, SessionKept, ZenonT(30) DEF Session, SessionInv, Late
<1>7. QueueInv'
  BY <1>0, <1>1, <1>2, <1>4, <1>5, QueueUnlink, Zenon DEF Session
<1>8. QED
  BY <1>6, <1>7, Zenon DEF Session

\* The commands of the client keep it.
LEMMA SessionCommand ==
    ASSUME Typed, Session, CmdContinue \/ ClientCommand
    PROVE  Session'
<1>0. main \in {"first", "talk"} /\ scenario' = scenario
  BY ZenonT(30) DEF CmdContinue, ClientCommand, SetBreakpoint, CmdStep, CmdVCont, CmdDetach, TakesPacket, Talking
<1>r. ASSUME NEW b PROVE [remote EXCEPT !.inbox = "none"].client = remote.client
                         /\ [remote EXCEPT !.inbox = "none", !.owed = TRUE].client = remote.client
                         /\ [remote EXCEPT !.inbox = "none", !.owed = TRUE].owed = TRUE
  BY ZenonT(30) DEF Typed, RemoteType
<1>e. EndTalk => main' \notin {"accept", "done"}
  BY ZenonT(30) DEF EndTalk
<1>1. CASE CmdContinue \/ SetBreakpoint \/ CmdStep
  <2>1. gdbstub.attached
    BY <1>1, ZenonT(30) DEF CmdContinue, SetBreakpoint, CmdStep, TakesPacket, Session, SessionInv
  <2>2. /\ remote'.client = remote.client /\ main' \notin {"accept", "done"}
        /\ main' \in Late => remote'.owed
    <3>1. CASE CmdContinue \/ CmdStep
      BY <1>e, <1>r, <3>1, ZenonT(30) DEF CmdContinue, CmdStep, Resumes
    <3>2. CASE SetBreakpoint
      BY <1>0, <1>r, <3>2, ZenonT(30) DEF SetBreakpoint, Late
    <3>3. QED
      BY <1>1, <3>1, <3>2, Zenon
  <2>3. gdbstub'.attached = gdbstub.attached /\ gdbstub'.queue = gdbstub.queue
    <3>1. \E b : gdbstub' = [gdbstub EXCEPT !.stepping = b] \/ gdbstub' = [gdbstub EXCEPT !.breakpoints = b]
      <4>1. CASE CmdContinue \/ CmdStep
        BY <4>1, Zenon DEF CmdContinue, CmdStep
      <4>2. CASE SetBreakpoint
        BY <4>2, Zenon DEF SetBreakpoint
      <4>3. QED
        BY <1>1, <4>1, <4>2, Zenon
    <3>2. PICK b : gdbstub' = [gdbstub EXCEPT !.stepping = b] \/ gdbstub' = [gdbstub EXCEPT !.breakpoints = b]
      BY <3>1, Zenon
    <3>3. CASE gdbstub' = [gdbstub EXCEPT !.stepping = b]
      BY <3>3, StubUpdated, Zenon DEF Unaltered
    <3>4. CASE gdbstub' = [gdbstub EXCEPT !.breakpoints = b]
      BY <3>4, ZenonT(30) DEF Typed, StubType
    <3>5. QED
      BY <3>2, <3>3, <3>4, Zenon
  <2>4. ASSUME NEW v \in Vcpus PROVE Same(vcpu[v], vcpu'[v]) /\ vcpu'[v].active = vcpu[v].active
    <3>1. CASE CmdContinue \/ SetBreakpoint
      <4>1. vcpu' = SetSs(FALSE) \/ vcpu' = SetSs(gdbstub.stepping)
        BY <3>1, Zenon DEF CmdContinue, SetBreakpoint
      <4>2. PICK on : vcpu' = SetSs(on)
        BY <4>1, Zenon
      <4>3. QED
        BY <4>2, Updated, Zenon
    <3>2. CASE CmdStep
      <4>1. PICK u : vcpu' = [SetSs(FALSE) EXCEPT ![u].ss = TRUE]
        BY <3>2, Zenon DEF CmdStep
      <4>2. SetSs(FALSE) \in [Vcpus -> VcpuType]
        BY TypedVcpus, Zenon
      <4> DEFINE r == SetSs(FALSE)[v]
      <4>3. vcpu'[v] = r \/ vcpu'[v] = [r EXCEPT !.ss = TRUE]
        BY <4>1, <4>2, ZenonT(30)
      <4>4. DOMAIN r = Fields /\ Same(vcpu[v], r) /\ r.active = vcpu[v].active
        BY <4>2, Fielded, Updated, ZenonT(30)
      <4> HIDE DEF r
      <4>5. vcpu'[v].pc = r.pc /\ vcpu'[v].run_state = r.run_state /\ vcpu'[v].signo = r.signo
            /\ vcpu'[v].event = r.event /\ vcpu'[v].active = r.active
        BY <4>3, <4>4, ZenonT(30) DEF Fields
      <4>6. QED
        BY <4>4, <4>5, Zenon DEF Same
    <3>3. QED
      BY <1>1, <3>1, <3>2, Zenon
  <2>5. SessionInv' /\ HeldInv'
    BY <1>0, <2>1, <2>2, <2>3, <2>4, SessionKept, ZenonT(30) DEF Session
  <2>6. QED
    BY <1>0, <2>3, <2>4, <2>5, SessionSame, Zenon
<1>2. CASE CmdVCont
  <2>1. gdbstub.attached /\ remote.client = "open"
    BY <1>2, Zenon DEF CmdVCont, TakesPacket, Session, SessionInv
  <2>2. CASE ~NobodyInGuest
    <3>1. UNCHANGED <<main, gdbstub, vcpu, remote>>
      BY <1>2, <2>2, Zenon DEF CmdVCont
    <3>2. SessionInv' /\ HeldInv'
      BY <1>0, <3>1, Untouched, SessionKept, ZenonT(30) DEF Session, Late
    <3>3. QED
      BY <1>0, <3>1, <3>2, SessionSame, Zenon
  <2>3. CASE NobodyInGuest
    <3>1. PICK act :
             /\ gdbstub' = [gdbstub EXCEPT !.stepping = SteppingAfter(act)]
             /\ vcpu' = [v \in Vcpus |->
                           IF v \notin Live THEN vcpu[v]
                           ELSE [vcpu[v] EXCEPT !.run_state = act[v],
                                                !.ss = IF act[v] = "PAUSED" THEN @ ELSE act[v] # "RUNNING"]]
             /\ EndTalk /\ Resumes
      BY <1>2, <2>3, ZenonT(30) DEF CmdVCont
    <3>2. Unaltered(gdbstub')
      BY <3>1, StubUpdated, Zenon
    <3>3. remote'.client = remote.client /\ remote'.owed = TRUE /\ main' \notin {"accept", "done"}
      BY <1>e, <1>r, <3>1, Zenon DEF Resumes
    <3>4. ASSUME NEW v \in Vcpus
          PROVE  /\ vcpu'[v].pc = vcpu[v].pc /\ vcpu'[v].active = vcpu[v].active
                 /\ vcpu'[v].signo = vcpu[v].signo /\ vcpu'[v].event = vcpu[v].event
      <4>1. DOMAIN vcpu[v] = Fields
        BY Fielded, Zenon DEF Typed
      <4>2. \/ vcpu'[v] = vcpu[v]
            \/ \E a, b : vcpu'[v] = [vcpu[v] EXCEPT !.run_state = a, !.ss = b]
        BY <3>1, ZenonT(30)
      <4>3. QED
        BY <4>1, <4>2, ZenonT(30) DEF Fields
    <3>5. \A v \in Vcpus : vcpu[v].pc # "guest"
      BY <2>3, ZenonT(30) DEF NobodyInGuest, Live
    <3>6. HeldInv'
      BY <3>4, <3>5, ZenonT(30) DEF HeldInv
    <3>7. SessionInv'
      BY <1>0, <2>1, <3>2, <3>3, <3>4, ZenonT(30) DEF Session, SessionInv, Unaltered, Endless, Payload
    <3>8. QED
      BY <1>0, <3>2, <3>4, <3>6, <3>7, SessionSame, Zenon DEF Unaltered
  <2>4. QED
    BY <2>2, <2>3, Zenon
<1>3. CASE CmdDetach
  <2>1. gdbstub'.attached = FALSE /\ gdbstub'.breakpoints = {} /\ gdbstub'.queue = gdbstub.queue
    BY <1>3, StubUpdated, ZenonT(30) DEF CmdDetach
  <2>2. ASSUME NEW v \in Vcpus
        PROVE  /\ vcpu'[v].active = vcpu[v].active
               /\ Alive(vcpu'[v]) => vcpu'[v].run_state = "RUNNING" /\ ~vcpu'[v].ss
               /\ Endless(vcpu[v]) => Endless(vcpu'[v])
    BY <1>3, Updated, ZenonT(30) DEF CmdDetach, Endless, Alive
  <2>3. remote'.client = "gone"
    BY <1>3, Zenon DEF CmdDetach
  <2>4. SessionInv' /\ HeldInv'
    BY <1>0, <2>1, <2>2, <2>3, SessionEnds, Zenon DEF Session
  <2>5. QED
    BY <1>0, <2>1, <2>2, <2>4, SessionSame, Zenon
<1>4. QED
  BY <1>1, <1>2, <1>3, Zenon DEF ClientCommand

\* The rest of the main loop, and the client's end.
LEMMA SessionMain ==
    ASSUME QueueLaws, Typed, Session, MainActs
    PROVE  Session'
<1>1. CASE AcceptIntr
  <2>0. main = "accept" /\ scenario' = scenario
    BY <1>1, Zenon DEF AcceptIntr, MainAt
  <2>1. CASE ForkSelected
    <3>1. km_dofork("accept", FALSE)
      BY <1>1, <2>1, Zenon DEF AcceptIntr
    <3>2. QED
      BY <2>0, <2>1, <3>1, SessionFork, Zenon
  <2>2. CASE ~ForkSelected
    <3>1. UNCHANGED <<main, gdbstub, vcpu, remote>>
      BY <1>1, <2>2, Zenon DEF AcceptIntr
    <3>2. SessionInv' /\ HeldInv'
      BY <2>0, <3>1, Untouched, SessionKept, ZenonT(30) DEF Session, SessionInv
    <3>3. QED
      BY <2>0, <3>1, <3>2, SessionSame, Zenon
  <2>3. QED
    BY <2>1, <2>2, Zenon
<1>2. CASE AcceptClient
  <2>0. main = "accept" /\ main' = "first_pause" /\ scenario' = scenario /\ vcpu' = vcpu
    BY <1>2, Zenon DEF AcceptClient, MainAt
  <2>1. gdbstub'.attached = TRUE /\ gdbstub'.queue = gdbstub.queue
    BY <1>2, ZenonT(30) DEF AcceptClient, Typed, StubType
  <2>2. \A v \in Vcpus : Clean(vcpu[v])
    BY <2>0, Zenon DEF Session, SessionInv
  <2>3. HeldInv'
    BY <2>0, <2>2, ZenonT(30) DEF HeldInv, Clean, Alive
  <2>4. SessionInv'
    BY <2>0, <2>1, ZenonT(30) DEF Session, SessionInv, Late, Payload
  <2>5. QED
    BY <2>0, <2>1, <2>3, <2>4, SessionSame, Zenon
<1>3. CASE AcceptStopped \/ FirstPaused
  <2>0. /\ (main = "accept" /\ main' = "done") \/ (main = "first_pause" /\ main' = "first")
        /\ UNCHANGED <<scenario, gdbstub, vcpu, remote>>
    BY <1>3, ZenonT(30) DEF AcceptStopped, FirstPaused, MainAt
  <2>1. SessionInv' /\ HeldInv'
    BY <2>0, Untouched, SessionKept, ZenonT(30) DEF Session, SessionInv, Late
  <2>2. QED
    BY <2>0, <2>1, SessionSame, Zenon
<1>4. CASE FirstClear \/ PollWakes
  <2>0. /\ (main = "first_clear" /\ main' = "first_resume") \/ (main = "poll" /\ main' = "wait")
        /\ UNCHANGED <<scenario, vcpu, remote>>
    BY <1>4, ZenonT(30) DEF FirstClear, PollWakes, MainAt
  <2>1. Unaltered(gdbstub')
    <3>1. CASE FirstClear
      BY <3>1, StubUpdated, Zenon DEF FirstClear
    <3>2. CASE PollWakes
      BY <3>2, StubUpdated, Zenon DEF PollWakes
    <3>3. QED
      BY <1>4, <3>1, <3>2, Zenon
  <2>2. SessionInv' /\ HeldInv'
    BY <2>0, <2>1, Untouched, SessionKept, ZenonT(30) DEF Session, SessionInv, Late, Unaltered
  <2>3. QED
    BY <2>0, <2>1, <2>2, SessionSame, Zenon DEF Unaltered
<1>5. CASE FirstResume \/ Resume
  <2>0. main \in {"first_resume", "resume"} /\ scenario' = scenario /\ vcpu' = Resumed /\ LoopOrAccept
    BY <1>5, ZenonT(30) DEF FirstResume, Resume, MainAt
  <2>1. Unaltered(gdbstub')
    <3>1. CASE FirstResume
      BY <3>1, Zenon DEF FirstResume, Unaltered
    <3>2. CASE Resume
      BY <3>2, StubUpdated, Zenon DEF Resume
    <3>3. QED
      BY <1>5, <3>1, <3>2, Zenon
  <2>2. /\ gdbstub.attached => main' = "poll" /\ remote' = remote
        /\ ~gdbstub.attached => remote'.client = "none"
    BY <2>0, ZenonT(30) DEF LoopOrAccept
  <2>3. ASSUME NEW v \in Vcpus
        PROVE  Same(vcpu[v], vcpu'[v]) /\ vcpu'[v].ss = vcpu[v].ss /\ vcpu'[v].active = vcpu[v].active
    BY <2>0, Updated, Zenon
  <2>4. SessionInv' /\ HeldInv'
    BY <2>0, <2>1, <2>2, <2>3, SessionKept, ZenonT(30) DEF Session, SessionInv, Late, Unaltered
  <2>5. QED
    BY <2>0, <2>1, <2>3, <2>4, SessionSame, Zenon DEF Unaltered
<1>6. CASE GotChar
  BY <1>6, SessionChar, Zenon
<1>7. CASE Drain
  <2>0. main = "drain" /\ main' \in {"select", "done"} /\ scenario' = scenario /\ vcpu' = vcpu
    BY <1>7, ZenonT(30) DEF Drain, MainAt
  <2>1. gdbstub'.queue = gdbstub.queue /\ gdbstub'.ge = gdbstub.ge
    BY <1>7, StubUpdated, ZenonT(30) DEF Drain
  <2>2. ASSUME Live = {} PROVE SessionInv' /\ HeldInv'
    <3>1. gdbstub' = Detached /\ remote' = [client |-> "none", inbox |-> "none", owed |-> FALSE]
      BY <1>7, <2>2, Zenon DEF Drain
    <3>2. gdbstub'.attached = FALSE /\ gdbstub'.breakpoints = {}
      BY <3>1, StubUpdated, ZenonT(30)
    <3>3. remote'.client = "none"
      BY <3>1, Zenon
    <3>4. \A v \in Vcpus : ~Alive(vcpu[v])
      BY <2>2, ZenonT(30) DEF Live, Alive
    <3>5. QED
      BY <2>0, <3>2, <3>3, <3>4, SessionEnds, ZenonT(30) DEF Session
  <2>3. ASSUME Live # {} PROVE SessionInv' /\ HeldInv'
    <3>1. main' = "select" /\ gdbstub' = gdbstub /\ remote' = remote
      BY <1>7, <2>3, Zenon DEF Drain
    <3>2. QED
      BY <2>0, <3>1, Untouched, SessionKept, ZenonT(30) DEF Session, SessionInv, Late
  <2>4. SessionInv' /\ HeldInv'
    BY <2>2, <2>3, Zenon
  <2>5. QueueInv'
    BY <2>0, <2>1, QueueSame, ZenonT(30) DEF Session, QueueInv, CtrlC
  <2>6. QED
    BY <2>4, <2>5, Zenon DEF Session
<1>8. CASE Select
  BY <1>8, SessionSelect, Zenon
<1>9. CASE gdb_delete_stale_events
  BY <1>9, SessionStale, Zenon
<1>10. CASE CmdContinue \/ ClientCommand
  BY <1>10, SessionCommand, Zenon
<1>11. CASE ClientStep
  <2>0. UNCHANGED <<scenario, main, gdbstub, vcpu>>
    BY <1>11, ZenonT(30) DEF ClientStep, Connect, Interrupt, Drop
  <2>1. (remote'.client = "open" => remote.client = "open") /\ remote'.owed = remote.owed
    BY <1>11, ZenonT(30) DEF ClientStep, Connect, Interrupt, Drop, Typed, RemoteType
  <2>2. SessionInv' /\ HeldInv'
    BY <2>0, <2>1, Untouched, SessionKept, ZenonT(30) DEF Session, SessionInv
  <2>3. QueueInv'
    BY <2>0, QueueSame, ZenonT(30) DEF Session, QueueInv, CtrlC
  <2>4. QED
    BY <2>2, <2>3, Zenon DEF Session
<1>12. QED
  BY <1>1, <1>2, <1>3, <1>4, <1>5, <1>6, <1>7, <1>8, <1>9, <1>10, <1>11, ZenonT(30)
  DEF MainActs, MainStep

-----------------------------------------------------------------------------
(* The session's bookkeeping: the invariant *)

\* It holds initially.
LEMMA InitSession == Init => Typed /\ Session
<1> SUFFICES ASSUME Init PROVE Typed /\ Session
  BY Zenon
<1>1. ASSUME NEW v \in Vcpus PROVE \E w \in {"pause", "none"} : vcpu[v] = NewVcpu(w)
  BY ZenonT(30) DEF Init
<1>2. ASSUME NEW w
      PROVE  /\ NewVcpu(w).pc = w /\ NewVcpu(w).run_state = "RUNNING" /\ NewVcpu(w).ss = FALSE
             /\ NewVcpu(w).signo = "none" /\ NewVcpu(w).event = "none" /\ NewVcpu(w).active = FALSE
  BY SMTT(30) DEF NewVcpu
<1>3. ASSUME NEW v \in Vcpus
      PROVE  vcpu[v].run_state = "RUNNING" /\ ~vcpu[v].ss /\ ~vcpu[v].active /\ Endless(vcpu[v])
  <2>1. PICK w \in {"pause", "none"} : vcpu[v] = NewVcpu(w)
    BY <1>1, Zenon
  <2>2. QED
    BY <1>2, <2>1, ZenonT(30) DEF Endless
<1>4. ASSUME NEW w \in {"pause", "none"} PROVE NewVcpu(w) \in VcpuType
  BY SMTT(30) DEF NewVcpu, VcpuType, Pcs, RunStates, Signos
<1>5. vcpu \in [Vcpus -> VcpuType]
  BY <1>1, <1>4, ZenonT(30) DEF Init
<1>6. gdbstub \in StubType
  <2>1. 1 \in Vcpus /\ <<>> \in Seq(Entries)
    BY GdbAssumption, SMTT(30) DEF Vcpus
  <2>2. QED
    BY <2>1, SMTT(30) DEF Init, StubType
<1>7. machine \in MachineType /\ remote \in RemoteType
  <2>1. scenario.waits \in BOOLEAN
    BY GdbAssumption, Zenon DEF Init, ScenarioOK
  <2>2. QED
    BY <2>1, SMTT(30) DEF Init, MachineType, RemoteType
<1>8. Typed
  BY <1>5, <1>6, <1>7, Zenon DEF Init, Typed, MainPcs
<1>9. /\ gdbstub.queue = <<>> /\ gdbstub.attached = FALSE /\ gdbstub.breakpoints = {}
      /\ main = "accept" /\ remote.client = "none"
  BY SMTT(30) DEF Init
<1>10. DOMAIN <<>> = {} /\ \A x : x \notin Range(<<>>)
  BY SMTT(30) DEF Range
<1>11. QueueInv
  BY <1>3, <1>9, <1>10, ZenonT(30) DEF QueueInv, Linked, Distinct
<1>12. SessionInv /\ HeldInv
  BY <1>3, <1>9, ZenonT(30) DEF SessionInv, HeldInv, Clean
<1>13. QED
  BY <1>8, <1>11, <1>12, Zenon DEF Session

\* Every step keeps it.
LEMMA NextSession ==
    ASSUME QueueLaws, IInv, Typed, Session, [Next]_vars
    PROVE  Typed' /\ Session'
<1>0. StopInv /\ Reports
  BY Zenon DEF IInv
<1>1. ASSUME NEW v \in Vcpus, VcpuStep(v) \/ PayloadStep(v) PROVE Typed' /\ Session'
  <2>1. VcpuEffect
    BY <1>0, <1>1, VcpuEffects, Zenon
  <2>2. Typed'
    BY <1>0, <1>1, TypedVcpuStep, Zenon
  <2>3. QueueInv'
    BY <2>1, QueueVcpu, Zenon DEF Session
  <2>4. SessionInv' /\ HeldInv'
    BY <1>0, <2>1, SessionVcpu, Zenon DEF Session
  <2>5. QED
    BY <2>2, <2>3, <2>4, Zenon DEF Session
<1>2. CASE MainActs
  BY <1>2, TypedMain, SessionMain, Zenon
<1>3. CASE UNCHANGED vars
  <2>1. UNCHANGED <<scenario, main, gdbstub, machine, vcpu, remote>>
    BY <1>3, Zenon DEF vars
  <2>2. Typed'
    BY <2>1, Zenon DEF Typed
  <2>3. SessionInv' /\ HeldInv'
    BY <2>1, ZenonT(30) DEF Session, SessionInv, HeldInv, Forks, Payload, Clean
  <2>4. QueueInv'
    BY <2>1, ZenonT(30) DEF Session, QueueInv, Linked, CtrlC, Payload
  <2>5. QED
    BY <2>2, <2>3, <2>4, Zenon DEF Session
<1>4. QED
  BY <1>1, <1>2, <1>3, Zenon DEF Next, MainActs

\* What the invariant says of a state and of a step.
LEMMA SessionSafe ==
    ASSUME QueueLaws, Typed, Session
    PROVE  SessionOk
<1>1. TypeOK
  <2>1. gdbstub.queue \in UNION {[1 .. n -> Vcpus \cup {Ge}] : n \in 0 .. N + 1}
    <3>1. gdbstub.queue \in Seq(Entries) /\ Distinct(gdbstub.queue)
      BY Zenon DEF Typed, StubType, Session, QueueInv
    <3>2. Len(gdbstub.queue) <= N + 1
      BY <3>1, Zenon DEF QueueLaws
    <3>3. Len(gdbstub.queue) \in 0 .. N + 1 /\ gdbstub.queue \in [1 .. Len(gdbstub.queue) -> Entries]
      BY <3>1, <3>2, GdbAssumption, SMTT(30)
    <3>4. QED
      BY <3>3, Zenon DEF Entries
  <2>2. gdbstub \in [attached : BOOLEAN, session_requested : BOOLEAN,
                     queue : UNION {[1 .. n -> Vcpus \cup {Ge}] : n \in 0 .. N + 1},
                     ge : Vcpus, stepping : BOOLEAN, breakpoints : SUBSET Addrs, seen : BOOLEAN]
    <3> DEFINE Q == UNION {[1 .. n -> Vcpus \cup {Ge}] : n \in 0 .. N + 1}
    <3>1. gdbstub.queue \in Q
      BY <2>1, Zenon
    <3> HIDE DEF Q
    <3>2. gdbstub \in [attached : BOOLEAN, session_requested : BOOLEAN, queue : Q,
                       ge : Vcpus, stepping : BOOLEAN, breakpoints : SUBSET Addrs, seen : BOOLEAN]
      BY <3>1, ZenonT(30) DEF Typed, StubType
    <3>3. QED
      BY <3>2, Zenon DEF Q
  <2>3. QED
    BY <2>2, Zenon DEF Typed, TypeOK, MachineType, VcpuType, RemoteType
<1>2. QueueOk
  BY Zenon DEF Session, QueueInv, QueueOk, Distinct, Linked
<1>3. GdbPausedStays
  BY Zenon DEF Session, HeldInv, GdbPausedStays, Live
<1>4. DetachClean
  BY ZenonT(30) DEF Session, SessionInv, DetachClean, MainAt, Live, Clean, Alive
<1>5. QED
  BY <1>1, <1>2, <1>3, <1>4, Zenon DEF SessionOk

\* A stop reply is sent out of "select", where the client of a session is owed one.
LEMMA ReplyOwed ==
    ASSUME Session
    PROVE  main = "select" /\ main' = "talk" /\ ~Payload("exit") => remote.owed \/ ~gdbstub.attached
  BY Zenon DEF Session, SessionInv, Late

-----------------------------------------------------------------------------
(* The laws of the queue *)
INSTANCE FiniteSetTheorems

\* The rank of a position among the kept ones is a bijection.
LEMMA Ranked ==
    ASSUME NEW n \in Nat, NEW K \in SUBSET (1 .. n)
    PROVE  /\ Cardinality(K) \in Nat
           /\ \A i \in K : Cardinality({j \in K : j <= i}) \in 1 .. Cardinality(K)
           /\ \A h, i \in K : Cardinality({j \in K : j <= h}) = Cardinality({j \in K : j <= i}) => h = i
           /\ \A k \in 1 .. Cardinality(K) : \E i \in K : Cardinality({j \in K : j <= i}) = k
           /\ 1 \in K => Cardinality({j \in K : j <= 1}) = 1
<1> DEFINE Up(i) == {j \in K : j <= i}
           c == Cardinality(K)
<1>0. \A i \in K : i \in Nat /\ 1 <= i
  BY SMTT(30)
<1>1. IsFiniteSet(K) /\ c \in Nat
  <2>1. 1 \in Int /\ n \in Int
    BY SMTT(30)
  <2>2. IsFiniteSet(1 .. n)
    BY <2>1, FS_Interval, Zenon
  <2>3. IsFiniteSet(K)
    BY <2>2, FS_Subset, Zenon
  <2>4. QED
    BY <2>3, FS_CardinalityType, Zenon
<1>2. ASSUME NEW i \in K PROVE IsFiniteSet(Up(i)) /\ Cardinality(Up(i)) \in Nat /\ Cardinality(Up(i)) <= c
  <2>1. Up(i) \in SUBSET K
    OBVIOUS
  <2> HIDE DEF Up
  <2>2. QED
    BY <1>1, <2>1, FS_Subset, FS_CardinalityType
<1>3. ASSUME NEW i \in K PROVE Cardinality(Up(i)) # 0
  <2>1. Up(i) # {}
    BY SMTT(30)
  <2> HIDE DEF Up
  <2>2. QED
    BY <1>2, <2>1, FS_EmptySet
<1>4. ASSUME NEW i \in K PROVE Cardinality(Up(i)) \in 1 .. c
  <2> HIDE DEF Up, c
  <2>1. QED
    BY <1>1, <1>2, <1>3, SMTT(30)
<1>5. ASSUME NEW h \in K, NEW i \in K, h < i PROVE Cardinality(Up(h)) # Cardinality(Up(i))
  <2>1. Up(h) \in SUBSET Up(i)
    <3>1. \A j \in K : j <= h => j <= i
      BY <1>0, <1>5, SMTT(30)
    <3>2. QED
      BY <3>1, Zenon
  <2>2. i \in Up(i) /\ i \notin Up(h)
    BY <1>0, <1>5, SMTT(30)
  <2> HIDE DEF Up
  <2>3. QED
    BY <1>2, <2>1, <2>2, FS_Subset
<1>6. ASSUME NEW h \in K, NEW i \in K, Cardinality(Up(h)) = Cardinality(Up(i)) PROVE h = i
  <2>1. h \in Int /\ i \in Int
    BY SMTT(30)
  <2>2. ~(h < i) /\ ~(i < h)
    BY <1>5, <1>6
  <2>3. QED
    BY <2>1, <2>2, SMTT(30)
<1>7. ASSUME NEW k \in 1 .. c PROVE \E i \in K : Cardinality(Up(i)) = k
  <2> DEFINE f == [i \in K |-> Cardinality(Up(i))]
  <2> HIDE DEF Up, c
  <2>1. f \in Injection(K, 1 .. c)
    BY <1>4, <1>6 DEF Injection, IsInjective
  <2>2. IsFiniteSet(1 .. c) /\ Cardinality(1 .. c) = c
    BY <1>1, FS_Interval, SMTT(30)
  <2>3. f \in Surjection(K, 1 .. c)
    BY <2>1, <2>2, FS_Injection DEF c
  <2>4. QED
    BY <2>3, Zenon DEF Surjection
<1>8. ASSUME 1 \in K PROVE Cardinality(Up(1)) = 1
  <2>1. Up(1) = {1}
    <3>1. \A j \in K : j <= 1 <=> j = 1
      BY <1>0, SMTT(30)
    <3>2. QED
      BY <1>8, <3>1, Zenon
  <2>2. QED
    BY <2>1, FS_Singleton
<1>9. QED
  BY <1>1, <1>4, <1>6, <1>7, <1>8, Zenon

\* The walk over the queue keeps the chosen entries, each once, in their order.
LEMMA RemainingOk == ASSUME NEW S, NEW q, NEW K PROVE RemainingLaw(S, q, K)
<1> SUFFICES ASSUME q \in Seq(S), K \subseteq DOMAIN q
             PROVE  /\ Remaining(q, K) \in Seq(S)
                    /\ \A e : e \in Range(Remaining(q, K)) <=> \E i \in K : q[i] = e
                    /\ Distinct(q) => Distinct(Remaining(q, K))
                    /\ 1 \in K => Remaining(q, K) # <<>> /\ Remaining(q, K)[1] = q[1]
  BY Zenon DEF RemainingLaw
<1> DEFINE R(i) == Cardinality({j \in K : j <= i})
           at(k) == CHOOSE i \in K : R(i) = k
           c == Cardinality(K)
           r == Remaining(q, K)
<1>0. Len(q) \in Nat /\ DOMAIN q = 1 .. Len(q) /\ K \in SUBSET (1 .. Len(q)) /\ \A i \in 1 .. Len(q) : q[i] \in S
  BY SMTT(30)
<1>1. /\ c \in Nat
      /\ \A i \in K : R(i) \in 1 .. c
      /\ \A h, i \in K : R(h) = R(i) => h = i
      /\ \A k \in 1 .. c : \E i \in K : R(i) = k
      /\ 1 \in K => R(1) = 1
  BY <1>0, Ranked, Zenon
<1>2. r = [k \in 1 .. c |-> q[at(k)]]
  BY Zenon DEF Remaining
<1> HIDE DEF R, r, c
<1>3. ASSUME NEW k \in 1 .. c PROVE at(k) \in K /\ R(at(k)) = k
  BY <1>1, Zenon
<1>4. ASSUME NEW i \in K PROVE at(R(i)) = i
  BY <1>1, <1>3, Zenon
<1> HIDE DEF at
<1>5. /\ DOMAIN r = 1 .. c /\ \A k \in 1 .. c : r[k] = q[at(k)]
  BY <1>2, Zenon
<1>6. r \in Seq(S)
  <2>1. \A k \in 1 .. c : q[at(k)] \in S
    BY <1>0, <1>3, Zenon
  <2>2. r \in [1 .. c -> S]
    BY <1>2, <2>1, Zenon
  <2>3. QED
    BY <1>1, <2>2, SMTT(30)
<1>7. ASSUME NEW e PROVE e \in Range(r) <=> \E i \in K : q[i] = e
  <2>1. ASSUME e \in Range(r) PROVE \E i \in K : q[i] = e
    BY <1>3, <1>5, <2>1, Zenon DEF Range
  <2>2. ASSUME NEW i \in K, q[i] = e PROVE e \in Range(r)
    <3>1. R(i) \in 1 .. c /\ at(R(i)) = i
      BY <1>1, <1>4, Zenon
    <3>2. R(i) \in DOMAIN r /\ r[R(i)] = e
      BY <1>5, <2>2, <3>1
    <3>3. QED
      BY <3>2, Zenon DEF Range
  <2>3. QED
    BY <2>1, <2>2, Zenon
<1>8. ASSUME Distinct(q) PROVE Distinct(r)
  <2>1. ASSUME NEW h \in 1 .. c, NEW k \in 1 .. c, r[h] = r[k] PROVE h = k
    BY <1>0, <1>3, <1>5, <1>8, <2>1, ZenonT(30) DEF Distinct
  <2>2. QED
    BY <1>5, <2>1, Zenon DEF Distinct
<1>9. ASSUME 1 \in K PROVE r # <<>> /\ r[1] = q[1]
  <2>1. 1 \in 1 .. c /\ at(1) = 1
    <3>1. R(1) = 1 /\ R(1) \in 1 .. c /\ at(R(1)) = 1
      BY <1>1, <1>4, <1>9, Zenon
    <3>2. QED
      BY <3>1
  <2>2. 1 \in DOMAIN r /\ r[1] = q[1]
    BY <1>5, <2>1
  <2>3. r # <<>>
    <3>1. ASSUME r = <<>> PROVE FALSE
      <4>1. DOMAIN r = {}
        BY <3>1, SMTT(30)
      <4>2. QED
        BY <2>2, <4>1, Zenon
    <3>2. QED
      BY <3>1, Zenon
  <2>4. QED
    BY <2>2, <2>3, Zenon
<1>10. QED
  BY <1>6, <1>7, <1>8, <1>9, Zenon DEF r

\* Of some numbers there is a least.
LEMMA Least == ASSUME NEW T \in SUBSET Nat, T # {} PROVE \E x \in T : \A y \in T : x <= y
<1> DEFINE R == StrictSubsetOrdering(Nat)
           S == FiniteSubsetsOf(Nat)
           F == {0 .. x : x \in T}
<1>1. IsWellFoundedOn(R, S)
  BY FS_StrictSubsetOrderingWellFounded
<1>2. F \subseteq S
  <2>1. ASSUME NEW x \in T PROVE 0 .. x \in S
    BY FS_Interval, SMTT(30) DEF FiniteSubsetsOf
  <2>2. QED
    BY <2>1
<1>3. F # {}
  BY Zenon
<1> HIDE DEF R, S, F
<1>4. \E f \in F : \A g \in F : ~ (<<g, f>> \in R)
  BY <1>1, <1>2, <1>3, WFMin
<1>5. PICK x \in T : \A y \in T : ~ (<<0 .. y, 0 .. x>> \in R)
  BY <1>4, Zenon DEF F
<1>6. ASSUME NEW y \in T PROVE x <= y
  <2>1. CASE y < x
    <3>1. 0 .. y \subseteq 0 .. x /\ 0 .. y # 0 .. x
      BY <2>1, SMTT(30)
    <3>2. <<0 .. y, 0 .. x>> \in R
      BY <3>1, SMTT(30) DEF R, StrictSubsetOrdering
    <3>3. QED
      BY <3>2, <1>5
  <2>2. QED
    BY <2>1, SMTT(30)
<1>7. QED
  BY <1>6

\* What the lemmas above take for granted of the queue and the vcpus.
LEMMA QueueLawsHold == QueueLaws
<1>1. \A S, q, K : RemainingLaw(S, q, K)
  BY RemainingOk, Zenon
<1>2. ASSUME NEW R \in SUBSET Vcpus, R # {} PROVE \E v \in R : \A u \in R : v <= u
  <2>1. R \in SUBSET Nat
    BY SMTT(30) DEF Vcpus
  <2>2. QED
    BY <1>2, <2>1, Least, Zenon
<1>3. ASSUME NEW q \in Seq(Entries), Distinct(q) PROVE Len(q) <= N + 1
  <2>1. N \in Nat /\ Entries = 0 .. N
    BY GdbAssumption, SMTT(30) DEF Entries, Vcpus, Ge
  <2>2. IsFiniteSet(Entries) /\ Cardinality(Entries) = N + 1
    <3>1. 0 \in Int /\ N \in Int
      BY <2>1, SMTT(30)
    <3>2. IsFiniteSet(0 .. N) /\ Cardinality(0 .. N) = IF 0 > N THEN 0 ELSE N - 0 + 1
      BY <3>1, FS_Interval, Zenon
    <3>3. (IF 0 > N THEN 0 ELSE N - 0 + 1) = N + 1
      BY <2>1, SMTT(30)
    <3>4. QED
      BY <2>1, <3>2, <3>3, Zenon
  <2>3. Len(q) \in Nat /\ DOMAIN q = 1 .. Len(q) /\ q \in [1 .. Len(q) -> Entries]
    BY <1>3, SMTT(30)
  <2>4. q \in Injection(1 .. Len(q), Entries)
    BY <1>3, <2>3, Zenon DEF Injection, IsInjective, Distinct
  <2>5. Cardinality(1 .. Len(q)) <= Cardinality(Entries)
    BY <2>2, <2>4, FS_Injection, Zenon
  <2>6. Cardinality(1 .. Len(q)) = Len(q)
    <3>1. 1 \in Int /\ Len(q) \in Int
      BY <2>3, SMTT(30)
    <3>2. QED
      BY <2>3, <3>1, FS_Interval, SMTT(30)
  <2>7. QED
    BY <2>2, <2>5, <2>6, Zenon
<1>4. QED
  BY <1>1, <1>2, <1>3, Zenon DEF QueueLaws

\* The session's invariant holds in every reachable state of the stub.
LEMMA SessionAlways == Spec => [](IInv /\ Typed /\ Session)
<1>1. Init => Typed /\ Session
  BY InitSession, Zenon
<1>2. IInv /\ Typed /\ Session /\ [Next]_vars => Typed' /\ Session'
  BY NextSession, QueueLawsHold, Zenon
<1>3. QED
  BY <1>1, <1>2, IInvCorrect, PTL DEF Spec

\* The bookkeeping of a session: for every number of vcpus, breakpoints, clients
\* and payload the event queue holds an entry once and agrees with the marks
\* entry_is_active, a thread that the client has not resumed executes no guest
\* code, and a stub that waits for a client has left nothing of the last one in
\* the vcpus; with the reservations of QueueOk, GdbPausedStays and DetachClean.
THEOREM SessionCorrect == Spec => []SessionOk
<1>1. IInv /\ Typed /\ Session => SessionOk
  BY SessionSafe, QueueLawsHold, Zenon
<1>2. QED
  BY <1>1, SessionAlways, PTL

\* A client is sent a stop reply only when it waits for one, whatever the number
\* of vcpus and of commands before, if the payload's threads do not end.
THEOREM StopReplyCorrect == Spec => StopReplyOwed
<1>1. IInv /\ Typed /\ Session
        => [main = "select" /\ main' = "talk" /\ ~Payload("exit")
              => remote.owed \/ ~gdbstub.attached]_vars
  BY ReplyOwed, Zenon
<1>2. QED
  BY <1>1, SessionAlways, PTL DEF StopReplyOwed

=============================================================================
