--------------------------- MODULE VcpuPauseProofs ---------------------------
(* km_vcpu_pause_all stops the world, for every number of vcpus, as long as    *)
(* every km_vcpu_put holds vm_vcpu_mtx and one kind of request resumes vcpus;  *)
(* and what is torn down at the end is quiet, whoever resumes.                 *)
EXTENDS VcpuRunProofs

\* No thread gets past a stop or comes into the scan by the step.
NoNewStop ==
    \A t \in Threads :
        /\ StopsWorld(t)' => StopsWorld(t)
        /\ pc'[t] = "scan" => pc[t] = "scan" /\ ret'[t] = ret[t]
        /\ pc'[t] = "apply_all" => pc[t] \in {"apply_all", "scan"} /\ ret'[t] = ret[t]

\* While a pause or the exit holds them back, vcpus that are still stay still.
KeepsStill == pause_requested \/ exit_group => \A v \in Vcpus : Still(v) => Still(v)'

\* A thread runs a vcpu, or is the main or the management thread.
LEMMA ThreadKinds ==
    /\ Vcpus \subseteq Threads /\ Main \in Threads \ Vcpus /\ Mgt \in Threads \ Vcpus /\ Main # Mgt
    /\ \A t \in Threads : t \in Vcpus \/ t = Main \/ t = Mgt
    /\ NoThread \notin Threads
  BY ConstantsAssumption DEF ConstantsAssumption, Vcpus, Threads, Mgt, Main, NoThread

\* Steps that neither stop nor resume anybody keep the invariant.
LEMMA PauseFrame ==
    ASSUME PauseInv, RolesOk', NoNewStop, KeepsStill, Running' => Running,
           pause_requested => pause_requested', exit_group => exit_group', scan' = scan
    PROVE  PauseInv'
<1> SUFFICES ASSUME Running' PROVE (HeldBack /\ ScanOk /\ StoppedOk)'
  BY Zenon DEF PauseInv
<1>1. HeldBack /\ ScanOk /\ StoppedOk
  BY Zenon DEF PauseInv
<1>2. HeldBack'
  BY Zenon, <1>1 DEF HeldBack, InPauseAll, PauseType, PausePCs, NoNewStop
<1>3. ScanOk'
  <2> SUFFICES ASSUME NEW t \in Threads, pc'[t] = "scan", PauseType(t)' = "ALL", scan'.count = 0,
                      NEW v \in Vcpus, v < scan'.i, v # t
               PROVE  Still(v)'
    BY Zenon DEF ScanOk
  <2>1. pc[t] = "scan" /\ PauseType(t) = "ALL"
    BY Zenon DEF NoNewStop, PauseType
  <2>2. pause_requested \/ exit_group
    BY Zenon, <1>1, <2>1 DEF HeldBack, InPauseAll, PausePCs
  <2>3. Still(v)
    BY Zenon, <1>1, <2>1 DEF ScanOk
  <2>4. QED
    BY Zenon, <2>2, <2>3 DEF KeepsStill
<1>4. StoppedOk'
  <2> SUFFICES ASSUME NEW t \in Threads, StopsWorld(t)', NEW v \in Vcpus, v # t
               PROVE  Still(v)'
    BY Zenon DEF StoppedOk
  <2>1. StopsWorld(t)
    BY Zenon DEF NoNewStop
  <2>2. pause_requested \/ exit_group
    BY Zenon, <1>1, <2>1 DEF HeldBack
  <2>3. Still(v)
    BY Zenon, <1>1, <2>1 DEF StoppedOk
  <2>4. QED
    BY Zenon, <2>2, <2>3 DEF KeepsStill
<1>5. QED
  BY Zenon, <1>2, <1>3, <1>4

-----------------------------------------------------------------------------
\* The types that the steps below use.
LEMMA PauseTypes ==
    ASSUME TypeOK
    PROVE /\ state \in [Vcpus -> States]
          /\ pc \in [Threads -> VcpuPCs \cup MgtPCs \cup MainPCs]
          /\ \A u \in Vcpus : pc[u] \in VcpuPCs
          /\ pc[Main] \in MainPCs /\ pc[Mgt] \in MgtPCs
          /\ ret \in [Threads -> Returns] /\ exit_group \in BOOLEAN /\ pause_requested \in BOOLEAN
          /\ Vcpus \subseteq Threads /\ Main \in Threads \ Vcpus /\ Mgt \in Threads \ Vcpus /\ Main # Mgt
          /\ \A t \in Threads : t \in Vcpus \/ t = Main \/ t = Mgt
          /\ NoThread \notin Threads
          /\ vcpu_mtx \in Threads \cup {NoThread}
          /\ scan \in [i : 1 .. MaxVcpus + 1, count : Nat]
          /\ freed \in 0 .. vm_vcpu_cnt /\ vm_vcpu_cnt \in 0 .. MaxVcpus
  BY Zenon, ThreadKinds DEF TypeOK, VcpuTypeOK, PcTypeOK, ListTypeOK, PauseTypeOK

\* km_vcpu_get takes a vcpu out of its rest, but only when vm_vcpu_mtx is free,
\* so that nobody scans, and from a vcpu that is not still, so that nobody has
\* stopped the world.
LEMMA PauseCloneGet ==
    ASSUME Inv, SingleResumer, NEW v \in Vcpus, CloneGet(v) PROVE PauseInv'
<1>0. TypeOK /\ PauseInv /\ RolesOk
  BY Zenon DEF Inv, ListInv, PauseInv
<1>1. \E l \in {"handle_pause", "clone_run"} : pc' = [pc EXCEPT ![v] = l]
  BY Zenon DEF CloneGet, GetFails, GetIdle, GetNew, Goto
<1>2. pc[v] = "clone_get" /\ MtxFree /\ UNCHANGED <<flagVars, scanVars, freed>>
  BY Zenon DEF CloneGet
<1>3. RolesOk'
  BY <1>0, <1>1, <1>2, PauseTypes DEF RolesOk, PausePCs, SnapshotPCs, Running, flagVars, scanVars
<1>4. Running' => Running
  BY Zenon, <1>0, <1>1, PauseTypes DEF Running
<1>5. \A t \in Threads : ~StopsWorld(t)' \/ ~Running
  BY Zenon, <1>0, <1>1, <1>2, PauseTypes DEF PauseInv, StoppedOk, StopsWorld, Still
<1>6. \A t \in Threads : pc'[t] # "scan"
  BY Zenon, <1>0, <1>2, <1>3, PauseTypes DEF RolesOk, MtxFree, scanVars
<1>7. Running => HeldBack'
  BY Zenon, <1>0, <1>1, <1>2, <1>5, PauseTypes
  DEF PauseInv, HeldBack, InPauseAll, PauseType, PausePCs, flagVars, scanVars
<1>8. QED
  BY Zenon, <1>3, <1>4, <1>5, <1>6, <1>7 DEF PauseInv, ScanOk, StoppedOk

\* km_vcpu_pause_all sets pause_requested before it first looks at the vcpus.
LEMMA PauseRequestPause ==
    ASSUME Inv, NEW t \in Threads, RequestPause(t) PROVE PauseInv'
<1>0. TypeOK /\ PauseInv /\ RolesOk
  BY Zenon DEF Inv, ListInv, PauseInv
<1>1. /\ pc[t] = "pause_all" /\ pause_requested' /\ pc' = [pc EXCEPT ![t] = "apply_all"]
      /\ UNCHANGED <<state, freed, exit_group, fork_in_progress, scanVars>>
  BY Zenon DEF RequestPause, Goto
<1>2. RolesOk'
  BY <1>0, <1>1, PauseTypes DEF RolesOk, PausePCs, SnapshotPCs, Running, scanVars
<1>3. Running' => Running
  BY Zenon, <1>0, <1>1, PauseTypes DEF Running
<1>4. HeldBack'
  BY Zenon, <1>1 DEF HeldBack
<1>5. \A u \in Threads : (StopsWorld(u)' => StopsWorld(u)) /\ (pc'[u] = "scan" => pc[u] = "scan")
  BY Zenon, <1>0, <1>1, PauseTypes DEF StopsWorld
<1>6. \A v \in Vcpus : Still(v) => Still(v)'
  BY Zenon, <1>0, <1>1, PauseTypes DEF Still
<1>7. Running => ScanOk' /\ StoppedOk'
  BY Zenon, <1>0, <1>1, <1>5, <1>6 DEF PauseInv, ScanOk, StoppedOk, PauseType, scanVars
<1>8. QED
  BY Zenon, <1>2, <1>3, <1>4, <1>7 DEF PauseInv

\* A scan starts before the first vcpu.
LEMMA PauseApplyAll ==
    ASSUME Inv, NEW t \in Threads, ApplyAll(t) PROVE PauseInv'
<1>0. TypeOK /\ PauseInv /\ RolesOk
  BY Zenon DEF Inv, ListInv, PauseInv
<1>1. /\ pc[t] = "apply_all" /\ vcpu_mtx = NoThread /\ vcpu_mtx' = t
      /\ scan' = [i |-> 1, count |-> 0] /\ pc' = [pc EXCEPT ![t] = "scan"]
      /\ UNCHANGED <<state, freed, flagVars, ret>>
  BY Zenon DEF ApplyAll, Goto, MtxFree
<1>2. RolesOk'
  BY Zenon, <1>0, <1>1, PauseTypes DEF RolesOk, PausePCs, SnapshotPCs, Running, flagVars
<1>3. Running' => Running
  BY Zenon, <1>0, <1>1, PauseTypes DEF Running
<1>4. Running => HeldBack'
  BY Zenon, <1>0, <1>1, PauseTypes
     DEF PauseInv, HeldBack, InPauseAll, PauseType, PausePCs, StopsWorld, flagVars
<1>5. ScanOk'
  <2>1. \A v \in Vcpus : ~(v < scan'.i)
    BY <1>1 DEF Vcpus
  <2>2. QED
    BY Zenon, <2>1 DEF ScanOk
<1>6. Running => StoppedOk'
  BY <1>0, <1>1, PauseTypes DEF PauseInv, StoppedOk, StopsWorld, Still, flagVars
<1>7. QED
  BY Zenon, <1>2, <1>3, <1>4, <1>5, <1>6 DEF PauseInv

\* A vcpu that the scan does not count is parked or paused, and its thread is
\* where its state says.
LEMMA PauseScanVcpu ==
    ASSUME Inv, NEW t \in Threads, ScanVcpu(t) PROVE PauseInv'
<1>0. TypeOK /\ PauseInv /\ RolesOk /\ StateOk
  BY Zenon DEF Inv, ListInv, PauseInv
<1>1. PICK i \in Vcpus : i = scan.i
  BY <1>0, PauseTypes, ConstantsAssumption DEF ScanVcpu, Vcpus, ConstantsAssumption
<1>2. /\ pc[t] = "scan" /\ scan'.i = i + 1
      /\ scan'.count = IF Counts(t, i) THEN scan.count + 1 ELSE scan.count
      /\ UNCHANGED <<state, freed, pc, flagVars, vcpu_mtx, ret>>
  BY Zenon, <1>1 DEF ScanVcpu
<1>3. RolesOk'
  BY Zenon, <1>0, <1>2 DEF RolesOk, Running, flagVars
<1>4. (HeldBack' <=> HeldBack) /\ (StoppedOk' <=> StoppedOk) /\ (Running' <=> Running)
  BY <1>2 DEF HeldBack, StoppedOk, InPauseAll, PauseType, StopsWorld, Still, Running, flagVars
<1>5. ASSUME Running PROVE ScanOk'
  <2> SUFFICES ASSUME NEW u \in Threads, pc'[u] = "scan", PauseType(u)' = "ALL", scan'.count = 0,
                      NEW v \in Vcpus, v < scan'.i, v # u
               PROVE  Still(v)'
    BY Zenon DEF ScanOk
  <2>1. u = t
    BY Zenon, <1>0, <1>2, PauseTypes DEF RolesOk
  <2>2. scan.count = 0 /\ ~Counts(t, i) /\ PauseType(t) = "ALL"
    BY <1>0, <1>2, <2>1, PauseTypes DEF PauseType
  <2>3. CASE v = i
    <3>1. state[v] \in {"PARKED_IDLE", "PAUSED"}
      BY Zenon, <2>1, <2>2, <2>3 DEF Counts
    <3>2. Still(v)
      BY Zenon, <1>0, <3>1 DEF StateOk, Resting, Still
    <3>3. QED
      BY Zenon, <1>2, <3>2 DEF Still, flagVars
  <2>4. CASE v # i
    <3>1. v < scan.i
      BY <1>1, <1>2, <2>4 DEF Vcpus
    <3>2. Still(v)
      BY <1>0, <1>2, <1>5, <2>1, <2>2, <3>1 DEF PauseInv, ScanOk
    <3>3. QED
      BY Zenon, <1>2, <3>2 DEF Still, flagVars
  <2>5. QED
    BY Zenon, <2>3, <2>4
<1>6. QED
  BY Zenon, <1>0, <1>3, <1>4, <1>5 DEF PauseInv

\* A scan that ends with nobody counted has passed every vcpu there is.
LEMMA PauseScanEnds ==
    ASSUME Inv, NEW t \in Threads, ScanEnds(t) PROVE PauseInv'
<1>0. TypeOK /\ PauseInv /\ RolesOk /\ SlotsOk
  BY Zenon DEF Inv, ListInv, PauseInv
<1>1. /\ pc[t] = "scan" /\ vcpu_mtx' = NoThread /\ vcpu_mtx = t
      /\ UNCHANGED <<state, freed, flagVars, scan, ret>>
      /\ t \in Vcpus \/ t = Mgt
  BY Zenon, <1>0, PauseTypes DEF ScanEnds, RolesOk, MainPCs
<1>2. /\ pc' = [pc EXCEPT ![t] = IF scan.count = 0 THEN ret[t] ELSE "apply_all"]
      /\ ret[t] \in {"exit_fini", "snap_create", "fatal_dump"}
      /\ t = Mgt => ret[t] = "snap_create"
  BY Zenon, <1>0, <1>1, PauseTypes DEF ScanEnds, Goto, RolesOk, Returns, PausePCs
<1>3. RolesOk'
  BY <1>0, <1>1, <1>2, PauseTypes DEF RolesOk, PausePCs, SnapshotPCs, Running, flagVars
<1>4. Running' => Running
  BY Zenon, <1>0, <1>1, <1>2, PauseTypes DEF Running
<1>5. \A v \in Vcpus : Still(v) /\ v # t => Still(v)'
  BY Zenon, <1>0, <1>1, <1>2, PauseTypes DEF Still, flagVars
<1>6. \A u \in Threads : pc'[u] # "scan"
  BY SMTT(40), <1>0, <1>1, <1>3, PauseTypes DEF RolesOk
<1>7. Running => HeldBack'
  <2>1. \A u \in Threads : u # t => pc'[u] = pc[u]
    BY Zenon, <1>0, <1>2, PauseTypes
  <2>2. StopsWorld(t)' => InPauseAll(t)
    BY Zenon, <1>0, <1>1, <1>2, PauseTypes DEF StopsWorld, InPauseAll, PauseType, PausePCs
  <2>3. InPauseAll(t)' => InPauseAll(t)
    BY Zenon, <1>1 DEF InPauseAll, PauseType, PausePCs
  <2>4. QED
    BY Zenon, <1>0, <1>1, <2>1, <2>2, <2>3
       DEF PauseInv, HeldBack, InPauseAll, PauseType, StopsWorld, flagVars
<1>8. ASSUME Running, NEW u \in Threads, StopsWorld(u)', NEW v \in Vcpus, v # u PROVE Still(v)'
  <2>1. CASE u = t
    <3>1. scan.count = 0 /\ PauseType(t) = "ALL"
      BY SMTT(40), <1>0, <1>1, <1>2, <1>8, <2>1, PauseTypes DEF StopsWorld, PauseType
    <3>2. CASE v < scan.i
      BY Zenon, <1>0, <1>1, <1>5, <1>8, <2>1, <3>1, <3>2 DEF PauseInv, ScanOk
    <3>3. CASE ~(v < scan.i)
      <4>1. freed = 0
        BY Zenon, <1>0, <1>8 DEF RolesOk
      <4>2. v \notin Allocated
        BY <1>0, <3>3, <4>1, PauseTypes DEF ScanEnds, Allocated, Vcpus
      <4>3. state[v] = "NONE" /\ pc[v] = "none"
        BY Zenon, <1>0, <4>2 DEF SlotsOk
      <4>4. QED
        BY <1>5, <1>8, <2>1, <4>3 DEF Still
    <3>4. QED
      BY <3>2, <3>3
  <2>2. CASE u # t
    <3>1. StopsWorld(u)
      BY Zenon, <1>0, <1>2, <1>8, <2>2, PauseTypes DEF StopsWorld
    <3>2. Still(v) /\ (t \in Vcpus => Still(t))
      BY Zenon, <1>0, <1>8, <2>2, <3>1 DEF PauseInv, StoppedOk
    <3>3. v # t
      BY Zenon, <1>1, <3>2 DEF Still
    <3>4. QED
      BY Zenon, <1>5, <3>2, <3>3
  <2>3. QED
    BY Zenon, <2>1, <2>2
<1>9. QED
  BY Zenon, <1>3, <1>4, <1>6, <1>7, <1>8 DEF PauseInv, ScanOk, StoppedOk

\* km_vcpu_resume_all clears the flag for everybody, but when it is called
\* nobody else has stopped the world or is about to.
LEMMA PauseSnapshotResume ==
    ASSUME Inv, SingleResumer, NEW t \in Threads, SnapshotResume(t) PROVE PauseInv'
<1>0. TypeOK /\ PauseInv /\ RolesOk
  BY Zenon DEF Inv, ListInv, PauseInv
<1>1. PICK l \in {"idle", "handle_pause", "exited", "exit_all"} :
        /\ t \in Vcpus => l # "idle"
        /\ pc' = [u \in Threads |-> IF u = t THEN l
                                    ELSE IF pc[u] = "paused" THEN "woken" ELSE pc[u]]
        /\ t = Mgt => l \in {"idle", "exited"}
  BY <1>0, PauseTypes DEF SnapshotResume, ResumeAll, Continue
<1>2. /\ pc[t] \in {"resume_cont", "resume_stop"} /\ (t \in Vcpus \/ t = Mgt)
      /\ UNCHANGED <<state, freed, exit_group, fork_in_progress, scanVars>>
  BY Zenon, <1>0, PauseTypes DEF SnapshotResume, MainPCs
<1>3. RolesOk'
  BY <1>0, <1>1, <1>2, PauseTypes DEF RolesOk, PausePCs, SnapshotPCs, Running, scanVars
<1>4. Running' => Running
  BY Zenon, <1>0, <1>1, <1>2, PauseTypes DEF Running
<1>5. StopsWorld(t)
  BY Zenon, <1>2 DEF StopsWorld
<1>6. \A u \in Threads : /\ StopsWorld(u)' => StopsWorld(u) /\ u # t
                         /\ InPauseAll(u)' => InPauseAll(u) /\ u # t
                         /\ pc'[u] = "scan" => pc[u] = "scan"
  BY Zenon, <1>0, <1>1, <1>2, PauseTypes DEF StopsWorld, InPauseAll, PauseType, PausePCs, scanVars
<1>7. ASSUME Running, ~exit_group, NEW u \in Threads, u # t PROVE ~StopsWorld(u) /\ ~InPauseAll(u)
  <2>1. CASE u \in Vcpus
    <3>1. Still(u)
      BY Zenon, <1>0, <1>5, <1>7, <2>1 DEF PauseInv, StoppedOk
    <3>2. QED
      BY Zenon, <1>7, <3>1 DEF Still, StopsWorld, InPauseAll, PausePCs
  <2>2. CASE u = Mgt
    <3>1. t \in Vcpus /\ "snapshot" \in Hypercalls
      BY Zenon, <1>0, <1>2, <1>7, <2>2 DEF RolesOk, SnapshotPCs
    <3>2. pc[Mgt] \in {"idle", "exited"}
      BY Zenon, <1>0, <3>1 DEF RolesOk, SingleResumer
    <3>3. QED
      BY Zenon, <2>2, <3>2 DEF StopsWorld, InPauseAll, PausePCs
  <2>3. CASE u = Main
    BY Zenon, <1>0, <2>3, PauseTypes DEF MainPCs, StopsWorld, InPauseAll, PausePCs
  <2>4. QED
    BY Zenon, <1>0, <2>1, <2>2, <2>3, PauseTypes
<1>8. Running => HeldBack'
  BY Zenon, <1>2, <1>6, <1>7 DEF HeldBack
<1>9. \A v \in Vcpus : Still(v) /\ v # t => Still(v)'
  BY Zenon, <1>0, <1>1, <1>2, PauseTypes DEF Still
<1>10. \A v \in Vcpus : v = t => ~Still(v)
  BY Zenon, <1>2 DEF Still
<1>11. Running => ScanOk' /\ StoppedOk'
  BY SMTT(40), <1>0, <1>2, <1>6, <1>9, <1>10 DEF PauseInv, ScanOk, StoppedOk, PauseType, scanVars
<1>12. QED
  BY Zenon, <1>3, <1>4, <1>8, <1>11 DEF PauseInv

-----------------------------------------------------------------------------
\* Every step of KM keeps the invariant of a pause, when one kind of requester
\* resumes.
LEMMA PauseStep ==
    ASSUME LockedPuts, SingleResumer PROVE Inv /\ [Next]_vars => PauseInv'
<1> SUFFICES ASSUME Inv, [Next]_vars PROVE PauseInv'
  BY Zenon
<1>a. LockedPuts /\ SingleResumer /\ Inv /\ PauseInv /\ ListInv /\ TypeOK'
  BY Zenon, TypeStep DEF Inv, ListInv
<1>b. /\ state \in [Vcpus -> States] /\ state' \in [Vcpus -> States]
      /\ pc \in [Threads -> VcpuPCs \cup MgtPCs \cup MainPCs]
      /\ \A u \in Vcpus : pc[u] \in VcpuPCs
      /\ pc[Main] \in MainPCs /\ pc[Mgt] \in MgtPCs
      /\ ret \in [Threads -> Returns] /\ exit_group \in BOOLEAN /\ pause_requested \in BOOLEAN
      /\ Vcpus \subseteq Threads /\ Main \in Threads \ Vcpus /\ Mgt \in Threads \ Vcpus /\ Main # Mgt
      /\ \A t \in Threads : t \in Vcpus \/ t = Main \/ t = Mgt
      /\ NoThread \notin Threads
  BY Zenon, <1>a, ThreadKinds DEF ListInv, TypeOK, VcpuTypeOK, PcTypeOK, ListTypeOK, PauseTypeOK
<1>c. RolesOk /\ StateOk
  BY SMTT(40), <1>a DEF PauseInv, ListInv
<1>1. ASSUME NEW v \in Vcpus, HandlePause(v) PROVE PauseInv'
  <2>1. RolesOk'
    BY <1>1, <1>b, <1>c
       DEF HandlePause, MustPause, RolesOk, Running, Goto, SetState, PausePCs, SnapshotPCs, flagVars, scanVars
  <2>2. NoNewStop
    BY Zenon, <1>1, <1>b, <1>c DEF HandlePause, MustPause, NoNewStop, StopsWorld, Goto, scanVars
  <2>3. KeepsStill
    BY Zenon, <1>1, <1>b, <1>c
       DEF HandlePause, MustPause, KeepsStill, Still, Goto, SetState, flagVars
  <2>4. Running' => Running
    BY Zenon, <1>1, <1>b, <1>c DEF HandlePause, MustPause, Running, Goto
  <2>5. exit_group => exit_group'
    BY <1>1, <1>b, <1>c DEF HandlePause, MustPause, flagVars
  <2>6. QED
    BY SMTT(30), <1>1, <1>b, <1>c, <1>a, <2>1, <2>2, <2>3, <2>4, <2>5, PauseFrame
       DEF HandlePause, MustPause, flagVars, scanVars
<1>2. ASSUME NEW v \in Vcpus, SpuriousResume(v) PROVE PauseInv'
  <2>1. RolesOk'
    BY <1>2, <1>b, <1>c
       DEF SpuriousResume, RolesOk, Running, Goto, SetState, PausePCs, SnapshotPCs, flagVars, scanVars
  <2>2. NoNewStop
    BY Zenon, <1>2, <1>b, <1>c DEF SpuriousResume, NoNewStop, StopsWorld, Goto, scanVars
  <2>3. KeepsStill
    BY Zenon, <1>2, <1>b, <1>c DEF SpuriousResume, KeepsStill, Still, Goto, SetState, flagVars
  <2>4. Running' => Running
    BY <1>2, <1>b, <1>c DEF SpuriousResume, Running, Goto
  <2>5. exit_group => exit_group'
    BY SMTT(40), <1>2, <1>b, <1>c DEF SpuriousResume, flagVars
  <2>6. QED
    BY SMTT(40), <1>2, <1>b, <1>c, <1>a, <2>1, <2>2, <2>3, <2>4, <2>5, PauseFrame
       DEF SpuriousResume, flagVars, scanVars
<1>3. ASSUME NEW v \in Vcpus, LeavePause(v) PROVE PauseInv'
  <2>1. RolesOk'
    BY SMTT(40), <1>3, <1>b, <1>c
       DEF LeavePause, RolesOk, Running, Goto, SetState, PausePCs, SnapshotPCs, flagVars, scanVars
  <2>2. NoNewStop
    BY Zenon, <1>3, <1>b, <1>c DEF LeavePause, NoNewStop, StopsWorld, Goto, scanVars
  <2>3. KeepsStill
    BY Zenon, <1>3, <1>b, <1>c DEF LeavePause, KeepsStill, Still, Goto, SetState, flagVars
  <2>4. Running' => Running
    BY Zenon, <1>3, <1>b, <1>c DEF LeavePause, Running, Goto
  <2>5. exit_group => exit_group'
    BY SMTT(40), <1>3, <1>b, <1>c DEF LeavePause, flagVars
  <2>6. QED
    BY Zenon, <1>3, <1>b, <1>c, <1>a, <2>1, <2>2, <2>3, <2>4, <2>5, PauseFrame
       DEF LeavePause, flagVars, scanVars
<1>4. ASSUME NEW v \in Vcpus, KvmRun(v) PROVE PauseInv'
  <2>1. RolesOk'
    BY SMTT(40), <1>4, <1>b, <1>c
       DEF KvmRun, RolesOk, Running, Goto, SetState, PausePCs, SnapshotPCs, flagVars, scanVars
  <2>2. NoNewStop
    BY Zenon, <1>4, <1>b, <1>c DEF KvmRun, NoNewStop, StopsWorld, Goto, scanVars
  <2>3. KeepsStill
    BY Zenon, <1>4, <1>b, <1>c DEF KvmRun, KeepsStill, Still, Goto, SetState, flagVars
  <2>4. Running' => Running
    BY SMTT(40), <1>4, <1>b, <1>c DEF KvmRun, Running, Goto
  <2>5. exit_group => exit_group'
    BY SMTT(40), <1>4, <1>b, <1>c DEF KvmRun, flagVars
  <2>6. QED
    BY SMTT(30), <1>4, <1>b, <1>c, <1>a, <2>1, <2>2, <2>3, <2>4, <2>5, PauseFrame
       DEF KvmRun, flagVars, scanVars
<1>5. ASSUME NEW v \in Vcpus, KvmExitIo(v) PROVE PauseInv'
  <2>1. RolesOk'
    BY Zenon, <1>5, <1>b, <1>c
       DEF KvmExitIo, RolesOk, Running, Goto, SetState, PausePCs, SnapshotPCs, flagVars, scanVars
  <2>2. NoNewStop
    BY Zenon, <1>5, <1>b, <1>c DEF KvmExitIo, NoNewStop, StopsWorld, Goto, scanVars
  <2>3. KeepsStill
    BY Zenon, <1>5, <1>b, <1>c DEF KvmExitIo, KeepsStill, Still, Goto, SetState, flagVars
  <2>4. Running' => Running
    BY SMTT(40), <1>5, <1>b, <1>c DEF KvmExitIo, Running, Goto
  <2>5. exit_group => exit_group'
    BY Zenon, <1>5, <1>b, <1>c DEF KvmExitIo, flagVars
  <2>6. QED
    BY Zenon, <1>5, <1>b, <1>c, <1>a, <2>1, <2>2, <2>3, <2>4, <2>5, PauseFrame
       DEF KvmExitIo, flagVars, scanVars
<1>6. ASSUME NEW v \in Vcpus, StopSignal(v) PROVE PauseInv'
  <2>1. RolesOk'
    BY <1>6, <1>b, <1>c
       DEF StopSignal, RolesOk, Running, Goto, SetState, PausePCs, SnapshotPCs, flagVars, scanVars
  <2>2. NoNewStop
    BY Zenon, <1>6, <1>b, <1>c DEF StopSignal, NoNewStop, StopsWorld, Goto, scanVars
  <2>3. KeepsStill
    BY Zenon, <1>6, <1>b, <1>c DEF StopSignal, KeepsStill, Still, Goto, SetState, flagVars
  <2>4. Running' => Running
    BY Zenon, <1>6, <1>b, <1>c DEF StopSignal, Running, Goto
  <2>5. exit_group => exit_group'
    BY Zenon, <1>6, <1>b, <1>c DEF StopSignal, flagVars
  <2>6. QED
    BY Zenon, <1>6, <1>b, <1>c, <1>a, <2>1, <2>2, <2>3, <2>4, <2>5, PauseFrame
       DEF StopSignal, flagVars, scanVars
<1>7. ASSUME NEW v \in Vcpus, Hypercall(v) PROVE PauseInv'
  <2>h. PICK h \in Hypercalls : Goto(v, Entry(h))
    BY Zenon, <1>7 DEF Hypercall
  <2>e. /\ Entry(h) \in {"handle_pause", "blocked", "suspended", "clone_get", "stopped", "exit_all", "snap_block", "fatal"}
        /\ Entry(h) = "snap_block" => "snapshot" \in Hypercalls
    BY ZenonT(30), <1>a, ConstantsAssumption
       DEF ConstantsAssumption, AllHypercalls, Entry, SingleResumer
  <2>1. RolesOk'
    BY <1>7, <1>b, <1>c, <2>h, <2>e
       DEF Hypercall, RolesOk, Running, Goto, SetState, PausePCs, SnapshotPCs, flagVars, scanVars
  <2>2. NoNewStop
    BY Zenon, <1>7, <1>b, <1>c, <2>h, <2>e DEF Hypercall, NoNewStop, StopsWorld, Goto, scanVars
  <2>3. KeepsStill
    BY Zenon, <1>7, <1>b, <1>c, <2>h, <2>e DEF Hypercall, KeepsStill, Still, Goto, SetState, flagVars
  <2>4. Running' => Running
    BY <1>7, <1>b, <1>c, <2>h, <2>e DEF Hypercall, Running, Goto
  <2>5. exit_group => exit_group'
    BY SMTT(40), <1>7, <1>b, <1>c, <2>h, <2>e DEF Hypercall, flagVars
  <2>6. QED
    BY SMTT(30), <1>7, <1>b, <1>c, <2>h, <2>e, <1>a, <2>1, <2>2, <2>3, <2>4, <2>5, PauseFrame
       DEF Hypercall, flagVars, scanVars
<1>8. ASSUME NEW v \in Vcpus, HypercallReturns(v) PROVE PauseInv'
  <2>1. RolesOk'
    BY SMTT(40), <1>8, <1>b, <1>c
       DEF HypercallReturns, RolesOk, Running, Goto, SetState, PausePCs, SnapshotPCs, flagVars, scanVars
  <2>2. NoNewStop
    BY Zenon, <1>8, <1>b, <1>c DEF HypercallReturns, NoNewStop, StopsWorld, Goto, scanVars
  <2>3. KeepsStill
    BY Zenon, <1>8, <1>b, <1>c DEF HypercallReturns, KeepsStill, Still, Goto, SetState, flagVars
  <2>4. Running' => Running
    BY SMTT(40), <1>8, <1>b, <1>c DEF HypercallReturns, Running, Goto
  <2>5. exit_group => exit_group'
    BY Zenon, <1>8, <1>b, <1>c DEF HypercallReturns, flagVars
  <2>6. QED
    BY Zenon, <1>8, <1>b, <1>c, <1>a, <2>1, <2>2, <2>3, <2>4, <2>5, PauseFrame
       DEF HypercallReturns, flagVars, scanVars
<1>9. ASSUME NEW v \in Vcpus, CloneGet(v) PROVE PauseInv'
  BY Zenon, <1>9, <1>a, PauseCloneGet
<1>10. ASSUME NEW v \in Vcpus, CloneRun(v) PROVE PauseInv'
  <2>n. PICK new \in Vcpus : /\ new = child[v] /\ new # v /\ pc[new] # "parking" /\ Resting(new)
                               /\ (state[new] = "STARTING" \/ pc[new] = "exited")
    BY Zenon, <1>10, <1>a DEF CloneRun, Inv, ListInv, CloneOk, Resting, TypeOK, ListTypeOK
  <2>p. /\ pc[v] = "clone_run"
        /\ state' = [state EXCEPT ![new] = "HYPERCALL"]
        /\ \/ pc' = [pc EXCEPT ![v] = "handle_pause", ![new] = IF @ = "parked" THEN "waking" ELSE @]
           \/ pc' = [pc EXCEPT ![v] = "handle_pause", ![new] = "handle_pause"] /\ pc[new] = "none"
        /\ UNCHANGED <<flagVars, scanVars, freed>>
    BY Zenon, <1>10, <1>a, <2>n DEF CloneRun, SetState, Inv, ListInv, SlotsOk, LockedPuts
  <2>1. RolesOk'
    BY SMTT(40), <1>b, <1>c, <2>n, <2>p
       DEF Resting, RolesOk, Running, Goto, SetState, PausePCs, SnapshotPCs, flagVars, scanVars
  <2>2. NoNewStop
    BY SMTT(40), <1>b, <1>c, <2>n, <2>p DEF Resting, NoNewStop, StopsWorld, Goto, scanVars
  <2>3. KeepsStill
    BY SMTT(40), <1>b, <1>c, <2>n, <2>p DEF Resting, KeepsStill, Still, Goto, SetState, flagVars
  <2>4. Running' => Running
    BY Zenon, <1>b, <1>c, <2>n, <2>p DEF Resting, Running, Goto
  <2>5. exit_group => exit_group'
    BY SMTT(40), <1>b, <1>c, <2>n, <2>p DEF Resting, flagVars
  <2>6. QED
    BY SMTT(40), <1>b, <1>c, <2>n, <2>p, <1>a, <2>1, <2>2, <2>3, <2>4, <2>5, PauseFrame
       DEF Resting, flagVars, scanVars
<1>11. ASSUME NEW v \in Vcpus, ClonePut(v) PROVE PauseInv'
  BY Zenon, <1>11, <1>a DEF ClonePut, Inv, ListInv, CloneOk
<1>12. ASSUME NEW v \in Vcpus, CloneDec(v) PROVE PauseInv'
  BY Zenon, <1>12, <1>a DEF CloneDec, Inv, ListInv, CloneOk
<1>13. ASSUME NEW v \in Vcpus, Stopped(v) PROVE PauseInv'
  <2>1. RolesOk'
    BY Zenon, <1>13, <1>b, <1>c
       DEF Stopped, RolesOk, Running, Goto, SetState, PausePCs, SnapshotPCs, flagVars, scanVars
  <2>2. NoNewStop
    BY Zenon, <1>13, <1>b, <1>c DEF Stopped, NoNewStop, StopsWorld, Goto, scanVars
  <2>3. KeepsStill
    BY SMTT(40), <1>13, <1>b, <1>c DEF Stopped, KeepsStill, Still, Goto, SetState, flagVars
  <2>4. Running' => Running
    BY Zenon, <1>13, <1>b, <1>c DEF Stopped, Running, Goto
  <2>5. exit_group => exit_group'
    BY Zenon, <1>13, <1>b, <1>c DEF Stopped, flagVars
  <2>6. QED
    BY SMTT(40), <1>13, <1>b, <1>c, <1>a, <2>1, <2>2, <2>3, <2>4, <2>5, PauseFrame
       DEF Stopped, flagVars, scanVars
<1>14. ASSUME NEW v \in Vcpus, Park(v) PROVE PauseInv'
  <2>1. RolesOk'
    BY SMTT(40), <1>14, <1>b, <1>c
       DEF Park, RolesOk, Running, Goto, SetState, PausePCs, SnapshotPCs, flagVars, scanVars
  <2>2. NoNewStop
    BY Zenon, <1>14, <1>b, <1>c DEF Park, NoNewStop, StopsWorld, Goto, scanVars
  <2>3. KeepsStill
    BY Zenon, <1>14, <1>b, <1>c DEF Park, KeepsStill, Still, Goto, SetState, flagVars
  <2>4. Running' => Running
    BY Zenon, <1>14, <1>b, <1>c DEF Park, Running, Goto
  <2>5. exit_group => exit_group'
    BY SMTT(40), <1>14, <1>b, <1>c DEF Park, flagVars
  <2>6. QED
    BY SMTT(40), <1>14, <1>b, <1>c, <1>a, <2>1, <2>2, <2>3, <2>4, <2>5, PauseFrame
       DEF Park, flagVars, scanVars
<1>15. ASSUME NEW v \in Vcpus, SpuriousUnpark(v) PROVE PauseInv'
  <2>1. RolesOk'
    BY Zenon, <1>15, <1>b, <1>c
       DEF SpuriousUnpark, RolesOk, Running, Goto, SetState, PausePCs, SnapshotPCs, flagVars, scanVars
  <2>2. NoNewStop
    BY Zenon, <1>15, <1>b, <1>c DEF SpuriousUnpark, NoNewStop, StopsWorld, Goto, scanVars
  <2>3. KeepsStill
    BY Zenon, <1>15, <1>b, <1>c DEF SpuriousUnpark, KeepsStill, Still, Goto, SetState, flagVars
  <2>4. Running' => Running
    BY Zenon, <1>15, <1>b, <1>c DEF SpuriousUnpark, Running, Goto
  <2>5. exit_group => exit_group'
    BY <1>15, <1>b, <1>c DEF SpuriousUnpark, flagVars
  <2>6. QED
    BY SMTT(40), <1>15, <1>b, <1>c, <1>a, <2>1, <2>2, <2>3, <2>4, <2>5, PauseFrame
       DEF SpuriousUnpark, flagVars, scanVars
<1>16. ASSUME NEW v \in Vcpus, Unpark(v) PROVE PauseInv'
  <2>1. RolesOk'
    BY SMTT(40), <1>16, <1>b, <1>c
       DEF Unpark, RolesOk, Running, Goto, SetState, PausePCs, SnapshotPCs, flagVars, scanVars
  <2>2. NoNewStop
    BY Zenon, <1>16, <1>b, <1>c DEF Unpark, NoNewStop, StopsWorld, Goto, scanVars
  <2>3. KeepsStill
    BY Zenon, <1>16, <1>b, <1>c DEF Unpark, KeepsStill, Still, Goto, SetState, flagVars
  <2>4. Running' => Running
    BY Zenon, <1>16, <1>b, <1>c DEF Unpark, Running, Goto
  <2>5. exit_group => exit_group'
    BY <1>16, <1>b, <1>c DEF Unpark, flagVars
  <2>6. QED
    BY SMTT(40), <1>16, <1>b, <1>c, <1>a, <2>1, <2>2, <2>3, <2>4, <2>5, PauseFrame
       DEF Unpark, flagVars, scanVars
<1>17. ASSUME NEW v \in Vcpus, ExitAll(v) PROVE PauseInv'
  <2>1. RolesOk'
    BY SMTT(40), <1>17, <1>b, <1>c
       DEF ExitAll, PauseAll, RolesOk, Running, Goto, SetState, PausePCs, SnapshotPCs, flagVars, scanVars
  <2>2. NoNewStop
    BY Zenon, <1>17, <1>b, <1>c DEF ExitAll, PauseAll, NoNewStop, StopsWorld, Goto, scanVars
  <2>3. KeepsStill
    BY Zenon, <1>17, <1>b, <1>c
       DEF ExitAll, PauseAll, KeepsStill, Still, Goto, SetState, flagVars
  <2>4. Running' => Running
    BY Zenon, <1>17, <1>b, <1>c DEF ExitAll, PauseAll, Running, Goto
  <2>5. exit_group => exit_group'
    BY Zenon, <1>17, <1>b, <1>c DEF ExitAll, PauseAll, flagVars
  <2>6. QED
    BY SMTT(40), <1>17, <1>b, <1>c, <1>a, <2>1, <2>2, <2>3, <2>4, <2>5, PauseFrame
       DEF ExitAll, PauseAll, flagVars, scanVars
<1>18. ASSUME NEW v \in Vcpus, ExitFini(v) PROVE PauseInv'
  <2>1. RolesOk'
    BY Zenon, <1>18, <1>b, <1>c
       DEF ExitFini, RolesOk, Running, Goto, SetState, PausePCs, SnapshotPCs, flagVars, scanVars
  <2>2. NoNewStop
    BY Zenon, <1>18, <1>b, <1>c DEF ExitFini, NoNewStop, StopsWorld, Goto, scanVars
  <2>3. KeepsStill
    BY Zenon, <1>18, <1>b, <1>c DEF ExitFini, KeepsStill, Still, Goto, SetState, flagVars
  <2>4. Running' => Running
    BY Zenon, <1>18, <1>b, <1>c DEF ExitFini, Running, Goto
  <2>5. exit_group => exit_group'
    BY Zenon, <1>18, <1>b, <1>c DEF ExitFini, flagVars
  <2>6. QED
    BY SMTT(40), <1>18, <1>b, <1>c, <1>a, <2>1, <2>2, <2>3, <2>4, <2>5, PauseFrame
       DEF ExitFini, flagVars, scanVars
<1>19. ASSUME NEW v \in Vcpus, Fatal(v) PROVE PauseInv'
  <2>1. RolesOk'
    BY Zenon, <1>19, <1>b, <1>c
       DEF Fatal, PauseAll, RolesOk, Running, Goto, SetState, PausePCs, SnapshotPCs, flagVars, scanVars
  <2>2. NoNewStop
    BY Zenon, <1>19, <1>b, <1>c DEF Fatal, PauseAll, NoNewStop, StopsWorld, Goto, scanVars
  <2>3. KeepsStill
    BY Zenon, <1>19, <1>b, <1>c DEF Fatal, PauseAll, KeepsStill, Still, Goto, SetState, flagVars
  <2>4. Running' => Running
    BY Zenon, <1>19, <1>b, <1>c DEF Fatal, PauseAll, Running, Goto
  <2>5. exit_group => exit_group'
    BY Zenon, <1>19, <1>b, <1>c DEF Fatal, PauseAll, flagVars
  <2>6. QED
    BY SMTT(40), <1>19, <1>b, <1>c, <1>a, <2>1, <2>2, <2>3, <2>4, <2>5, PauseFrame
       DEF Fatal, PauseAll, flagVars, scanVars
<1>20. ASSUME NEW v \in Vcpus, FatalDump(v) PROVE PauseInv'
  <2>1. RolesOk'
    BY Zenon, <1>20, <1>b, <1>c
       DEF FatalDump, MainPCs, RolesOk, Running, Goto, SetState, PausePCs, SnapshotPCs, flagVars, scanVars
  <2>2. ~Running'
    BY Zenon, <1>20, <1>b, <1>c DEF FatalDump, MainPCs, Running, Goto
  <2>3. QED
    BY SMTT(40), <2>1, <2>2 DEF PauseInv
<1>21. ASSUME NEW v \in Vcpus, BeforeFork(v) PROVE PauseInv'
  BY ZenonT(30), <1>21, <1>a DEF BeforeFork, Inv, PauseInv, RolesOk
<1>22. ASSUME NEW v \in Vcpus, ForkKick(v) PROVE PauseInv'
  BY ZenonT(30), <1>22, <1>a DEF ForkKick, Inv, PauseInv, RolesOk
<1>23. ASSUME NEW t \in Threads, RequestPause(t) PROVE PauseInv'
  BY Zenon, <1>23, <1>a, PauseRequestPause
<1>24. ASSUME NEW t \in Threads, ApplyAll(t) PROVE PauseInv'
  BY Zenon, <1>24, <1>a, PauseApplyAll
<1>25. ASSUME NEW t \in Threads, ScanVcpu(t) PROVE PauseInv'
  BY Zenon, <1>25, <1>a, PauseScanVcpu
<1>26. ASSUME NEW t \in Threads, ScanEnds(t) PROVE PauseInv'
  BY Zenon, <1>26, <1>a, PauseScanEnds
<1>27. ASSUME NEW t \in Threads, SnapshotBlock(t) PROVE PauseInv'
  <2>1. RolesOk'
    BY SMTT(40), <1>27, <1>b, <1>c
       DEF SnapshotBlock, PauseAll, Continue, RolesOk, Running, Goto, SetState, PausePCs, SnapshotPCs, flagVars, scanVars
  <2>2. NoNewStop
    BY Zenon, <1>27, <1>b, <1>c
       DEF SnapshotBlock, PauseAll, Continue, NoNewStop, StopsWorld, Goto, scanVars
  <2>3. KeepsStill
    BY Zenon, <1>27, <1>b, <1>c
       DEF SnapshotBlock, PauseAll, Continue, KeepsStill, Still, Goto, SetState, flagVars
  <2>4. Running' => Running
    BY Zenon, <1>27, <1>b, <1>c DEF SnapshotBlock, PauseAll, Continue, Running, Goto
  <2>5. exit_group => exit_group'
    BY <1>27, <1>b, <1>c DEF SnapshotBlock, PauseAll, Continue, flagVars
  <2>6. QED
    BY SMTT(40), <1>27, <1>b, <1>c, <1>a, <2>1, <2>2, <2>3, <2>4, <2>5, PauseFrame
       DEF SnapshotBlock, PauseAll, Continue, flagVars, scanVars
<1>28. ASSUME NEW t \in Threads, SnapshotCreate(t) PROVE PauseInv'
  <2>1. RolesOk'
    BY <1>28, <1>b, <1>c
       DEF SnapshotCreate, RolesOk, Running, Goto, SetState, PausePCs, SnapshotPCs, flagVars, scanVars
  <2>2. NoNewStop
    BY Zenon, <1>28, <1>b, <1>c DEF SnapshotCreate, NoNewStop, StopsWorld, Goto, scanVars
  <2>3. KeepsStill
    BY Zenon, <1>28, <1>b, <1>c DEF SnapshotCreate, KeepsStill, Still, Goto, SetState, flagVars
  <2>4. Running' => Running
    BY Zenon, <1>28, <1>b, <1>c DEF SnapshotCreate, Running, Goto
  <2>5. exit_group => exit_group'
    BY ZenonT(30), <1>28, <1>b, <1>c DEF SnapshotCreate, flagVars
  <2>6. QED
    BY SMTT(40), <1>28, <1>b, <1>c, <1>a, <2>1, <2>2, <2>3, <2>4, <2>5, PauseFrame
       DEF SnapshotCreate, flagVars, scanVars
<1>29. ASSUME NEW t \in Threads, SnapshotUnblock(t) PROVE PauseInv'
  <2>1. RolesOk'
    BY <1>29, <1>b, <1>c
       DEF SnapshotUnblock, RolesOk, Running, Goto, SetState, PausePCs, SnapshotPCs, flagVars, scanVars
  <2>2. NoNewStop
    BY Zenon, <1>29, <1>b, <1>c DEF SnapshotUnblock, NoNewStop, StopsWorld, Goto, scanVars
  <2>3. KeepsStill
    BY Zenon, <1>29, <1>b, <1>c DEF SnapshotUnblock, KeepsStill, Still, Goto, SetState, flagVars
  <2>4. Running' => Running
    BY Zenon, <1>29, <1>b, <1>c DEF SnapshotUnblock, Running, Goto
  <2>5. exit_group => exit_group'
    BY <1>29, <1>b, <1>c DEF SnapshotUnblock, flagVars
  <2>6. QED
    BY SMTT(40), <1>29, <1>b, <1>c, <1>a, <2>1, <2>2, <2>3, <2>4, <2>5, PauseFrame
       DEF SnapshotUnblock, flagVars, scanVars
<1>30. ASSUME NEW t \in Threads, SnapshotResume(t) PROVE PauseInv'
  BY Zenon, <1>30, <1>a, PauseSnapshotResume
<1>31. ASSUME MgtRequest PROVE PauseInv'
  <2>1. RolesOk'
    BY SMTT(40), <1>31, <1>b, <1>c
       DEF MgtRequest, RolesOk, Running, Goto, SetState, PausePCs, SnapshotPCs, flagVars, scanVars
  <2>2. NoNewStop
    BY Zenon, <1>31, <1>b, <1>c DEF MgtRequest, NoNewStop, StopsWorld, Goto, scanVars
  <2>3. KeepsStill
    BY Zenon, <1>31, <1>b, <1>c DEF MgtRequest, KeepsStill, Still, Goto, SetState, flagVars
  <2>4. Running' => Running
    BY SMTT(40), <1>31, <1>b, <1>c DEF MgtRequest, Running, Goto
  <2>5. exit_group => exit_group'
    BY <1>31, <1>b, <1>c DEF MgtRequest, flagVars
  <2>6. QED
    BY SMTT(40), <1>31, <1>b, <1>c, <1>a, <2>1, <2>2, <2>3, <2>4, <2>5, PauseFrame
       DEF MgtRequest, flagVars, scanVars
<1>32. ASSUME MainWakes PROVE PauseInv'
  <2>1. RolesOk'
    BY SMTT(40), <1>32, <1>b, <1>c
       DEF MainWakes, RolesOk, Running, Goto, SetState, PausePCs, SnapshotPCs, flagVars, scanVars
  <2>2. NoNewStop
    BY Zenon, <1>32, <1>b, <1>c DEF MainWakes, NoNewStop, StopsWorld, Goto, scanVars
  <2>3. KeepsStill
    BY Zenon, <1>32, <1>b, <1>c DEF MainWakes, KeepsStill, Still, Goto, SetState, flagVars
  <2>4. Running' => Running
    BY SMTT(40), <1>32, <1>b, <1>c DEF MainWakes, Running, Goto
  <2>5. exit_group => exit_group'
    BY <1>32, <1>b, <1>c DEF MainWakes, flagVars
  <2>6. QED
    BY Zenon, <1>32, <1>b, <1>c, <1>a, <2>1, <2>2, <2>3, <2>4, <2>5, PauseFrame
       DEF MainWakes, flagVars, scanVars
<1>33. ASSUME MainDofork PROVE PauseInv'
  <2>1. RolesOk'
    BY <1>33, <1>b, <1>c
       DEF MainDofork, RolesOk, Running, Goto, SetState, PausePCs, SnapshotPCs, flagVars, scanVars
  <2>2. NoNewStop
    BY Zenon, <1>33, <1>b, <1>c DEF MainDofork, NoNewStop, StopsWorld, Goto, scanVars
  <2>3. KeepsStill
    BY Zenon, <1>33, <1>b, <1>c DEF MainDofork, KeepsStill, Still, Goto, SetState, flagVars
  <2>4. Running' => Running
    BY SMTT(40), <1>33, <1>b, <1>c DEF MainDofork, Running, Goto
  <2>5. exit_group => exit_group'
    BY SMTT(40), <1>33, <1>b, <1>c DEF MainDofork, flagVars
  <2>6. QED
    BY Zenon, <1>33, <1>b, <1>c, <1>a, <2>1, <2>2, <2>3, <2>4, <2>5, PauseFrame
       DEF MainDofork, flagVars, scanVars
<1>34. ASSUME MainForked PROVE PauseInv'
  BY ZenonT(30), <1>34, <1>a DEF MainForked, Inv, PauseInv, RolesOk
<1>35. ASSUME MainResumes PROVE PauseInv'
  BY ZenonT(30), <1>35, <1>a DEF MainResumes, Inv, PauseInv, RolesOk
<1>36. ASSUME MainFini PROVE PauseInv'
  <2>1. RolesOk'
    BY SMTT(40), <1>36, <1>b, <1>c
       DEF MainFini, RolesOk, Running, Goto, SetState, PausePCs, SnapshotPCs, flagVars, scanVars
  <2>2. ~Running'
    BY Zenon, <1>36, <1>b, <1>c DEF MainFini, Running, Goto
  <2>3. QED
    BY Zenon, <2>1, <2>2 DEF PauseInv
<1>37. ASSUME MainJoins PROVE PauseInv'
  <2>1. RolesOk'
    BY Zenon, <1>37, <1>b, <1>c
       DEF MainJoins, RolesOk, Running, Goto, SetState, PausePCs, SnapshotPCs, flagVars, scanVars
  <2>2. ~Running'
    BY Zenon, <1>37, <1>b, <1>c DEF MainJoins, Running, Goto
  <2>3. QED
    BY Zenon, <2>1, <2>2 DEF PauseInv
<1>38. CASE UNCHANGED vars
  <2>1. RolesOk'
    BY Zenon, <1>38, <1>c DEF vars, RolesOk, Running, flagVars, scanVars
  <2>2. NoNewStop /\ KeepsStill /\ (Running' => Running)
    BY Zenon, <1>38 DEF vars, NoNewStop, StopsWorld, KeepsStill, Still, Running, flagVars, scanVars
  <2>3. QED
    BY SMTT(40), <1>38, <1>a, <2>1, <2>2, PauseFrame DEF vars, flagVars, scanVars
<1>39. QED
  BY SMTT(40), <1>1, <1>2, <1>3, <1>4, <1>5, <1>6, <1>7, <1>8, <1>9, <1>10, <1>11, <1>12,
     <1>13, <1>14, <1>15, <1>16, <1>17, <1>18, <1>19, <1>20, <1>21, <1>22, <1>23, <1>24,
     <1>25, <1>26, <1>27, <1>28, <1>29, <1>30, <1>31, <1>32, <1>33, <1>34, <1>35, <1>36,
     <1>37, <1>38,
     VcpusAreThreads, MgtIsThread
  DEF Next, Dead, VcpuNext, MgtNext, MainNext, Pauser, Snapshot

\* No pause is under way when the payload starts.
LEMMA PauseInit == Init => PauseInv
<1> SUFFICES ASSUME Init PROVE PauseInv
  BY Zenon
<1>0. /\ pc[Main] = "wait" /\ pc[Mgt] = "idle"
      /\ \A v \in Vcpus : pc[v] \in {"handle_pause", "none"}
  BY ThreadKinds DEF Init, Main
<1>1. RolesOk
  BY Zenon, <1>0, ThreadKinds DEF Init, RolesOk, PausePCs, SnapshotPCs
<1>2. \A t \in Threads : ~StopsWorld(t) /\ ~InPauseAll(t) /\ pc[t] # "scan"
  BY Zenon, <1>0, ThreadKinds DEF StopsWorld, InPauseAll, PausePCs
<1>3. QED
  BY Zenon, <1>1, <1>2 DEF PauseInv, HeldBack, ScanOk, StoppedOk

\* The whole invariant of vcpu states, the idle list and the pause protocol: a
\* scan that counts nobody has seen every vcpu parked or paused, and they stay so
\* until the one requester resumes them.
THEOREM PauseInvariant == ASSUME LockedPuts, SingleResumer PROVE Spec => []Inv
<1>1. Init => Inv
  BY Zenon, ListInit, PauseInit DEF Inv
<1>2. Inv /\ [Next]_vars => Inv'
  BY Zenon, ListStep, PauseStep DEF Inv
<1>3. QED
  BY <1>1, <1>2, PTL DEF Spec

\* A snapshot, or the end of the process by exit_group, finds every other vcpu
\* at rest when km_vcpu_pause_all(ALL) has returned, until it resumes them.
THEOREM StopTheWorldCorrect ==
    ASSUME LockedPuts, SingleResumer PROVE Spec => []StopTheWorld
<1>1. Inv => StopTheWorld
  <2> SUFFICES ASSUME Inv, NEW t \in Threads, StopsWorld(t), Running, NEW v \in Vcpus \ {t}
               PROVE  Quiet(v)
    BY Zenon DEF StopTheWorld, Running
  <2>1. Still(v)
    BY Zenon DEF Inv, PauseInv, StoppedOk
  <2>2. QED
    BY Zenon, <2>1 DEF Still, Quiet
<1>2. QED
  BY <1>1, PauseInvariant, PTL

-----------------------------------------------------------------------------
(* The teardown.  Forks and any number of resumers are allowed here.         *)

\* A sequence of n different numbers of 1 .. n has all of them (AllTaken, below,
\* proves it): the lemmas that count vcpus take it as a hypothesis.
Pigeonhole ==
    \A n \in Nat : \A s \in Seq(1 .. n) :
        Len(s) = n /\ (\A i, j \in 1 .. n : s[i] = s[j] => i = j)
            => \A v \in 1 .. n : \E i \in 1 .. n : s[i] = v

\* When nothing runs every vcpu is in the idle list, its thread at rest.
LEMMA ZeroRests == ASSUME Pigeonhole PROVE ListInv /\ run_cnt = 0 => \A v \in Vcpus : Resting(v)
<1> SUFFICES ASSUME ListInv, run_cnt = 0, NEW v \in Vcpus PROVE Resting(v)
  BY Zenon
<1>1. CASE v \in Allocated
  <2>1. /\ vm_vcpu_cnt \in Nat /\ Len(idle) = vm_vcpu_cnt /\ idle \in Seq(Vcpus)
        /\ \A i \in 1 .. Len(idle) : idle[i] \in 1 .. vm_vcpu_cnt
        /\ \A i, j \in 1 .. Len(idle) : idle[i] = idle[j] => i = j
    BY DEF ListInv, TypeOK, VcpuTypeOK, ListTypeOK, IdleOk, Allocated
  <2>2. idle \in Seq(1 .. vm_vcpu_cnt)
    BY <2>1
  <2>3. \A u \in 1 .. vm_vcpu_cnt : \E i \in 1 .. Len(idle) : idle[i] = u
    BY <2>1, <2>2, ZenonT(30) DEF Pigeonhole
  <2>4. QED
    BY <1>1, <2>3 DEF ListInv, IdleOk, Allocated
<1>2. CASE v \notin Allocated
  BY Zenon, <1>2 DEF ListInv, SlotsOk, Resting
<1>3. QED
  BY Zenon, <1>1, <1>2

\* The same after a step.
LEMMA ZeroRestsNext == ASSUME Pigeonhole PROVE ListInv' /\ run_cnt' = 0 => \A v \in Vcpus : Resting(v)'
<1>1. (ListInv /\ run_cnt = 0 => \A v \in Vcpus : Resting(v))'
  BY ZeroRests, PTL
<1>2. QED
  BY Zenon, <1>1

\* What most steps leave to vcpu u: it stays stopped when it was stopped for
\* good, and it comes no closer to an exit, a fork or a scan.
Harmless(u) ==
    /\ exit_group /\ Still(u) => Still(u)'
    /\ exit_group /\ (\A w \in Vcpus : Quiet(w)) => Quiet(u)'
    /\ InExit(u)' => InExit(u)
    /\ InFork(u)' => InFork(u)
    /\ pc'[u] = "exit_fini" => pc[u] = "exit_fini"
    /\ pc'[u] = "scan" => ret'[u] = ret[u]

\* A step that wakes nobody, scans nothing and keeps run_cnt.
LEMMA TeardownFrame ==
    ASSUME ExitOk, ForkOk, \A u \in Vcpus : Harmless(u), exit_group => exit_group',
           \A t \in Threads : pc'[t] = "scan" <=> pc[t] = "scan", pc'[Main] = pc[Main],
           UNCHANGED <<run_cnt, shutdown_fd, fork_in_progress, freed, scan, vcpu_mtx>>
    PROVE  ExitOk' /\ ForkOk'
<1>1. ExitOk'
  <2>1. /\ \A t \in Threads : pc'[t] = "scan" <=> vcpu_mtx' = t
        /\ Running' => freed' = 0
        /\ Running' => Running
    BY Zenon DEF ExitOk, Running
  <2>2. \A u \in Vcpus : InExit(u)' => exit_group'
    BY Zenon DEF ExitOk, Harmless
  <2>3. ASSUME Running, NEW v \in Vcpus, pc'[v] = "scan", ret'[v] = "exit_fini", scan'.count = 0,
               NEW u \in Vcpus, u < scan'.i, u # v
        PROVE  Still(u)'
    <3>1. v \in Threads /\ pc[v] = "scan" /\ ret[v] = "exit_fini"
      BY Zenon, <2>3, ThreadKinds DEF Harmless
    <3>2. exit_group /\ Still(u)
      BY Zenon, <2>3, <3>1 DEF ExitOk, InExit, PausePCs
    <3>3. QED
      BY <3>2 DEF Harmless
  <2>4. ASSUME Running, NEW v \in Vcpus, pc'[v] = "exit_fini", NEW u \in Vcpus, u # v
        PROVE  Still(u)'
    <3>1. exit_group /\ Still(u)
      BY Zenon, <2>4 DEF ExitOk, InExit, Harmless
    <3>2. QED
      BY Zenon, <3>1 DEF Harmless
  <2>5. QED
    BY Zenon, <2>1, <2>2, <2>3, <2>4 DEF ExitOk
<1>2. Ready => Ready'
  BY Zenon DEF Ready, Harmless
<1>3. ForkOk'
  BY Zenon, <1>2 DEF ForkOk, Harmless
<1>4. QED
  BY Zenon, <1>1, <1>3

\* A vcpu that is not at rest, not in the idle list, means that the machine is
\* not ready for teardown.
LEMMA BusyNotReady ==
    ASSUME Pigeonhole, ListInv, NEW v \in Vcpus, ~Quiet(v) PROVE ~Ready
<1>1. ~Resting(v)
  BY Zenon DEF Quiet, Resting
<1>2. QED
  BY Zenon, <1>1, ZeroRests DEF Ready

\* km_vcpu_get happens before any exit.
LEMMA TeardownGet ==
    ASSUME Pigeonhole, ListInv, ExitOk, ForkOk, NEW v \in Vcpus, CloneGet(v), ~GetFails(v)
    PROVE  ExitOk' /\ ForkOk'
<1>0. TypeOK
  BY Zenon DEF ListInv
<1>1. /\ pc[v] = "clone_get" /\ pc' = [pc EXCEPT ![v] = "clone_run"] /\ ~exit_group
      /\ UNCHANGED <<freed, flagVars, scanVars>>
  BY Zenon DEF CloneGet, GetIdle, GetNew, Goto
<1>2. ~Ready
  BY Zenon, <1>1, BusyNotReady DEF Quiet
<1>3. \A u \in Vcpus : ~InExit(u) /\ ~InExit(u)' /\ (InFork(u)' => InFork(u))
  BY Zenon, <1>0, <1>1, PauseTypes DEF ExitOk, InExit, InFork, PausePCs, scanVars
<1>4. pc'[Main] = pc[Main] /\ \A t \in Threads : pc'[t] = "scan" <=> pc[t] = "scan"
  BY Zenon, <1>0, <1>1, PauseTypes
<1>5. ExitOk'
  BY Zenon, <1>1, <1>3, <1>4 DEF ExitOk, InExit, PausePCs, Running, flagVars, scanVars
<1>6. ForkOk'
  BY Zenon, <1>1, <1>2, <1>3, <1>4 DEF ForkOk, flagVars
<1>7. QED
  BY Zenon, <1>5, <1>6

\* The last vcpu that parks wakes the main thread.
LEMMA TeardownStopped ==
    ASSUME Pigeonhole, ListInv, ListInv', ExitOk, ForkOk, NEW v \in Vcpus, Stopped(v)
    PROVE  ExitOk' /\ ForkOk'
<1>0. TypeOK
  BY Zenon DEF ListInv
<1>1. /\ pc[v] = "stopped" /\ pc' = [pc EXCEPT ![v] = "parking"] /\ run_cnt' = run_cnt - 1
      /\ state' = [state EXCEPT ![v] = "PARKED_IDLE"]
      /\ shutdown_fd' = (shutdown_fd \/ run_cnt' = 0)
      /\ UNCHANGED <<freed, exit_group, fork_in_progress, scanVars>>
  BY Zenon DEF Stopped, Goto, SetState
<1>2. pc'[Main] = pc[Main] /\ \A t \in Threads : pc'[t] = "scan" <=> pc[t] = "scan"
  BY Zenon, <1>0, <1>1, PauseTypes
<1>3. \A u \in Vcpus : Harmless(u)
  BY Zenon, <1>0, <1>1, PauseTypes DEF Harmless, Still, Quiet, InExit, InFork, PausePCs, scanVars
<1>4. ExitOk'
  BY <1>1, <1>2, <1>3 DEF ExitOk, Harmless, InExit, Running, PausePCs, scanVars
<1>5. Ready => Ready'
  <2>1. ~Resting(v)
    BY Zenon, <1>1 DEF Resting
  <2>2. Ready => exit_group /\ \A u \in Vcpus : Quiet(u)
    BY Zenon, <2>1, ZeroRests DEF Ready
  <2>3. QED
    BY Zenon, <1>1, <1>3, <2>2 DEF Ready, Harmless
<1>6. run_cnt' = 0 => Ready' /\ \A u \in Vcpus : ~InFork(u)'
  <2>1. run_cnt' = 0 => Ready'
    BY Zenon DEF Ready
  <2>2. \A u \in Vcpus : Resting(u)' => ~InFork(u)'
    BY Zenon DEF Resting, InFork, PausePCs
  <2>3. QED
    BY Zenon, <2>1, <2>2, ZeroRestsNext
<1>7. ForkOk'
  BY Zenon, <1>1, <1>2, <1>3, <1>5, <1>6 DEF ForkOk, Harmless
<1>8. QED
  BY Zenon, <1>4, <1>7

\* exit_group is never reset, so whoever passes here has it set.
LEMMA TeardownExitAll ==
    ASSUME Pigeonhole, ListInv, ExitOk, ForkOk, NEW v \in Vcpus, ExitAll(v)
    PROVE  ExitOk' /\ ForkOk'
<1>0. TypeOK
  BY Zenon DEF ListInv
<1>1. /\ pc[v] = "exit_all" /\ exit_group'
      /\ \/ exit_group /\ pc' = [pc EXCEPT ![v] = "stopped"] /\ ret' = ret
         \/ pc' = [pc EXCEPT ![v] = "pause_all"] /\ ret' = [ret EXCEPT ![v] = "exit_fini"]
      /\ UNCHANGED <<state, freed, run_cnt, shutdown_fd, fork_in_progress, vcpu_mtx, scan>>
  BY Zenon DEF ExitAll, PauseAll, Goto, sharedVars
<1>2. pc'[Main] = pc[Main] /\ \A t \in Threads : pc'[t] = "scan" <=> pc[t] = "scan"
  BY Zenon, <1>0, <1>1, PauseTypes
<1>3. \A u \in Vcpus : /\ Still(u) => Still(u)'
                       /\ InFork(u)' => InFork(u)
                       /\ pc'[u] = "exit_fini" => pc[u] = "exit_fini"
                       /\ pc'[u] = "scan" => ret'[u] = ret[u]
  BY <1>0, <1>1, PauseTypes DEF Still, InFork, PausePCs
<1>4. ~Ready
  BY Zenon, <1>1, BusyNotReady DEF Quiet
<1>5. ExitOk'
  <2>1. /\ \A t \in Threads : pc'[t] = "scan" <=> vcpu_mtx' = t
        /\ Running' => freed' = 0
        /\ Running' => Running
    BY <1>1, <1>2 DEF ExitOk, Running
  <2>2. Running => \A u \in Vcpus : pc'[u] = "scan" /\ ret'[u] = "exit_fini" /\ scan'.count = 0 =>
                      \A w \in Vcpus : w < scan'.i /\ w # u => Still(w)'
    BY <1>1, <1>2, <1>3, ThreadKinds DEF ExitOk
  <2>3. Running => \A u \in Vcpus : pc'[u] = "exit_fini" => \A w \in Vcpus : w # u => Still(w)'
    BY Zenon, <1>3 DEF ExitOk
  <2>4. QED
    BY Zenon, <1>1, <2>1, <2>2, <2>3 DEF ExitOk
<1>6. ForkOk'
  BY Zenon, <1>1, <1>2, <1>3, <1>4 DEF ForkOk
<1>7. QED
  BY Zenon, <1>5, <1>6

\* All the others are stopped for good when the exiting vcpu wakes the main
\* thread, and it stops itself.
LEMMA TeardownExitFini ==
    ASSUME Pigeonhole, ListInv, ExitOk, ForkOk, Alive, NEW v \in Vcpus, ExitFini(v)
    PROVE  ExitOk' /\ ForkOk'
<1>0. TypeOK
  BY Zenon DEF ListInv
<1>1. /\ pc[v] = "exit_fini" /\ pc' = [pc EXCEPT ![v] = "stopped"] /\ shutdown_fd'
      /\ UNCHANGED <<state, freed, run_cnt, exit_group, fork_in_progress, scanVars>>
  BY Zenon DEF ExitFini, Goto, sharedVars
<1>2. exit_group /\ exit_group'
  BY Zenon, <1>1 DEF ExitOk, InExit
<1>3. pc'[Main] = pc[Main] /\ \A t \in Threads : pc'[t] = "scan" <=> pc[t] = "scan"
  BY <1>0, <1>1, PauseTypes
<1>4. \A u \in Vcpus : Harmless(u)
  BY Zenon, <1>0, <1>1, PauseTypes DEF Harmless, Still, Quiet, InExit, InFork, PausePCs, scanVars
<1>5. ExitOk'
  BY <1>1, <1>3, <1>4 DEF ExitOk, Harmless, InExit, Running, PausePCs, scanVars
<1>6. Ready' /\ \A u \in Vcpus : Quiet(u)'
  <2>1. CASE Running
    <3>1. \A u \in Vcpus : u # v => Quiet(u)'
      BY Zenon, <1>0, <1>1, <1>2, <2>1, PauseTypes DEF ExitOk, Still, Quiet
    <3>2. Quiet(v)'
      BY Zenon, <1>0, <1>1, <1>2, PauseTypes DEF Quiet
    <3>3. QED
      BY Zenon, <1>2, <3>1, <3>2 DEF Ready
  <2>2. CASE pc[Main] \in {"fini", "join"}
    <3>1. Ready
      BY Zenon, <2>2 DEF ForkOk
    <3>2. QED
      BY Zenon, <1>1, <3>1, BusyNotReady DEF Quiet
  <2>3. QED
    BY Zenon, <2>1, <2>2 DEF Running, Alive
<1>7. \A u \in Vcpus : Quiet(u)' => ~InFork(u)'
  BY DEF Quiet, InFork, PausePCs
<1>8. ForkOk'
  BY Zenon, <1>1, <1>3, <1>6, <1>7 DEF ForkOk
<1>9. QED
  BY Zenon, <1>5, <1>8

\* The pauser's scan starts before the first vcpu.
LEMMA TeardownApplyAll ==
    ASSUME ListInv, ExitOk, ForkOk, NEW t \in Threads, ApplyAll(t)
    PROVE  ExitOk' /\ ForkOk'
<1>0. TypeOK
  BY Zenon DEF ListInv
<1>1. /\ pc[t] = "apply_all" /\ vcpu_mtx = NoThread /\ vcpu_mtx' = t
      /\ scan' = [i |-> 1, count |-> 0] /\ pc' = [pc EXCEPT ![t] = "scan"] /\ t # Main
      /\ UNCHANGED <<state, freed, run_cnt, flagVars, ret>>
  BY Zenon, <1>0, PauseTypes DEF ApplyAll, Goto, MtxFree, sharedVars, MainPCs
<1>2. \A u \in Vcpus : Harmless(u)
  BY SMTT(30), <1>0, <1>1, PauseTypes DEF Harmless, Still, Quiet, InExit, InFork, PausePCs, flagVars
<1>3. pc'[Main] = pc[Main]
  BY Zenon, <1>0, <1>1, PauseTypes
<1>4. ExitOk'
  <2>1. /\ \A u \in Threads : pc'[u] = "scan" <=> vcpu_mtx' = u
        /\ Running' => freed' = 0
        /\ Running' => Running
    BY Zenon, <1>0, <1>1, <1>3, PauseTypes DEF ExitOk, Running
  <2>2. \A u \in Vcpus : InExit(u)' => exit_group'
    BY Zenon, <1>1, <1>2 DEF ExitOk, Harmless, flagVars
  <2>3. \A u \in Vcpus : ~(u < scan'.i)
    BY <1>1 DEF Vcpus
  <2>4. Running => \A u \in Vcpus : pc'[u] = "exit_fini" => \A w \in Vcpus : w # u => Still(w)'
    BY Zenon, <1>2 DEF ExitOk, InExit, Harmless
  <2>5. QED
    BY Zenon, <2>1, <2>2, <2>3, <2>4 DEF ExitOk
<1>5. Ready => Ready'
  BY Zenon, <1>1, <1>2 DEF Ready, Harmless, flagVars
<1>6. ForkOk'
  BY Zenon, <1>1, <1>2, <1>3, <1>5 DEF ForkOk, Harmless, flagVars
<1>7. QED
  BY Zenon, <1>4, <1>6

\* A vcpu that the exit's scan does not count is parked or paused.
LEMMA TeardownScanVcpu ==
    ASSUME ListInv, ExitOk, ForkOk, NEW t \in Threads, ScanVcpu(t)
    PROVE  ExitOk' /\ ForkOk'
<1>0. TypeOK /\ StateOk
  BY Zenon DEF ListInv
<1>1. PICK i \in Vcpus : i = scan.i
  BY <1>0, PauseTypes, ConstantsAssumption DEF ScanVcpu, Vcpus, ConstantsAssumption
<1>2. /\ pc[t] = "scan" /\ scan'.i = i + 1
      /\ scan'.count = IF Counts(t, i) THEN scan.count + 1 ELSE scan.count
      /\ UNCHANGED <<state, freed, pc, run_cnt, flagVars, vcpu_mtx, ret>>
  BY Zenon, <1>1 DEF ScanVcpu, sharedVars
<1>3. /\ \A u \in Vcpus : /\ Still(u)' <=> Still(u)
                          /\ InExit(u)' <=> InExit(u)
                          /\ InFork(u)' <=> InFork(u)
                          /\ Quiet(u)' <=> Quiet(u)
      /\ Running' <=> Running
  BY Zenon, <1>2 DEF Still, InExit, InFork, Quiet, Running, flagVars
<1>4. Ready' <=> Ready
  BY Zenon, <1>2, <1>3 DEF Ready, flagVars
<1>5. ForkOk'
  BY Zenon, <1>2, <1>3, <1>4 DEF ForkOk, flagVars
<1>6. ASSUME Running, NEW u \in Vcpus, pc'[u] = "scan", ret'[u] = "exit_fini", scan'.count = 0,
             NEW w \in Vcpus, w < scan'.i, w # u
      PROVE  Still(w)
  <2>1. u = t
    BY SMTT(30), <1>0, <1>2, <1>6, PauseTypes DEF ExitOk
  <2>2. scan.count = 0 /\ ~Counts(t, i) /\ PauseType(t) = "ALL"
    BY <1>0, <1>2, <1>6, <2>1, PauseTypes DEF PauseType
  <2>3. CASE w = i
    <3>1. state[w] \in {"PARKED_IDLE", "PAUSED"}
      BY Zenon, <1>6, <2>1, <2>2, <2>3 DEF Counts
    <3>2. QED
      BY Zenon, <1>0, <3>1 DEF StateOk, Resting, Still
  <2>4. CASE w # i
    <3>1. w < scan.i
      BY <1>1, <1>2, <1>6, <2>4 DEF Vcpus
    <3>2. QED
      BY Zenon, <1>2, <1>6, <2>2, <3>1 DEF ExitOk
  <2>5. QED
    BY Zenon, <2>3, <2>4
<1>7. ExitOk'
  BY Zenon, <1>2, <1>3, <1>6 DEF ExitOk, flagVars
<1>8. QED
  BY Zenon, <1>5, <1>7

\* An exit's scan that ends with nobody counted has passed every vcpu there is.
LEMMA TeardownScanEnds ==
    ASSUME ListInv, ExitOk, ForkOk, NEW t \in Threads, ScanEnds(t)
    PROVE  ExitOk' /\ ForkOk'
<1>0. TypeOK /\ SlotsOk
  BY Zenon DEF ListInv
<1>1. /\ pc[t] = "scan" /\ vcpu_mtx' = NoThread /\ vcpu_mtx = t /\ t # Main
      /\ UNCHANGED <<state, freed, run_cnt, flagVars, scan, ret>>
  BY Zenon, <1>0, PauseTypes DEF ScanEnds, ExitOk, MainPCs, sharedVars
<1>2. /\ pc' = [pc EXCEPT ![t] = IF scan.count = 0 THEN ret[t] ELSE "apply_all"]
      /\ ret[t] \in {"exit_fini", "snap_create", "fork_kick", "fatal_dump"}
  BY Zenon, <1>0, <1>1, PauseTypes DEF ScanEnds, Goto, Returns
<1>3. /\ pc'[Main] = pc[Main] /\ (Running' <=> Running)
      /\ \A u \in Threads : pc'[u] # "scan" /\ vcpu_mtx' # u
  BY SMTT(30), <1>0, <1>1, <1>2, PauseTypes DEF ExitOk, Running
<1>4. \A u \in Vcpus : /\ Still(u) => Still(u)'
                       /\ Quiet(u) => Quiet(u)'
                       /\ InExit(u)' => InExit(u)
                       /\ InFork(u)' => InFork(u)
  BY Zenon, <1>0, <1>1, <1>2, PauseTypes DEF Still, Quiet, InExit, InFork, PausePCs, flagVars
<1>5. ASSUME Running, NEW v \in Vcpus, pc'[v] = "exit_fini", NEW u \in Vcpus, u # v
      PROVE  Still(u)
  <2>1. CASE pc[v] = "exit_fini"
    BY Zenon, <1>5, <2>1 DEF ExitOk
  <2>2. CASE pc[v] # "exit_fini"
    <3>1. v = t /\ scan.count = 0 /\ ret[v] = "exit_fini"
      BY Zenon, <1>0, <1>1, <1>2, <1>5, <2>2, PauseTypes
    <3>2. CASE u < scan.i
      BY <1>1, <1>5, <3>1, <3>2 DEF ExitOk
    <3>3. CASE ~(u < scan.i)
      <4>1. freed = 0
        BY Zenon, <1>5 DEF ExitOk
      <4>2. u \notin Allocated
        BY <1>0, <3>3, <4>1, PauseTypes DEF ScanEnds, Allocated, Vcpus
      <4>3. state[u] = "NONE" /\ pc[u] = "none"
        BY Zenon, <1>0, <4>2 DEF SlotsOk
      <4>4. QED
        BY Zenon, <4>3 DEF Still
    <3>4. QED
      BY Zenon, <3>2, <3>3
  <2>3. QED
    BY Zenon, <2>1, <2>2
<1>6. ExitOk'
  <2>1. \A u \in Vcpus : InExit(u)' => exit_group'
    BY Zenon, <1>1, <1>4 DEF ExitOk, flagVars
  <2>2. Running => \A v \in Vcpus : pc'[v] = "exit_fini" => \A u \in Vcpus : u # v => Still(u)'
    BY <1>4, <1>5
  <2>3. Running' => freed' = 0
    BY Zenon, <1>1, <1>3 DEF ExitOk
  <2>4. QED
    BY Zenon, <1>3, <2>1, <2>2, <2>3, ThreadKinds DEF ExitOk
<1>7. Ready => Ready'
  BY ZenonT(40), <1>1, <1>4 DEF Ready, flagVars
<1>8. ForkOk'
  BY ZenonT(60), <1>1, <1>3, <1>4, <1>7 DEF ForkOk, flagVars
<1>9. QED
  BY Zenon, <1>6, <1>8

\* The forks are serialised, and a fork starts in a machine that is not at its end.
LEMMA TeardownBeforeFork ==
    ASSUME Pigeonhole, ListInv, ExitOk, ForkOk, NEW v \in Vcpus, BeforeFork(v)
    PROVE  ExitOk' /\ ForkOk'
<1>0. TypeOK
  BY Zenon DEF ListInv
<1>1. /\ pc[v] = "fork" /\ ~fork_in_progress
      /\ \/ fork_in_progress' /\ pc' = [pc EXCEPT ![v] = "pause_all"] /\ ret' = [ret EXCEPT ![v] = "fork_kick"]
         \/ fork_in_progress' = fork_in_progress /\ pc' = [pc EXCEPT ![v] = "handle_pause"] /\ ret' = ret
      /\ UNCHANGED <<state, freed, run_cnt, exit_group, shutdown_fd, vcpu_mtx, scan>>
  BY Zenon DEF BeforeFork, PauseAll, Goto, sharedVars
<1>2. pc'[Main] = pc[Main] /\ \A t \in Threads : pc'[t] = "scan" <=> pc[t] = "scan"
  BY Zenon, <1>0, <1>1, PauseTypes
<1>3. \A u \in Vcpus : /\ Still(u) => Still(u)'
                       /\ InExit(u)' => InExit(u)
                       /\ pc'[u] = "exit_fini" => pc[u] = "exit_fini"
                       /\ pc'[u] = "scan" => ret'[u] = ret[u]
                       /\ InFork(u)' => u = v \/ InFork(u)
  BY <1>0, <1>1, PauseTypes DEF Still, InFork, InExit, PausePCs
<1>4. ~Ready
  BY Zenon, <1>1, BusyNotReady DEF Quiet
<1>5. ExitOk'
  <2>1. /\ \A t \in Threads : pc'[t] = "scan" <=> vcpu_mtx' = t
        /\ Running' => freed' = 0
        /\ Running' => Running
    BY <1>1, <1>2 DEF ExitOk, Running
  <2>2. Running => \A u \in Vcpus : pc'[u] = "scan" /\ ret'[u] = "exit_fini" /\ scan'.count = 0 =>
                      \A w \in Vcpus : w < scan'.i /\ w # u => Still(w)'
    BY <1>1, <1>2, <1>3, ThreadKinds DEF ExitOk
  <2>3. Running => \A u \in Vcpus : pc'[u] = "exit_fini" => \A w \in Vcpus : w # u => Still(w)'
    BY Zenon, <1>3 DEF ExitOk
  <2>4. QED
    BY Zenon, <1>1, <1>3, <2>1, <2>2, <2>3 DEF ExitOk
<1>6. ~shutdown_fd /\ pc[Main] \notin {"dofork", "forking"} /\ \A u \in Vcpus : ~InFork(u)
  BY Zenon, <1>1, <1>4 DEF ForkOk
<1>7. \A u \in Vcpus : InFork(u)' => fork_in_progress' /\ u = v
  BY Zenon, <1>0, <1>1, <1>3, <1>6, PauseTypes DEF InFork, PausePCs
<1>8. ForkOk'
  BY <1>1, <1>2, <1>4, <1>6, <1>7 DEF ForkOk
<1>9. QED
  BY Zenon, <1>5, <1>8

\* The forker, which is the only one, wakes the main thread.
LEMMA TeardownForkKick ==
    ASSUME Pigeonhole, ListInv, ExitOk, ForkOk, NEW v \in Vcpus, ForkKick(v)
    PROVE  ExitOk' /\ ForkOk'
<1>0. TypeOK
  BY Zenon DEF ListInv
<1>1. /\ pc[v] = "fork_kick" /\ pc' = [pc EXCEPT ![v] = "handle_pause"] /\ shutdown_fd'
      /\ UNCHANGED <<state, freed, run_cnt, exit_group, fork_in_progress, scanVars>>
  BY Zenon DEF ForkKick, Goto, sharedVars
<1>2. pc'[Main] = pc[Main] /\ \A t \in Threads : pc'[t] = "scan" <=> pc[t] = "scan"
  BY <1>0, <1>1, PauseTypes
<1>3. \A u \in Vcpus : Harmless(u)
  BY Zenon, <1>0, <1>1, PauseTypes DEF Harmless, Still, Quiet, InExit, InFork, PausePCs, scanVars
<1>4. InFork(v) /\ ~InFork(v)'
  BY Zenon, <1>0, <1>1, PauseTypes DEF InFork, PausePCs
<1>5. ~Ready
  BY SMTT(30), <1>1, BusyNotReady DEF Quiet
<1>6. \A u \in Vcpus : ~InFork(u)'
  BY <1>3, <1>4 DEF ForkOk, Harmless
<1>7. ForkOk'
  BY Zenon, <1>1, <1>2, <1>4, <1>5, <1>6 DEF ForkOk
<1>8. ExitOk'
  <2>1. /\ \A t \in Threads : pc'[t] = "scan" <=> vcpu_mtx' = t
        /\ Running' => freed' = 0
        /\ Running' => Running
    BY Zenon, <1>1, <1>2 DEF ExitOk, Running, scanVars
  <2>2. Running => \A u \in Vcpus : pc'[u] = "scan" /\ ret'[u] = "exit_fini" /\ scan'.count = 0 =>
                      \A w \in Vcpus : w < scan'.i /\ w # u => Still(w)'
    BY Zenon, <1>1, <1>2, <1>3, ThreadKinds DEF ExitOk, Harmless, InExit, PausePCs, scanVars
  <2>3. Running => \A u \in Vcpus : pc'[u] = "exit_fini" => \A w \in Vcpus : w # u => Still(w)'
    BY Zenon, <1>3 DEF ExitOk, Harmless, InExit
  <2>4. QED
    BY <1>1, <1>3, <2>1, <2>2, <2>3 DEF ExitOk, Harmless
<1>9. QED
  BY Zenon, <1>7, <1>8

\* The steps of the main thread, which tell a fork from the end.
LEMMA TeardownMain ==
    ASSUME ListInv, ExitOk, ForkOk, MainNext
    PROVE  ExitOk' /\ ForkOk'
<1>0. TypeOK
  BY Zenon DEF ListInv
<1>1. UNCHANGED <<state, run_cnt, exit_group, scanVars>> /\ (shutdown_fd' => shutdown_fd)
  BY DEF MainNext, MainWakes, MainDofork, MainForked, MainResumes, MainFini, MainJoins,
         sharedVars, flagVars
<1>2. \A u \in Vcpus : pc'[u] = pc[u] \/ (pc[u] = "paused" /\ pc'[u] = "woken")
                                      \/ (pc[u] = "parked" /\ pc'[u] = "waking")
  <2>1. CASE MainWakes \/ MainDofork \/ MainForked \/ MainJoins
    <3>1. \E l \in MainPCs : pc' = [pc EXCEPT ![Main] = l]
      BY Zenon, <2>1 DEF MainWakes, MainDofork, MainForked, MainJoins, Goto, MainPCs
    <3>2. QED
      BY Zenon, <1>0, <3>1, PauseTypes
  <2>2. CASE MainResumes
    BY ZenonT(40), <1>0, <2>2, PauseTypes DEF MainResumes, ResumeAll
  <2>3. CASE MainFini
    <3>1. \/ \E l \in MainPCs : pc' = [pc EXCEPT ![Main] = l]
          \/ \E w : pc' = [pc EXCEPT ![Main] = "join",
                                     ![w] = IF pc[w] = "parked" THEN "waking" ELSE pc[w]]
          \/ pc' = pc
      BY ZenonT(40), <2>3 DEF MainFini, Goto, MainPCs
    <3>2. /\ pc \in [Threads -> VcpuPCs \cup MgtPCs \cup MainPCs] /\ Vcpus \subseteq Threads
          /\ Main \in Threads \ Vcpus
      BY Zenon, <1>0, PauseTypes
    <3>3. QED
      BY ZenonT(40), <3>1, <3>2
  <2>4. QED
    BY Zenon, <2>1, <2>2, <2>3 DEF MainNext
<1>3. pc'[Mgt] = pc[Mgt] /\ pc'[Main] # "scan" /\ pc[Main] # "scan"
  BY SMTT(30), <1>0, PauseTypes
  DEF MainNext, MainWakes, MainDofork, MainForked, MainResumes, MainFini, MainJoins, ResumeAll, Goto,
      MgtPCs, MainPCs, PausePCs, SnapshotPCs
<1>4. \A u \in Vcpus : Harmless(u)
  BY Zenon, <1>1, <1>2 DEF Harmless, Still, Quiet, InExit, InFork, PausePCs, scanVars
<1>5. \A t \in Threads : pc'[t] = "scan" <=> pc[t] = "scan"
  BY Zenon, <1>2, <1>3, ThreadKinds
<1>6. \A u \in Vcpus : InFork(u)' <=> InFork(u)
  BY ZenonT(40), <1>1, <1>2 DEF InFork, PausePCs, scanVars
<1>7. Ready => Ready'
  BY SMTT(30), <1>1, <1>4 DEF Ready, Harmless
<1>8. (Running' => Running) /\ (Running' => freed' = freed)
  BY <1>0, PauseTypes
  DEF MainNext, MainWakes, MainDofork, MainForked, MainResumes, MainFini, MainJoins, ResumeAll, Goto, Running
<1>9. ExitOk'
  <2>1. /\ \A t \in Threads : pc'[t] = "scan" <=> vcpu_mtx' = t
        /\ Running' => freed' = 0
    BY <1>1, <1>5, <1>8 DEF ExitOk, scanVars
  <2>2. Running => \A u \in Vcpus : pc'[u] = "scan" /\ ret'[u] = "exit_fini" /\ scan'.count = 0 =>
                      \A w \in Vcpus : w < scan'.i /\ w # u => Still(w)'
    BY Zenon, <1>1, <1>4, <1>5, ThreadKinds DEF ExitOk, Harmless, InExit, PausePCs, scanVars
  <2>3. Running => \A u \in Vcpus : pc'[u] = "exit_fini" => \A w \in Vcpus : w # u => Still(w)'
    BY Zenon, <1>4 DEF ExitOk, Harmless, InExit
  <2>4. QED
    BY Zenon, <1>1, <1>4, <1>8, <2>1, <2>2, <2>3 DEF ExitOk, Harmless
<1>10. ForkOk'
  <2>1. CASE MainWakes
    <3>1. /\ pc'[Main] = "dofork" /\ ~shutdown_fd' /\ shutdown_fd /\ fork_in_progress' = fork_in_progress
      BY Zenon, <1>0, <2>1, PauseTypes DEF MainWakes, Goto
    <3>2. \A u \in Vcpus : ~InFork(u)
      BY <3>1 DEF ForkOk
    <3>3. QED
      BY Zenon, <1>6, <1>7, <3>1, <3>2 DEF ForkOk
  <2>2. CASE MainDofork
    <3>1. /\ pc[Main] = "dofork" /\ shutdown_fd' = shutdown_fd /\ fork_in_progress' = fork_in_progress
          /\ pc'[Main] = IF fork_in_progress THEN "forking" ELSE "fini"
      BY ZenonT(40), <1>0, <2>2, PauseTypes DEF MainDofork, Goto, flagVars
    <3>2. QED
      BY Zenon, <1>6, <1>7, <3>1 DEF ForkOk
  <2>3. CASE MainForked
    <3>1. pc[Main] = "forking" /\ pc'[Main] = "resume" /\ shutdown_fd' = shutdown_fd
      BY Zenon, <1>0, <2>3, PauseTypes DEF MainForked, Goto
    <3>2. \A u \in Vcpus : ~InFork(u)
      BY Zenon, <3>1 DEF ForkOk
    <3>3. QED
      BY ZenonT(60), <1>6, <1>7, <3>1, <3>2 DEF ForkOk
  <2>4. CASE MainResumes
    <3>1. pc'[Main] = "wait" /\ shutdown_fd' = shutdown_fd /\ fork_in_progress' = fork_in_progress
      BY <1>0, <2>4, PauseTypes DEF MainResumes, ResumeAll
    <3>2. QED
      BY <1>6, <1>7, <3>1 DEF ForkOk
  <2>5. CASE MainFini \/ MainJoins
    <3>1. /\ pc[Main] \in {"fini", "join"} /\ pc'[Main] \in {"fini", "join", "exited"}
          /\ shutdown_fd' = shutdown_fd /\ fork_in_progress' = fork_in_progress
      BY SMTT(30), <1>0, <2>5, PauseTypes DEF MainFini, MainJoins, Goto, flagVars
    <3>2. QED
      BY Zenon, <1>6, <1>7, <3>1 DEF ForkOk
  <2>6. QED
    BY <2>1, <2>2, <2>3, <2>4, <2>5 DEF MainNext
<1>11. QED
  BY Zenon, <1>9, <1>10

\* Every step of KM keeps the invariant of the teardown.
LEMMA TeardownStep ==
    ASSUME Pigeonhole, LockedPuts PROVE TeardownInv /\ [Next]_vars => TeardownInv'
<1> SUFFICES ASSUME TeardownInv, [Next]_vars PROVE TeardownInv'
  BY Zenon
<1>a. LockedPuts /\ ListInv /\ ListInv' /\ ExitOk /\ ForkOk /\ TypeOK /\ StateOk /\ CloneOk
  BY Zenon, ListStep DEF TeardownInv, ListInv
<1> DEFINE Framed == /\ \A u \in Vcpus : Harmless(u)
                     /\ exit_group => exit_group'
                     /\ \A t \in Threads : pc'[t] = "scan" <=> pc[t] = "scan"
                     /\ pc'[Main] = pc[Main]
                     /\ UNCHANGED <<run_cnt, shutdown_fd, fork_in_progress, freed, scan, vcpu_mtx>>
<1>b. Framed => ExitOk' /\ ForkOk'
  BY Zenon, <1>a, TeardownFrame
<1> SUFFICES Framed \/ (ExitOk' /\ ForkOk')
  BY Zenon, <1>a, <1>b DEF TeardownInv
<1> HIDE DEF Framed
<1>c. /\ \A u \in Vcpus : u \in Threads /\ u # Main /\ u # Mgt /\ pc[u] \in VcpuPCs
      /\ pc \in [Threads -> VcpuPCs \cup MgtPCs \cup MainPCs] /\ state \in [Vcpus -> States]
      /\ ret \in [Threads -> Returns] /\ Main \in Threads /\ Mgt \in Threads /\ Main # Mgt
      /\ pc[Main] \in MainPCs
  BY Zenon, <1>a, PauseTypes
<1>1. ASSUME NEW v \in Vcpus, HandlePause(v) PROVE Framed
  BY SMTT(30), <1>1, <1>a, <1>c
  DEF Framed, HandlePause, MustPause, StateOk, Resting, Harmless, Still, Quiet, InExit, InFork,
      PausePCs, Goto, SetState, sharedVars, flagVars, scanVars
<1>2. ASSUME NEW v \in Vcpus, SpuriousResume(v) PROVE Framed
  BY Zenon, <1>2, <1>a, <1>c
  DEF Framed, SpuriousResume, StateOk, Resting, Harmless, Still, Quiet, InExit, InFork, PausePCs,
      Goto, SetState, sharedVars, flagVars, scanVars
<1>3. ASSUME NEW v \in Vcpus, LeavePause(v) PROVE Framed
  BY SMTT(30), <1>3, <1>a, <1>c
  DEF Framed, LeavePause, StateOk, Resting, Harmless, Still, Quiet, InExit, InFork, PausePCs, Goto,
      SetState, sharedVars, flagVars, scanVars
<1>4. ASSUME NEW v \in Vcpus, KvmRun(v) PROVE Framed
  BY Zenon, <1>4, <1>a, <1>c
  DEF Framed, KvmRun, StateOk, Resting, Harmless, Still, Quiet, InExit, InFork, PausePCs, Goto,
      SetState, sharedVars, flagVars, scanVars
<1>5. ASSUME NEW v \in Vcpus, KvmExitIo(v) PROVE Framed
  BY Zenon, <1>5, <1>a, <1>c
  DEF Framed, KvmExitIo, StateOk, Resting, Harmless, Still, Quiet, InExit, InFork, PausePCs, Goto,
      SetState, sharedVars, flagVars, scanVars
<1>6. ASSUME NEW v \in Vcpus, StopSignal(v) PROVE Framed
  BY SMTT(30), <1>6, <1>a, <1>c
  DEF Framed, StopSignal, StateOk, Resting, Harmless, Still, Quiet, InExit, InFork, PausePCs, Goto,
      SetState, sharedVars, flagVars, scanVars
<1>7. ASSUME NEW v \in Vcpus, HypercallReturns(v) PROVE Framed
  BY SMTT(30), <1>7, <1>a, <1>c
  DEF Framed, HypercallReturns, StateOk, Resting, Harmless, Still, Quiet, InExit, InFork, PausePCs,
      Goto, SetState, sharedVars, flagVars, scanVars
<1>8. ASSUME NEW v \in Vcpus, Park(v) PROVE Framed
  BY Zenon, <1>8, <1>a, <1>c
  DEF Framed, Park, StateOk, Resting, Harmless, Still, Quiet, InExit, InFork, PausePCs, Goto,
      SetState, sharedVars, flagVars, scanVars
<1>9. ASSUME NEW v \in Vcpus, SpuriousUnpark(v) PROVE Framed
  BY SMTT(30), <1>9, <1>a, <1>c
  DEF Framed, SpuriousUnpark, StateOk, Resting, Harmless, Still, Quiet, InExit, InFork, PausePCs,
      Goto, SetState, sharedVars, flagVars, scanVars
<1>10. ASSUME NEW v \in Vcpus, Unpark(v) PROVE Framed
  BY SMTT(30), <1>10, <1>a, <1>c
  DEF Framed, Unpark, StateOk, Resting, Harmless, Still, Quiet, InExit, InFork, PausePCs, Goto,
      SetState, sharedVars, flagVars, scanVars
<1>11. ASSUME NEW v \in Vcpus, Hypercall(v) PROVE Framed
  <2>1. PICK h \in Hypercalls : Goto(v, Entry(h))
    BY Zenon, <1>11 DEF Hypercall
  <2>2. Entry(h) \in {"handle_pause", "blocked", "suspended", "clone_get", "stopped", "exit_all", "fork",
                     "snap_block", "fatal"}
    BY SMTT(30), ConstantsAssumption DEF ConstantsAssumption, AllHypercalls, Entry
  <2>3. QED
    BY Zenon, <1>11, <1>c, <2>1, <2>2
    DEF Framed, Hypercall, Harmless, Still, Quiet, InExit, InFork, PausePCs, Goto, SetState,
        sharedVars, flagVars, scanVars
<1>12. ASSUME NEW v \in Vcpus, CloneGet(v) PROVE Framed \/ (ExitOk' /\ ForkOk')
  <2>1. CASE GetFails(v)
    BY Zenon, <1>12, <1>c, <2>1
    DEF Framed, CloneGet, GetFails, Harmless, Still, Quiet, InExit, InFork, PausePCs, Goto,
        SetState, sharedVars, flagVars, scanVars
  <2>2. CASE ~GetFails(v)
    BY <1>12, <1>a, <2>2, TeardownGet
  <2>3. QED
    BY <2>1, <2>2
<1>13. ASSUME NEW v \in Vcpus, CloneRun(v) PROVE Framed
  <2>1. PICK new \in Vcpus : new = child[v]
    BY Zenon, <1>a DEF TypeOK, ListTypeOK
  <2>2. /\ pc[new] \in {"none", "parked", "waking"} \/ (exit_group /\ pc[new] \in {"unpark", "exited"})
        /\ state[new] = "STARTING" \/ pc[new] = "exited"
        /\ new \in created <=> pc[new] # "none"
        /\ new # v
    BY <1>13, <1>a, <2>1 DEF ListInv, CloneOk, SlotsOk, Resting, CloneRun
  <2>3. \/ /\ pc[new] # "none" /\ state' = [state EXCEPT ![new] = "HYPERCALL"]
           /\ pc' = [pc EXCEPT ![v] = "handle_pause", ![new] = IF pc[new] = "parked" THEN "waking" ELSE pc[new]]
        \/ /\ pc[new] = "none" /\ state' = [state EXCEPT ![new] = "HYPERCALL"]
           /\ pc' = [pc EXCEPT ![v] = "handle_pause", ![new] = "handle_pause"]
    BY Zenon, <1>13, <1>a, <1>c, <2>1, <2>2 DEF CloneRun, LockedPuts, SetState
  <2>4. pc[v] = "clone_run" /\ UNCHANGED <<freed, run_cnt, flagVars, scanVars>>
    BY <1>13 DEF CloneRun
  <2>5. \A u \in Vcpus : Harmless(u)
    <3>1. \A u \in Vcpus \ {v, new} : pc'[u] = pc[u] /\ state'[u] = state[u]
      BY Zenon, <1>c, <2>3
    <3>2. pc'[v] = "handle_pause"
      BY <1>c, <2>2, <2>3
    <3>3. \/ pc[new] = "none" /\ pc'[new] = "handle_pause"
          \/ pc[new] = "parked" /\ pc'[new] = "waking"
          \/ pc[new] \notin {"none", "parked"} /\ pc'[new] = pc[new]
      BY SMTT(30), <1>c, <2>2, <2>3
    <3>4. \A u \in Vcpus \ {v, new} : Harmless(u)
      BY ZenonT(40), <2>4, <3>1 DEF Harmless, Still, Quiet, InExit, InFork, PausePCs, flagVars, scanVars
    <3>5. Harmless(v)
      BY ZenonT(60), <2>4, <3>2 DEF Harmless, Still, Quiet, InExit, InFork, PausePCs, flagVars, scanVars
    <3>6. Harmless(new)
      BY Zenon, <2>2, <2>4, <3>3 DEF Harmless, Still, Quiet, InExit, InFork, PausePCs, flagVars, scanVars
    <3>7. QED
      BY Zenon, <3>4, <3>5, <3>6
  <2>6. QED
    BY SMTT(30), <1>c, <2>2, <2>3, <2>4, <2>5 DEF Framed, flagVars, scanVars
<1>14. ASSUME NEW v \in Vcpus, ClonePut(v) PROVE FALSE
  BY Zenon, <1>14, <1>a DEF ClonePut, CloneOk
<1>15. ASSUME NEW v \in Vcpus, CloneDec(v) PROVE FALSE
  BY <1>15, <1>a DEF CloneDec, CloneOk
<1>16. ASSUME NEW v \in Vcpus, Stopped(v) PROVE ExitOk' /\ ForkOk'
  BY Zenon, <1>16, <1>a, TeardownStopped
<1>17. ASSUME NEW v \in Vcpus, ExitAll(v) PROVE ExitOk' /\ ForkOk'
  BY Zenon, <1>17, <1>a, TeardownExitAll
<1>18. ASSUME Alive, NEW v \in Vcpus, ExitFini(v) PROVE ExitOk' /\ ForkOk'
  BY <1>18, <1>a, TeardownExitFini
<1>19. ASSUME NEW v \in Vcpus, Fatal(v) PROVE Framed
  BY Zenon, <1>19, <1>c
  DEF Framed, Fatal, PauseAll, Harmless, Still, Quiet, InExit, InFork, PausePCs, Goto, SetState,
      sharedVars, flagVars, scanVars
<1>20. ASSUME NEW v \in Vcpus, FatalDump(v) PROVE ExitOk' /\ ForkOk'
  <2>1. /\ pc' = [pc EXCEPT ![Main] = "exited"]
        /\ UNCHANGED <<state, freed, run_cnt, flagVars, scanVars>>
    BY Zenon, <1>20 DEF FatalDump, Goto, sharedVars
  <2>2. /\ pc'[Main] = "exited" /\ \A u \in Vcpus : pc'[u] = pc[u]
        /\ \A t \in Threads : pc'[t] = "scan" <=> pc[t] = "scan"
    BY Zenon, <1>c, <2>1 DEF MainPCs
  <2>3. \A u \in Vcpus : /\ InExit(u)' <=> InExit(u)
                         /\ InFork(u)' <=> InFork(u)
                         /\ Quiet(u)' <=> Quiet(u)
    BY Zenon, <2>1, <2>2 DEF InExit, InFork, Quiet, flagVars, scanVars
  <2>4. ExitOk'
    BY <1>a, <2>1, <2>2, <2>3 DEF ExitOk, Running, flagVars, scanVars
  <2>5. Ready => Ready'
    BY Zenon, <2>1, <2>3 DEF Ready, flagVars
  <2>6. ForkOk'
    BY ZenonT(40), <1>a, <2>1, <2>2, <2>3, <2>5 DEF ForkOk, flagVars
  <2>7. QED
    BY Zenon, <2>4, <2>6
<1>21. ASSUME NEW v \in Vcpus, BeforeFork(v) PROVE ExitOk' /\ ForkOk'
  BY Zenon, <1>21, <1>a, TeardownBeforeFork
<1>22. ASSUME NEW v \in Vcpus, ForkKick(v) PROVE ExitOk' /\ ForkOk'
  BY Zenon, <1>22, <1>a, TeardownForkKick
<1>23. ASSUME NEW t \in Threads, RequestPause(t) PROVE Framed
  BY SMTT(30), <1>23, <1>c
  DEF Framed, RequestPause, MainPCs, Harmless, Still, Quiet, InExit, InFork, PausePCs, Goto,
      SetState, sharedVars, flagVars, scanVars
<1>24. ASSUME NEW t \in Threads, ApplyAll(t) PROVE ExitOk' /\ ForkOk'
  BY Zenon, <1>24, <1>a, TeardownApplyAll
<1>25. ASSUME NEW t \in Threads, ScanVcpu(t) PROVE ExitOk' /\ ForkOk'
  BY Zenon, <1>25, <1>a, TeardownScanVcpu
<1>26. ASSUME NEW t \in Threads, ScanEnds(t) PROVE ExitOk' /\ ForkOk'
  BY Zenon, <1>26, <1>a, TeardownScanEnds
<1>27. ASSUME NEW t \in Threads, SnapshotBlock(t) PROVE Framed
  BY SMTT(30), <1>27, <1>c
  DEF Framed, SnapshotBlock, PauseAll, Continue, MainPCs, Harmless, Still, Quiet, InExit, InFork,
      PausePCs, Goto, SetState, sharedVars, flagVars, scanVars
<1>28. ASSUME NEW t \in Threads, SnapshotCreate(t) PROVE Framed
  <2>0. exit_group => exit_group'
    BY ZenonT(30), <1>28 DEF SnapshotCreate
  <2>1. pc[t] = "snap_create"
    BY Zenon, <1>28 DEF SnapshotCreate
  <2>2. \E l \in {"unblock_cont", "unblock_stop"} : pc' = [pc EXCEPT ![t] = l]
    BY Zenon, <1>28 DEF SnapshotCreate, Goto
  <2>3. UNCHANGED <<state, freed, run_cnt, shutdown_fd, fork_in_progress, scanVars>>
    BY Zenon, <1>28 DEF SnapshotCreate, sharedVars
  <2>4. \A u \in Vcpus : Harmless(u)
    BY SMTT(30), <1>c, <2>0, <2>1, <2>2, <2>3
    DEF Harmless, Still, Quiet, InExit, InFork, PausePCs, scanVars
  <2>5. QED
    BY Zenon, <1>c, <2>0, <2>1, <2>2, <2>3, <2>4 DEF Framed, MainPCs, scanVars
<1>29. ASSUME NEW t \in Threads, SnapshotUnblock(t) PROVE Framed
  BY Zenon, <1>29, <1>c
  DEF Framed, SnapshotUnblock, MainPCs, Harmless, Still, Quiet, InExit, InFork, PausePCs, Goto,
      SetState, sharedVars, flagVars, scanVars
<1>30. ASSUME NEW t \in Threads, SnapshotResume(t) PROVE Framed
  BY SMTT(30), <1>30, <1>c
  DEF Framed, SnapshotResume, ResumeAll, Continue, MainPCs, Harmless, Still, Quiet, InExit, InFork,
      PausePCs, Goto, SetState, sharedVars, flagVars, scanVars
<1>31. ASSUME MgtRequest PROVE Framed
  BY Zenon, <1>31, <1>c
  DEF Framed, MgtRequest, Harmless, Still, Quiet, InExit, InFork, PausePCs, Goto, SetState,
      sharedVars, flagVars, scanVars
<1>32. ASSUME MainNext PROVE ExitOk' /\ ForkOk'
  BY Zenon, <1>32, <1>a, TeardownMain
<1>33. CASE UNCHANGED vars
  BY <1>33 DEF Framed, vars, Harmless, Still, Quiet, InExit, InFork, sharedVars, flagVars, scanVars
<1>34. QED
  BY SMTT(30), <1>1, <1>2, <1>3, <1>4, <1>5, <1>6, <1>7, <1>8, <1>9, <1>10, <1>11, <1>12, <1>13, <1>14,
     <1>15, <1>16, <1>17, <1>18, <1>19, <1>20, <1>21, <1>22, <1>23, <1>24, <1>25, <1>26, <1>27,
     <1>28, <1>29, <1>30, <1>31, <1>32, <1>33,
     <1>c
  DEF Next, Dead, VcpuNext, MgtNext, Pauser, Snapshot

-----------------------------------------------------------------------------
(* The theorem.  The library is needed from here on only. *)

INSTANCE FiniteSetTheorems

\* As many running vcpus as there are vcpus are all of them.
LEMMA AllTaken == Pigeonhole
<1> SUFFICES ASSUME NEW n \in Nat, NEW s \in Seq(1 .. n), Len(s) = n,
                    \A i, j \in 1 .. n : s[i] = s[j] => i = j
             PROVE  \A v \in 1 .. n : \E i \in 1 .. n : s[i] = v
  BY Zenon DEF Pigeonhole
<1>1. s \in [1 .. n -> 1 .. n]
  OBVIOUS
<1>2. s \in Injection(1 .. n, 1 .. n)
  BY Zenon, <1>1 DEF Injection, IsInjective
<1>3. IsFiniteSet(1 .. n)
  BY FS_Interval
<1>4. s \in Surjection(1 .. n, 1 .. n)
  BY <1>2, <1>3, FS_Injection, ZenonT(30)
<1>5. QED
  BY Zenon, <1>4 DEF Surjection

\* km_machine_fini starts only when no vcpu runs any more, whatever the number of
\* vcpus, the hypercalls, the management requests and the forks, when no thread
\* creation fails.
THEOREM TeardownCorrect == ASSUME LockedPuts PROVE Spec => []TeardownQuiet
<1>1. Init => TeardownInv
  <2> SUFFICES ASSUME Init PROVE ExitOk /\ ForkOk
    BY Zenon, ListInit DEF TeardownInv
  <2>0. /\ pc[Main] = "wait" /\ pc[Mgt] = "idle"
        /\ \A v \in Vcpus : pc[v] \in {"handle_pause", "none"}
    BY ThreadKinds DEF Init, Main
  <2>1. vcpu_mtx = NoThread /\ freed = 0 /\ ~shutdown_fd
    BY Zenon DEF Init
  <2>2. QED
    BY Zenon, <2>0, <2>1, ThreadKinds DEF ExitOk, ForkOk, InExit, InFork, PausePCs
<1>2. TeardownInv => TeardownQuiet
  <2> SUFFICES ASSUME TeardownInv, pc[Main] \in {"fini", "join"}, NEW v \in Vcpus PROVE Quiet(v)
    BY Zenon DEF TeardownQuiet
  <2>1. ListInv /\ Ready
    BY Zenon DEF TeardownInv, ForkOk
  <2>2. QED
    BY Zenon, <2>1, AllTaken, BusyNotReady
<1>3. QED
  BY <1>1, <1>2, AllTaken, TeardownStep, PTL DEF Spec
=============================================================================
