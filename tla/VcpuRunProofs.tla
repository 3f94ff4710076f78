--------------------------- MODULE VcpuRunProofs ---------------------------
(* Theorems about VcpuRun, for every number of vcpus. *)
EXTENDS VcpuRunInv, TLAPS

\* What is left and taken when km_vcpu_get pops the idle list.
LEMMA HeadTailType ==
    ASSUME NEW S, NEW s \in Seq(S), s # <<>>
    PROVE  Head(s) \in S /\ Tail(s) \in Seq(S)
  OBVIOUS

\* The reads of an unlocked km_vcpu_put.
LEMMA SeenType ==
    ASSUME ListTypeOK, NEW v \in Vcpus
    PROVE  /\ [seen EXCEPT ![v].idle = idle] \in [Vcpus -> [idle : Seq(Vcpus), run_cnt : Int]]
           /\ [seen EXCEPT ![v].run_cnt = run_cnt] \in [Vcpus -> [idle : Seq(Vcpus), run_cnt : Int]]
<1> USE DEF Vcpus, Main, Mgt, Threads, NoThread
<1>1. seen[v] \in [idle : Seq(Vcpus), run_cnt : Int]
  BY Zenon DEF ListTypeOK
<1>2. /\ [seen[v] EXCEPT !.idle = idle] \in [idle : Seq(Vcpus), run_cnt : Int]
      /\ [seen[v] EXCEPT !.run_cnt = run_cnt] \in [idle : Seq(Vcpus), run_cnt : Int]
  BY Zenon, <1>1 DEF ListTypeOK
<1>3. QED
  BY Zenon, <1>2 DEF ListTypeOK

\* The initial machine is well typed.
LEMMA TypeInit == Init => TypeOK
<1> SUFFICES ASSUME Init PROVE TypeOK
  BY Zenon
<1> USE ConstantsAssumption DEF ConstantsAssumption, Vcpus, Main, Mgt, Threads, NoThread,
        Init
<1>1. VcpuTypeOK
  BY DEF VcpuTypeOK, States
<1>2. ListTypeOK
  BY DEF ListTypeOK
<1>3. PauseTypeOK
  <2>1. scan \in [i : 1 .. MaxVcpus + 1, count : Nat]
    OBVIOUS
  <2>2. forker \in Vcpus
    OBVIOUS
  <2>3. ret \in [Threads -> Returns]
    BY Zenon DEF Returns
  <2>4. QED
    BY ZenonT(30), <2>1, <2>2, <2>3 DEF PauseTypeOK
<1>4. PcTypeOK
  BY DEF PcTypeOK, VcpuPCs, MgtPCs, MainPCs, PausePCs
<1>5. QED
  BY Zenon, <1>1, <1>2, <1>3, <1>4 DEF TypeOK

\* A thread that moves on inside its own code keeps the program counters typed.
LEMMA GotoType ==
    ASSUME PcTypeOK, vm_vcpu_cnt \in Nat, vm_vcpu_cnt' \in Nat, vm_vcpu_cnt <= vm_vcpu_cnt',
           freed' = freed, ret'[Mgt] = ret[Mgt],
           NEW v \in Vcpus, NEW l \in VcpuPCs, Goto(v, l)
    PROVE  PcTypeOK'
<1> USE ConstantsAssumption DEF ConstantsAssumption, Vcpus, Main, Mgt, Threads, NoThread,
        PcTypeOK, Goto
<1>1. pc' \in [Threads -> VcpuPCs \cup MgtPCs \cup MainPCs]
  BY Zenon
<1>2. /\ \A w \in Vcpus : pc'[w] \in VcpuPCs
      /\ pc'[Mgt] = pc[Mgt]
      /\ pc'[Main] = pc[Main]
  OBVIOUS
<1>3. QED
  BY <1>1, <1>2

\* The management thread moves on among its own program points.
LEMMA GotoMgtType ==
    ASSUME PcTypeOK, vm_vcpu_cnt' = vm_vcpu_cnt, freed' = freed,
           NEW l \in MgtPCs, l \in PausePCs => ret'[Mgt] = "snap_create", Goto(Mgt, l)
    PROVE  PcTypeOK'
<1> USE ConstantsAssumption DEF ConstantsAssumption, Vcpus, Main, Mgt, Threads, NoThread,
        PcTypeOK, Goto
<1>1. pc' \in [Threads -> VcpuPCs \cup MgtPCs \cup MainPCs]
  BY Zenon
<1>2. /\ \A w \in Vcpus : pc'[w] = pc[w]
      /\ pc'[Mgt] = l
      /\ pc'[Main] = pc[Main]
  BY SMTT(40)
<1>3. QED
  BY Zenon, <1>1, <1>2

\* Every step of KM keeps the types.
LEMMA TypeStep == TypeOK /\ [Next]_vars => TypeOK'
<1> SUFFICES ASSUME TypeOK, [Next]_vars PROVE TypeOK'
  BY Zenon
<1> USE ConstantsAssumption DEF ConstantsAssumption, Vcpus, Main, Mgt, Threads, NoThread,
        TypeOK, SetState, sharedVars, flagVars, scanVars
<1>1. ASSUME NEW v \in Vcpus, HandlePause(v) PROVE TypeOK'
  <2>1. VcpuTypeOK'
    BY ZenonT(30), <1>1 DEF HandlePause, MustPause, VcpuTypeOK, ListTypeOK, States
  <2>2. ListTypeOK'
    BY ZenonT(30), <1>1 DEF HandlePause, MustPause, VcpuTypeOK, ListTypeOK
  <2>3. PauseTypeOK'
    BY Zenon, <1>1 DEF HandlePause, MustPause, VcpuTypeOK, PauseTypeOK, Returns
  <2>4. PcTypeOK'
    BY <1>1, GotoType DEF HandlePause, MustPause, VcpuTypeOK, VcpuPCs, PausePCs, SnapshotPCs,
       ParkPCs, Returns
  <2>5. QED
    BY Zenon, <2>1, <2>2, <2>3, <2>4
<1>2. ASSUME NEW v \in Vcpus, SpuriousResume(v) PROVE TypeOK'
  <2>1. VcpuTypeOK'
    BY ZenonT(30), <1>2 DEF SpuriousResume, VcpuTypeOK, ListTypeOK, States
  <2>2. ListTypeOK'
    BY ZenonT(30), <1>2 DEF SpuriousResume, VcpuTypeOK, ListTypeOK
  <2>3. PauseTypeOK'
    BY Zenon, <1>2 DEF SpuriousResume, VcpuTypeOK, PauseTypeOK, Returns
  <2>4. PcTypeOK'
    BY <1>2, GotoType DEF SpuriousResume, VcpuTypeOK, VcpuPCs, PausePCs, SnapshotPCs, ParkPCs,
       Returns
  <2>5. QED
    BY Zenon, <2>1, <2>2, <2>3, <2>4
<1>3. ASSUME NEW v \in Vcpus, LeavePause(v) PROVE TypeOK'
  <2>1. VcpuTypeOK'
    BY ZenonT(30), <1>3 DEF LeavePause, VcpuTypeOK, ListTypeOK, States
  <2>2. ListTypeOK'
    BY ZenonT(30), <1>3 DEF LeavePause, VcpuTypeOK, ListTypeOK
  <2>3. PauseTypeOK'
    BY Zenon, <1>3 DEF LeavePause, VcpuTypeOK, PauseTypeOK, Returns
  <2>4. PcTypeOK'
    BY <1>3, GotoType DEF LeavePause, VcpuTypeOK, VcpuPCs, PausePCs, SnapshotPCs, ParkPCs,
       Returns
  <2>5. QED
    BY Zenon, <2>1, <2>2, <2>3, <2>4
<1>4. ASSUME NEW v \in Vcpus, KvmRun(v) PROVE TypeOK'
  <2>1. VcpuTypeOK'
    BY ZenonT(30), <1>4 DEF KvmRun, VcpuTypeOK, ListTypeOK, States
  <2>2. ListTypeOK'
    BY ZenonT(30), <1>4 DEF KvmRun, VcpuTypeOK, ListTypeOK
  <2>3. PauseTypeOK'
    BY Zenon, <1>4 DEF KvmRun, VcpuTypeOK, PauseTypeOK, Returns
  <2>4. PcTypeOK'
    BY <1>4, GotoType DEF KvmRun, VcpuTypeOK, VcpuPCs, PausePCs, SnapshotPCs, ParkPCs, Returns
  <2>5. QED
    BY Zenon, <2>1, <2>2, <2>3, <2>4
<1>5. ASSUME NEW v \in Vcpus, KvmExitIo(v) PROVE TypeOK'
  <2>1. VcpuTypeOK'
    BY ZenonT(30), <1>5 DEF KvmExitIo, VcpuTypeOK, ListTypeOK, States
  <2>2. ListTypeOK'
    BY ZenonT(30), <1>5 DEF KvmExitIo, VcpuTypeOK, ListTypeOK
  <2>3. PauseTypeOK'
    BY Zenon, <1>5 DEF KvmExitIo, VcpuTypeOK, PauseTypeOK, Returns
  <2>4. PcTypeOK'
    BY <1>5, GotoType DEF KvmExitIo, VcpuTypeOK, VcpuPCs, PausePCs, SnapshotPCs, ParkPCs,
       Returns
  <2>5. QED
    BY Zenon, <2>1, <2>2, <2>3, <2>4
<1>6. ASSUME NEW v \in Vcpus, StopSignal(v) PROVE TypeOK'
  <2>1. VcpuTypeOK'
    BY ZenonT(30), <1>6 DEF StopSignal, VcpuTypeOK, ListTypeOK, States
  <2>2. ListTypeOK'
    BY Zenon, <1>6 DEF StopSignal, VcpuTypeOK, ListTypeOK
  <2>3. PauseTypeOK'
    BY Zenon, <1>6 DEF StopSignal, VcpuTypeOK, PauseTypeOK, Returns
  <2>4. PcTypeOK'
    <3>1. CASE pc[v] \in {"guest", "blocked"}
      BY <1>6, <3>1, GotoType DEF StopSignal, VcpuTypeOK, VcpuPCs
    <3>2. CASE pc[v] \notin {"guest", "blocked"}
      BY Zenon, <1>6, <3>2 DEF StopSignal, PcTypeOK
    <3>3. QED
      BY Zenon, <3>1, <3>2
  <2>5. QED
    BY Zenon, <2>1, <2>2, <2>3, <2>4
<1>7. ASSUME NEW v \in Vcpus, Hypercall(v) PROVE TypeOK'
  <2>1. VcpuTypeOK'
    BY Zenon, <1>7 DEF Hypercall, Entry, VcpuTypeOK, ListTypeOK, States
  <2>2. ListTypeOK'
    BY Zenon, <1>7 DEF Hypercall, Entry, VcpuTypeOK, ListTypeOK
  <2>3. PauseTypeOK'
    BY Zenon, <1>7 DEF Hypercall, Entry, VcpuTypeOK, PauseTypeOK, Returns
  <2>4. PcTypeOK'
    <3>1. PICK h \in Hypercalls : Goto(v, Entry(h))
      BY Zenon, <1>7 DEF Hypercall
    <3>2. Entry(h) \in VcpuPCs
      BY Zenon DEF AllHypercalls, Entry, VcpuPCs, SnapshotPCs
    <3>3. QED
      BY <1>7, <3>1, <3>2, GotoType DEF Hypercall, VcpuTypeOK
  <2>5. QED
    BY Zenon, <2>1, <2>2, <2>3, <2>4
<1>8. ASSUME NEW v \in Vcpus, HypercallReturns(v) PROVE TypeOK'
  <2>1. VcpuTypeOK'
    BY ZenonT(30), <1>8 DEF HypercallReturns, VcpuTypeOK, ListTypeOK, States
  <2>2. ListTypeOK'
    BY ZenonT(30), <1>8 DEF HypercallReturns, VcpuTypeOK, ListTypeOK
  <2>3. PauseTypeOK'
    BY Zenon, <1>8 DEF HypercallReturns, VcpuTypeOK, PauseTypeOK, Returns
  <2>4. PcTypeOK'
    BY <1>8, GotoType DEF HypercallReturns, VcpuTypeOK, VcpuPCs, PausePCs, SnapshotPCs, ParkPCs,
       Returns
  <2>5. QED
    BY Zenon, <2>1, <2>2, <2>3, <2>4
<1>9. ASSUME NEW v \in Vcpus, CloneGet(v) PROVE TypeOK'
  <2>1. VcpuTypeOK'
    <3>1. CASE GetFails(v)
      BY Zenon, <1>9, <3>1 DEF CloneGet, GetFails, VcpuTypeOK
    <3>2. CASE GetIdle(v)
      BY ZenonT(30), <1>9, <3>2 DEF CloneGet, GetIdle, VcpuTypeOK, ListTypeOK, States
    <3>3. CASE GetNew(v)
      BY <1>9, <3>3 DEF CloneGet, GetNew, VcpuTypeOK, States
    <3>4. QED
      BY Zenon, <1>9, <3>1, <3>2, <3>3 DEF CloneGet
  <2>2. ListTypeOK'
    <3>1. CASE GetFails(v)
      BY ZenonT(30), <1>9, <3>1 DEF CloneGet, GetFails, ListTypeOK
    <3>2. CASE GetIdle(v)
      <4>1. Head(idle) \in Vcpus /\ Tail(idle) \in Seq(Vcpus)
        <5>1. idle \in Seq(Vcpus) /\ idle # <<>>
          BY Zenon, <3>2 DEF GetIdle, ListTypeOK
        <5>2. QED
          BY Zenon, <5>1, HeadTailType
      <4>2. child' \in [Vcpus -> Vcpus]
        BY ZenonT(30), <3>2, <4>1 DEF GetIdle, ListTypeOK
      <4>3. run_cnt' \in Int
        BY <3>2 DEF GetIdle, ListTypeOK
      <4>4. QED
        BY ZenonT(30), <3>2, <4>1, <4>2, <4>3 DEF GetIdle, ListTypeOK
    <3>3. CASE GetNew(v)
      <4>1. vm_vcpu_cnt + 1 \in Vcpus
        BY <3>3 DEF GetNew, VcpuTypeOK
      <4>2. child' \in [Vcpus -> Vcpus]
        BY ZenonT(30), <3>3, <4>1 DEF GetNew, ListTypeOK
      <4>3. run_cnt' \in Int
        BY <3>3 DEF GetNew, ListTypeOK
      <4>4. QED
        BY ZenonT(30), <3>3, <4>2, <4>3 DEF GetNew, ListTypeOK
    <3>4. QED
      BY Zenon, <1>9, <3>1, <3>2, <3>3 DEF CloneGet
  <2>3. PauseTypeOK'
    BY Zenon, <1>9 DEF CloneGet, GetFails, GetIdle, GetNew, MtxFree, VcpuTypeOK, PauseTypeOK, Returns
  <2>4. PcTypeOK'
    BY <1>9, GotoType DEF CloneGet, GetFails, GetIdle, GetNew, MtxFree, VcpuTypeOK, VcpuPCs,
       PausePCs, SnapshotPCs, ParkPCs, Returns
  <2>5. QED
    BY Zenon, <2>1, <2>2, <2>3, <2>4
<1>10. ASSUME NEW v \in Vcpus, CloneRun(v) PROVE TypeOK'
  <2>1. VcpuTypeOK'
    <3>1. child[v] \in Vcpus
      BY Zenon, <1>10 DEF ListTypeOK
    <3>2. state' = state \/ state' = [state EXCEPT ![child[v]] = "HYPERCALL"]
      BY Zenon, <1>10 DEF CloneRun, SetState
    <3>3. created' = created \/ created' = created \cup {child[v]}
      BY Zenon, <1>10 DEF CloneRun
    <3>4. UNCHANGED <<restart, stopsig, vm_vcpu_cnt>>
      BY Zenon, <1>10 DEF CloneRun
    <3>5. state' \in [Vcpus -> States]
      BY Zenon, <3>1, <3>2 DEF VcpuTypeOK, States
    <3>6. created' \in SUBSET Vcpus
      BY ZenonT(30), <3>1, <3>3 DEF VcpuTypeOK
    <3>7. QED
      BY Zenon, <3>4, <3>5, <3>6 DEF VcpuTypeOK
  <2>2. ListTypeOK'
    <3>1. seen' = seen \/ seen' = [seen EXCEPT ![v].idle = idle]
      BY Zenon, <1>10 DEF CloneRun
    <3>2. seen' \in [Vcpus -> [idle : Seq(Vcpus), run_cnt : Int]]
      <4>1. CASE seen' = seen
        BY ZenonT(30), <4>1 DEF ListTypeOK
      <4>2. CASE seen' = [seen EXCEPT ![v].idle = idle]
        BY ZenonT(30), <4>2, SeenType
      <4>3. QED
        BY Zenon, <3>1, <4>1, <4>2
    <3>3. QED
      BY ZenonT(30), <1>10, <3>2 DEF CloneRun, ListTypeOK
  <2>3. PauseTypeOK'
    BY Zenon, <1>10 DEF CloneRun, VcpuTypeOK, PauseTypeOK, Returns
  <2>4. PcTypeOK'
    <3>1. CASE Goto(v, "clone_put")
      BY <1>10, <3>1, GotoType DEF CloneRun, VcpuTypeOK, VcpuPCs
    <3>2. CASE pc' = [pc EXCEPT ![v] = "handle_pause",
                                ![child[v]] = IF @ = "parked" THEN "waking" ELSE @]
      <4>1. child[v] \in Vcpus
        BY ZenonT(30) DEF ListTypeOK
      <4>2. pc' \in [Threads -> VcpuPCs \cup MgtPCs \cup MainPCs]
        BY Zenon, <3>2, <4>1 DEF PcTypeOK, VcpuPCs, ParkPCs
      <4>3. /\ \A w \in Vcpus : pc'[w] \in VcpuPCs
            /\ pc'[Mgt] = pc[Mgt] /\ pc'[Main] = pc[Main]
        BY <3>2, <4>1 DEF PcTypeOK, VcpuPCs, ParkPCs
      <4>4. QED
        BY Zenon, <1>10, <4>2, <4>3 DEF CloneRun, PcTypeOK
    <3>3. CASE pc' = [pc EXCEPT ![v] = "handle_pause", ![child[v]] = "handle_pause"]
      <4>1. child[v] \in Vcpus
        BY ZenonT(30) DEF ListTypeOK
      <4>2. pc' \in [Threads -> VcpuPCs \cup MgtPCs \cup MainPCs]
        BY Zenon, <3>3, <4>1 DEF PcTypeOK, VcpuPCs
      <4>3. /\ \A w \in Vcpus : pc'[w] \in VcpuPCs
            /\ pc'[Mgt] = pc[Mgt] /\ pc'[Main] = pc[Main]
        BY <3>3, <4>1 DEF PcTypeOK, VcpuPCs
      <4>4. QED
        BY Zenon, <1>10, <4>2, <4>3 DEF CloneRun, PcTypeOK
    <3>4. QED
      BY Zenon, <1>10, <3>1, <3>2, <3>3 DEF CloneRun
  <2>5. QED
    BY Zenon, <2>1, <2>2, <2>3, <2>4
<1>11. ASSUME NEW v \in Vcpus, ClonePut(v) PROVE TypeOK'
  <2>1. VcpuTypeOK'
    BY Zenon, <1>11 DEF ClonePut, VcpuTypeOK, ListTypeOK, States
  <2>2. ListTypeOK'
    <3>1. /\ seen[v].idle \in Seq(Vcpus) /\ child[v] \in Vcpus
          /\ seen \in [Vcpus -> [idle : Seq(Vcpus), run_cnt : Int]]
      BY ZenonT(30) DEF ListTypeOK
    <3>2. idle' \in Seq(Vcpus)
      BY <1>11, <3>1 DEF ClonePut
    <3>3. seen' \in [Vcpus -> [idle : Seq(Vcpus), run_cnt : Int]]
      BY ZenonT(30), <1>11, <3>1 DEF ClonePut, ListTypeOK
    <3>4. QED
      BY Zenon, <1>11, <3>2, <3>3 DEF ClonePut, ListTypeOK
  <2>3. PauseTypeOK'
    BY Zenon, <1>11 DEF ClonePut, VcpuTypeOK, PauseTypeOK, Returns
  <2>4. PcTypeOK'
    BY <1>11, GotoType DEF ClonePut, VcpuTypeOK, VcpuPCs, PausePCs, SnapshotPCs, ParkPCs,
       Returns
  <2>5. QED
    BY Zenon, <2>1, <2>2, <2>3, <2>4
<1>12. ASSUME NEW v \in Vcpus, CloneDec(v) PROVE TypeOK'
  <2>1. VcpuTypeOK'
    BY ZenonT(30), <1>12 DEF CloneDec, VcpuTypeOK, ListTypeOK, States
  <2>2. ListTypeOK'
    <3>1. seen[v].run_cnt \in Int
      BY Zenon DEF ListTypeOK
    <3>2. run_cnt' \in Int
      BY <1>12, <3>1 DEF CloneDec
    <3>3. QED
      BY ZenonT(30), <1>12, <3>2 DEF CloneDec, ListTypeOK
  <2>3. PauseTypeOK'
    BY Zenon, <1>12 DEF CloneDec, VcpuTypeOK, PauseTypeOK, Returns
  <2>4. PcTypeOK'
    BY <1>12, GotoType DEF CloneDec, VcpuTypeOK, VcpuPCs, PausePCs, SnapshotPCs, ParkPCs,
       Returns
  <2>5. QED
    BY Zenon, <2>1, <2>2, <2>3, <2>4
<1>13. ASSUME NEW v \in Vcpus, Stopped(v) PROVE TypeOK'
  <2>1. VcpuTypeOK'
    BY ZenonT(30), <1>13 DEF Stopped, MtxFree, VcpuTypeOK, ListTypeOK, States
  <2>2. ListTypeOK'
    <3>1. idle' \in Seq(Vcpus)
      BY <1>13 DEF Stopped, ListTypeOK
    <3>2. run_cnt' \in Int
      BY <1>13 DEF Stopped, ListTypeOK
    <3>3. QED
      BY ZenonT(30), <1>13, <3>1, <3>2 DEF Stopped, ListTypeOK
  <2>3. PauseTypeOK'
    BY Zenon, <1>13 DEF Stopped, MtxFree, VcpuTypeOK, PauseTypeOK, Returns
  <2>4. PcTypeOK'
    BY <1>13, GotoType DEF Stopped, MtxFree, VcpuTypeOK, VcpuPCs, PausePCs, SnapshotPCs,
       ParkPCs, Returns
  <2>5. QED
    BY Zenon, <2>1, <2>2, <2>3, <2>4
<1>14. ASSUME NEW v \in Vcpus, Park(v) PROVE TypeOK'
  <2>1. VcpuTypeOK'
    BY ZenonT(30), <1>14 DEF Park, VcpuTypeOK, ListTypeOK, States
  <2>2. ListTypeOK'
    BY ZenonT(30), <1>14 DEF Park, VcpuTypeOK, ListTypeOK
  <2>3. PauseTypeOK'
    BY Zenon, <1>14 DEF Park, VcpuTypeOK, PauseTypeOK, Returns
  <2>4. PcTypeOK'
    BY <1>14, GotoType DEF Park, VcpuTypeOK, VcpuPCs, PausePCs, SnapshotPCs, ParkPCs, Returns
  <2>5. QED
    BY Zenon, <2>1, <2>2, <2>3, <2>4
<1>15. ASSUME NEW v \in Vcpus, SpuriousUnpark(v) PROVE TypeOK'
  <2>1. VcpuTypeOK'
    BY ZenonT(30), <1>15 DEF SpuriousUnpark, VcpuTypeOK, ListTypeOK, States
  <2>2. ListTypeOK'
    BY ZenonT(30), <1>15 DEF SpuriousUnpark, VcpuTypeOK, ListTypeOK
  <2>3. PauseTypeOK'
    BY Zenon, <1>15 DEF SpuriousUnpark, VcpuTypeOK, PauseTypeOK, Returns
  <2>4. PcTypeOK'
    BY <1>15, GotoType DEF SpuriousUnpark, VcpuTypeOK, VcpuPCs, PausePCs, SnapshotPCs, ParkPCs,
       Returns
  <2>5. QED
    BY Zenon, <2>1, <2>2, <2>3, <2>4
<1>16. ASSUME NEW v \in Vcpus, Unpark(v) PROVE TypeOK'
  <2>1. VcpuTypeOK'
    BY ZenonT(30), <1>16 DEF Unpark, VcpuTypeOK, ListTypeOK, States
  <2>2. ListTypeOK'
    BY ZenonT(30), <1>16 DEF Unpark, VcpuTypeOK, ListTypeOK
  <2>3. PauseTypeOK'
    BY Zenon, <1>16 DEF Unpark, VcpuTypeOK, PauseTypeOK, Returns
  <2>4. PcTypeOK'
    BY <1>16, GotoType DEF Unpark, VcpuTypeOK, VcpuPCs, PausePCs, SnapshotPCs, ParkPCs, Returns
  <2>5. QED
    BY Zenon, <2>1, <2>2, <2>3, <2>4
<1>17. ASSUME NEW v \in Vcpus, ExitAll(v) PROVE TypeOK'
  <2>1. VcpuTypeOK'
    BY ZenonT(30), <1>17 DEF ExitAll, PauseAll, VcpuTypeOK, ListTypeOK, States
  <2>2. ListTypeOK'
    BY ZenonT(30), <1>17 DEF ExitAll, PauseAll, VcpuTypeOK, ListTypeOK
  <2>3. PauseTypeOK'
    BY Zenon, <1>17 DEF ExitAll, PauseAll, VcpuTypeOK, PauseTypeOK, Returns
  <2>4. PcTypeOK'
    <3>1. ret'[Mgt] = ret[Mgt]
      BY <1>17 DEF ExitAll, PauseAll, PauseTypeOK
    <3>2. Goto(v, "stopped") \/ Goto(v, "pause_all")
      BY Zenon, <1>17 DEF ExitAll, PauseAll
    <3>3. QED
      BY <1>17, <3>1, <3>2, GotoType DEF ExitAll, VcpuTypeOK, VcpuPCs, PausePCs
  <2>5. QED
    BY Zenon, <2>1, <2>2, <2>3, <2>4
<1>18. ASSUME NEW v \in Vcpus, ExitFini(v) PROVE TypeOK'
  <2>1. VcpuTypeOK'
    BY ZenonT(30), <1>18 DEF ExitFini, VcpuTypeOK, ListTypeOK, States
  <2>2. ListTypeOK'
    BY ZenonT(30), <1>18 DEF ExitFini, VcpuTypeOK, ListTypeOK
  <2>3. PauseTypeOK'
    BY Zenon, <1>18 DEF ExitFini, VcpuTypeOK, PauseTypeOK, Returns
  <2>4. PcTypeOK'
    BY <1>18, GotoType DEF ExitFini, VcpuTypeOK, VcpuPCs, PausePCs, SnapshotPCs, ParkPCs,
       Returns
  <2>5. QED
    BY Zenon, <2>1, <2>2, <2>3, <2>4
<1>19. ASSUME NEW v \in Vcpus, Fatal(v) PROVE TypeOK'
  <2>1. VcpuTypeOK'
    BY ZenonT(30), <1>19 DEF Fatal, PauseAll, VcpuTypeOK, ListTypeOK, States
  <2>2. ListTypeOK'
    BY ZenonT(30), <1>19 DEF Fatal, PauseAll, VcpuTypeOK, ListTypeOK
  <2>3. PauseTypeOK'
    BY Zenon, <1>19 DEF Fatal, PauseAll, VcpuTypeOK, PauseTypeOK, Returns
  <2>4. PcTypeOK'
    BY <1>19, GotoType DEF Fatal, PauseAll, VcpuTypeOK, VcpuPCs, PausePCs, SnapshotPCs, ParkPCs,
       Returns
  <2>5. QED
    BY Zenon, <2>1, <2>2, <2>3, <2>4
<1>20. ASSUME NEW v \in Vcpus, FatalDump(v) PROVE TypeOK'
  <2>1. VcpuTypeOK'
    BY ZenonT(30), <1>20 DEF FatalDump, VcpuTypeOK, ListTypeOK, States
  <2>2. ListTypeOK'
    BY ZenonT(30), <1>20 DEF FatalDump, VcpuTypeOK, ListTypeOK
  <2>3. PauseTypeOK'
    BY Zenon, <1>20 DEF FatalDump, VcpuTypeOK, PauseTypeOK, Returns
  <2>4. PcTypeOK'
    BY <1>20 DEF FatalDump, VcpuTypeOK, PcTypeOK, Goto, VcpuPCs, MgtPCs, MainPCs, PausePCs,
       ParkPCs
  <2>5. QED
    BY Zenon, <2>1, <2>2, <2>3, <2>4
<1>21. ASSUME NEW v \in Vcpus, BeforeFork(v) PROVE TypeOK'
  <2>1. VcpuTypeOK'
    BY ZenonT(30), <1>21 DEF BeforeFork, PauseAll, VcpuTypeOK, ListTypeOK, States
  <2>2. ListTypeOK'
    BY ZenonT(30), <1>21 DEF BeforeFork, PauseAll, VcpuTypeOK, ListTypeOK
  <2>3. PauseTypeOK'
    BY ZenonT(30), <1>21 DEF BeforeFork, PauseAll, VcpuTypeOK, PauseTypeOK, Returns
  <2>4. PcTypeOK'
    <3>1. ret'[Mgt] = ret[Mgt]
      BY <1>21 DEF BeforeFork, PauseAll, PauseTypeOK
    <3>2. Goto(v, "handle_pause") \/ Goto(v, "pause_all")
      BY Zenon, <1>21 DEF BeforeFork, PauseAll
    <3>3. QED
      BY <1>21, <3>1, <3>2, GotoType DEF BeforeFork, VcpuTypeOK, VcpuPCs, PausePCs
  <2>5. QED
    BY Zenon, <2>1, <2>2, <2>3, <2>4
<1>22. ASSUME NEW v \in Vcpus, ForkKick(v) PROVE TypeOK'
  <2>1. VcpuTypeOK'
    BY ZenonT(30), <1>22 DEF ForkKick, VcpuTypeOK, ListTypeOK, States
  <2>2. ListTypeOK'
    BY ZenonT(30), <1>22 DEF ForkKick, VcpuTypeOK, ListTypeOK
  <2>3. PauseTypeOK'
    BY Zenon, <1>22 DEF ForkKick, VcpuTypeOK, PauseTypeOK, Returns
  <2>4. PcTypeOK'
    BY <1>22, GotoType DEF ForkKick, VcpuTypeOK, VcpuPCs, PausePCs, SnapshotPCs, ParkPCs,
       Returns
  <2>5. QED
    BY Zenon, <2>1, <2>2, <2>3, <2>4
<1>23. ASSUME NEW t \in Vcpus \cup {Mgt}, RequestPause(t) PROVE TypeOK'
  <2>1. VcpuTypeOK'
    BY ZenonT(30), <1>23 DEF RequestPause, VcpuTypeOK, ListTypeOK, States
  <2>2. ListTypeOK'
    BY ZenonT(30), <1>23 DEF RequestPause, VcpuTypeOK, ListTypeOK
  <2>3. PauseTypeOK'
    BY Zenon, <1>23 DEF RequestPause, VcpuTypeOK, PauseTypeOK, Returns
  <2>4. PcTypeOK'
    <3>1. CASE t \in Vcpus
      BY <1>23, <3>1, GotoType DEF RequestPause, VcpuTypeOK, PauseTypeOK, VcpuPCs, PausePCs,
         SnapshotPCs, Returns
    <3>2. CASE t = Mgt
      BY Zenon, <1>23, <3>2, GotoMgtType DEF RequestPause, MgtPCs, PcTypeOK, PausePCs, SnapshotPCs
    <3>3. QED
      BY Zenon, <3>1, <3>2
  <2>5. QED
    BY Zenon, <2>1, <2>2, <2>3, <2>4
<1>24. ASSUME NEW t \in Vcpus \cup {Mgt}, ApplyAll(t) PROVE TypeOK'
  <2>1. VcpuTypeOK'
    BY ZenonT(30), <1>24 DEF ApplyAll, MtxFree, VcpuTypeOK, ListTypeOK, States
  <2>2. ListTypeOK'
    BY ZenonT(30), <1>24 DEF ApplyAll, MtxFree, VcpuTypeOK, ListTypeOK
  <2>3. PauseTypeOK'
    BY <1>24 DEF ApplyAll, MtxFree, VcpuTypeOK, PauseTypeOK, Returns
  <2>4. PcTypeOK'
    <3>1. CASE t \in Vcpus
      BY SMTT(40), <1>24, <3>1, GotoType DEF ApplyAll, MtxFree, VcpuTypeOK, PauseTypeOK, VcpuPCs,
         PausePCs, SnapshotPCs, Returns
    <3>2. CASE t = Mgt
      BY Zenon, <1>24, <3>2, GotoMgtType
         DEF ApplyAll, MtxFree, MgtPCs, PcTypeOK, PausePCs, SnapshotPCs
    <3>3. QED
      BY Zenon, <3>1, <3>2
  <2>5. QED
    BY Zenon, <2>1, <2>2, <2>3, <2>4
<1>25. ASSUME NEW t \in Vcpus \cup {Mgt}, ScanVcpu(t) PROVE TypeOK'
  <2>1. VcpuTypeOK'
    BY ZenonT(30), <1>25 DEF ScanVcpu, VcpuTypeOK, ListTypeOK, States
  <2>2. ListTypeOK'
    BY ZenonT(30), <1>25 DEF ScanVcpu, VcpuTypeOK, ListTypeOK
  <2>3. PauseTypeOK'
    BY <1>25 DEF ScanVcpu, VcpuTypeOK, PauseTypeOK, Returns
  <2>4. PcTypeOK'
    BY Zenon, <1>25 DEF ScanVcpu, VcpuTypeOK, PcTypeOK, Goto, VcpuPCs, MgtPCs, MainPCs, PausePCs,
       ParkPCs
  <2>5. QED
    BY Zenon, <2>1, <2>2, <2>3, <2>4
<1>26. ASSUME NEW t \in Vcpus \cup {Mgt}, ScanEnds(t) PROVE TypeOK'
  <2>1. VcpuTypeOK'
    BY ZenonT(30), <1>26 DEF ScanEnds, VcpuTypeOK, ListTypeOK, States
  <2>2. ListTypeOK'
    BY ZenonT(30), <1>26 DEF ScanEnds, VcpuTypeOK, ListTypeOK
  <2>3. PauseTypeOK'
    BY Zenon, <1>26 DEF ScanEnds, VcpuTypeOK, PauseTypeOK, Returns
  <2>4. PcTypeOK'
    <3>1. CASE t \in Vcpus
      BY SMTT(40), <1>26, <3>1, GotoType DEF ScanEnds, VcpuTypeOK, PauseTypeOK, VcpuPCs, PausePCs,
         SnapshotPCs, Returns
    <3>2. CASE t = Mgt
      BY Zenon, <1>26, <3>2, GotoMgtType DEF ScanEnds, MgtPCs, PcTypeOK, PausePCs, SnapshotPCs
    <3>3. QED
      BY Zenon, <3>1, <3>2
  <2>5. QED
    BY Zenon, <2>1, <2>2, <2>3, <2>4
<1>27. ASSUME NEW t \in Vcpus \cup {Mgt}, SnapshotBlock(t) PROVE TypeOK'
  <2>1. VcpuTypeOK'
    BY ZenonT(30), <1>27 DEF SnapshotBlock, PauseAll, Continue, VcpuTypeOK, ListTypeOK, States
  <2>2. ListTypeOK'
    BY ZenonT(30), <1>27 DEF SnapshotBlock, PauseAll, Continue, VcpuTypeOK, ListTypeOK
  <2>3. PauseTypeOK'
    BY ZenonT(30), <1>27 DEF SnapshotBlock, PauseAll, Continue, VcpuTypeOK, PauseTypeOK, Returns
  <2>4. PcTypeOK'
    <3>1. CASE t \in Vcpus
      BY <1>27, <3>1, GotoType DEF SnapshotBlock, PauseAll, Continue, VcpuTypeOK, PauseTypeOK,
         VcpuPCs, PausePCs, SnapshotPCs, Returns
    <3>2. CASE t = Mgt
      <4>1. \/ Goto(Mgt, "idle")
            \/ Goto(Mgt, "pause_all") /\ ret'[Mgt] = "snap_create"
        BY <1>27, <3>2 DEF SnapshotBlock, PauseAll, Continue, PauseTypeOK
      <4>2. QED
        BY Zenon, <1>27, <4>1, GotoMgtType DEF SnapshotBlock, MgtPCs, PausePCs
    <3>3. QED
      BY Zenon, <3>1, <3>2
  <2>5. QED
    BY Zenon, <2>1, <2>2, <2>3, <2>4
<1>28. ASSUME NEW t \in Vcpus \cup {Mgt}, SnapshotCreate(t) PROVE TypeOK'
  <2>1. VcpuTypeOK'
    BY ZenonT(30), <1>28 DEF SnapshotCreate, VcpuTypeOK, ListTypeOK, States
  <2>2. ListTypeOK'
    BY ZenonT(30), <1>28 DEF SnapshotCreate, VcpuTypeOK, ListTypeOK
  <2>3. PauseTypeOK'
    BY ZenonT(30), <1>28 DEF SnapshotCreate, VcpuTypeOK, PauseTypeOK, Returns
  <2>4. PcTypeOK'
    <3>1. CASE t \in Vcpus
      BY <1>28, <3>1, GotoType DEF SnapshotCreate, VcpuTypeOK, PauseTypeOK, VcpuPCs, PausePCs,
         SnapshotPCs, Returns
    <3>2. CASE t = Mgt
      BY Zenon, <1>28, <3>2, GotoMgtType DEF SnapshotCreate, MgtPCs, PcTypeOK, PausePCs, SnapshotPCs
    <3>3. QED
      BY Zenon, <3>1, <3>2
  <2>5. QED
    BY Zenon, <2>1, <2>2, <2>3, <2>4
<1>29. ASSUME NEW t \in Vcpus \cup {Mgt}, SnapshotUnblock(t) PROVE TypeOK'
  <2>1. VcpuTypeOK'
    BY ZenonT(30), <1>29 DEF SnapshotUnblock, VcpuTypeOK, ListTypeOK, States
  <2>2. ListTypeOK'
    BY ZenonT(30), <1>29 DEF SnapshotUnblock, VcpuTypeOK, ListTypeOK
  <2>3. PauseTypeOK'
    BY ZenonT(30), <1>29 DEF SnapshotUnblock, VcpuTypeOK, PauseTypeOK, Returns
  <2>4. PcTypeOK'
    <3>1. CASE t \in Vcpus
      BY SMTT(40), <1>29, <3>1, GotoType
         DEF SnapshotUnblock, VcpuTypeOK, PauseTypeOK, VcpuPCs, PausePCs,
         SnapshotPCs, Returns
    <3>2. CASE t = Mgt
      BY Zenon, <1>29, <3>2, GotoMgtType DEF SnapshotUnblock, MgtPCs, PcTypeOK, PausePCs, SnapshotPCs
    <3>3. QED
      BY Zenon, <3>1, <3>2
  <2>5. QED
    BY Zenon, <2>1, <2>2, <2>3, <2>4
<1>30. ASSUME NEW t \in Vcpus \cup {Mgt}, SnapshotResume(t) PROVE TypeOK'
  <2>1. VcpuTypeOK'
    BY Zenon, <1>30 DEF SnapshotResume, ResumeAll, Continue, VcpuTypeOK, ListTypeOK, States
  <2>2. ListTypeOK'
    BY Zenon, <1>30 DEF SnapshotResume, ResumeAll, Continue, VcpuTypeOK, ListTypeOK
  <2>3. PauseTypeOK'
    BY ZenonT(30), <1>30 DEF SnapshotResume, ResumeAll, Continue, VcpuTypeOK, PauseTypeOK, Returns
  <2>4. PcTypeOK'
    <3>1. PICK l : /\ ResumeAll(t, l)
                   /\ t \in Vcpus => l \in VcpuPCs
                   /\ t = Mgt => l \in {"idle", "exited"}
      BY SMTT(40), <1>30 DEF SnapshotResume, Continue, VcpuPCs
    <3>2. pc' \in [Threads -> VcpuPCs \cup MgtPCs \cup MainPCs]
      BY <3>1 DEF ResumeAll, PcTypeOK, VcpuPCs, MgtPCs
    <3>3. /\ \A w \in Vcpus : pc'[w] \in VcpuPCs
          /\ pc'[Main] = pc[Main]
      BY <3>1 DEF ResumeAll, PcTypeOK, VcpuPCs, MainPCs
    <3>4. pc'[Mgt] = pc[Mgt] \/ pc'[Mgt] \in {"idle", "exited"}
      BY <3>1 DEF ResumeAll, PcTypeOK, MgtPCs, PausePCs, SnapshotPCs
    <3>5. QED
      BY Zenon, <1>30, <3>2, <3>3, <3>4 DEF SnapshotResume, PcTypeOK, MgtPCs, PausePCs
  <2>5. QED
    BY Zenon, <2>1, <2>2, <2>3, <2>4
<1>31. CASE MgtRequest
  <2>1. VcpuTypeOK'
    BY ZenonT(30), <1>31 DEF MgtRequest, VcpuTypeOK, ListTypeOK, States
  <2>2. ListTypeOK'
    BY ZenonT(30), <1>31 DEF MgtRequest, VcpuTypeOK, ListTypeOK
  <2>3. PauseTypeOK'
    BY Zenon, <1>31 DEF MgtRequest, VcpuTypeOK, PauseTypeOK, Returns
  <2>4. PcTypeOK'
    BY Zenon, <1>31, GotoMgtType DEF MgtRequest, MgtPCs, SnapshotPCs, PausePCs
  <2>5. QED
    BY Zenon, <2>1, <2>2, <2>3, <2>4
<1>32. CASE MainWakes
  <2>1. VcpuTypeOK'
    BY ZenonT(30), <1>32 DEF MainWakes, VcpuTypeOK, ListTypeOK, States
  <2>2. ListTypeOK'
    BY ZenonT(30), <1>32 DEF MainWakes, VcpuTypeOK, ListTypeOK
  <2>3. PauseTypeOK'
    BY ZenonT(30), <1>32 DEF MainWakes, VcpuTypeOK, PauseTypeOK, Returns
  <2>4. PcTypeOK'
    BY <1>32 DEF MainWakes, VcpuTypeOK, PcTypeOK, Goto, VcpuPCs, MgtPCs, MainPCs, PausePCs,
       ParkPCs
  <2>5. QED
    BY Zenon, <2>1, <2>2, <2>3, <2>4
<1>33. CASE MainDofork
  <2>1. VcpuTypeOK'
    BY ZenonT(30), <1>33 DEF MainDofork, VcpuTypeOK, ListTypeOK, States
  <2>2. ListTypeOK'
    BY ZenonT(30), <1>33 DEF MainDofork, VcpuTypeOK, ListTypeOK
  <2>3. PauseTypeOK'
    BY Zenon, <1>33 DEF MainDofork, VcpuTypeOK, PauseTypeOK, Returns
  <2>4. PcTypeOK'
    BY <1>33 DEF MainDofork, VcpuTypeOK, PcTypeOK, Goto, VcpuPCs, MgtPCs, MainPCs, PausePCs,
       ParkPCs
  <2>5. QED
    BY Zenon, <2>1, <2>2, <2>3, <2>4
<1>34. CASE MainForked
  <2>1. VcpuTypeOK'
    BY ZenonT(30), <1>34 DEF MainForked, VcpuTypeOK, ListTypeOK, States
  <2>2. ListTypeOK'
    BY ZenonT(30), <1>34 DEF MainForked, VcpuTypeOK, ListTypeOK
  <2>3. PauseTypeOK'
    BY ZenonT(30), <1>34 DEF MainForked, VcpuTypeOK, PauseTypeOK, Returns
  <2>4. PcTypeOK'
    BY <1>34 DEF MainForked, VcpuTypeOK, PcTypeOK, Goto, VcpuPCs, MgtPCs, MainPCs, PausePCs,
       ParkPCs
  <2>5. QED
    BY Zenon, <2>1, <2>2, <2>3, <2>4
<1>35. CASE MainResumes
  <2>1. VcpuTypeOK'
    BY ZenonT(30), <1>35 DEF MainResumes, ResumeAll, VcpuTypeOK, ListTypeOK, States
  <2>2. ListTypeOK'
    BY ZenonT(30), <1>35 DEF MainResumes, ResumeAll, VcpuTypeOK, ListTypeOK
  <2>3. PauseTypeOK'
    BY ZenonT(30), <1>35 DEF MainResumes, ResumeAll, VcpuTypeOK, PauseTypeOK, Returns
  <2>4. PcTypeOK'
    <3>1. pc' \in [Threads -> VcpuPCs \cup MgtPCs \cup MainPCs]
      BY Zenon, <1>35 DEF MainResumes, ResumeAll, PcTypeOK, VcpuPCs, MainPCs
    <3>2. /\ \A w \in Vcpus : pc'[w] \in VcpuPCs
          /\ pc'[Main] = "wait"
          /\ pc'[Mgt] = pc[Mgt]
      BY SMTT(40), <1>35
         DEF MainResumes, ResumeAll, PcTypeOK, VcpuPCs, MgtPCs, PausePCs, SnapshotPCs
    <3>3. QED
      BY Zenon, <1>35, <3>1, <3>2 DEF MainResumes, PcTypeOK, MainPCs
  <2>5. QED
    BY Zenon, <2>1, <2>2, <2>3, <2>4
<1>36. CASE MainFini
  <2>1. VcpuTypeOK'
    BY ZenonT(30), <1>36 DEF MainFini, VcpuTypeOK, ListTypeOK, States
  <2>2. ListTypeOK'
    BY ZenonT(30), <1>36 DEF MainFini, VcpuTypeOK, ListTypeOK
  <2>3. PauseTypeOK'
    BY Zenon, <1>36 DEF MainFini, VcpuTypeOK, PauseTypeOK, Returns
  <2>4. PcTypeOK'
    BY SMTT(40), <1>36 DEF MainFini, VcpuTypeOK, PcTypeOK, Goto, VcpuPCs, MgtPCs, MainPCs, PausePCs,
       ParkPCs
  <2>5. QED
    BY Zenon, <2>1, <2>2, <2>3, <2>4
<1>37. CASE MainJoins
  <2>1. VcpuTypeOK'
    BY ZenonT(30), <1>37 DEF MainJoins, VcpuTypeOK, ListTypeOK, States
  <2>2. ListTypeOK'
    BY ZenonT(30), <1>37 DEF MainJoins, VcpuTypeOK, ListTypeOK
  <2>3. PauseTypeOK'
    BY Zenon, <1>37 DEF MainJoins, VcpuTypeOK, PauseTypeOK, Returns
  <2>4. PcTypeOK'
    BY SMTT(40), <1>37
       DEF MainJoins, VcpuTypeOK, PcTypeOK, Goto, VcpuPCs, MgtPCs, MainPCs, PausePCs,
       ParkPCs
  <2>5. QED
    BY Zenon, <2>1, <2>2, <2>3, <2>4
<1>38. CASE UNCHANGED vars
  BY ZenonT(30), <1>38 DEF vars, VcpuTypeOK, ListTypeOK, PauseTypeOK, PcTypeOK
<1>39. QED
  BY ZenonT(30), <1>1, <1>2, <1>3, <1>4, <1>5, <1>6, <1>7, <1>8, <1>9, <1>10, <1>11, <1>12, <1>13, <1>14,
     <1>15, <1>16, <1>17, <1>18, <1>19, <1>20, <1>21, <1>22, <1>23, <1>24, <1>25, <1>26, <1>27,
     <1>28, <1>29, <1>30, <1>31, <1>32, <1>33, <1>34, <1>35, <1>36, <1>37, <1>38
     DEF Next, VcpuNext, MgtNext, MainNext, Pauser, Snapshot, Dead

\* Type correctness of the vcpu machinery.
THEOREM TypeCorrect == Spec => []TypeOK
  BY TypeInit, TypeStep, PTL DEF Spec

-----------------------------------------------------------------------------
(* The idle list and the vcpu counts are right for every number of vcpus, as  *)
(* long as every km_vcpu_put holds vm_vcpu_mtx.                               *)

\* A vcpu is named by its thread.
LEMMA VcpusAreThreads == Vcpus \subseteq Threads
  BY ConstantsAssumption DEF ConstantsAssumption, Vcpus, Threads

Asleep == {"parking", "parked", "waking"}

\* What a step may do to a vcpu it does not run: wake it, interrupt its
\* hypercall, let it go around the loop of km_vcpu_stopped or exit.
Stays(u) ==
    \/ /\ state'[u] = state[u] \/ (state[u] = "HYPERCALL" /\ state'[u] = "HCALL_INT")
       /\ \/ pc'[u] = pc[u]
          \/ pc[u] = "paused" /\ pc'[u] = "woken"
          \/ pc[u] \in Asleep /\ pc'[u] \in {"parked", "waking"}
          \/ /\ pc[u] \in Asleep /\ pc'[u] = "unpark"
             /\ exit_group \/ state[u] \in {"HYPERCALL", "HCALL_INT"}
    \/ exit_group /\ pc[u] = "unpark" /\ pc'[u] = "exited" /\ state'[u] = "PARKED_IDLE"

\* What a vcpu that is in use does outside allocation and parking.
Acts(v) ==
    /\ pc[v] \notin Asleep \cup {"none", "exited"}
    /\ pc[v] = "unpark" => ~exit_group
    /\ pc'[v] \notin Asleep \cup {"none", "exited", "unpark", "clone_run", "clone_put", "clone_dec"}
    /\ state'[v] \notin {"NONE", "PARKED_IDLE"}
    /\ state'[v] = "PAUSED" => pc'[v] \in {"paused", "woken"}

\* Such steps keep the invariant.
LEMMA ListFrame ==
    ASSUME ListInv, TypeOK', exit_group => exit_group',
           idle' = idle, run_cnt' = run_cnt, vm_vcpu_cnt' = vm_vcpu_cnt,
           created' = created, child' = child,
           \A u \in Vcpus : Stays(u) \/ Acts(u)
    PROVE  ListInv'
<1> USE DEF ListInv, Resting, Asleep
<1>0. /\ state \in [Vcpus -> States] /\ state' \in [Vcpus -> States]
      /\ pc \in [Threads -> VcpuPCs \cup MgtPCs \cup MainPCs]
      /\ child \in [Vcpus -> Vcpus] /\ vm_vcpu_cnt \in 0 .. MaxVcpus
      /\ idle \in Seq(Vcpus) /\ exit_group \in BOOLEAN /\ exit_group' \in BOOLEAN
      /\ Vcpus \subseteq Threads
  BY Zenon, VcpusAreThreads DEF TypeOK, VcpuTypeOK, PcTypeOK, ListTypeOK, PauseTypeOK
<1>a. Allocated' = Allocated /\ \A u : InIdle(u)' <=> InIdle(u)
  BY Zenon DEF Allocated, InIdle
<1>1. SlotsOk'
  BY Zenon, <1>0, <1>a DEF SlotsOk, Stays, Acts, States
<1>2. StateOk'
  BY Zenon, <1>0 DEF StateOk, SlotsOk, Stays, Acts, States
<1>3. \A u \in Vcpus : state[u] = "PARKED_IDLE" => Stays(u)
  BY Zenon, <1>0 DEF StateOk, Acts
<1>4. \A u \in Vcpus : Resting(u) => Stays(u) \/ pc[u] = "exited"
  BY Zenon, <1>0 DEF StateOk, Acts
<1>5. CloneOk'
  BY SMTT(30), <1>0, <1>a, <1>4 DEF CloneOk, Stays, Acts
<1>6. IdleOk'
  BY <1>0, <1>a, <1>2, <1>3 DEF IdleOk, Stays, Acts, StateOk
<1>7. QED
  BY Zenon, <1>1, <1>2, <1>5, <1>6

-----------------------------------------------------------------------------
\* km_vcpu_get reuses the head of the idle list.
LEMMA ListGetIdle ==
    ASSUME ListInv, TypeOK', NEW v \in Vcpus, pc[v] = "clone_get", GetIdle(v), exit_group' = exit_group
    PROVE  ListInv'
<1> USE DEF ListInv, Resting
<1>0. /\ state \in [Vcpus -> States] /\ state' \in [Vcpus -> States]
      /\ pc \in [Threads -> VcpuPCs \cup MgtPCs \cup MainPCs]
      /\ child \in [Vcpus -> Vcpus] /\ vm_vcpu_cnt \in 0 .. MaxVcpus
      /\ idle \in Seq(Vcpus) /\ exit_group \in BOOLEAN /\ run_cnt \in Int
      /\ Vcpus \subseteq Threads
  BY ZenonT(30), VcpusAreThreads DEF TypeOK, VcpuTypeOK, PcTypeOK, ListTypeOK, PauseTypeOK
<1>a. PICK new \in Vcpus : new = Head(idle)
  BY <1>0 DEF GetIdle
<1>b. /\ ~exit_group /\ ThrFree(new) /\ run_cnt' = run_cnt + 1
      /\ state' = [state EXCEPT ![new] = "STARTING"]
      /\ child' = [child EXCEPT ![v] = new]
      /\ pc' = [pc EXCEPT ![v] = "clone_run"]
      /\ vm_vcpu_cnt' = vm_vcpu_cnt /\ created' = created /\ Allocated' = Allocated
  BY Zenon, <1>a DEF GetIdle, SetState, Goto, Allocated
<1>1. /\ Len(idle) \in Nat \ {0} /\ new = idle[1]
      /\ Len(idle') = Len(idle) - 1
      /\ \A i \in 1 .. Len(idle') : idle'[i] = idle[i + 1]
  BY <1>0, <1>a DEF GetIdle
<1>2. /\ new \in Allocated /\ state[new] = "PARKED_IDLE" /\ Resting(new) /\ pc[new] # "parking" /\ new # v
  BY <1>0, <1>b, <1>1 DEF IdleOk, ThrFree
<1>3. ~InIdle(new)'
  BY SMTT(40), <1>0, <1>b, <1>1 DEF IdleOk, InIdle
<1>4. SlotsOk'
  BY Zenon, <1>0, <1>b, <1>1, <1>2 DEF SlotsOk
<1>5. StateOk'
  BY Zenon, <1>0, <1>b, <1>1, <1>2 DEF StateOk
<1>6. \A u \in Vcpus : pc[u] = "clone_run" => child[u] # new
  BY Zenon, <1>0, <1>b, <1>1, <1>2 DEF CloneOk, InIdle
<1>7. CloneOk'
  <2>1. \A u : InIdle(u)' => InIdle(u)
    <3>1. \A i \in 1 .. Len(idle') : i + 1 \in 1 .. Len(idle)
      BY <1>1
    <3>2. QED
      BY Zenon, <1>1, <3>1 DEF InIdle
  <2>2. QED
    BY <1>0, <1>b, <1>1, <1>2, <1>3, <1>6, <2>1 DEF CloneOk
<1>8. IdleOk'
  <2>1. ASSUME NEW i \in 1 .. Len(idle')
        PROVE  i + 1 \in 1 .. Len(idle) /\ idle'[i] = idle[i + 1] /\ idle'[i] # new /\ idle'[i] # v
    <3>1. i + 1 \in 1 .. Len(idle) /\ i + 1 # 1 /\ 1 \in 1 .. Len(idle) /\ idle'[i] = idle[i + 1]
      BY <1>1
    <3>2. QED
      BY Zenon, <1>1, <3>1 DEF IdleOk
  <2>2. \A u \in Vcpus : InIdle(u) => u = new \/ InIdle(u)'
    <3>1. ASSUME NEW u \in Vcpus, NEW i \in 1 .. Len(idle), idle[i] = u, u # new PROVE InIdle(u)'
      <4>1. i - 1 \in 1 .. Len(idle') /\ idle'[i - 1] = u
        BY <1>0, <1>b, <1>1, <3>1
      <4>2. QED
        BY Zenon, <4>1 DEF InIdle
    <3>2. QED
      BY Zenon, <3>1 DEF InIdle
  <2>3. \A i \in 1 .. Len(idle') :
           idle'[i] \in Allocated' /\ state'[idle'[i]] = "PARKED_IDLE" /\ Resting(idle[i])'
    BY <1>0, <1>b, <2>1 DEF IdleOk
  <2>4. \A i, j \in 1 .. Len(idle') : idle'[i] = idle'[j] => i = j
    <3>1. ASSUME NEW i \in 1 .. Len(idle'), NEW j \in 1 .. Len(idle'), idle'[i] = idle'[j] PROVE i = j
      <4>1. i + 1 = j + 1
        BY Zenon, <2>1, <3>1 DEF IdleOk
      <4>2. QED
        BY <1>1, <4>1
    <3>2. QED
      BY Zenon, <3>1
  <2>5. \A u \in Vcpus : state'[u] = "PARKED_IDLE" => InIdle(u)'
    BY Zenon, <1>0, <1>b, <2>2 DEF IdleOk
  <2>6. run_cnt' = vm_vcpu_cnt' - Len(idle')
    BY <1>0, <1>b, <1>1 DEF IdleOk
  <2>7. QED
    BY Zenon, <2>3, <2>4, <2>5, <2>6 DEF IdleOk
<1>9. QED
  BY Zenon, <1>4, <1>5, <1>7, <1>8

\* km_vcpu_get allocates the next slot.
LEMMA ListGetNew ==
    ASSUME ListInv, TypeOK', NEW v \in Vcpus, pc[v] = "clone_get", GetNew(v), exit_group' = exit_group
    PROVE  ListInv'
<1> USE DEF ListInv, Resting
<1>0. /\ state \in [Vcpus -> States] /\ state' \in [Vcpus -> States]
      /\ pc \in [Threads -> VcpuPCs \cup MgtPCs \cup MainPCs]
      /\ child \in [Vcpus -> Vcpus] /\ vm_vcpu_cnt \in 0 .. MaxVcpus
      /\ idle \in Seq(Vcpus) /\ exit_group \in BOOLEAN /\ run_cnt \in Int
      /\ Vcpus \subseteq Threads
  BY ZenonT(30), VcpusAreThreads DEF TypeOK, VcpuTypeOK, PcTypeOK, ListTypeOK, PauseTypeOK
<1>a. PICK new \in Vcpus : new = vm_vcpu_cnt + 1
  BY <1>0, ConstantsAssumption DEF ConstantsAssumption, GetNew, Vcpus
<1>b. /\ Allocated' = Allocated \cup {new} /\ new \notin Allocated
      /\ run_cnt' = run_cnt + 1 /\ vm_vcpu_cnt' = vm_vcpu_cnt + 1
      /\ state' = [state EXCEPT ![new] = "STARTING"]
      /\ child' = [child EXCEPT ![v] = new]
      /\ pc' = [pc EXCEPT ![v] = "clone_run"]
      /\ idle' = idle /\ created' = created
      /\ \A u : InIdle(u)' <=> InIdle(u)
  BY <1>0, <1>a DEF GetNew, SetState, Goto, Allocated, InIdle
<1>1. state[new] = "NONE" /\ pc[new] = "none" /\ new # v
  BY Zenon, <1>0, <1>b DEF SlotsOk
<1>2. SlotsOk'
  BY Zenon, <1>0, <1>b, <1>1 DEF SlotsOk
<1>3. StateOk'
  BY Zenon, <1>0, <1>b, <1>1 DEF StateOk
<1>4. ~InIdle(new)
  BY Zenon, <1>1 DEF IdleOk, InIdle
<1>5. CloneOk'
  BY <1>0, <1>b, <1>1, <1>4 DEF CloneOk
<1>6. IdleOk'
  <2>1. run_cnt' = vm_vcpu_cnt' - Len(idle')
    <3>1. Len(idle) \in Nat
      BY <1>0
    <3>2. QED
      BY <1>0, <1>b, <3>1 DEF IdleOk
  <2>2. QED
    BY <1>0, <1>b, <1>1, <2>1 DEF IdleOk
<1>7. QED
  BY Zenon, <1>2, <1>3, <1>5, <1>6

\* km_run_vcpu_thread starts the new vcpu.
LEMMA ListCloneRun ==
    ASSUME LockedPuts, ListInv, TypeOK', NEW v \in Vcpus, CloneRun(v)
    PROVE  ListInv'
<1> USE DEF ListInv, Resting
<1>0. /\ state \in [Vcpus -> States] /\ state' \in [Vcpus -> States]
      /\ pc \in [Threads -> VcpuPCs \cup MgtPCs \cup MainPCs]
      /\ child \in [Vcpus -> Vcpus] /\ vm_vcpu_cnt \in 0 .. MaxVcpus
      /\ idle \in Seq(Vcpus) /\ exit_group \in BOOLEAN
      /\ Vcpus \subseteq Threads
  BY ZenonT(30), VcpusAreThreads DEF TypeOK, VcpuTypeOK, PcTypeOK, ListTypeOK, PauseTypeOK
<1>a. PICK new \in Vcpus : new = child[v]
  BY Zenon, <1>0
<1>1. /\ new \in Allocated /\ ~InIdle(new) /\ Resting(new) /\ pc[new] # "parking" /\ new # v
      /\ state[new] = "STARTING" \/ pc[new] = "exited"
      /\ \A u \in Vcpus : pc[u] = "clone_run" /\ child[u] = new => u = v
      /\ pc[v] = "clone_run"
  BY Zenon, <1>0, <1>a DEF CloneOk, CloneRun
<1>2. /\ exit_group' = exit_group /\ idle' = idle /\ run_cnt' = run_cnt
      /\ vm_vcpu_cnt' = vm_vcpu_cnt /\ child' = child
      /\ state' = [state EXCEPT ![new] = "HYPERCALL"]
      /\ created' = created \cup {new}
      /\ Allocated' = Allocated /\ \A u : InIdle(u)' <=> InIdle(u)
      /\ \/ pc' = [pc EXCEPT ![v] = "handle_pause", ![new] = IF @ = "parked" THEN "waking" ELSE @] /\ pc[new] # "none"
         \/ pc' = [pc EXCEPT ![v] = "handle_pause", ![new] = "handle_pause"] /\ pc[new] = "none"
  BY <1>0, <1>a, <1>1 DEF CloneRun, SlotsOk, SetState, Goto, LockedPuts, flagVars,
     Allocated, InIdle
<1>3. SlotsOk'
  BY Zenon, <1>0, <1>1, <1>2 DEF SlotsOk
<1>4. StateOk'
  BY Zenon, <1>0, <1>1, <1>2 DEF StateOk
<1>5. CloneOk'
  BY SMTT(40), <1>0, <1>1, <1>2 DEF CloneOk
<1>6. IdleOk'
  <2>1. \A i \in 1 .. Len(idle) : idle[i] # new /\ idle[i] # v
    BY Zenon, <1>1 DEF IdleOk, InIdle
  <2>2. \A i \in 1 .. Len(idle) : idle[i] \in Vcpus
    BY <1>0
  <2>3. \A i \in 1 .. Len(idle) : state'[idle[i]] = "PARKED_IDLE" /\ Resting(idle[i])'
    BY <1>0, <1>1, <1>2, <2>1, <2>2 DEF IdleOk
  <2>4. QED
    BY <1>0, <1>1, <1>2, <2>3 DEF IdleOk
<1>7. QED
  BY Zenon, <1>3, <1>4, <1>5, <1>6

\* km_vcpu_stopped puts the vcpu at the head of the list.
LEMMA ListStopped ==
    ASSUME ListInv, TypeOK', NEW v \in Vcpus, Stopped(v)
    PROVE  ListInv'
<1> USE DEF ListInv, Resting
<1>0. /\ state \in [Vcpus -> States] /\ state' \in [Vcpus -> States]
      /\ pc \in [Threads -> VcpuPCs \cup MgtPCs \cup MainPCs]
      /\ child \in [Vcpus -> Vcpus] /\ vm_vcpu_cnt \in 0 .. MaxVcpus
      /\ idle \in Seq(Vcpus) /\ exit_group \in BOOLEAN /\ run_cnt \in Int
      /\ Vcpus \subseteq Threads
  BY ZenonT(30), VcpusAreThreads DEF TypeOK, VcpuTypeOK, PcTypeOK, ListTypeOK, PauseTypeOK
<1>a. /\ pc[v] = "stopped" /\ pc' = [pc EXCEPT ![v] = "parking"]
      /\ state' = [state EXCEPT ![v] = "PARKED_IDLE"]
      /\ run_cnt' = run_cnt - 1 /\ exit_group' = exit_group
      /\ vm_vcpu_cnt' = vm_vcpu_cnt /\ created' = created /\ child' = child
      /\ Allocated' = Allocated
  BY Zenon DEF Stopped, SetState, Goto, Allocated
<1>1. /\ Len(idle) \in Nat /\ Len(idle') = Len(idle) + 1 /\ idle'[1] = v
      /\ \A i \in 1 .. Len(idle) : idle'[i + 1] = idle[i]
      /\ \A i \in 1 .. Len(idle') : i = 1 \/ (i - 1 \in 1 .. Len(idle) /\ idle'[i] = idle[i - 1])
  BY SMTT(40), <1>0 DEF Stopped
<1>2. /\ v \in Allocated /\ state[v] # "PARKED_IDLE" /\ ~InIdle(v)
      /\ \A u \in Vcpus : pc[u] = "clone_run" => child[u] # v
  BY Zenon, <1>0, <1>a DEF SlotsOk, StateOk, IdleOk, InIdle, CloneOk
<1>3. SlotsOk'
  BY Zenon, <1>0, <1>a, <1>2 DEF SlotsOk
<1>4. StateOk'
  BY Zenon, <1>0, <1>a, <1>2 DEF StateOk
<1>5. \A u \in Vcpus : InIdle(u)' <=> u = v \/ InIdle(u)
  <2>1. ASSUME NEW u \in Vcpus, NEW i \in 1 .. Len(idle), idle[i] = u PROVE InIdle(u)'
    <3>1. i + 1 \in 1 .. Len(idle') /\ idle'[i + 1] = u
      BY SMTT(40), <1>1, <2>1
    <3>2. QED
      BY Zenon, <3>1 DEF InIdle
  <2>2. QED
    BY <1>1, <2>1 DEF InIdle
<1>6. CloneOk'
  BY Zenon, <1>0, <1>a, <1>2, <1>5 DEF CloneOk
<1>7. IdleOk'
  <2>1. \A i, j \in 1 .. Len(idle') : idle'[i] = idle'[j] => i = j
    <3>1. ASSUME NEW i \in 1 .. Len(idle'), NEW j \in 1 .. Len(idle'), idle'[i] = idle'[j] PROVE i = j
      <4>1. (i = 1) <=> (j = 1)
        BY <1>1, <1>2, <3>1 DEF InIdle
      <4>2. i # 1 /\ j # 1 => i - 1 = j - 1
        BY SMTT(40), <1>1, <3>1 DEF IdleOk
      <4>3. QED
        BY <1>1, <4>1, <4>2
    <3>2. QED
      BY Zenon, <3>1
  <2>2. \A i \in 1 .. Len(idle') :
           idle'[i] \in Allocated' /\ state'[idle'[i]] = "PARKED_IDLE" /\ Resting(idle[i])'
    BY SMTT(40), <1>0, <1>a, <1>1, <1>2 DEF IdleOk, InIdle
  <2>3. QED
    BY <1>0, <1>a, <1>1, <1>2, <1>5, <2>1, <2>2 DEF IdleOk
<1>8. QED
  BY Zenon, <1>3, <1>4, <1>6, <1>7

-----------------------------------------------------------------------------
\* The management and the main thread run no vcpu.
LEMMA MgtIsThread == Mgt \in Threads /\ Mgt \notin Vcpus /\ Main \in Threads /\ Main \notin Vcpus
  BY SMTT(40), ConstantsAssumption DEF ConstantsAssumption, Vcpus, Threads, Mgt, Main

\* Every step of KM keeps the invariant of the idle list and the counts.
LEMMA ListStep ==
    ASSUME LockedPuts PROVE ListInv /\ [Next]_vars => ListInv'
<1> SUFFICES ASSUME ListInv, [Next]_vars PROVE ListInv'
  BY Zenon
<1>a. LockedPuts /\ ListInv /\ TypeOK'
  BY Zenon, TypeStep DEF ListInv
<1>b. /\ state \in [Vcpus -> States] /\ state' \in [Vcpus -> States]
      /\ pc \in [Threads -> VcpuPCs \cup MgtPCs \cup MainPCs]
      /\ \A u \in Vcpus : pc[u] \in VcpuPCs
      /\ ret \in [Threads -> Returns] /\ exit_group \in BOOLEAN
      /\ Vcpus \subseteq Threads /\ Main \in Threads \ Vcpus /\ Mgt \in Threads \ Vcpus
  BY Zenon, <1>a, VcpusAreThreads, MgtIsThread
  DEF ListInv, TypeOK, VcpuTypeOK, PcTypeOK, ListTypeOK, PauseTypeOK
<1>c. \A u \in Vcpus :
        /\ pc[u] \notin Asleep \cup {"none", "exited", "unpark"} => state[u] \notin {"NONE", "PARKED_IDLE"}
        /\ pc[u] = "unpark" /\ ~exit_group => state[u] \in {"HYPERCALL", "HCALL_INT"}
        /\ pc[u] \notin {"paused", "woken"} => state[u] # "PAUSED"
  BY Zenon, <1>a DEF ListInv, StateOk, SlotsOk, Resting, Asleep
<1>1. ASSUME NEW v \in Vcpus, HandlePause(v) PROVE ListInv'
  <2>1. \A u \in Vcpus : Stays(u) \/ Acts(u)
    BY <1>1, <1>b, <1>c DEF HandlePause, MustPause, Stays, Acts, Asleep, SetState, Goto
  <2>2. QED
    BY Zenon, <1>1, <1>a, <2>1, ListFrame DEF HandlePause, sharedVars, flagVars
<1>2. ASSUME NEW v \in Vcpus, SpuriousResume(v) PROVE ListInv'
  <2>1. \A u \in Vcpus : Stays(u) \/ Acts(u)
    BY Zenon, <1>2, <1>b, <1>c DEF SpuriousResume, Stays, Acts, Asleep, SetState, Goto
  <2>2. QED
    BY Zenon, <1>2, <1>a, <2>1, ListFrame DEF SpuriousResume, sharedVars, flagVars
<1>3. ASSUME NEW v \in Vcpus, LeavePause(v) PROVE ListInv'
  <2>1. \A u \in Vcpus : Stays(u) \/ Acts(u)
    BY SMTT(40), <1>3, <1>b, <1>c DEF LeavePause, Stays, Acts, Asleep, SetState, Goto
  <2>2. QED
    BY Zenon, <1>3, <1>a, <2>1, ListFrame DEF LeavePause, sharedVars, flagVars
<1>4. ASSUME NEW v \in Vcpus, KvmRun(v) PROVE ListInv'
  <2>1. \A u \in Vcpus : Stays(u) \/ Acts(u)
    BY Zenon, <1>4, <1>b, <1>c DEF KvmRun, Stays, Acts, Asleep, SetState, Goto
  <2>2. QED
    BY Zenon, <1>4, <1>a, <2>1, ListFrame DEF KvmRun, sharedVars, flagVars
<1>5. ASSUME NEW v \in Vcpus, KvmExitIo(v) PROVE ListInv'
  <2>1. \A u \in Vcpus : Stays(u) \/ Acts(u)
    BY Zenon, <1>5, <1>b, <1>c DEF KvmExitIo, Stays, Acts, Asleep, SetState, Goto
  <2>2. QED
    BY Zenon, <1>5, <1>a, <2>1, ListFrame DEF KvmExitIo, sharedVars, flagVars
<1>6. ASSUME NEW v \in Vcpus, StopSignal(v) PROVE ListInv'
  <2>1. \A u \in Vcpus : Stays(u) \/ Acts(u)
    BY <1>6, <1>b, <1>c DEF StopSignal, Stays, Acts, Asleep, SetState, Goto
  <2>2. QED
    BY Zenon, <1>6, <1>a, <2>1, ListFrame DEF StopSignal, sharedVars, flagVars
<1>7. ASSUME NEW v \in Vcpus, Hypercall(v) PROVE ListInv'
  <2>1. PICK h \in Hypercalls : Goto(v, Entry(h))
    BY Zenon, <1>7 DEF Hypercall
  <2>2. Entry(h) \in {"handle_pause", "blocked", "suspended", "clone_get", "stopped", "exit_all", "fork",
                     "snap_block", "fatal"}
    BY Zenon, ConstantsAssumption DEF ConstantsAssumption, AllHypercalls, Entry
  <2>3. \A u \in Vcpus : Stays(u) \/ Acts(u)
    BY Zenon, <1>7, <1>b, <1>c, <2>1, <2>2 DEF Hypercall, Stays, Acts, Asleep, SetState, Goto
  <2>4. QED
    BY Zenon, <1>7, <1>a, <2>3, ListFrame DEF Hypercall, sharedVars, flagVars
<1>8. ASSUME NEW v \in Vcpus, HypercallReturns(v) PROVE ListInv'
  <2>1. \A u \in Vcpus : Stays(u) \/ Acts(u)
    BY Zenon, <1>8, <1>b, <1>c DEF HypercallReturns, Stays, Acts, Asleep, SetState, Goto
  <2>2. QED
    BY Zenon, <1>8, <1>a, <2>1, ListFrame DEF HypercallReturns, sharedVars, flagVars
<1>9. ASSUME NEW v \in Vcpus, CloneGet(v) PROVE ListInv'
  <2>1. CASE GetIdle(v)
    BY Zenon, <1>9, <1>a, <2>1, ListGetIdle DEF CloneGet, flagVars
  <2>2. CASE GetNew(v)
    BY Zenon, <1>9, <1>a, <2>2, ListGetNew DEF CloneGet, flagVars
  <2>3. CASE GetFails(v)
    <3>1. \A u \in Vcpus : Stays(u) \/ Acts(u)
      BY Zenon, <1>9, <1>b, <1>c, <2>3 DEF CloneGet, GetFails, Stays, Acts, Asleep, Goto
    <3>2. QED
      BY Zenon, <1>9, <1>a, <2>3, <3>1, ListFrame DEF CloneGet, GetFails, sharedVars, flagVars
  <2>4. QED
    BY Zenon, <1>9, <2>1, <2>2, <2>3 DEF CloneGet
<1>10. ASSUME NEW v \in Vcpus, CloneRun(v) PROVE ListInv'
  BY Zenon, <1>10, <1>a, ListCloneRun
<1>11. ASSUME NEW v \in Vcpus, ClonePut(v) PROVE ListInv'
  BY Zenon, <1>11 DEF ClonePut, ListInv, CloneOk
<1>12. ASSUME NEW v \in Vcpus, CloneDec(v) PROVE ListInv'
  BY Zenon, <1>12 DEF CloneDec, ListInv, CloneOk
<1>13. ASSUME NEW v \in Vcpus, Stopped(v) PROVE ListInv'
  BY Zenon, <1>13, <1>a, ListStopped
<1>14. ASSUME NEW v \in Vcpus, Park(v) PROVE ListInv'
  <2>1. \A u \in Vcpus : Stays(u) \/ Acts(u)
    BY Zenon, <1>14, <1>b, <1>c DEF Park, Stays, Acts, Asleep, SetState, Goto
  <2>2. QED
    BY Zenon, <1>14, <1>a, <2>1, ListFrame DEF Park, sharedVars, flagVars
<1>15. ASSUME NEW v \in Vcpus, SpuriousUnpark(v) PROVE ListInv'
  <2>1. \A u \in Vcpus : Stays(u) \/ Acts(u)
    BY Zenon, <1>15, <1>b, <1>c DEF SpuriousUnpark, Stays, Acts, Asleep, SetState, Goto
  <2>2. QED
    BY Zenon, <1>15, <1>a, <2>1, ListFrame DEF SpuriousUnpark, sharedVars, flagVars
<1>16. ASSUME NEW v \in Vcpus, Unpark(v) PROVE ListInv'
  <2>1. \A u \in Vcpus : Stays(u) \/ Acts(u)
    BY <1>16, <1>b, <1>c DEF Unpark, Stays, Acts, Asleep, SetState, Goto
  <2>2. QED
    BY Zenon, <1>16, <1>a, <2>1, ListFrame DEF Unpark, sharedVars, flagVars
<1>17. ASSUME NEW v \in Vcpus, ExitAll(v) PROVE ListInv'
  <2>1. \A u \in Vcpus : Stays(u) \/ Acts(u)
    BY SMTT(40), <1>17, <1>b, <1>c DEF ExitAll, PauseAll, Stays, Acts, Asleep, SetState, Goto
  <2>2. QED
    BY Zenon, <1>17, <1>a, <2>1, ListFrame DEF ExitAll, sharedVars, flagVars
<1>18. ASSUME NEW v \in Vcpus, ExitFini(v) PROVE ListInv'
  <2>1. \A u \in Vcpus : Stays(u) \/ Acts(u)
    BY Zenon, <1>18, <1>b, <1>c DEF ExitFini, Stays, Acts, Asleep, SetState, Goto
  <2>2. QED
    BY Zenon, <1>18, <1>a, <2>1, ListFrame DEF ExitFini, sharedVars, flagVars
<1>19. ASSUME NEW v \in Vcpus, Fatal(v) PROVE ListInv'
  <2>1. \A u \in Vcpus : Stays(u) \/ Acts(u)
    BY Zenon, <1>19, <1>b, <1>c DEF Fatal, PauseAll, Stays, Acts, Asleep, SetState, Goto
  <2>2. QED
    BY Zenon, <1>19, <1>a, <2>1, ListFrame DEF Fatal, sharedVars, flagVars
<1>20. ASSUME NEW v \in Vcpus, FatalDump(v) PROVE ListInv'
  <2>1. \A u \in Vcpus : Stays(u) \/ Acts(u)
    BY Zenon, <1>20, <1>b, <1>c DEF FatalDump, Stays, Acts, Asleep, SetState, Goto
  <2>2. QED
    BY Zenon, <1>20, <1>a, <2>1, ListFrame DEF FatalDump, sharedVars, flagVars
<1>21. ASSUME NEW v \in Vcpus, BeforeFork(v) PROVE ListInv'
  <2>1. \A u \in Vcpus : Stays(u) \/ Acts(u)
    BY <1>21, <1>b, <1>c DEF BeforeFork, PauseAll, Stays, Acts, Asleep, SetState, Goto
  <2>2. QED
    BY Zenon, <1>21, <1>a, <2>1, ListFrame DEF BeforeFork, sharedVars, flagVars
<1>22. ASSUME NEW v \in Vcpus, ForkKick(v) PROVE ListInv'
  <2>1. \A u \in Vcpus : Stays(u) \/ Acts(u)
    BY Zenon, <1>22, <1>b, <1>c DEF ForkKick, Stays, Acts, Asleep, SetState, Goto
  <2>2. QED
    BY Zenon, <1>22, <1>a, <2>1, ListFrame DEF ForkKick, sharedVars, flagVars
<1>23. ASSUME NEW t \in Threads, RequestPause(t) PROVE ListInv'
  <2>1. \A u \in Vcpus : Stays(u) \/ Acts(u)
    BY Zenon, <1>23, <1>b, <1>c DEF RequestPause, Stays, Acts, Asleep, SetState, Goto
  <2>2. QED
    BY Zenon, <1>23, <1>a, <2>1, ListFrame DEF RequestPause, sharedVars, flagVars
<1>24. ASSUME NEW t \in Threads, ApplyAll(t) PROVE ListInv'
  <2>1. \A u \in Vcpus : Stays(u) \/ Acts(u)
    BY Zenon, <1>24, <1>b, <1>c DEF ApplyAll, Stays, Acts, Asleep, SetState, Goto
  <2>2. QED
    BY Zenon, <1>24, <1>a, <2>1, ListFrame DEF ApplyAll, sharedVars, flagVars
<1>25. ASSUME NEW t \in Threads, ScanVcpu(t) PROVE ListInv'
  <2>1. \A u \in Vcpus : Stays(u) \/ Acts(u)
    BY Zenon, <1>25, <1>b, <1>c DEF ScanVcpu, Stays, Acts, Asleep, SetState, Goto
  <2>2. QED
    BY Zenon, <1>25, <1>a, <2>1, ListFrame DEF ScanVcpu, sharedVars, flagVars
<1>26. ASSUME NEW t \in Threads, ScanEnds(t) PROVE ListInv'
  <2>1. \A u \in Vcpus : Stays(u) \/ Acts(u)
    BY Zenon, <1>26, <1>b, <1>c DEF ScanEnds, Stays, Acts, Asleep, SetState, Goto, Returns
  <2>2. QED
    BY ZenonT(30), <1>26, <1>a, <2>1, ListFrame DEF ScanEnds, sharedVars, flagVars
<1>27. ASSUME NEW t \in Threads, SnapshotBlock(t) PROVE ListInv'
  <2>1. \A u \in Vcpus : Stays(u) \/ Acts(u)
    BY ZenonT(30), <1>27, <1>b, <1>c
       DEF SnapshotBlock, PauseAll, Continue, Stays, Acts, Asleep, SetState, Goto
  <2>2. QED
    BY Zenon, <1>27, <1>a, <2>1, ListFrame DEF SnapshotBlock, sharedVars, flagVars
<1>28. ASSUME NEW t \in Threads, SnapshotCreate(t) PROVE ListInv'
  <2>1. \A u \in Vcpus : Stays(u) \/ Acts(u)
    BY Zenon, <1>28, <1>b, <1>c DEF SnapshotCreate, Stays, Acts, Asleep, SetState, Goto
  <2>2. exit_group => exit_group'
    BY ZenonT(30), <1>28 DEF SnapshotCreate
  <2>3. QED
    BY Zenon, <1>28, <1>a, <2>1, <2>2, ListFrame DEF SnapshotCreate, sharedVars
<1>29. ASSUME NEW t \in Threads, SnapshotUnblock(t) PROVE ListInv'
  <2>1. \A u \in Vcpus : Stays(u) \/ Acts(u)
    BY Zenon, <1>29, <1>b, <1>c DEF SnapshotUnblock, Stays, Acts, Asleep, SetState, Goto
  <2>2. QED
    BY Zenon, <1>29, <1>a, <2>1, ListFrame DEF SnapshotUnblock, sharedVars, flagVars
<1>30. ASSUME NEW t \in Threads, SnapshotResume(t) PROVE ListInv'
  <2>1. \A u \in Vcpus : Stays(u) \/ Acts(u)
    BY Zenon, <1>30, <1>b, <1>c
       DEF SnapshotResume, ResumeAll, Continue, Stays, Acts, Asleep, SetState, Goto
  <2>2. QED
    BY Zenon, <1>30, <1>a, <2>1, ListFrame DEF SnapshotResume, sharedVars, flagVars
<1>31. ASSUME MgtRequest PROVE ListInv'
  <2>1. \A u \in Vcpus : Stays(u) \/ Acts(u)
    BY Zenon, <1>31, <1>b, <1>c DEF MgtRequest, Stays, Acts, Asleep, SetState, Goto
  <2>2. QED
    BY Zenon, <1>31, <1>a, <2>1, ListFrame DEF MgtRequest, sharedVars, flagVars
<1>32. ASSUME MainWakes PROVE ListInv'
  <2>1. \A u \in Vcpus : Stays(u) \/ Acts(u)
    BY Zenon, <1>32, <1>b, <1>c DEF MainWakes, Stays, Acts, Asleep, SetState, Goto
  <2>2. QED
    BY Zenon, <1>32, <1>a, <2>1, ListFrame DEF MainWakes, sharedVars, flagVars
<1>33. ASSUME MainDofork PROVE ListInv'
  <2>1. \A u \in Vcpus : Stays(u) \/ Acts(u)
    BY Zenon, <1>33, <1>b, <1>c DEF MainDofork, Stays, Acts, Asleep, SetState, Goto
  <2>2. QED
    BY Zenon, <1>33, <1>a, <2>1, ListFrame DEF MainDofork, sharedVars, flagVars
<1>34. ASSUME MainForked PROVE ListInv'
  <2>1. \A u \in Vcpus : Stays(u) \/ Acts(u)
    BY Zenon, <1>34, <1>b, <1>c DEF MainForked, Stays, Acts, Asleep, SetState, Goto
  <2>2. QED
    BY Zenon, <1>34, <1>a, <2>1, ListFrame DEF MainForked, sharedVars, flagVars
<1>35. ASSUME MainResumes PROVE ListInv'
  <2>1. \A u \in Vcpus : Stays(u) \/ Acts(u)
    BY Zenon, <1>35, <1>b, <1>c DEF MainResumes, ResumeAll, Stays, Acts, Asleep, SetState, Goto
  <2>2. QED
    BY Zenon, <1>35, <1>a, <2>1, ListFrame DEF MainResumes, sharedVars, flagVars
<1>36. ASSUME MainFini PROVE ListInv'
  <2>1. \A u \in Vcpus : Stays(u) \/ Acts(u)
    BY <1>36, <1>b, <1>c DEF MainFini, Stays, Acts, Asleep, SetState, Goto
  <2>2. QED
    BY Zenon, <1>36, <1>a, <2>1, ListFrame DEF MainFini, sharedVars, flagVars
<1>37. ASSUME MainJoins PROVE ListInv'
  <2>1. \A u \in Vcpus : Stays(u) \/ Acts(u)
    BY Zenon, <1>37, <1>b, <1>c DEF MainJoins, Stays, Acts, Asleep, SetState, Goto
  <2>2. QED
    BY Zenon, <1>37, <1>a, <2>1, ListFrame DEF MainJoins, sharedVars, flagVars
<1>38. CASE UNCHANGED vars
  <2>1. \A u \in Vcpus : Stays(u)
    BY Zenon, <1>38 DEF vars, Stays
  <2>2. QED
    BY Zenon, <1>38, <1>a, <2>1, ListFrame DEF vars, sharedVars, flagVars
<1>39. QED
  BY Zenon, <1>1, <1>2, <1>3, <1>4, <1>5, <1>6, <1>7, <1>8, <1>9, <1>10, <1>11, <1>12,
     <1>13, <1>14, <1>15, <1>16, <1>17, <1>18, <1>19, <1>20, <1>21, <1>22, <1>23, <1>24,
     <1>25, <1>26, <1>27, <1>28, <1>29, <1>30, <1>31, <1>32, <1>33, <1>34, <1>35, <1>36,
     <1>37, <1>38,
     VcpusAreThreads, MgtIsThread
  DEF Next, Dead, VcpuNext, MgtNext, MainNext, Pauser, Snapshot

\* The machine starts with one vcpu, which runs.
LEMMA ListInit == Init => ListInv
<1> SUFFICES ASSUME Init PROVE ListInv
  BY Zenon
<1>1. TypeOK
  BY Zenon, TypeInit
<1>2. /\ \A v \in Vcpus : state[v] = (IF v = 1 THEN "HYPERCALL" ELSE "NONE")
      /\ \A v \in Vcpus : pc[v] = (IF v = 1 THEN "handle_pause" ELSE "none")
      /\ 1 \in Vcpus /\ Allocated = {1} /\ created = {1} /\ Len(idle) = 0
      /\ run_cnt = 1 /\ vm_vcpu_cnt = 1 /\ ~exit_group
  BY ConstantsAssumption, VcpusAreThreads, MgtIsThread
  DEF ConstantsAssumption, Init, Vcpus, Threads, Main, Mgt, Allocated
<1>3. 1 .. Len(idle) = {} /\ run_cnt = vm_vcpu_cnt - Len(idle)
  BY <1>2
<1>4. QED
  BY Zenon, <1>1, <1>2, <1>3 DEF ListInv, SlotsOk, StateOk, CloneOk, IdleOk, Resting

\* The idle list and the counts are right in every reachable state.
LEMMA ListInvariant == ASSUME LockedPuts PROVE Spec => []ListInv
  BY ListInit, ListStep, PTL DEF Spec

\* The idle list holds exactly the parked vcpus and the count of running ones is
\* right (km_vcpu_get, km_vcpu_put, km_vcpu_stopped), whatever the number of
\* vcpus and the hypercalls, when no thread creation fails.
THEOREM IdleListCorrect == ASSUME LockedPuts PROVE Spec => []IdleListOk
<1>1. ListInv => IdleListOk
  BY Zenon DEF ListInv, IdleOk, IdleListOk, InIdle
<1>2. QED
  BY <1>1, ListInvariant, PTL

\* A vcpu that km_clone sets up belongs to it alone, and its thread waits or exits.
THEOREM NewVcpuCorrect == ASSUME LockedPuts PROVE Spec => []NewVcpuExclusive
<1>1. ListInv => NewVcpuExclusive
  <2> SUFFICES ASSUME ListInv, NEW v \in Vcpus, pc[v] \in {"clone_run", "clone_put"}
               PROVE  /\ \A u \in Vcpus \ {v} : pc[u] \in {"clone_run", "clone_put"} => child[u] # child[v]
                      /\ child[v] \in created =>
                            \/ pc[child[v]] \in {"parked", "waking"}
                            \/ exit_group /\ pc[child[v]] \in {"unpark", "exited"}
    BY Zenon DEF NewVcpuExclusive
  <2>1. pc[v] = "clone_run" /\ child[v] \in Vcpus
    BY Zenon DEF ListInv, CloneOk, TypeOK, ListTypeOK
  <2>2. \A u \in Vcpus : pc[u] \in {"clone_run", "clone_put"} => pc[u] = "clone_run"
    BY Zenon DEF ListInv, CloneOk
  <2>3. QED
    BY Zenon, <2>1, <2>2 DEF ListInv, CloneOk, SlotsOk, Resting
<1>2. QED
  BY <1>1, ListInvariant, PTL
=============================================================================
