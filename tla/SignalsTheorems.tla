--------------------------- MODULE SignalsTheorems ---------------------------
(* Theorems about Signals, for every number of vcpus, of signals, of entries   *)
(* in the pool and of posts, and whatever the guest's threads call.            *)
EXTENDS SignalsProofs, FiniteSetTheorems, NaturalsInduction

-----------------------------------------------------------------------------
(* The facts about numbers and finite sets that SignalsProofs uses *)

\* A set of numbers that is not empty has a least one.
LEMMA LeastOfNumbers ==
    ASSUME NEW T, T \subseteq Nat, T # {} PROVE \E n \in T : \A m \in T : n <= m
<1> DEFINE R == OpToRel(<, Nat)
<1>1. \A x, y \in Nat : y < x => <<y, x>> \in R
  <2> SUFFICES ASSUME NEW x \in Nat, NEW y \in Nat, y < x
               PROVE  <<y, x>> \in {ss \in Nat \X Nat : ss[1] < ss[2]}
    BY ZenonT(30) DEF OpToRel
  <2> DEFINE p == <<y, x>>
  <2>1. p \in Nat \X Nat /\ p[1] < p[2]
    BY Zenon
  <2>2. QED
    BY <2>1, ZenonT(30)
<1>2. IsWellFoundedOn(R, Nat)
  BY NatLessThanWellFounded, ZenonT(30)
<1> HIDE DEF R
<1>3. PICK x \in T : \A y \in T : ~ (<<y, x>> \in R)
  BY <1>2, WFMin, ZenonT(30)
<1>4. \A y \in T : ~ (y < x)
  BY <1>1, <1>3, ZenonT(30)
<1>5. QED
  BY <1>4

\* The facts that SignalsProofs uses hold.
LEMMA CountingHolds == Counting
<1>1. \A T \in SUBSET Nat : T # {} => \E n \in T : \A m \in T : n <= m
  BY ZenonT(30), LeastOfNumbers
<1>2. \A n \in Nat : IsFiniteSet(1 .. n)
  BY FS_Interval
<1>3. Cardinality({}) = 0 /\ \A x : Cardinality({x}) = 1
  BY ZenonT(30), FS_EmptySet, FS_Singleton
<1>4. ASSUME NEW S, IsFiniteSet(S)
      PROVE  /\ Cardinality(S) \in Nat
             /\ \A T \in SUBSET S : IsFiniteSet(T)
             /\ \A x : x \notin S => Cardinality(S \cup {x}) = Cardinality(S) + 1
             /\ \A x \in S : /\ Cardinality(S \ {x}) = Cardinality(S) - 1
                             /\ Cardinality(S \ {x}) \in Nat
  <2>1. Cardinality(S) \in Nat
    BY ZenonT(30), <1>4, FS_CardinalityType
  <2>2. \A T \in SUBSET S : IsFiniteSet(T)
    BY ZenonT(30), <1>4, FS_Subset
  <2>3. \A x : x \notin S => Cardinality(S \cup {x}) = Cardinality(S) + 1
    BY ZenonT(30), <1>4, FS_AddElement
  <2>4. ASSUME NEW x \in S
        PROVE  Cardinality(S \ {x}) = Cardinality(S) - 1 /\ Cardinality(S \ {x}) \in Nat
    BY ZenonT(30), <1>4, FS_RemoveElement, FS_CardinalityType
  <2>5. QED
    BY ZenonT(30), <2>1, <2>2, <2>3, <2>4
<1>5. QED
  BY ZenonT(30), <1>1, <1>2, <1>3, <1>4 DEF Counting

-----------------------------------------------------------------------------
(* Every signal that is posted is in one place *)

\* The signal state keeps its types and every post its one place.
THEOREM ConservedInvariant == Spec => []ConservedInv
<1>1. Init => ConservedInv
  BY ZenonT(30), CountingHolds, ConservedInit
<1>2. ConservedInv /\ [Next]_vars => ConservedInv'
  BY ZenonT(30), CountingHolds, TypeStep, ConservedStep, ConservedStutter DEF ConservedInv
<1>3. QED
  BY <1>1, <1>2, PTL DEF Spec

\* Every post is in exactly one place (km_post_signal, km_signal_ready_nolock,
\* km_dequeue_signal_nolock), and the pool accounts for every queued entry.
THEOREM ConservedCorrect == Spec => []SignalsConserved
<1>1. ConservedInv => SignalsConserved
  BY ZenonT(30), CountingHolds, ConservedMeans
<1>2. QED
  BY <1>1, ConservedInvariant, PTL

-----------------------------------------------------------------------------
(* The links of the wait queue and the sleep queue *)

\* km_signal_wait_queue holds vcpus that wait for a signal, km_signal_sleep_queue
\* vcpus in epoll_pwait, and no vcpu is linked twice.
THEOREM QueuesCorrect == Spec => []QueuesOk
<1>1. Init => LinksOk
  BY ZenonT(30), LinksInit
<1>2. TypeOK /\ LinksOk /\ [Next]_vars => LinksOk'
  BY ZenonT(30), LinksStep, LinksStutter, CountingHolds
<1>3. TypeOK /\ LinksOk => QueuesOk
  BY ZenonT(30), LinksMean, CountingHolds
<1>4. ConservedInv => TypeOK
  BY Zenon DEF ConservedInv
<1>5. QED
  BY <1>1, <1>2, <1>3, <1>4, ConservedInvariant, PTL DEF Spec

-----------------------------------------------------------------------------
(* The nesting of handlers *)

\* v is in a system call that has replaced the mask for its duration.
MaskReplaced(v) ==
    pc[v] \in {"timedwait", "timedwait_timed", "timedwait_expired", "timedwait_woken", "pselect"}

\* The mask of the guest code v runs, or returns to.
GuestMask(v) == IF MaskReplaced(v) THEN oldmask[v] ELSE sigmask[v]

\* The mask below the handlers is the guest's own, and while a handler runs its
\* signal is blocked, in every mask above it, unless the guest has unblocked it.
FramesOk(v) ==
    /\ v \notin in_sigsuspend
    /\ IF frames[v] = <<>> THEN GuestMask(v) = base[v] ELSE frames[v][Len(frames[v])].mask = base[v]
    /\ \A j \in 1 .. Len(frames[v]) :
          /\ frames[v][j].signo \in GuestMask(v) \cup unblocked[v]
          /\ \A i \in 1 .. j - 1 : frames[v][j].signo \in frames[v][i].mask \cup unblocked[v]
    /\ NotReentered(v)

NestInv == in_sigsuspend \subseteq suspended /\ \A v \in Vcpus \ suspended : FramesOk(v)

\* A step that leaves the guest's mask and the handlers of v as they are.
LEMMA NestFrame ==
    ASSUME NEW v \in Vcpus, FramesOk(v), v \notin in_sigsuspend', GuestMask(v)' = GuestMask(v),
           frames'[v] = frames[v], base'[v] = base[v], unblocked'[v] = unblocked[v]
    PROVE  FramesOk(v)'
<1>1. NotReentered(v)'
  BY ZenonT(60) DEF FramesOk, NotReentered
<1>2. QED
  BY <1>1 DEF FramesOk

\* The mask changes below the handlers, or a signal in a handler is unblocked.
LEMMA NestMask ==
    ASSUME TypeOK, NEW v \in Vcpus, FramesOk(v), ~MaskReplaced(v), ~MaskReplaced(v)', UNCHANGED <<in_sigsuspend, frames>>,
           base'[v] = IF frames[v] = <<>> THEN sigmask'[v] ELSE base[v],
           unblocked'[v] = unblocked[v] \cup (sigmask[v] \ sigmask'[v])
    PROVE  FramesOk(v)'
<1>0. GuestMask(v) = sigmask[v] /\ GuestMask(v)' = sigmask'[v] /\ frames[v] \in Seq(Frames)
  BY ZenonT(30), Types DEF GuestMask, Frames
<1>1. NotReentered(v)'
  BY ZenonT(60) DEF FramesOk, NotReentered
<1>2. IF frames'[v] = <<>> THEN GuestMask(v)' = base'[v] ELSE frames'[v][Len(frames'[v])].mask = base'[v]
  BY ZenonT(60), <1>0 DEF FramesOk
<1>3. ASSUME NEW j \in 1 .. Len(frames'[v])
      PROVE  /\ frames'[v][j].signo \in GuestMask(v)' \cup unblocked'[v]
             /\ \A i \in 1 .. j - 1 : frames'[v][j].signo \in frames'[v][i].mask \cup unblocked'[v]
  <2>1. frames[v][j].signo \in sigmask[v] \cup unblocked[v]
    BY ZenonT(60), <1>0 DEF FramesOk
  <2>2. \A i \in 1 .. j - 1 : frames[v][j].signo \in frames[v][i].mask \cup unblocked[v]
    BY ZenonT(60) DEF FramesOk
  <2>3. QED
    BY ZenonT(60), <1>0, <2>1, <2>2
<1>4. QED
  BY ZenonT(60), <1>1, <1>2, <1>3 DEF FramesOk

\* rt_sigreturn takes the mask from the innermost frame.
LEMMA NestReturn ==
    ASSUME TypeOK, NEW v \in Vcpus, FramesOk(v), ~MaskReplaced(v)', UNCHANGED <<in_sigsuspend, base>>,
           frames[v] # <<>>, frames'[v] = Tail(frames[v]), sigmask'[v] = Head(frames[v]).mask,
           unblocked'[v] = IF Len(frames[v]) = 1 THEN {} ELSE unblocked[v]
    PROVE  FramesOk(v)'
<1> DEFINE f == frames[v]
           g == Tail(f)
<1>0. GuestMask(v)' = sigmask'[v] /\ f \in Seq(Frames) /\ f # <<>>
  BY ZenonT(30), Types DEF GuestMask, Frames
<1>1. /\ Len(f) \in Nat /\ Len(f) > 0 /\ Len(g) = Len(f) - 1
      /\ \A j \in 1 .. Len(g) : g[j] = f[j + 1] /\ j + 1 \in 1 .. Len(f) /\ j \in Nat
      /\ Head(f) = f[1] /\ (g = <<>> <=> Len(f) = 1)
  <2>1. Len(f) \in Nat /\ Len(f) # 0
    BY Zenon, <1>0, EmptyFacts
  <2>2. Len(g) = Len(f) - 1 /\ g \in Seq(Frames) /\ Head(f) = f[1]
    BY SMTT(30), <1>0
  <2>3. \A j \in 1 .. Len(g) : g[j] = f[j + 1] /\ j + 1 \in 1 .. Len(f) /\ j \in Nat
    BY <1>0, <2>1, <2>2
  <2>4. g = <<>> <=> Len(g) = 0
    BY ZenonT(30), <2>2, EmptyFacts
  <2> HIDE DEF f, g
  <2>5. QED
    BY SMTT(30), <2>1, <2>2, <2>3, <2>4
<1>2. /\ f[Len(f)].mask = base[v]
      /\ \A j \in 1 .. Len(f) : \A i \in 1 .. j - 1 : f[j].signo \in f[i].mask \cup unblocked[v]
      /\ \A i, j \in 1 .. Len(f) : i # j /\ f[i].signo = f[j].signo =>
              f[i].signo \in unblocked[v] \cup ign_block_signals
  <2>1. DOMAIN f = 1 .. Len(f)
    BY SMTT(30), <1>0
  <2>2. QED
    BY ZenonT(60), <1>0, <2>1 DEF FramesOk, NotReentered
<1>3. frames'[v] = g /\ sigmask'[v] = f[1].mask
  BY Zenon, <1>1
<1>4. DOMAIN g = 1 .. Len(g)
  BY <1>0
<1> HIDE DEF f, g
<1>5. CASE Len(f) = 1
  <2>1. g = <<>> /\ 1 .. Len(g) = {} /\ f[1].mask = base[v]
    BY <1>1, <1>2, <1>5
  <2>2. QED
    BY ZenonT(30), <1>0, <1>3, <1>4, <2>1 DEF FramesOk, NotReentered
<1>6. CASE Len(f) # 1
  <2>1. g # <<>> /\ g[Len(g)] = f[Len(f)] /\ unblocked'[v] = unblocked[v]
    BY <1>1, <1>6 DEF f
  <2>2. NotReentered(v)'
    <3>1. \A i, j \in 1 .. Len(g) : i # j /\ g[i].signo = g[j].signo =>
              g[i].signo \in unblocked[v] \cup ign_block_signals
      BY SMTT(30), <1>1, <1>2
    <3>2. QED
      BY ZenonT(30), <1>3, <1>4, <2>1, <3>1 DEF NotReentered
  <2>3. ASSUME NEW j \in 1 .. Len(g)
        PROVE  /\ g[j].signo \in f[1].mask \cup unblocked[v]
               /\ \A i \in 1 .. j - 1 : g[j].signo \in g[i].mask \cup unblocked[v]
    <3>1. /\ g[j] = f[j + 1] /\ j + 1 \in 1 .. Len(f) /\ 1 \in 1 .. (j + 1) - 1
          /\ \A i \in 1 .. j - 1 : g[i] = f[i + 1] /\ i + 1 \in 1 .. (j + 1) - 1
      BY <1>1
    <3>2. QED
      BY ZenonT(60), <1>2, <3>1
  <2>4. QED
    BY ZenonT(30), <1>0, <1>2, <1>3, <2>1, <2>2, <2>3 DEF FramesOk
<1>7. QED
  BY <1>5, <1>6

\* km_deliver_signal pushes a frame with the mask and blocks the signal.
LEMMA NestEntered ==
    ASSUME TypeOK, NEW v \in Vcpus, FramesOk(v), ~MaskReplaced(v), ~MaskReplaced(v)',
           UNCHANGED <<base, unblocked>>, in_sigsuspend' \subseteq in_sigsuspend,
           NEW s \in Signals, s \notin sigmask[v] \/ s \in ign_block_signals,
           frames'[v] = <<[signo |-> s, mask |-> sigmask[v]]>> \o frames[v],
           sigmask[v] \cup {s} \subseteq sigmask'[v]
    PROVE  FramesOk(v)'
<1> DEFINE f == frames[v]
           e == [signo |-> s, mask |-> sigmask[v]]
           g == <<e>> \o f
<1>0. GuestMask(v) = sigmask[v] /\ GuestMask(v)' = sigmask'[v] /\ f \in Seq(Frames) /\ e \in Frames
  BY ZenonT(30), Types DEF GuestMask, Frames
<1>1. e.signo = s /\ e.mask = sigmask[v]
  BY ZenonT(60)
<1>2. DOMAIN f = 1 .. Len(f) /\ Len(f) \in Nat
  BY ZenonT(30), <1>0, EmptyFacts
<1>3. /\ f = <<>> => sigmask[v] = base[v]
      /\ f # <<>> => f[Len(f)].mask = base[v]
      /\ \A j \in 1 .. Len(f) : f[j].signo \in sigmask[v] \cup unblocked[v]
      /\ \A j \in 1 .. Len(f) : \A i \in 1 .. j - 1 : f[j].signo \in f[i].mask \cup unblocked[v]
      /\ \A i, j \in 1 .. Len(f) : i # j /\ f[i].signo = f[j].signo =>
              f[i].signo \in unblocked[v] \cup ign_block_signals
  BY ZenonT(30), <1>0, <1>2 DEF FramesOk, NotReentered
<1>4. frames'[v] = g
  BY Zenon
<1> HIDE DEF e
<1>5. /\ g \in Seq(Frames) /\ Len(g) = Len(f) + 1 /\ g[1] = e
      /\ \A j \in 2 .. Len(f) + 1 : g[j] = f[j - 1] /\ j - 1 \in 1 .. Len(f)
  <2>1. <<e>> \in Seq(Frames) /\ Len(<<e>>) = 1 /\ <<e>>[1] = e
    BY ZenonT(30), <1>0, SingletonFacts
  <2>2. /\ g \in Seq(Frames) /\ Len(g) = Len(<<e>>) + Len(f)
        /\ \A j \in 1 .. Len(<<e>>) + Len(f) : g[j] = IF j <= Len(<<e>>) THEN <<e>>[j] ELSE f[j - Len(<<e>>)]
    BY ZenonT(30), <1>0, <2>1, ConcatFacts
  <2> DEFINE h == <<e>>
  <2> HIDE DEF g, f, h
  <2>3. Len(h) = 1 /\ h[1] = e
    BY Zenon, <2>1 DEF h
  <2>4. /\ g \in Seq(Frames) /\ Len(g) = Len(h) + Len(f)
        /\ \A j \in 1 .. Len(h) + Len(f) : g[j] = IF j <= Len(h) THEN h[j] ELSE f[j - Len(h)]
    BY Zenon, <2>2 DEF h
  <2>5. QED
    BY SMTT(30), <1>2, <2>3, <2>4
<1>6. g # <<>> /\ DOMAIN g = 1 .. Len(g) /\ (f # <<>> <=> Len(f) > 0)
  <2>1. f = <<>> <=> Len(f) = 0
    BY Zenon, <1>0, EmptyFacts
  <2> HIDE DEF g, f
  <2>2. QED
    BY SMTT(30), <1>2, <1>5, <2>1
<1> HIDE DEF g, f
<1>7. g[Len(g)].mask = base[v]
  <2>1. CASE f = <<>>
    <3>1. Len(g) = 1 /\ g[1] = e
      BY SMTT(30), <1>2, <1>5, <1>6, <2>1
    <3>2. QED
      BY ZenonT(30), <1>1, <1>3, <2>1, <3>1
  <2>2. CASE f # <<>>
    <3>1. Len(g) \in 2 .. Len(f) + 1 /\ Len(g) - 1 = Len(f)
      BY SMTT(30), <1>2, <1>5, <1>6, <2>2
    <3>2. QED
      BY Zenon, <1>3, <1>5, <2>2, <3>1
  <2>3. QED
    BY ZenonT(60), <2>1, <2>2
<1>8. ASSUME NEW j \in 1 .. Len(g)
      PROVE  /\ g[j].signo \in sigmask'[v] \cup unblocked[v]
             /\ \A i \in 1 .. j - 1 : g[j].signo \in g[i].mask \cup unblocked[v]
  <2>1. CASE j = 1
    <3>1. g[j] = e /\ \A i \in 1 .. j - 1 : FALSE
      BY SMTT(30), <1>5, <2>1
    <3>2. QED
      BY ZenonT(30), <1>1, <3>1
  <2>2. CASE j # 1
    <3>1. j \in 2 .. Len(f) + 1 /\ j - 1 \in 1 .. Len(f) /\ g[j] = f[j - 1]
      BY SMTT(30), <1>2, <1>5, <2>2
    <3>2. ASSUME NEW i \in 1 .. j - 1 PROVE g[j].signo \in g[i].mask \cup unblocked[v]
      <4>1. CASE i = 1
        BY Zenon, <1>1, <1>3, <1>5, <3>1, <4>1
      <4>2. CASE i # 1
        <5>1. i \in 2 .. Len(f) + 1 /\ i - 1 \in 1 .. (j - 1) - 1 /\ g[i] = f[i - 1]
          <6>1. j \in Int /\ i \in 1 .. j - 1 /\ j <= Len(f) + 1 /\ Len(f) \in Nat
            BY SMTT(30), <1>2, <3>1
          <6>2. i \in 2 .. Len(f) + 1 /\ i - 1 \in 1 .. (j - 1) - 1
            BY SMTT(30), <4>2, <6>1
          <6>3. QED
            BY ZenonT(30), <1>5, <6>2
        <5>2. QED
          BY ZenonT(60), <1>3, <3>1, <5>1
      <4>3. QED
        BY Zenon, <4>1, <4>2
    <3>3. QED
      BY SMTT(30), <1>3, <3>1, <3>2
  <2>3. QED
    BY ZenonT(60), <2>1, <2>2
<1>9. ASSUME NEW i \in 1 .. Len(g), NEW j \in 1 .. Len(g), i # j, g[i].signo = g[j].signo
      PROVE  g[i].signo \in unblocked[v] \cup ign_block_signals
  <2>1. \A k \in 1 .. Len(g) : k # 1 => k \in 2 .. Len(f) + 1 /\ k \in Int
    BY SMTT(30), <1>2, <1>5
  <2>2. \A k \in 1 .. Len(g) : k # 1 /\ g[k].signo = s => s \in unblocked[v] \cup ign_block_signals
    BY SMTT(30), <1>3, <1>5, <2>1
  <2>3. CASE i = 1 \/ j = 1
    BY Zenon, <1>1, <1>5, <1>9, <2>2, <2>3
  <2>4. CASE i # 1 /\ j # 1
    <3>1. i - 1 # j - 1
      BY SMTT(30), <1>9, <2>1, <2>4
    <3>2. QED
      BY ZenonT(30), <1>3, <1>5, <1>9, <2>1, <2>4, <3>1
  <2>5. QED
    BY ZenonT(60), <2>3, <2>4
<1>10. NotReentered(v)'
  BY ZenonT(30), <1>4, <1>6, <1>9 DEF NotReentered
<1>11. QED
  BY ZenonT(60), <1>0, <1>4, <1>6, <1>7, <1>8, <1>10 DEF FramesOk

\* The steps that leave every guest's mask and handlers as they are.
NestKept ==
    /\ UNCHANGED <<in_sigsuspend, suspended, frames, base, unblocked>>
    /\ \A v \in Vcpus : GuestMask(v)' = GuestMask(v)

\* A step that changes neither masks nor frames keeps the nesting.
LEMMA NestQuiet == ASSUME NestInv, NestKept PROVE NestInv'
<1>1. ASSUME NEW v \in Vcpus \ suspended PROVE FramesOk(v)'
  <2>1. /\ FramesOk(v) /\ v \notin in_sigsuspend' /\ GuestMask(v)' = GuestMask(v)
        /\ frames'[v] = frames[v] /\ base'[v] = base[v] /\ unblocked'[v] = unblocked[v]
    BY ZenonT(30) DEF NestInv, NestKept
  <2>2. QED
    BY ZenonT(30), <2>1, NestFrame
<1>2. QED
  BY ZenonT(30), <1>1 DEF NestInv, NestKept

\* What the lemmas below use of the types.
LEMMA NestTypes ==
    ASSUME TypeOK
    PROVE  /\ VM \notin Vcpus /\ VM \in Threads /\ Vcpus \subseteq Threads /\ pc \in [Threads -> PCs]
           /\ sigmask \in [Vcpus -> SUBSET Signals] /\ oldmask \in [Vcpus -> SUBSET Signals]
           /\ base \in [Vcpus -> SUBSET Signals] /\ unblocked \in [Vcpus -> SUBSET Signals]
           /\ frames \in [Vcpus -> Seq(Frames)]
  BY ZenonT(30), VMNotVcpu, Types DEF Frames

\* Posts change neither masks nor frames.
LEMMA NestPosts ==
    ASSUME TypeOK, \/ \E t \in Threads : Kill(t) \/ EnqueueSignal(t) \/ Interrupt(t)
                   \/ \E v \in Vcpus : Tkill(v) \/ Fault(v)
    PROVE  NestKept
<1>1. UNCHANGED <<in_sigsuspend, suspended, frames, base, unblocked, sigmask, oldmask>>
  BY ZenonT(30) DEF maskVars, runVars, Kill, Tkill, Fault, PostSignal, EnqueueSignal, Interrupt
<1>2. \A v \in Vcpus : MaskReplaced(v)' <=> MaskReplaced(v)
  BY ZenonT(60), NestTypes DEF MaskReplaced, Goto, Return, Kill, Tkill, Fault, PostSignal, EnqueueSignal, Interrupt
<1>3. QED
  BY ZenonT(30), <1>1, <1>2 DEF NestKept, GuestMask

\* The system calls that replace the mask put it back when they return.
LEMMA NestCalls ==
    ASSUME TypeOK, NEW v \in Vcpus,
           \/ Kick(v) \/ SuspendWoken(v) \/ Expire(v) \/ TimedOut(v) \/ TimedwaitWoken(v) \/ Sigtimedwait(v)
           \/ Epoll(v) \/ EpollReady(v) \/ EpollReturn(v) \/ Pselect(v) \/ PselectReturn(v) \/ Sigaction(v)
           \/ OtherCall(v) \/ KvmRun(v)
    PROVE  NestKept
<1>1. UNCHANGED <<in_sigsuspend, suspended, frames, base, unblocked>>
  BY ZenonT(30)
  DEF maskVars, runVars, Kick, SuspendWoken, Expire, TimedOut, TimedwaitWoken, Sigtimedwait, Epoll, EpollReady,
      EpollReturn, Pselect, PselectReturn, Sigaction, OtherCall, KvmRun
<1>2. \A u \in Vcpus : GuestMask(u)' = GuestMask(u)
  BY ZenonT(60), NestTypes
  DEF GuestMask, MaskReplaced, Goto, Return, maskVars, Kick, SuspendWoken, Expire, TimedOut, TimedwaitWoken,
      Sigtimedwait, Epoll, EpollReady, EpollReturn, Pselect, PselectReturn, Sigaction, OtherCall, KvmRun
<1>3. QED
  BY ZenonT(30), <1>1, <1>2 DEF NestKept

\* Neither does waking a waiter.
LEMMA NestWakeup == ASSUME Counting, TypeOK, NEW t \in Threads, Wakeup(t) PROVE NestKept
<1>1. pc[t] = "wakeup" /\ UNCHANGED <<in_sigsuspend, suspended, sigmask, oldmask, frames, base, unblocked>>
  BY ZenonT(30) DEF Wakeup, maskVars
<1>2. ASSUME NEW v \in Vcpus PROVE MaskReplaced(v)' <=> MaskReplaced(v)
  <2>1. CASE Waiters(post[t].signo) = {}
    BY Zenon, NestTypes, <1>1, <2>1 DEF Wakeup, Goto, MaskReplaced
  <2>2. CASE Waiters(post[t].signo) # {}
    <3>1. PICK i \in 1 .. Len(wait_queue) :
            pc' = [pc EXCEPT ![t] = IF t = VM THEN "guest" ELSE "deliver",
                             ![wait_queue[i]] = CASE @ = "suspend" -> "suspend_woken"
                                       [] @ \in {"timedwait", "timedwait_timed"} -> "timedwait_woken"
                                       [] OTHER -> @]
      BY ZenonT(30), <2>2, WakeupFacts
    <3>a. wait_queue \in Seq(Vcpus)
      BY ZenonT(30), Types
    <3>b. wait_queue[i] \in Vcpus
      BY <3>a
    <3>2. wait_queue[i] \in Threads
      BY ZenonT(30), <3>b, NestTypes
    <3>3. QED
      BY SMTT(30), NestTypes, <1>1, <3>1, <3>2 DEF MaskReplaced
  <2>3. QED
    BY Zenon, <2>1, <2>2
<1>3. QED
  BY ZenonT(30), <1>1, <1>2 DEF NestKept, GuestMask

\* A vcpu that uses rt_sigsuspend is no longer spoken of.
LEMMA NestSigsuspend ==
    ASSUME TypeOK, NestInv, NEW u \in Vcpus, Sigsuspend(u)
    PROVE  NestInv'
<1>1. in_sigsuspend' \subseteq suspended' /\ suspended' = suspended \cup {u}
  BY ZenonT(60) DEF Sigsuspend, NestInv
<1>2. ASSUME NEW v \in Vcpus \ suspended' PROVE FramesOk(v)'
  <2>1. FramesOk(v) /\ v \notin in_sigsuspend' /\ v # u
    BY Zenon, <1>1 DEF NestInv
  <2>2. /\ GuestMask(v)' = GuestMask(v)
        /\ frames'[v] = frames[v] /\ base'[v] = base[v] /\ unblocked'[v] = unblocked[v]
    BY ZenonT(60), NestTypes, <2>1 DEF Sigsuspend, Goto, GuestMask, MaskReplaced
  <2>3. QED
    BY ZenonT(60), <2>1, <2>2, NestFrame
<1>3. QED
  BY Zenon, <1>1, <1>2 DEF NestInv

\* rt_sigprocmask changes the mask of the guest, and unblocks what it takes out.
LEMMA NestSigprocmask ==
    ASSUME TypeOK, NestInv, NEW u \in Vcpus, Sigprocmask(u)
    PROVE  NestInv'
<1>1. in_sigsuspend' \subseteq suspended' /\ suspended' = suspended
  BY ZenonT(60) DEF Sigprocmask, NestInv
<1>2. ASSUME NEW v \in Vcpus \ suspended, v # u PROVE FramesOk(v)'
  <2>1. FramesOk(v) /\ v \notin in_sigsuspend'
    BY Zenon, <1>1 DEF NestInv
  <2>2. /\ GuestMask(v)' = GuestMask(v)
        /\ frames'[v] = frames[v] /\ base'[v] = base[v] /\ unblocked'[v] = unblocked[v]
    BY Zenon, NestTypes, <1>2 DEF Sigprocmask, MaskReplaced, GuestMask, Goto, Return, maskVars, runVars
  <2>3. QED
    BY SMTT(30), <2>1, <2>2, NestFrame
<1>3. ASSUME u \notin suspended PROVE FramesOk(u)'
  <2>1. FramesOk(u)
    BY Zenon, <1>3 DEF NestInv
  <2>3. /\ ~MaskReplaced(u) /\ ~MaskReplaced(u)' /\ UNCHANGED <<in_sigsuspend, frames>>
        /\ base'[u] = IF frames[u] = <<>> THEN sigmask'[u] ELSE base[u]
        /\ unblocked'[u] = unblocked[u] \cup (sigmask[u] \ sigmask'[u])
    BY Zenon, NestTypes DEF Sigprocmask, Return, Goto, MaskReplaced, maskVars, runVars
  <2>4. QED
    BY SMTT(30), <2>1, <2>3, NestMask
<1>4. QED
  BY <1>1, <1>2, <1>3 DEF NestInv

\* The return from a handler restores the mask below it.
LEMMA NestSigreturn ==
    ASSUME TypeOK, NestInv, NEW u \in Vcpus, Sigreturn(u)
    PROVE  NestInv'
<1>1. in_sigsuspend' \subseteq suspended' /\ suspended' = suspended
  BY SMTT(30) DEF Sigreturn, NestInv
<1>2. ASSUME NEW v \in Vcpus \ suspended, v # u PROVE FramesOk(v)'
  <2>1. FramesOk(v) /\ v \notin in_sigsuspend'
    BY Zenon, <1>1 DEF NestInv
  <2>2. /\ GuestMask(v)' = GuestMask(v)
        /\ frames'[v] = frames[v] /\ base'[v] = base[v] /\ unblocked'[v] = unblocked[v]
    BY Zenon, NestTypes, <1>2 DEF Sigreturn, MaskReplaced, GuestMask, Goto, Return, maskVars, runVars
  <2>3. QED
    BY Zenon, <2>1, <2>2, NestFrame
<1>3. ASSUME u \notin suspended PROVE FramesOk(u)'
  <2>1. FramesOk(u)
    BY Zenon, <1>3 DEF NestInv
  <2>3. /\ ~MaskReplaced(u)' /\ UNCHANGED <<in_sigsuspend, base>> /\ frames[u] # <<>>
        /\ frames'[u] = Tail(frames[u]) /\ sigmask'[u] = Head(frames[u]).mask
        /\ unblocked'[u] = IF Len(frames[u]) = 1 THEN {} ELSE unblocked[u]
    BY Zenon, NestTypes DEF Sigreturn, Return, Goto, MaskReplaced
  <2>4. QED
    BY SMTT(30), <2>1, <2>3, NestReturn
<1>4. QED
  BY Zenon, <1>1, <1>2, <1>3 DEF NestInv

\* A handler is entered with its signal blocked, on top of the others.
LEMMA NestDeliver ==
    ASSUME Counting, TypeOK, NestInv, NEW u \in Vcpus, Deliver(u)
    PROVE  NestInv'
<1>1. in_sigsuspend' \subseteq in_sigsuspend /\ suspended' = suspended /\ UNCHANGED <<oldmask, base, unblocked>>
  BY SMTT(30) DEF Deliver, DeliverSignal, NestInv
<1>2. ASSUME NEW v \in Vcpus \ suspended, v # u PROVE FramesOk(v)'
  <2>1. FramesOk(v) /\ v \notin in_sigsuspend'
    BY Zenon, <1>1 DEF NestInv
  <2>2. frames'[v] = frames[v] /\ sigmask'[v] = sigmask[v] /\ pc'[v] = pc[v]
    BY SMTT(30), NestTypes, <1>2 DEF Deliver, DeliverSignal, Goto
  <2>3. GuestMask(v)' = GuestMask(v)
    BY Zenon, <1>1, <2>2 DEF GuestMask, MaskReplaced
  <2>4. QED
    BY SMTT(30), <1>1, <2>1, <2>2, <2>3, NestFrame
<1>3. ASSUME u \notin suspended PROVE FramesOk(u)'
  <2>1. FramesOk(u) /\ u \notin in_sigsuspend /\ u \notin in_sigsuspend'
    BY SMTT(30), <1>1, <1>3 DEF NestInv
  <2>2. ~MaskReplaced(u) /\ ~MaskReplaced(u)'
    BY NestTypes DEF Deliver, Goto, MaskReplaced
  <2>3. CASE UNCHANGED <<sigmask, frames>>
    <3>1. GuestMask(u)' = GuestMask(u)
      BY <2>2, <2>3 DEF GuestMask
    <3>2. QED
      BY ZenonT(60), <1>1, <2>1, <2>3, <3>1, NestFrame
  <2>4. CASE /\ Ready(u, sigmask[u]) /\ Dequeue(u, sigmask[u])
             /\ DeliverSignal(u, Dequeued(u, sigmask[u]))
    <3> DEFINE sig == Dequeued(u, sigmask[u])
    <3>1. sig \in Entries /\ ~IsBlocked(sigmask[u], sig)
      <4>1. PICK x \in {u, VM} : \E c \in 1 .. Len(sigpending[x]) :
                sig = sigpending[x][c] /\ ~IsBlocked(sigmask[u], sigpending[x][c])
        BY Zenon, <2>4, DequeueFacts
      <4>2. sigpending[x] \in Seq(Entries)
        BY ZenonT(60), NestTypes, Types
      <4> HIDE DEF sig
      <4>3. QED
        BY SMTT(30), <4>1, <4>2
    <3> DEFINE act == sigactions[sig.signo]
               s == sig.signo
    <3> HIDE DEF sig
    <3>2. s \in Signals /\ (s \notin sigmask[u] \/ s \in ign_block_signals)
      BY <3>1 DEF Entries, IsBlocked
    <3>3. DeliverSignal(u, sig)
      BY <2>4 DEF sig
    <3>4. CASE act.handler = "handler"
      <4>1. frames'[u] = <<[signo |-> s, mask |-> sigmask[u]]>> \o frames[u]
        BY SMTT(30), NestTypes, <3>3, <3>4 DEF DeliverSignal
      <4>2. sigmask[u] \cup {s} \subseteq sigmask'[u]
        BY Zenon, NestTypes, <2>1, <3>3, <3>4 DEF DeliverSignal
      <4>3. QED
        BY ZenonT(60), <1>1, <2>1, <2>2, <3>2, <4>1, <4>2, NestEntered
    <3>5. CASE act.handler # "handler"
      <4>1. frames'[u] = frames[u] /\ sigmask'[u] = sigmask[u]
        BY Zenon, NestTypes, <2>1, <3>3, <3>5 DEF DeliverSignal
      <4>2. GuestMask(u)' = GuestMask(u)
        BY SMTT(30), <2>2, <4>1 DEF GuestMask
      <4>3. QED
        BY ZenonT(60), <1>1, <2>1, <4>1, <4>2, NestFrame
    <3>6. QED
      BY SMTT(30), <3>4, <3>5
  <2>5. QED
    BY ZenonT(60), <2>3, <2>4 DEF Deliver
<1>4. in_sigsuspend' \subseteq suspended'
  BY Zenon, <1>1 DEF NestInv
<1>5. QED
  BY ZenonT(40), <1>1, <1>2, <1>3, <1>4 DEF NestInv

\* Every step keeps the nesting.
LEMMA NestStep == ASSUME Counting, TypeOK, NestInv, Next PROVE NestInv'
  BY ZenonT(30), NextSteps, NestQuiet, NestPosts, NestCalls, NestWakeup, NestSigsuspend, NestSigprocmask, NestSigreturn, NestDeliver
  DEF GuestStep

\* There are no handlers initially.
LEMMA NestInit == ASSUME Init PROVE NestInv
<1>1. ASSUME NEW v \in Vcpus PROVE FramesOk(v)
  <2>1. /\ frames[v] = <<>> /\ sigmask[v] = {} /\ oldmask[v] = {} /\ base[v] = {} /\ in_sigsuspend = {}
    BY Zenon DEF Init
  <2>2. (\A j \in 1 .. Len(<<>>) : FALSE) /\ \A i \in DOMAIN <<>> : FALSE
    OBVIOUS
  <2>3. QED
    BY ZenonT(30), <2>1, <2>2 DEF FramesOk, NotReentered, GuestMask
<1>2. QED
  BY SMTT(30), <1>1 DEF NestInv, Init

\* Nothing changes in a step of nobody.
LEMMA NestStutter == ASSUME NestInv, UNCHANGED vars PROVE NestInv'
<1>1. UNCHANGED <<in_sigsuspend, suspended, frames, sigmask, oldmask, base, unblocked, pc>>
  BY Zenon DEF vars, maskVars, runVars
<1>2. ASSUME NEW v \in Vcpus \ suspended PROVE FramesOk(v)'
  <2>1. FramesOk(v) /\ v \notin in_sigsuspend' /\ GuestMask(v)' = GuestMask(v)
    BY SMTT(30), <1>1 DEF NestInv, GuestMask, MaskReplaced
  <2>2. QED
    BY ZenonT(60), <1>1, <2>1, NestFrame
<1>3. QED
  BY Zenon, <1>1, <1>2 DEF NestInv

\* The invariant says that handlers nest.
LEMMA NestMeans == ASSUME NestInv PROVE HandlersNest
  BY DEF NestInv, HandlersNest, FramesOk, MaskKept, GuestMask, MaskReplaced

\* Handlers nest: outside them a vcpu has the mask its guest thread has set, and a
\* handler is not entered again before it returns unless the guest unblocks its signal.
THEOREM NestCorrect == Spec => []HandlersNest
<1>1. Init => NestInv
  BY ZenonT(30), NestInit
<1>2. TypeOK /\ NestInv /\ [Next]_vars => NestInv'
  BY ZenonT(30), NestStep, NestStutter, CountingHolds
<1>3. NestInv => HandlersNest
  BY ZenonT(30), NestMeans
<1>4. ConservedInv => TypeOK
  BY Zenon DEF ConservedInv
<1>5. QED
  BY <1>1, <1>2, <1>3, <1>4, ConservedInvariant, PTL DEF Spec

=============================================================================
