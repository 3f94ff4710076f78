---------------------------- MODULE SignalsProofs ----------------------------
(* What each step of Signals does to the types, to the places of the posts and *)
(* to the links of the wait queues, for every number of vcpus, of signals, of  *)
(* entries in the pool and of posts.  SignalsTheorems draws the conclusions.   *)
EXTENDS Signals, TLAPS

-----------------------------------------------------------------------------
(* The inductive invariant *)

\* The posts of a queue, and that it holds none twice.
Ids(q) == {q[k].id : k \in 1 .. Len(q)}
Distinct(q) == \A j, k \in 1 .. Len(q) : q[j].id = q[k].id => j = k
Queued == UNION {Ids(sigpending[t]) : t \in Threads}

\* A post is with its poster, in one queue, or over.
PlacesOk ==
    /\ \A t \in Threads : Distinct(sigpending[t])
    /\ \A t, u \in Threads : t # u => Ids(sigpending[t]) \cap Ids(sigpending[u]) = {}
    /\ Queued \subseteq (1 .. posted) \ done
    /\ done \subseteq 1 .. posted
    /\ \A t \in Threads : InPost(t) => post[t].id \in ((1 .. posted) \ done) \ Queued
    /\ \A t, u \in Threads : InPost(t) /\ InPost(u) /\ post[t].id = post[u].id => t = u
    /\ outcome # "aborted" =>
          \A id \in 1 .. posted : id \in done \cup Queued \/ \E t \in Threads : InPost(t) /\ post[t].id = id
    /\ sigfree = NSIGENTRY - Cardinality(Queued)

ConservedInv == TypeOK /\ PlacesOk /\ TimedwaitFindsSignal

-----------------------------------------------------------------------------
(* Facts about numbers, finite sets and queues *)

\* What the proofs use of the natural numbers and of finite sets; CountingHolds of
\* SignalsTheorems proves it.
Counting ==
    /\ \A T \in SUBSET Nat : T # {} => \E n \in T : \A m \in T : n <= m
    /\ \A n \in Nat : IsFiniteSet(1 .. n)
    /\ Cardinality({}) = 0 /\ \A x : Cardinality({x}) = 1
    /\ \A S : IsFiniteSet(S) =>
          /\ Cardinality(S) \in Nat
          /\ \A T \in SUBSET S : IsFiniteSet(T)
          /\ \A x : x \notin S => Cardinality(S \cup {x}) = Cardinality(S) + 1
          /\ \A x \in S : /\ Cardinality(S \ {x}) = Cardinality(S) - 1
                          /\ Cardinality(S \ {x}) \in Nat

\* A set of numbers that is not empty has a least one.
LEMMA LeastNumber ==
    ASSUME Counting, NEW T, T \subseteq Nat, T # {} PROVE \E n \in T : \A m \in T : n <= m
  BY ZenonT(30) DEF Counting

\* The length of a sequence, and the empty one.
LEMMA EmptyFacts ==
    ASSUME NEW S, NEW s \in Seq(S)
    PROVE  Len(s) \in Nat /\ DOMAIN s = 1 .. Len(s) /\ (s = <<>> <=> Len(s) = 0)
  OBVIOUS

\* A sequence of one entry.
LEMMA SingletonFacts ==
    ASSUME NEW S, NEW x \in S PROVE <<x>> \in Seq(S) /\ Len(<<x>>) = 1 /\ <<x>>[1] = x
  OBVIOUS

\* What Append gives, position by position.
LEMMA AppendFacts ==
    ASSUME NEW S, NEW s \in Seq(S), NEW x \in S
    PROVE  /\ Append(s, x) \in Seq(S) /\ Len(Append(s, x)) = Len(s) + 1 /\ Len(s) \in Nat
           /\ \A i \in 1 .. Len(s) : Append(s, x)[i] = s[i]
           /\ Append(s, x)[Len(s) + 1] = x
  OBVIOUS

\* What a concatenation gives, position by position.
LEMMA ConcatFacts ==
    ASSUME NEW S, NEW a \in Seq(S), NEW b \in Seq(S)
    PROVE  /\ a \o b \in Seq(S)
           /\ Len(a \o b) = Len(a) + Len(b)
           /\ \A j \in 1 .. Len(a) + Len(b) : (a \o b)[j] = IF j <= Len(a) THEN a[j] ELSE b[j - Len(a)]
  OBVIOUS

\* TAILQ_REMOVE of the i-th entry.
LEMMA RemovedFacts ==
    ASSUME NEW S, NEW s \in Seq(S), NEW i \in 1 .. Len(s)
    PROVE  /\ Removed(s, i) \in Seq(S)
           /\ Len(Removed(s, i)) = Len(s) - 1
           /\ \A j \in 1 .. Len(s) - 1 : Removed(s, i)[j] = s[IF j < i THEN j ELSE j + 1]
<1> DEFINE a == SubSeq(s, 1, i - 1)
           b == SubSeq(s, i + 1, Len(s))
<1>1. a \in Seq(S) /\ Len(a) = i - 1 /\ \A j \in 1 .. i - 1 : a[j] = s[j]
  OBVIOUS
<1>2. b \in Seq(S) /\ Len(b) = Len(s) - i /\ \A j \in 1 .. Len(s) - i : b[j] = s[i + j]
  OBVIOUS
<1>3. Removed(s, i) = a \o b
  BY Zenon DEF Removed
<1> HIDE DEF a, b
<1>4. /\ a \o b \in Seq(S)
      /\ Len(a \o b) = Len(a) + Len(b)
      /\ \A j \in 1 .. Len(a) + Len(b) : (a \o b)[j] = IF j <= Len(a) THEN a[j] ELSE b[j - Len(a)]
  BY <1>1, <1>2, ConcatFacts, ZenonT(30)
<1>5. Len(a \o b) = Len(s) - 1
  BY <1>1, <1>2, <1>4
<1>6. ASSUME NEW j \in 1 .. Len(s) - 1 PROVE (a \o b)[j] = s[IF j < i THEN j ELSE j + 1]
  <2>1. CASE j < i
    BY <1>1, <1>2, <1>4, <2>1
  <2>2. CASE ~(j < i)
    <3>1. (a \o b)[j] = b[j - (i - 1)] /\ j - (i - 1) \in 1 .. Len(s) - i
      BY <1>1, <1>2, <1>4, <2>2
    <3>2. QED
      BY <1>2, <2>2, <3>1
  <2>3. QED
    BY <2>1, <2>2, ZenonT(30)
<1>7. QED
  BY Zenon, <1>3, <1>4, <1>5, <1>6

\* Where the entries of a queue come from when one is removed.
LEMMA RemovedFrom ==
    ASSUME NEW S, NEW s \in Seq(S), NEW i \in 1 .. Len(s)
    PROVE  /\ \A j \in 1 .. Len(Removed(s, i)) : \E k \in 1 .. Len(s) :
                k # i /\ Removed(s, i)[j] = s[k] /\ k = IF j < i THEN j ELSE j + 1
           /\ \A k \in 1 .. Len(s) : k # i =>
                \E j \in 1 .. Len(Removed(s, i)) : Removed(s, i)[j] = s[k]
<1>0. Len(s) \in Nat
  OBVIOUS
<1>a. /\ Len(Removed(s, i)) = Len(s) - 1
      /\ \A j \in 1 .. Len(s) - 1 : Removed(s, i)[j] = s[IF j < i THEN j ELSE j + 1]
  BY RemovedFacts, ZenonT(30)
<1>1. /\ Len(Removed(s, i)) = Len(s) - 1 /\ Len(s) \in Nat
      /\ \A j \in 1 .. Len(s) - 1 : Removed(s, i)[j] = s[IF j < i THEN j ELSE j + 1]
  BY <1>0, <1>a, ZenonT(30)
<1>2. ASSUME NEW j \in 1 .. Len(Removed(s, i))
      PROVE  \E k \in 1 .. Len(s) : k # i /\ Removed(s, i)[j] = s[k] /\ k = IF j < i THEN j ELSE j + 1
  <2> DEFINE k == IF j < i THEN j ELSE j + 1
  <2>1. k \in 1 .. Len(s) /\ k # i
    BY <1>1
  <2>2. Removed(s, i)[j] = s[k]
    BY Zenon, <1>1
  <2>3. QED
    BY Zenon, <2>1, <2>2
<1>3. ASSUME NEW k \in 1 .. Len(s), k # i
      PROVE  \E j \in 1 .. Len(Removed(s, i)) : Removed(s, i)[j] = s[k]
  <2>1. CASE k < i
    BY <1>1, <2>1
  <2>2. CASE k > i
    <3>1. k - 1 \in 1 .. Len(s) - 1 /\ ~(k - 1 < i) /\ (k - 1) + 1 = k
      BY <1>1, <2>2
    <3>2. QED
      BY <1>1, <3>1, ZenonT(30)
  <2>3. QED
    BY <1>3, <2>1, <2>2
<1>4. QED
  BY Zenon, <1>2, <1>3

-----------------------------------------------------------------------------
(* Queues and the posts in them *)

\* An entry that is appended or removed takes its post with it.
LEMMA AppendIds ==
    ASSUME NEW q \in Seq(Entries), NEW e \in Entries, Distinct(q), e.id \notin Ids(q)
    PROVE  Distinct(Append(q, e)) /\ Ids(Append(q, e)) = Ids(q) \cup {e.id}
<1>1. /\ Len(Append(q, e)) = Len(q) + 1 /\ Len(q) \in Nat
      /\ \A i \in 1 .. Len(q) : Append(q, e)[i] = q[i]
      /\ Append(q, e)[Len(q) + 1] = e
  BY AppendFacts
<1>2. Distinct(Append(q, e))
  BY <1>1 DEF Distinct, Ids
<1>3. \A x : x \in Ids(Append(q, e)) <=> x \in Ids(q) \cup {e.id}
  BY <1>1 DEF Ids
<1>4. QED
  BY Zenon, <1>2, <1>3

\* Removing an entry takes its post out of the queue, and only that.
LEMMA RemoveIds ==
    ASSUME NEW q \in Seq(Entries), NEW i \in 1 .. Len(q), Distinct(q)
    PROVE  /\ Distinct(Removed(q, i))
           /\ Ids(Removed(q, i)) = Ids(q) \ {q[i].id}
           /\ q[i].id \in Ids(q)
<1> DEFINE r == Removed(q, i)
<1>1. /\ \A j \in 1 .. Len(r) : \E k \in 1 .. Len(q) : k # i /\ r[j] = q[k] /\ k = IF j < i THEN j ELSE j + 1
      /\ \A k \in 1 .. Len(q) : k # i => \E j \in 1 .. Len(r) : r[j] = q[k]
  BY ZenonT(30), RemovedFrom
<1>0. Len(q) \in Nat /\ i \in Nat
  OBVIOUS
<1> HIDE DEF r
<1>2. ASSUME NEW j \in 1 .. Len(r), NEW k \in 1 .. Len(r), r[j].id = r[k].id PROVE j = k
  <2>1. PICK a \in 1 .. Len(q) : a # i /\ r[j] = q[a] /\ a = IF j < i THEN j ELSE j + 1
    BY Zenon, <1>1
  <2>2. PICK b \in 1 .. Len(q) : b # i /\ r[k] = q[b] /\ b = IF k < i THEN k ELSE k + 1
    BY Zenon, <1>1
  <2>3. a = b
    BY Zenon, <1>2, <2>1, <2>2 DEF Distinct
  <2>4. j \in Int /\ k \in Int
    OBVIOUS
  <2>5. QED
    BY <1>0, <2>1, <2>2, <2>3, <2>4
<1>3. ASSUME NEW x PROVE x \in Ids(r) <=> x \in Ids(q) \ {q[i].id}
  <2>1. ASSUME x \in Ids(r) PROVE x \in Ids(q) \ {q[i].id}
    <3>1. PICK j \in 1 .. Len(r) : x = r[j].id
      BY Zenon, <2>1 DEF Ids
    <3>2. PICK k \in 1 .. Len(q) : k # i /\ r[j] = q[k]
      BY Zenon, <1>1
    <3>3. QED
      BY Zenon, <3>1, <3>2 DEF Ids, Distinct
  <2>2. ASSUME x \in Ids(q) \ {q[i].id} PROVE x \in Ids(r)
    <3>1. PICK k \in 1 .. Len(q) : x = q[k].id
      BY Zenon, <2>2 DEF Ids
    <3>2. PICK j \in 1 .. Len(r) : r[j] = q[k]
      BY ZenonT(30), <1>1, <2>2, <3>1
    <3>3. QED
      BY Zenon, <3>1, <3>2 DEF Ids
  <2>3. QED
    BY Zenon, <2>1, <2>2
<1>4. q[i].id \in Ids(q)
  BY Zenon DEF Ids
<1>5. QED
  BY Zenon, <1>2, <1>3, <1>4 DEF r, Distinct

-----------------------------------------------------------------------------
(* The queues *)

\* What TypeOK says, in four parts.
TypeQueues ==
    /\ sigpending \in [Threads -> Seq(Entries)] /\ sigfree \in 0 .. NSIGENTRY
    /\ wait_queue \in Seq(Vcpus) /\ sleep_queue \in Seq(Vcpus)
    /\ post \in [Threads -> Entries] /\ posted \in 0 .. MaxPosts /\ done \in SUBSET (1 .. MaxPosts)
TypeMasks ==
    /\ sigmask \in [Vcpus -> SUBSET Signals] /\ saved_sigmask \in [Vcpus -> SUBSET Signals]
    /\ oldmask \in [Vcpus -> SUBSET Signals] /\ base \in [Vcpus -> SUBSET Signals]
    /\ unblocked \in [Vcpus -> SUBSET Signals]
    /\ in_sigsuspend \in SUBSET Vcpus /\ suspended \in SUBSET Vcpus
TypeRun ==
    /\ returns_signal \in SUBSET Vcpus /\ kicked \in SUBSET Vcpus
    /\ sigactions \in [Signals -> Actions]
    /\ frames \in [Vcpus -> Seq([signo : Signals, mask : SUBSET Signals])]
    /\ outcome \in {"running", "killed", "aborted", "corrupt"}
TypePc == pc \in [Threads -> PCs]

\* The frames of the handlers that run.
Frames == [signo : Signals, mask : SUBSET Signals]


\* What TypeOK says, for the steps that would otherwise expand it.
LEMMA Types ==
    TypeOK =>
        /\ sigpending \in [Threads -> Seq(Entries)]
        /\ sigfree \in 0 .. NSIGENTRY
        /\ sigmask \in [Vcpus -> SUBSET Signals]
        /\ saved_sigmask \in [Vcpus -> SUBSET Signals]
        /\ oldmask \in [Vcpus -> SUBSET Signals]
        /\ base \in [Vcpus -> SUBSET Signals]
        /\ unblocked \in [Vcpus -> SUBSET Signals]
        /\ in_sigsuspend \in SUBSET Vcpus
        /\ returns_signal \in SUBSET Vcpus
        /\ kicked \in SUBSET Vcpus
        /\ suspended \in SUBSET Vcpus
        /\ wait_queue \in Seq(Vcpus)
        /\ sleep_queue \in Seq(Vcpus)
        /\ sigactions \in [Signals -> Actions]
        /\ pc \in [Threads -> PCs]
        /\ post \in [Threads -> Entries]
        /\ frames \in [Vcpus -> Seq([signo : Signals, mask : SUBSET Signals])]
        /\ outcome \in {"running", "killed", "aborted", "corrupt"}
        /\ posted \in 0 .. MaxPosts
        /\ done \in SUBSET (1 .. MaxPosts)
  BY ZenonT(30) DEF TypeOK

\* The parts of the type invariant.
LEMMA TypeParts == TypeOK <=> TypeQueues /\ TypeMasks /\ TypeRun /\ TypePc
  BY ZenonT(30) DEF TypeOK, TypeQueues, TypeMasks, TypeRun, TypePc

\* dequeue_signal finds an entry when there is one that is not blocked.
LEMMA ChosenUnblocked ==
    ASSUME Counting, NEW q \in Seq(Entries), NEW mask, Unblocked(q, mask) # {}
    PROVE  /\ Chosen(q, mask) \in 1 .. Len(q)
           /\ ~IsBlocked(mask, q[Chosen(q, mask)])
<1> DEFINE U == Unblocked(q, mask)
           pri(i) == 0 - sigpri(q[i].signo)
           T == {pri(i) : i \in U}
<1>1. U \subseteq 1 .. Len(q) /\ U # {} /\ Len(q) \in Nat
  BY DEF Unblocked
<1> HIDE DEF U
<1>2. \A i \in U : sigpri(q[i].signo) \in Int /\ pri(i) \in Nat
  <2> SUFFICES ASSUME NEW i \in U PROVE sigpri(q[i].signo) \in Int /\ pri(i) \in Nat
    BY Zenon
  <2>1. q[i] \in Entries
    BY <1>1
  <2>2. q[i].signo \in Nat
    BY ZenonT(60), <2>1, SignalsAssumption DEF Entries, SignalsAssumption
  <2>3. QED
    BY <2>2 DEF sigpri
<1>3. T \subseteq Nat /\ T # {}
  BY ZenonT(30), <1>1, <1>2
<1>4. PICK n \in T : \A m \in T : n <= m
  BY <1>3, LeastNumber, ZenonT(30)
<1> DEFINE F == {i \in U : pri(i) = n}
<1>5. F \subseteq Nat /\ F # {}
  <2>1. PICK k \in U : n = pri(k)
    BY Zenon, <1>4
  <2>2. k \in F
    BY Zenon, <2>1
  <2>3. F \subseteq U /\ U \subseteq Nat
    BY <1>1
  <2>4. QED
    BY ZenonT(30), <2>2, <2>3
<1>6. PICK i \in F : \A j \in F : i <= j
  BY <1>5, LeastNumber, ZenonT(30)
<1>7. ASSUME NEW j \in U
      PROVE  \/ sigpri(q[i].signo) > sigpri(q[j].signo)
             \/ sigpri(q[i].signo) = sigpri(q[j].signo) /\ i <= j
  <2>1. n <= pri(j) /\ n \in Int /\ pri(i) = n /\ i \in U
    BY <1>3, <1>4, <1>6
  <2>2. CASE pri(j) = n
    <3>1. i <= j
      BY Zenon, <1>6, <2>2
    <3>2. QED
      BY <1>2, <2>1, <2>2, <3>1
  <2>3. CASE pri(j) # n
    BY <1>2, <2>1, <2>3
  <2>4. QED
    BY Zenon, <2>2, <2>3
<1>8. Chosen(q, mask) \in U
  BY Zenon, <1>6, <1>7 DEF Chosen, U
<1>9. QED
  BY Zenon, <1>1, <1>8 DEF Unblocked, U

\* So does the search for the first one.
LEMMA FirstOf ==
    ASSUME Counting, NEW I, I \subseteq Nat, I # {}
    PROVE  (CHOOSE k \in I : \A j \in I : k <= j) \in I
<1>1. \E k \in I : \A j \in I : k <= j
  BY ZenonT(30), LeastNumber
<1>2. QED
  BY ZenonT(30), <1>1

\* km_dequeue_signal_nolock takes one entry that is not blocked from the vcpu's
\* queue or from the process's.
LEMMA DequeueFacts ==
    ASSUME Counting, TypeOK, NEW v \in Vcpus, NEW mask, Ready(v, mask), Dequeue(v, mask)
    PROVE  \E s \in {v, VM} : \E c \in 1 .. Len(sigpending[s]) :
              /\ sigpending' = [sigpending EXCEPT ![s] = Removed(sigpending[s], c)]
              /\ Dequeued(v, mask) = sigpending[s][c]
              /\ ~IsBlocked(mask, sigpending[s][c])
              /\ sigfree' = sigfree + 1
              /\ done' = done \cup {sigpending[s][c].id}
              /\ UNCHANGED <<wait_queue, sleep_queue, posted, post>>
<1> DEFINE s == Source(v, mask)
           c == Chosen(sigpending[s], mask)
<1>1. s \in {v, VM} /\ s \in Threads /\ Unblocked(sigpending[s], mask) # {}
  BY Zenon DEF Source, Threads, Ready
<1>2. sigpending[s] \in Seq(Entries)
  BY Zenon, <1>1, Types
<1>3. c \in 1 .. Len(sigpending[s]) /\ ~IsBlocked(mask, sigpending[s][c])
  BY <1>1, <1>2, ChosenUnblocked, ZenonT(30)
<1>4. /\ sigpending' = [sigpending EXCEPT ![s] = Removed(sigpending[s], c)]
      /\ Dequeued(v, mask) = sigpending[s][c]
      /\ sigfree' = sigfree + 1
      /\ done' = done \cup {sigpending[s][c].id}
      /\ UNCHANGED <<wait_queue, sleep_queue, posted, post>>
  BY Zenon DEF Dequeue, Dequeued
<1> HIDE DEF s, c
<1>5. QED
  BY ZenonT(30), <1>1, <1>3, <1>4

\* A process-wide signal that is claimed goes to the end of the vcpu's queue.
LEMMA ClaimFacts ==
    ASSUME Counting, TypeOK, NEW v \in Vcpus, NEW mask, Claim(v, mask)
    PROVE  \/ UNCHANGED sigpending
           \/ \E i \in 1 .. Len(sigpending[VM]) :
                 sigpending' = [sigpending EXCEPT ![VM] = Removed(sigpending[VM], i),
                                                  ![v] = Append(sigpending[v], sigpending[VM][i])]
<1> DEFINE q == sigpending[VM]
           U == Unblocked(q, mask)
           i == CHOOSE k \in U : \A j \in U : k <= j
<1>0. v # VM
  BY Zenon, SignalsAssumption DEF SignalsAssumption
<1>1. CASE Source(v, mask) = VM /\ Ready(v, mask)
  <2>1. q \in Seq(Entries) /\ U # {}
    BY Zenon, <1>1, Types DEF Threads, Ready
  <2>2. U \subseteq 1 .. Len(q) /\ U \subseteq Nat
    BY <2>1 DEF Unblocked
  <2>3. i \in 1 .. Len(q)
    <3> HIDE DEF U
    <3>1. i \in U
      BY <2>1, <2>2, FirstOf, ZenonT(30)
    <3>2. QED
      BY ZenonT(30), <2>2, <3>1
  <2>4. sigpending' = [sigpending EXCEPT ![VM] = Removed(q, i), ![v] = Append(sigpending[v], q[i])]
    BY Zenon, <1>0, <1>1 DEF Claim
  <2> HIDE DEF i
  <2>5. QED
    BY ZenonT(30), <2>3, <2>4
<1>2. CASE ~(Source(v, mask) = VM /\ Ready(v, mask))
  BY Zenon, <1>2 DEF Claim
<1>3. QED
  BY Zenon, <1>1, <1>2

\* The process is not one of its vcpus.
LEMMA VMNotVcpu == /\ VM \notin Vcpus /\ VM \in Threads /\ Vcpus \subseteq Threads
                   /\ \A t \in Threads : t = VM \/ t \in Vcpus
  BY Zenon, SignalsAssumption DEF SignalsAssumption, Threads

\* The queued posts are finitely many.
LEMMA QueuedFinite ==
    ASSUME Counting, TypeOK, PlacesOk PROVE IsFiniteSet(Queued) /\ Cardinality(Queued) \in Nat
<1>1. IsFiniteSet(1 .. posted)
  BY Types DEF Counting
<1>2. Queued \subseteq 1 .. posted
  BY Zenon DEF PlacesOk
<1>3. IsFiniteSet(Queued)
  BY ZenonT(30), <1>1, <1>2 DEF Counting
<1>4. QED
  BY Zenon, <1>3 DEF Counting

\* The effect of the operations on the queues: an entry is added, ...
LEMMA EnqueuePlaces ==
    ASSUME Counting, TypeOK, PlacesOk, NEW x \in Threads, NEW e \in Entries, e.id \notin Queued,
           sigpending' = [sigpending EXCEPT ![x] = Append(@, e)], sigfree' = sigfree - 1
    PROVE  /\ \A t \in Threads : Distinct(sigpending[t])'
           /\ \A t, u \in Threads : t # u => Ids(sigpending'[t]) \cap Ids(sigpending'[u]) = {}
           /\ Queued' = Queued \cup {e.id}
           /\ sigfree' = NSIGENTRY - Cardinality(Queued')
<1>1. /\ \A t \in Threads : sigpending[t] \in Seq(Entries) /\ Distinct(sigpending[t])
      /\ e.id \notin Ids(sigpending[x])
  BY Types DEF PlacesOk, Queued
<1>2. Distinct(Append(sigpending[x], e)) /\ Ids(Append(sigpending[x], e)) = Ids(sigpending[x]) \cup {e.id}
  BY Zenon, <1>1, AppendIds
<1>3. \A t \in Threads : sigpending'[t] = IF t = x THEN Append(sigpending[x], e) ELSE sigpending[t]
  BY Zenon, Types
<1>4. /\ Ids(sigpending'[x]) = Ids(sigpending[x]) \cup {e.id}
      /\ \A t \in Threads \ {x} : Ids(sigpending'[t]) = Ids(sigpending[t])
  <2>1. sigpending'[x] = Append(sigpending[x], e) /\ \A t \in Threads \ {x} : sigpending'[t] = sigpending[t]
    BY ZenonT(30), <1>3
  <2>2. QED
    BY <1>2, <2>1, ZenonT(30)
<1>5. \A t \in Threads : Distinct(sigpending[t])'
  <2>1. \A t \in Threads : Distinct(sigpending'[t])
    BY <1>1, <1>2, <1>3, ZenonT(30)
  <2>2. QED
    BY Zenon, <2>1 DEF Distinct
<1>6. Queued' = UNION {Ids(sigpending'[t]) : t \in Threads}
  BY Zenon DEF Queued, Ids
<1>7. \A z : z \in Queued' <=> z \in Queued \cup {e.id}
  BY Zenon, <1>4, <1>6 DEF Queued
<1>8. Queued' = Queued \cup {e.id}
  BY Zenon, <1>7
<1>9. \A t, u \in Threads : t # u => Ids(sigpending'[t]) \cap Ids(sigpending'[u]) = {}
  BY SMTT(30), <1>4 DEF PlacesOk, Queued
<1>10. Cardinality(Queued \cup {e.id}) = Cardinality(Queued) + 1 /\ Cardinality(Queued) \in Nat
  BY ZenonT(30), QueuedFinite DEF Counting
<1>11. sigfree' = NSIGENTRY - Cardinality(Queued')
  BY <1>8, <1>10, SignalsAssumption DEF PlacesOk, SignalsAssumption
<1>12. QED
  BY ZenonT(60), <1>5, <1>8, <1>9, <1>11

\* ... taken away, ...
LEMMA DequeuePlaces ==
    ASSUME Counting, TypeOK, PlacesOk, NEW x \in Threads, NEW c \in 1 .. Len(sigpending[x]),
           sigpending' = [sigpending EXCEPT ![x] = Removed(sigpending[x], c)], sigfree' = sigfree + 1
    PROVE  /\ \A t \in Threads : Distinct(sigpending[t])'
           /\ \A t, u \in Threads : t # u => Ids(sigpending'[t]) \cap Ids(sigpending'[u]) = {}
           /\ sigpending[x][c].id \in Queued
           /\ Queued' = Queued \ {sigpending[x][c].id}
           /\ sigfree' = NSIGENTRY - Cardinality(Queued')
           /\ sigfree < NSIGENTRY
<1> DEFINE d == sigpending[x][c].id
           r == Removed(sigpending[x], c)
<1>1. \A t \in Threads : sigpending[t] \in Seq(Entries) /\ Distinct(sigpending[t])
  BY Zenon, Types DEF PlacesOk
<1>2. Distinct(r) /\ Ids(r) = Ids(sigpending[x]) \ {d} /\ d \in Ids(sigpending[x])
  BY <1>1, RemoveIds, ZenonT(30)
<1>3. \A t \in Threads : sigpending'[t] = IF t = x THEN r ELSE sigpending[t]
  BY Zenon, Types
<1> HIDE DEF d, r
<1>4. /\ Ids(sigpending'[x]) = Ids(sigpending[x]) \ {d}
      /\ \A t \in Threads \ {x} : Ids(sigpending'[t]) = Ids(sigpending[t])
  <2>1. sigpending'[x] = r /\ \A t \in Threads \ {x} : sigpending'[t] = sigpending[t]
    BY Zenon, <1>3
  <2>2. QED
    BY <1>2, <2>1, ZenonT(30)
<1>5. \A t \in Threads : Distinct(sigpending[t])'
  <2>1. \A t \in Threads : Distinct(sigpending'[t])
    BY <1>1, <1>2, <1>3, ZenonT(30)
  <2>2. QED
    BY Zenon, <2>1 DEF Distinct
<1>6. Queued' = UNION {Ids(sigpending'[t]) : t \in Threads}
  BY Zenon DEF Queued, Ids
<1>7. \A z : z \in Queued' <=> z \in Queued \ {d}
  <2>1. \A t \in Threads : t # x => Ids(sigpending[t]) \cap Ids(sigpending[x]) = {}
    BY Zenon DEF PlacesOk
  <2>2. QED
    BY <1>2, <1>4, <1>6, <2>1 DEF Queued
<1>8. Queued' = Queued \ {d} /\ d \in Queued
  BY ZenonT(30), <1>2, <1>7 DEF Queued
<1>9. \A t, u \in Threads : t # u => Ids(sigpending'[t]) \cap Ids(sigpending'[u]) = {}
  BY <1>4 DEF PlacesOk
<1>10. Cardinality(Queued \ {d}) = Cardinality(Queued) - 1 /\ Cardinality(Queued) \in Nat
  BY ZenonT(30), <1>8, QueuedFinite DEF Counting
<1>11. Cardinality(Queued \ {d}) \in Nat
  BY ZenonT(30), QueuedFinite DEF Counting
<1>12. sigfree' = NSIGENTRY - Cardinality(Queued') /\ sigfree < NSIGENTRY
  BY <1>8, <1>10, <1>11, SignalsAssumption DEF PlacesOk, SignalsAssumption
<1>13. QED
  BY ZenonT(60), <1>5, <1>8, <1>9, <1>12 DEF d

\* ... or moved to the vcpu that claims it.
LEMMA ClaimPlaces ==
    ASSUME TypeOK, PlacesOk, NEW v \in Vcpus, NEW i \in 1 .. Len(sigpending[VM]),
           sigpending' = [sigpending EXCEPT ![VM] = Removed(sigpending[VM], i),
                                            ![v] = Append(sigpending[v], sigpending[VM][i])]
    PROVE  /\ \A t \in Threads : Distinct(sigpending[t])'
           /\ \A t, u \in Threads : t # u => Ids(sigpending'[t]) \cap Ids(sigpending'[u]) = {}
           /\ Queued' = Queued
<1> DEFINE e == sigpending[VM][i]
           d == e.id
           r == Removed(sigpending[VM], i)
           a == Append(sigpending[v], e)
<1>1. \A t \in Threads : sigpending[t] \in Seq(Entries) /\ Distinct(sigpending[t])
  BY Zenon, Types DEF PlacesOk
<1>2. VM \in Threads /\ v \in Threads /\ v # VM
  BY Zenon, VMNotVcpu
<1>3. Distinct(r) /\ Ids(r) = Ids(sigpending[VM]) \ {d} /\ d \in Ids(sigpending[VM])
  BY <1>1, <1>2, RemoveIds, ZenonT(30)
<1>4. d \notin Ids(sigpending[v]) /\ e \in Entries
  <2>1. Ids(sigpending[VM]) \cap Ids(sigpending[v]) = {}
    BY Zenon, <1>2 DEF PlacesOk
  <2>2. e \in Entries
    BY <1>1, <1>2
  <2>3. QED
    BY <1>3, <2>1, <2>2, ZenonT(30)
<1>5. Distinct(a) /\ Ids(a) = Ids(sigpending[v]) \cup {d}
  BY <1>1, <1>2, <1>4, AppendIds, ZenonT(30)
<1>6. \A t \in Threads : sigpending'[t] = IF t = VM THEN r ELSE IF t = v THEN a ELSE sigpending[t]
  BY Zenon, <1>2, Types
<1> HIDE DEF e, d, r, a
<1>7. /\ Ids(sigpending'[VM]) = Ids(sigpending[VM]) \ {d}
      /\ Ids(sigpending'[v]) = Ids(sigpending[v]) \cup {d}
      /\ \A t \in Threads \ {v, VM} : Ids(sigpending'[t]) = Ids(sigpending[t])
  <2>1. /\ sigpending'[VM] = r /\ sigpending'[v] = a
        /\ \A t \in Threads \ {v, VM} : sigpending'[t] = sigpending[t]
    BY ZenonT(30), <1>2, <1>6
  <2>2. QED
    BY <1>3, <1>5, <2>1, ZenonT(30)
<1>8. \A t \in Threads : Distinct(sigpending[t])'
  <2>1. \A t \in Threads : Distinct(sigpending'[t])
    BY ZenonT(30), <1>1, <1>3, <1>5, <1>6
  <2>2. QED
    BY ZenonT(30), <2>1 DEF Distinct
<1>9. Queued' = UNION {Ids(sigpending'[t]) : t \in Threads}
  BY Zenon DEF Queued, Ids
<1>10. \A z : z \in Queued' <=> z \in Queued
  <2>1. \A z : z \in Queued' <=> \E t \in Threads : z \in Ids(sigpending'[t])
    BY ZenonT(30), <1>9
  <2>2. \A z : z \in Queued <=> \E t \in Threads : z \in Ids(sigpending[t])
    BY Zenon DEF Queued
  <2>3. ASSUME NEW z PROVE (\E t \in Threads : z \in Ids(sigpending'[t])) <=> \E t \in Threads : z \in Ids(sigpending[t])
    BY ZenonT(30), <1>2, <1>3, <1>7
  <2>4. QED
    BY ZenonT(30), <2>1, <2>2, <2>3
<1>11. \A t \in Threads : t # VM => d \notin Ids(sigpending[t])
  BY Zenon, <1>2, <1>3 DEF PlacesOk
<1>12. \A t, u \in Threads : t # u => Ids(sigpending'[t]) \cap Ids(sigpending'[u]) = {}
  <2> SUFFICES ASSUME NEW t \in Threads, NEW u \in Threads, t # u, NEW z,
                      z \in Ids(sigpending'[t]), z \in Ids(sigpending'[u])
               PROVE  FALSE
    BY ZenonT(30)
  <2>1. Ids(sigpending[t]) \cap Ids(sigpending[u]) = {}
    BY Zenon DEF PlacesOk
  <2>2. CASE z = d
    BY ZenonT(30), <1>7, <1>11, <2>2
  <2>3. CASE z # d
    BY ZenonT(30), <1>7, <2>1, <2>3
  <2>4. QED
    BY Zenon, <2>2, <2>3
<1>13. QED
  BY ZenonT(30), <1>8, <1>10, <1>12

\* The steps that leave the queues and the posts under way alone, ...
LEMMA PlacesFrame ==
    ASSUME PlacesOk, outcome = "running", UNCHANGED <<sigpending, sigfree, done, posted>>,
           \A u \in Threads : InPost(u)' <=> InPost(u),
           \A u \in Threads : InPost(u) => post'[u] = post[u]
    PROVE  PlacesOk'
<1>1. /\ Queued' = Queued
      /\ \A t \in Threads : (Distinct(sigpending[t])' <=> Distinct(sigpending[t]))
      /\ \A t \in Threads : Ids(sigpending[t])' = Ids(sigpending[t])
  BY DEF Queued, Ids, Distinct
<1>2. /\ \A t \in Threads : Distinct(sigpending[t])'
      /\ \A t, u \in Threads : t # u => Ids(sigpending[t])' \cap Ids(sigpending[u])' = {}
      /\ Queued' \subseteq (1 .. posted') \ done' /\ done' \subseteq 1 .. posted'
      /\ sigfree' = NSIGENTRY - Cardinality(Queued')
  BY <1>1, ZenonT(30) DEF PlacesOk
<1>3. /\ \A t \in Threads : InPost(t)' => post'[t].id \in ((1 .. posted') \ done') \ Queued'
      /\ \A t, u \in Threads : InPost(t)' /\ InPost(u)' /\ post'[t].id = post'[u].id => t = u
      /\ \A id \in 1 .. posted' : id \in done' \cup Queued'
                                  \/ \E t \in Threads : InPost(t)' /\ post'[t].id = id
  BY <1>1 DEF PlacesOk
<1>4. QED
  BY <1>2, <1>3, ZenonT(30) DEF PlacesOk

\* ... a signal is posted, ...
LEMMA PlacesPosted ==
    ASSUME TypeOK, PlacesOk, outcome = "running", NEW t \in Threads, pc[t] = "guest",
           NEW sig \in Entries, sig.id = posted + 1, PostSignal(t, sig)
    PROVE  PlacesOk'
<1>0. /\ UNCHANGED <<sigpending, sigfree>> /\ posted' = posted + 1 /\ posted \in Nat
      /\ pc \in [Threads -> PCs] /\ post \in [Threads -> Entries]
  BY Types DEF PostSignal
<1>1. /\ Queued' = Queued
      /\ \A u \in Threads : (Distinct(sigpending[u])' <=> Distinct(sigpending[u]))
      /\ \A u \in Threads : Ids(sigpending[u])' = Ids(sigpending[u])
  BY <1>0 DEF Queued, Ids, Distinct
<1>2. /\ \A u \in Threads : Distinct(sigpending[u])'
      /\ \A x, u \in Threads : x # u => Ids(sigpending[x])' \cap Ids(sigpending[u])' = {}
      /\ sigfree' = NSIGENTRY - Cardinality(Queued')
  BY <1>0, <1>1, ZenonT(30) DEF PlacesOk
<1>3. ~InPost(t) /\ posted + 1 \notin 1 .. posted /\ 1 .. posted' = (1 .. posted) \cup {posted + 1}
  BY <1>0 DEF InPost
<1>4. \A u \in Threads \ {t} : (InPost(u)' <=> InPost(u)) /\ post'[u] = post[u]
  BY Zenon, <1>0 DEF PostSignal, Return, Goto, InPost
<1>5. \/ done' = done \cup {posted + 1} /\ ~InPost(t)'
      \/ done' = done /\ InPost(t)' /\ post'[t].id = posted + 1
  BY Zenon, <1>0 DEF PostSignal, Return, Goto, InPost
<1>6. /\ Queued' \subseteq (1 .. posted') \ done' /\ done' \subseteq 1 .. posted'
  <2>1. Queued \subseteq (1 .. posted) \ done /\ done \subseteq 1 .. posted
    BY Zenon DEF PlacesOk
  <2>2. QED
    BY <1>1, <1>3, <1>5, <2>1, ZenonT(30)
<1>7. \A u \in Threads : InPost(u)' => post'[u].id \in ((1 .. posted') \ done') \ Queued'
  BY <1>1, <1>3, <1>4, <1>5 DEF PlacesOk
<1>8. \A x, u \in Threads : InPost(x)' /\ InPost(u)' /\ post'[x].id = post'[u].id => x = u
  BY <1>3, <1>4, <1>5 DEF PlacesOk
<1>9. \A id \in 1 .. posted' : id \in done' \cup Queued'
                               \/ \E u \in Threads : InPost(u)' /\ post'[u].id = id
  <2> SUFFICES ASSUME NEW id \in 1 .. posted'
               PROVE  id \in done' \cup Queued' \/ \E u \in Threads : InPost(u)' /\ post'[u].id = id
    BY Zenon
  <2>1. CASE id = posted + 1
    BY Zenon, <1>5, <2>1
  <2>2. CASE id # posted + 1
    <3>1. id \in done \cup Queued \/ \E u \in Threads : InPost(u) /\ post[u].id = id
      BY Zenon, <1>3, <2>2 DEF PlacesOk
    <3>2. QED
      BY Zenon, <1>1, <1>3, <1>4, <1>5, <3>1
  <2>3. QED
    BY Zenon, <2>1, <2>2
<1>10. QED
  BY <1>2, <1>6, <1>7, <1>8, <1>9, ZenonT(30) DEF PlacesOk

\* ... its poster queues it, ...
LEMMA PlacesEnqueue ==
    ASSUME Counting, TypeOK, PlacesOk, outcome = "running", NEW t \in Threads, NEW x \in Threads,
           InPost(t), Enqueue(x, post[t]), UNCHANGED <<posted, done>>,
           \A u \in Threads : InPost(u)' <=> u # t /\ InPost(u),
           \A u \in Threads \ {t} : post'[u] = post[u]
    PROVE  PlacesOk'
<1> DEFINE d == post[t].id
<1>0. post[t] \in Entries /\ d \in ((1 .. posted) \ done) \ Queued
  BY Zenon, Types DEF PlacesOk
<1>1. CASE sigfree > 0
  <2>1. sigpending' = [sigpending EXCEPT ![x] = Append(@, post[t])] /\ sigfree' = sigfree - 1
    BY Zenon, <1>1 DEF Enqueue
  <2>2. /\ \A u \in Threads : Distinct(sigpending[u])'
        /\ \A y, u \in Threads : y # u => Ids(sigpending'[y]) \cap Ids(sigpending'[u]) = {}
        /\ Queued' = Queued \cup {d}
        /\ sigfree' = NSIGENTRY - Cardinality(Queued')
    BY ZenonT(30), <1>0, <2>1, EnqueuePlaces
  <2>3. \A y, u \in Threads : y # u => Ids(sigpending[y])' \cap Ids(sigpending[u])' = {}
    BY ZenonT(30), <2>2 DEF Ids
  <2> HIDE DEF d
  <2>4. /\ Queued' \subseteq (1 .. posted') \ done' /\ done' \subseteq 1 .. posted'
    BY Zenon, <1>0, <2>2 DEF PlacesOk
  <2>5. \A u \in Threads : InPost(u)' => post'[u].id \in ((1 .. posted') \ done') \ Queued'
    BY Zenon, <2>2 DEF PlacesOk, d
  <2>6. \A y, u \in Threads : InPost(y)' /\ InPost(u)' /\ post'[y].id = post'[u].id => y = u
    BY Zenon DEF PlacesOk
  <2>7. \A id \in 1 .. posted' : id \in done' \cup Queued'
                                 \/ \E u \in Threads : InPost(u)' /\ post'[u].id = id
    <3> SUFFICES ASSUME NEW id \in 1 .. posted', id # d
                 PROVE  id \in done' \cup Queued' \/ \E u \in Threads : InPost(u)' /\ post'[u].id = id
      BY Zenon, <2>2
    <3>1. id \in done \cup Queued \/ \E u \in Threads : InPost(u) /\ post[u].id = id
      BY Zenon DEF PlacesOk
    <3>2. QED
      BY Zenon, <2>2, <3>1 DEF d
  <2>8. QED
    BY <2>2, <2>3, <2>4, <2>5, <2>6, <2>7, ZenonT(30) DEF PlacesOk
<1>2. CASE ~(sigfree > 0)
  <2>1. UNCHANGED <<sigpending, sigfree>> /\ outcome' = "aborted"
    BY Zenon, <1>2 DEF Enqueue
  <2>2. /\ Queued' = Queued
        /\ \A u \in Threads : (Distinct(sigpending[u])' <=> Distinct(sigpending[u]))
        /\ \A u \in Threads : Ids(sigpending[u])' = Ids(sigpending[u])
    BY <2>1 DEF Queued, Ids, Distinct
  <2>3. /\ \A u \in Threads : Distinct(sigpending[u])'
        /\ \A y, u \in Threads : y # u => Ids(sigpending[y])' \cap Ids(sigpending[u])' = {}
        /\ Queued' \subseteq (1 .. posted') \ done' /\ done' \subseteq 1 .. posted'
        /\ sigfree' = NSIGENTRY - Cardinality(Queued')
    BY <2>1, <2>2, ZenonT(30) DEF PlacesOk
  <2>4. /\ \A u \in Threads : InPost(u)' => post'[u].id \in ((1 .. posted') \ done') \ Queued'
        /\ \A y, u \in Threads : InPost(y)' /\ InPost(u)' /\ post'[y].id = post'[u].id => y = u
    BY Zenon, <2>2 DEF PlacesOk
  <2>5. QED
    BY <2>1, <2>3, <2>4, ZenonT(30) DEF PlacesOk
<1>3. QED
  BY Zenon, <1>1, <1>2

\* ... a vcpu takes it, ...
LEMMA PlacesDequeue ==
    ASSUME Counting, TypeOK, PlacesOk, outcome = "running", NEW v \in Vcpus, NEW mask, Ready(v, mask), Dequeue(v, mask),
           \A u \in Threads : InPost(u)' <=> InPost(u)
    PROVE  PlacesOk'
<1>0. v \in Threads /\ VM \in Threads
  BY Zenon, VMNotVcpu
<1>1. PICK s \in {v, VM} : \E c \in 1 .. Len(sigpending[s]) :
              /\ sigpending' = [sigpending EXCEPT ![s] = Removed(sigpending[s], c)]
              /\ sigfree' = sigfree + 1
              /\ done' = done \cup {sigpending[s][c].id}
              /\ UNCHANGED <<wait_queue, sleep_queue, posted, post>>
  BY Zenon, DequeueFacts
<1>2. PICK c \in 1 .. Len(sigpending[s]) :
              /\ sigpending' = [sigpending EXCEPT ![s] = Removed(sigpending[s], c)]
              /\ sigfree' = sigfree + 1
              /\ done' = done \cup {sigpending[s][c].id}
              /\ UNCHANGED <<wait_queue, sleep_queue, posted, post>>
  BY ZenonT(30), <1>1
<1> DEFINE d == sigpending[s][c].id
<1>3. /\ \A u \in Threads : Distinct(sigpending[u])'
      /\ \A y, u \in Threads : y # u => Ids(sigpending'[y]) \cap Ids(sigpending'[u]) = {}
      /\ d \in Queued /\ Queued' = Queued \ {d}
      /\ sigfree' = NSIGENTRY - Cardinality(Queued')
  BY ZenonT(30), <1>0, <1>2, DequeuePlaces
<1>4. \A y, u \in Threads : y # u => Ids(sigpending[y])' \cap Ids(sigpending[u])' = {}
  BY ZenonT(30), <1>3 DEF Ids
<1>5. done' = done \cup {d} /\ posted' = posted /\ post' = post
  BY Zenon, <1>2
<1> HIDE DEF d
<1>6. /\ Queued' \subseteq (1 .. posted') \ done' /\ done' \subseteq 1 .. posted'
  <2>1. Queued \subseteq (1 .. posted) \ done /\ done \subseteq 1 .. posted
    BY ZenonT(30) DEF PlacesOk
  <2>2. QED
    BY ZenonT(30), <1>3, <1>5, <2>1
<1>7. ASSUME NEW u \in Threads, InPost(u)' PROVE post'[u].id \in ((1 .. posted') \ done') \ Queued'
  <2>1. post[u].id \in ((1 .. posted) \ done) \ Queued
    BY ZenonT(30), <1>7 DEF PlacesOk
  <2>2. QED
    BY ZenonT(30), <1>3, <1>5, <2>1
<1>8. \A y, u \in Threads : InPost(y)' /\ InPost(u)' /\ post'[y].id = post'[u].id => y = u
  BY ZenonT(30), <1>5 DEF PlacesOk
<1>9. \A id \in 1 .. posted' : id \in done' \cup Queued'
                               \/ \E u \in Threads : InPost(u)' /\ post'[u].id = id
  BY Zenon, <1>3, <1>5 DEF PlacesOk
<1>10. QED
  BY <1>3, <1>4, <1>6, <1>7, <1>8, <1>9, ZenonT(30) DEF PlacesOk

\* ... or claims it.
LEMMA PlacesClaim ==
    ASSUME Counting, TypeOK, PlacesOk, outcome = "running", NEW v \in Vcpus, NEW mask, Claim(v, mask),
           UNCHANGED <<sigfree, done, posted, post>>,
           \A u \in Threads : InPost(u)' <=> InPost(u)
    PROVE  PlacesOk'
<1>1. CASE UNCHANGED sigpending
  BY Zenon, <1>1, PlacesFrame
<1>2. CASE \E i \in 1 .. Len(sigpending[VM]) :
              sigpending' = [sigpending EXCEPT ![VM] = Removed(sigpending[VM], i),
                                               ![v] = Append(sigpending[v], sigpending[VM][i])]
  <2>1. /\ \A t \in Threads : Distinct(sigpending[t])'
        /\ \A t, u \in Threads : t # u => Ids(sigpending'[t]) \cap Ids(sigpending'[u]) = {}
        /\ Queued' = Queued
    BY ZenonT(30), <1>2, ClaimPlaces
  <2>2. \A y, u \in Threads : y # u => Ids(sigpending[y])' \cap Ids(sigpending[u])' = {}
    BY ZenonT(30), <2>1 DEF Ids
  <2>3. /\ Queued' \subseteq (1 .. posted') \ done' /\ done' \subseteq 1 .. posted'
        /\ sigfree' = NSIGENTRY - Cardinality(Queued')
    BY Zenon, <2>1 DEF PlacesOk
  <2>4. /\ \A t \in Threads : InPost(t)' => post'[t].id \in ((1 .. posted') \ done') \ Queued'
        /\ \A t, u \in Threads : InPost(t)' /\ InPost(u)' /\ post'[t].id = post'[u].id => t = u
        /\ \A id \in 1 .. posted' : id \in done' \cup Queued'
                                    \/ \E t \in Threads : InPost(t)' /\ post'[t].id = id
    BY Zenon, <2>1 DEF PlacesOk
  <2>5. QED
    BY <2>1, <2>2, <2>3, <2>4, ZenonT(30) DEF PlacesOk
<1>3. QED
  BY Zenon, <1>1, <1>2, ClaimFacts

\* The types of what the operations leave.
LEMMA DequeueType ==
    ASSUME Counting, TypeOK, PlacesOk, NEW v \in Vcpus, NEW mask, Ready(v, mask), Dequeue(v, mask)
    PROVE  TypeQueues' /\ Dequeued(v, mask) \in Entries
<1>0. v \in Threads /\ VM \in Threads
  BY Zenon, VMNotVcpu
<1>1. PICK s \in {v, VM} : \E c \in 1 .. Len(sigpending[s]) :
              /\ sigpending' = [sigpending EXCEPT ![s] = Removed(sigpending[s], c)]
              /\ Dequeued(v, mask) = sigpending[s][c]
              /\ sigfree' = sigfree + 1
              /\ done' = done \cup {sigpending[s][c].id}
              /\ UNCHANGED <<wait_queue, sleep_queue, posted, post>>
  BY DequeueFacts
<1>2. PICK c \in 1 .. Len(sigpending[s]) :
              /\ sigpending' = [sigpending EXCEPT ![s] = Removed(sigpending[s], c)]
              /\ Dequeued(v, mask) = sigpending[s][c]
              /\ sigfree' = sigfree + 1
              /\ done' = done \cup {sigpending[s][c].id}
              /\ UNCHANGED <<wait_queue, sleep_queue, posted, post>>
  BY ZenonT(30), <1>1
<1>3. sigpending[s] \in Seq(Entries) /\ sigpending[s][c] \in Entries
  BY SMTT(30), <1>0, Types
<1>4. Removed(sigpending[s], c) \in Seq(Entries)
  BY <1>3, RemovedFacts, ZenonT(30)
<1>5. sigpending' \in [Threads -> Seq(Entries)]
  BY ZenonT(60), <1>0, <1>2, <1>4, Types
<1>6. sigfree < NSIGENTRY
  BY ZenonT(30), <1>0, <1>2, DequeuePlaces
<1>7. sigfree' \in 0 .. NSIGENTRY
  <2>1. sigfree \in 0 .. NSIGENTRY /\ NSIGENTRY \in Nat /\ sigfree' = sigfree + 1
    BY ZenonT(30), <1>2, SignalsAssumption, Types DEF SignalsAssumption
  <2>2. QED
    BY SMTT(30), <1>6, <2>1
<1>8. done' \in SUBSET (1 .. MaxPosts)
  BY ZenonT(30), <1>2, <1>3, Types DEF Entries
<1>9. QED
  BY Zenon, <1>2, <1>3, <1>5, <1>7, <1>8, Types DEF TypeQueues

\* Claiming a signal moves entries between the queues.
LEMMA ClaimType ==
    ASSUME Counting, TypeOK, NEW v \in Vcpus, NEW mask, Claim(v, mask)
    PROVE  sigpending' \in [Threads -> Seq(Entries)]
<1>0. v \in Threads /\ VM \in Threads
  BY Zenon, VMNotVcpu
<1>1. CASE UNCHANGED sigpending
  BY Zenon, <1>1, Types
<1>2. ASSUME NEW i \in 1 .. Len(sigpending[VM]),
             sigpending' = [sigpending EXCEPT ![VM] = Removed(sigpending[VM], i),
                                              ![v] = Append(sigpending[v], sigpending[VM][i])]
      PROVE  sigpending' \in [Threads -> Seq(Entries)]
  <2>1. sigpending[VM] \in Seq(Entries) /\ sigpending[VM][i] \in Entries /\ sigpending[v] \in Seq(Entries)
    BY <1>0, Types
  <2>2. Removed(sigpending[VM], i) \in Seq(Entries)
    BY <2>1, RemovedFacts, ZenonT(30)
  <2>3. Append(sigpending[v], sigpending[VM][i]) \in Seq(Entries)
    BY <2>1
  <2>4. QED
    BY ZenonT(30), <1>2, <2>2, <2>3, Types
<1>3. QED
  BY Zenon, <1>1, <1>2, ClaimFacts

\* Queueing a signal takes an entry of the pool, or ends KM.
LEMMA EnqueueType ==
    ASSUME TypeOK, NEW x \in Threads, NEW e \in Entries, Enqueue(x, e)
    PROVE  /\ sigpending' \in [Threads -> Seq(Entries)] /\ sigfree' \in 0 .. NSIGENTRY
           /\ outcome' \in {"running", "killed", "aborted", "corrupt"}
<1>1. Append(sigpending[x], e) \in Seq(Entries)
  BY Types
<1>2. sigpending' \in [Threads -> Seq(Entries)]
  BY ZenonT(30), <1>1, Types DEF Enqueue
<1>3. sigfree' \in 0 .. NSIGENTRY
  BY SignalsAssumption, Types DEF Enqueue, SignalsAssumption
<1>4. outcome' \in {"running", "killed", "aborted", "corrupt"}
  BY Zenon, Types DEF Enqueue
<1>5. QED
  BY Zenon, <1>2, <1>3, <1>4

\* A wait queue without a vcpu is a queue of vcpus.
LEMMA RemoveFromType ==
    ASSUME NEW q \in Seq(Vcpus), NEW v PROVE RemoveFrom(q, v) \in Seq(Vcpus)
<1>1. CASE OnQueue(q, v)
  <2> DEFINE i == CHOOSE k \in DOMAIN q : q[k] = v
  <2>1. i \in 1 .. Len(q)
    BY <1>1 DEF OnQueue
  <2>2. RemoveFrom(q, v) = Removed(q, i)
    BY Zenon, <1>1 DEF RemoveFrom
  <2> HIDE DEF i
  <2>3. QED
    BY <2>1, <2>2, RemovedFacts, ZenonT(30)
<1>2. CASE ~OnQueue(q, v)
  BY Zenon, <1>2 DEF RemoveFrom
<1>3. QED
  BY Zenon, <1>1, <1>2

\* A new post is an entry, with the next number.
LEMMA PostTypes ==
    /\ NoPost \in Entries
    /\ TypeOK /\ posted < MaxPosts =>
          \A t \in Threads, s \in Signals, k \in BOOLEAN :
             NewPost(t, s, k) \in Entries /\ NewPost(t, s, k).id = posted + 1
<1>1. /\ (CHOOSE s \in Signals : TRUE) \in Signals /\ 1 \in 1 .. MaxPosts /\ MaxPosts \in Nat
  BY SignalsAssumption DEF SignalsAssumption
<1>2. NoPost \in Entries
  BY Zenon, <1>1, VMNotVcpu DEF NoPost, Entries
<1>3. TypeOK /\ posted < MaxPosts => posted + 1 \in 1 .. MaxPosts
  BY <1>1, Types
<1>4. QED
  BY Zenon, <1>2, <1>3 DEF NewPost, Entries

\* km_wakeup_suspended_thread hands the signal to the first waiter that takes it.
LEMMA WakeupFacts ==
    ASSUME Counting, TypeOK, NEW t \in Threads, Wakeup(t), Waiters(post[t].signo) # {}
    PROVE  \E i \in 1 .. Len(wait_queue) :
              /\ post[t].signo \notin sigmask[wait_queue[i]]
              /\ wait_queue' = Removed(wait_queue, i)
              /\ Enqueue(wait_queue[i], post[t])
              /\ post' = [post EXCEPT ![t] = NoPost]
              /\ pc' = [pc EXCEPT ![t] = IF t = VM THEN "guest" ELSE "deliver",
                                  ![wait_queue[i]] = CASE @ = "suspend" -> "suspend_woken"
                                         [] @ \in {"timedwait", "timedwait_timed"} -> "timedwait_woken"
                                         [] OTHER -> @]
<1> DEFINE I == Waiters(post[t].signo)
           i == CHOOSE k \in I : \A j \in I : k <= j
<1>1. I \subseteq 1 .. Len(wait_queue) /\ I \subseteq Nat
  BY SMTT(30), Types DEF Waiters
<1> HIDE DEF I
<1>2. i \in I
  BY <1>1, FirstOf, ZenonT(30) DEF I
<1>3. i \in 1 .. Len(wait_queue) /\ post[t].signo \notin sigmask[wait_queue[i]]
  BY Zenon, <1>1, <1>2 DEF I, Waiters
<1>4. /\ wait_queue' = Removed(wait_queue, i)
      /\ Enqueue(wait_queue[i], post[t])
      /\ post' = [post EXCEPT ![t] = NoPost]
      /\ pc' = [pc EXCEPT ![t] = IF t = VM THEN "guest" ELSE "deliver",
                          ![wait_queue[i]] = CASE @ = "suspend" -> "suspend_woken"
                                         [] @ \in {"timedwait", "timedwait_timed"} -> "timedwait_woken"
                                         [] OTHER -> @]
  BY Zenon DEF Wakeup, I
<1> HIDE DEF i
<1>5. QED
  BY ZenonT(30), <1>3, <1>4

\* The type invariant after a step, from its parts.
LEMMA TypeJoin == TypeQueues' /\ TypeMasks' /\ TypeRun' /\ TypePc' => TypeOK'
  BY ZenonT(30) DEF TypeOK, TypeQueues, TypeMasks, TypeRun, TypePc

\* The steps of a vcpu that do not post.
GuestStep(v) ==
    \/ Sigsuspend(v) \/ Sigtimedwait(v) \/ Epoll(v) \/ Pselect(v) \/ Sigprocmask(v) \/ Sigaction(v)
    \/ Sigreturn(v) \/ OtherCall(v) \/ Kick(v) \/ SuspendWoken(v) \/ Expire(v) \/ TimedOut(v)
    \/ TimedwaitWoken(v) \/ EpollReady(v) \/ EpollReturn(v) \/ PselectReturn(v) \/ Deliver(v) \/ KvmRun(v)

\* The steps, by who takes them.
LEMMA NextSteps ==
    ASSUME Next
    PROVE  /\ outcome = "running"
           /\ \/ \E t \in Threads : Kill(t) \/ Wakeup(t) \/ EnqueueSignal(t) \/ Interrupt(t)
              \/ \E v \in Vcpus : Tkill(v) \/ Fault(v) \/ GuestStep(v)
  BY ZenonT(30) DEF Next, Posting, Call, GuestStep

-----------------------------------------------------------------------------
(* The types *)

\* What the types use of the constants.
LEMMA TypeConstants ==
    /\ VM \notin Vcpus /\ VM \in Threads /\ Vcpus \subseteq Threads
    /\ Masks \subseteq SUBSET Signals /\ Acts \in [Signals -> SUBSET Actions]
    /\ ign_block_signals \subseteq Signals
  BY Zenon, VMNotVcpu, SignalsAssumption DEF SignalsAssumption

\* Variables that do not change keep their types.
LEMMA TypeFrame ==
    ASSUME TypeOK
    PROVE  /\ UNCHANGED queueVars => TypeQueues'
           /\ UNCHANGED maskVars => TypeMasks'
           /\ UNCHANGED runVars => TypeRun'
  BY ZenonT(30), Types DEF TypeQueues, TypeMasks, TypeRun, queueVars, maskVars, runVars

\* The start of km_post_signal keeps the types.
LEMMA TypePostSignal ==
    ASSUME TypeOK, NEW t \in Threads, NEW sig \in Entries, posted < MaxPosts, PostSignal(t, sig)
    PROVE  TypeOK'
<1>1. posted' \in 0 .. MaxPosts
  BY SignalsAssumption, Types DEF PostSignal, SignalsAssumption
<1>2. done' \in SUBSET (1 .. MaxPosts) /\ post' \in [Threads -> Entries]
  BY ZenonT(30), Types DEF PostSignal, Entries
<1>3. UNCHANGED <<sigpending, sigfree, wait_queue, sleep_queue, maskVars, runVars>>
  BY ZenonT(30) DEF PostSignal
<1>4. TypeQueues' /\ TypeMasks' /\ TypeRun'
  BY ZenonT(30), <1>1, <1>2, <1>3, TypeFrame, Types DEF TypeQueues
<1>5. TypePc'
  BY ZenonT(30), Types DEF PostSignal, TypePc, Return, Goto, PCs
<1>6. QED
  BY ZenonT(30), <1>4, <1>5, TypeJoin

\* kill, tkill and the faults of the guest.
LEMMA TypePost ==
    ASSUME TypeOK, (\E t \in Threads : Kill(t)) \/ \E v \in Vcpus : Tkill(v) \/ Fault(v)
    PROVE  TypeOK'
<1>1. PICK t \in Threads, sig \in Entries : posted < MaxPosts /\ PostSignal(t, sig)
  BY ZenonT(30), TypeConstants, PostTypes DEF Kill, Tkill, Fault
<1>2. QED
  BY ZenonT(30), <1>1, TypePostSignal

\* So does its look for a thread that waits.
LEMMA TypeWakeup ==
    ASSUME Counting, TypeOK, NEW t \in Threads, Wakeup(t)
    PROVE  TypeOK'
<1>1. CASE Waiters(post[t].signo) = {}
  BY ZenonT(30), <1>1 DEF TypeOK, Wakeup, Goto, PCs, maskVars
<1>2. CASE Waiters(post[t].signo) # {}
  <2>1. PICK i \in 1 .. Len(wait_queue) :
            /\ wait_queue' = Removed(wait_queue, i)
            /\ Enqueue(wait_queue[i], post[t])
            /\ post' = [post EXCEPT ![t] = NoPost]
            /\ pc' = [pc EXCEPT ![t] = IF t = VM THEN "guest" ELSE "deliver",
                                ![wait_queue[i]] = CASE @ = "suspend" -> "suspend_woken"
                                       [] @ \in {"timedwait", "timedwait_timed"} -> "timedwait_woken"
                                       [] OTHER -> @]
    BY ZenonT(30), <1>2, WakeupFacts
  <2>2. wait_queue \in Seq(Vcpus) /\ wait_queue[i] \in Vcpus /\ wait_queue[i] \in Threads /\ post[t] \in Entries
    BY TypeConstants, Types
  <2>3. Removed(wait_queue, i) \in Seq(Vcpus)
    BY <2>2, RemovedFacts, ZenonT(30)
  <2>4. /\ sigpending' \in [Threads -> Seq(Entries)] /\ sigfree' \in 0 .. NSIGENTRY
        /\ outcome' \in {"running", "killed", "aborted", "corrupt"}
    BY Zenon, <2>1, <2>2, EnqueueType
  <2>5. post' \in [Threads -> Entries]
    BY Zenon, <2>1, PostTypes, Types
  <2>6. TypeQueues'
    BY Zenon, <2>1, <2>3, <2>4, <2>5, Types DEF Wakeup, TypeQueues
  <2>7. TypeMasks' /\ TypeRun'
    BY ZenonT(30), <2>4, Types DEF Wakeup, TypeMasks, TypeRun, maskVars
  <2>8. TypePc'
    BY ZenonT(30), <2>1, <2>2, Types DEF TypePc, PCs
  <2>9. QED
    BY Zenon, <2>6, <2>7, <2>8, TypeJoin
<1>3. QED
  BY Zenon, <1>1, <1>2

\* So does the queueing of the signal.
LEMMA TypeEnqueueSignal ==
    ASSUME TypeOK, NEW t \in Threads, EnqueueSignal(t)
    PROVE  TypeOK'
<1>1. post[t] \in Entries /\ post[t].target \in Threads
  BY Zenon, Types DEF Entries
<1>2. /\ sigpending' \in [Threads -> Seq(Entries)] /\ sigfree' \in 0 .. NSIGENTRY
      /\ outcome' \in {"running", "killed", "aborted", "corrupt"}
  BY Zenon, <1>1, EnqueueType DEF EnqueueSignal
<1>3. TypeQueues' /\ TypeMasks' /\ TypeRun'
  BY ZenonT(30), <1>2, Types DEF EnqueueSignal, TypeQueues, TypeMasks, TypeRun, maskVars
<1>4. TypePc'
  BY Zenon, Types DEF EnqueueSignal, TypePc, Goto, PCs
<1>5. QED
  BY Zenon, <1>3, <1>4, TypeJoin

\* So does the interrupt of the target.
LEMMA TypeInterrupt ==
    ASSUME TypeOK, NEW t \in Threads, Interrupt(t)
    PROVE  TypeOK'
<1>1. TypeQueues'
  <2>1. post' \in [Threads -> Entries]
    BY Zenon, PostTypes, Types DEF Interrupt
  <2>2. sleep_queue' \in Seq(Vcpus)
    <3>1. sleep_queue \in Seq(Vcpus) /\ (sleep_queue # <<>> => Tail(sleep_queue) \in Seq(Vcpus))
      BY Types
    <3>2. (sleep_queue # <<>> /\ sleep_queue' = Tail(sleep_queue)) \/ sleep_queue' = sleep_queue
      BY Zenon DEF Interrupt
    <3>3. QED
      BY <3>1, <3>2, ZenonT(30)
  <2>3. QED
    BY Zenon, <2>1, <2>2, Types DEF Interrupt, TypeQueues
<1>2. TypeMasks'
  BY Zenon, TypeConstants, Types DEF Interrupt, maskVars, TypeMasks
<1>3. TypeRun'
  <2>1. post[t].target \in Threads /\ (sleep_queue # <<>> => Head(sleep_queue) \in Vcpus)
    BY SMTT(30), Types DEF Entries
  <2>2. kicked' \in SUBSET Vcpus
    BY Zenon, <2>1, VMNotVcpu, Types DEF Interrupt
  <2>3. QED
    BY ZenonT(30), <2>2, Types DEF Interrupt, TypeRun
<1>4. TypePc'
  BY Zenon, TypeConstants, Types DEF Interrupt, TypePc, Goto, Return, PCs
<1>5. QED
  BY Zenon, <1>1, <1>2, <1>3, <1>4, TypeJoin

\* The calls of a guest thread keep the type of its place,
LEMMA TypeGuestPc == ASSUME TypeOK, NEW v \in Vcpus, GuestStep(v) PROVE TypePc'
  BY ZenonT(60), TypeConstants, Types
  DEF GuestStep, TypePc, PCs, Goto, Return, Sigsuspend, Sigtimedwait, Epoll, Pselect, Sigprocmask, Sigaction,
      Sigreturn, OtherCall, Kick, SuspendWoken, Expire, TimedOut, TimedwaitWoken, EpollReady, EpollReturn,
      PselectReturn, Deliver, KvmRun

\* ... of the queues and the pool,
LEMMA TypeGuestQueues == ASSUME Counting, TypeOK, PlacesOk, NEW v \in Vcpus, GuestStep(v) PROVE TypeQueues'
<1>1. CASE Sigsuspend(v) \/ SuspendWoken(v)
  <2>1. sigpending' \in [Threads -> Seq(Entries)]
    BY ZenonT(30), <1>1, ClaimType DEF Sigsuspend, SuspendWoken
  <2>2. wait_queue' \in Seq(Vcpus)
    <3>1. wait_queue' = Append(wait_queue, v) \/ wait_queue' = wait_queue
      BY ZenonT(30), <1>1 DEF Sigsuspend, InsertWait, SuspendWoken
    <3>2. wait_queue \in Seq(Vcpus)
      BY ZenonT(30), Types
    <3>3. QED
      BY ZenonT(30), <3>1, <3>2, AppendFacts
  <2>3. UNCHANGED <<sigfree, sleep_queue, posted, done, post>>
    BY ZenonT(30), <1>1 DEF Sigsuspend, InsertWait, SuspendWoken
  <2>4. QED
    BY ZenonT(30), <2>1, <2>2, <2>3, Types DEF TypeQueues
<1>2. CASE \E mask : Ready(v, mask) /\ Dequeue(v, mask)
  BY ZenonT(30), <1>2, DequeueType
<1>3. CASE /\ wait_queue' \in {Append(wait_queue, v), RemoveFrom(wait_queue, v), wait_queue}
           /\ sleep_queue' \in {Append(sleep_queue, v), RemoveFrom(sleep_queue, v), sleep_queue}
           /\ UNCHANGED <<sigpending, sigfree, posted, done, post>>
  <2>1. wait_queue \in Seq(Vcpus) /\ sleep_queue \in Seq(Vcpus)
    BY Zenon, Types
  <2>2. RemoveFrom(wait_queue, v) \in Seq(Vcpus) /\ RemoveFrom(sleep_queue, v) \in Seq(Vcpus)
    BY ZenonT(30), <2>1, RemoveFromType
  <2>a. Append(wait_queue, v) \in Seq(Vcpus) /\ Append(sleep_queue, v) \in Seq(Vcpus)
    BY ZenonT(30), <2>1, AppendFacts
  <2>3. wait_queue' \in Seq(Vcpus) /\ sleep_queue' \in Seq(Vcpus)
    BY ZenonT(30), <1>3, <2>1, <2>2, <2>a
  <2>4. QED
    BY ZenonT(30), <1>3, <2>3, Types DEF TypeQueues
<1>4. QED
  <2>1. \/ Sigsuspend(v) \/ SuspendWoken(v)
        \/ \E mask : Ready(v, mask) /\ Dequeue(v, mask)
        \/ InsertWait(v) /\ UNCHANGED <<sigpending, sigfree, posted, done, post>>
        \/ TimedOut(v) \/ Epoll(v) \/ EpollReturn(v) \/ UNCHANGED queueVars
    BY ZenonT(60)
    DEF GuestStep, Sigtimedwait, Pselect, Sigprocmask, Sigaction, Sigreturn, OtherCall, Kick,
        Expire, TimedwaitWoken, EpollReady, PselectReturn, Deliver, KvmRun
  <2>2. QED
    BY ZenonT(30), <1>1, <1>2, <1>3, <2>1 DEF InsertWait, TimedOut, Epoll, EpollReturn, queueVars

\* ... of the masks,
LEMMA TypeGuestMasks == ASSUME Counting, TypeOK, PlacesOk, NEW v \in Vcpus, GuestStep(v) PROVE TypeMasks'
<1>1. CASE Sigtimedwait(v)
  <2>1. PICK set \in Masks :
           \/ UNCHANGED <<sigmask, oldmask>>
           \/ /\ oldmask' = [oldmask EXCEPT ![v] = sigmask[v]]
              /\ sigmask' = [sigmask EXCEPT ![v] = Signals \ set]
    BY ZenonT(30), <1>1 DEF Sigtimedwait
  <2>2. sigmask' \in [Vcpus -> SUBSET Signals] /\ oldmask' \in [Vcpus -> SUBSET Signals]
    BY ZenonT(60), <2>1, Types
  <2>3. QED
    BY ZenonT(30), <1>1, <2>2, Types DEF Sigtimedwait, TypeMasks
<1>2. CASE Sigprocmask(v)
  <2>1. sigmask' \in [Vcpus -> SUBSET Signals]
    <3>1. PICK set \in Masks : \/ sigmask' = [sigmask EXCEPT ![v] = @ \cup set]
                               \/ sigmask' = [sigmask EXCEPT ![v] = @ \ set]
                               \/ sigmask' = [sigmask EXCEPT ![v] = set]
      BY Zenon, <1>2 DEF Sigprocmask
    <3>2. set \in SUBSET Signals /\ sigmask \in [Vcpus -> SUBSET Signals]
      BY Zenon, TypeConstants, Types
    <3>3. QED
      BY Zenon, <3>1, <3>2
  <2>2. base' \in [Vcpus -> SUBSET Signals]
    BY ZenonT(30), <1>2, <2>1, Types DEF Sigprocmask
  <2>3. unblocked' \in [Vcpus -> SUBSET Signals]
    BY Zenon, <1>2, <2>1, Types DEF Sigprocmask
  <2>4. QED
    BY ZenonT(30), <1>2, <2>1, <2>2, <2>3, Types DEF Sigprocmask, TypeMasks
<1>3. CASE Sigreturn(v)
  <2>1. Head(frames[v]).mask \in SUBSET Signals
    <3>1. frames[v] \in Seq(Frames) /\ frames[v] # <<>>
      BY ZenonT(30), <1>3, Types DEF Sigreturn, Frames
    <3>2. Head(frames[v]) \in Frames
      BY <3>1
    <3>3. QED
      BY Zenon, <3>2 DEF Frames
  <2>2. sigmask' \in [Vcpus -> SUBSET Signals] /\ unblocked' \in [Vcpus -> SUBSET Signals]
    BY ZenonT(30), <1>3, <2>1, Types DEF Sigreturn
  <2>3. QED
    BY ZenonT(30), <1>3, <2>2, Types DEF Sigreturn, TypeMasks
<1>4. CASE Deliver(v)
  <2> DEFINE sig == Dequeued(v, sigmask[v])
  <2>1. CASE UNCHANGED <<sigmask, in_sigsuspend>>
    BY ZenonT(30), <1>4, <2>1, Types DEF Deliver, TypeMasks
  <2>2. CASE Ready(v, sigmask[v]) /\ Dequeue(v, sigmask[v]) /\ DeliverSignal(v, sig)
    <3>1. sig \in Entries
      BY Zenon, <2>2, DequeueType
    <3> HIDE DEF sig
    <3>2. sig.signo \in Signals /\ sigactions[sig.signo].sa_mask \in SUBSET Signals
      BY Zenon, <3>1, Types DEF Entries, Actions
    <3>3. sigmask' \in [Vcpus -> SUBSET Signals]
      BY <2>2, <3>2, Types DEF DeliverSignal
    <3>4. in_sigsuspend' \in SUBSET Vcpus
      BY Zenon, <2>2, Types DEF DeliverSignal
    <3>5. QED
      BY ZenonT(30), <1>4, <3>3, <3>4, Types DEF Deliver, TypeMasks
  <2>3. QED
    BY ZenonT(30), <1>4, <2>1, <2>2 DEF Deliver
<1>5. CASE Sigsuspend(v) \/ TimedOut(v) \/ TimedwaitWoken(v) \/ Pselect(v) \/ PselectReturn(v)
  <2>0. /\ sigmask \in [Vcpus -> SUBSET Signals] /\ saved_sigmask \in [Vcpus -> SUBSET Signals]
        /\ oldmask \in [Vcpus -> SUBSET Signals] /\ Masks \subseteq SUBSET Signals
    BY ZenonT(30), TypeConstants, Types
  <2>1. sigmask' \in [Vcpus -> SUBSET Signals]
    <3>1. CASE Sigsuspend(v) \/ Pselect(v)
      BY <2>0, <3>1 DEF Sigsuspend, Pselect
    <3>2. CASE TimedOut(v) \/ TimedwaitWoken(v) \/ PselectReturn(v)
      BY Zenon, <2>0, <3>2 DEF TimedOut, TimedwaitWoken, PselectReturn
    <3>3. QED
      BY ZenonT(30), <1>5, <3>1, <3>2
  <2>2. saved_sigmask' \in [Vcpus -> SUBSET Signals] /\ oldmask' \in [Vcpus -> SUBSET Signals]
    BY ZenonT(30), <1>5, Types DEF Sigsuspend, TimedOut, TimedwaitWoken, Pselect, PselectReturn
  <2>3. /\ UNCHANGED <<base, unblocked>>
        /\ in_sigsuspend' \in SUBSET Vcpus /\ suspended' \in SUBSET Vcpus
    BY ZenonT(30), <1>5, Types DEF Sigsuspend, TimedOut, TimedwaitWoken, Pselect, PselectReturn
  <2>4. QED
    BY ZenonT(30), <2>1, <2>2, <2>3, Types DEF TypeMasks
<1>6. CASE UNCHANGED maskVars
  BY ZenonT(30), <1>6, TypeFrame
<1>7. QED
  BY ZenonT(30), <1>1, <1>2, <1>3, <1>4, <1>5, <1>6
  DEF GuestStep, Epoll, Sigaction, OtherCall, Kick, SuspendWoken, Expire, EpollReady, EpollReturn, KvmRun

\* ... and of the handlers and frames.
LEMMA TypeGuestRun == ASSUME Counting, TypeOK, PlacesOk, NEW v \in Vcpus, GuestStep(v) PROVE TypeRun'
<1>1. CASE Sigaction(v)
  <2>1. PICK s \in Signals : \E act \in Acts[s] : sigactions' = [sigactions EXCEPT ![s] = act]
    BY ZenonT(30), <1>1 DEF Sigaction
  <2>2. Acts[s] \in SUBSET Actions
    BY Zenon, TypeConstants
  <2>3. sigactions' \in [Signals -> Actions]
    BY Zenon, <2>1, <2>2, Types
  <2>4. QED
    BY ZenonT(30), <1>1, <2>3, Types DEF Sigaction, TypeRun
<1>2. CASE Sigreturn(v)
  <2>1. frames \in [Vcpus -> Seq(Frames)] /\ frames[v] # <<>> /\ frames' = [frames EXCEPT ![v] = Tail(frames[v])]
    BY ZenonT(30), <1>2, Types DEF Sigreturn, Frames
  <2>2. Tail(frames[v]) \in Seq(Frames)
    BY <2>1
  <2>3. frames' \in [Vcpus -> Seq(Frames)]
    BY Zenon, <2>1, <2>2
  <2>4. QED
    BY ZenonT(30), <1>2, <2>3, Types DEF Sigreturn, TypeRun, Frames
<1>3. CASE Deliver(v)
  <2> DEFINE sig == Dequeued(v, sigmask[v])
  <2>1. CASE UNCHANGED <<sigactions, frames, outcome>>
    BY ZenonT(30), <1>3, <2>1, Types DEF Deliver, TypeRun
  <2>2. CASE Ready(v, sigmask[v]) /\ Dequeue(v, sigmask[v]) /\ DeliverSignal(v, sig)
    <3>1. sig \in Entries
      BY Zenon, <2>2, DequeueType
    <3> HIDE DEF sig
    <3>2. sig.signo \in Signals /\ sigactions[sig.signo] \in Actions /\ sigmask[v] \in SUBSET Signals
      BY Zenon, <3>1, Types DEF Entries
    <3>3. sigactions' \in [Signals -> Actions]
      BY ZenonT(30), <2>2, <3>2, Types DEF DeliverSignal, Actions, Handlers
    <3>4. outcome' \in {"running", "killed", "aborted", "corrupt"}
      BY Zenon, <2>2, Types DEF DeliverSignal
    <3> DEFINE f == [signo |-> sig.signo, mask |-> sigmask[v]]
    <3>5. f \in Frames /\ frames[v] \in Seq(Frames)
      BY ZenonT(30), <3>2, Types DEF Frames
    <3>6. frames' = IF sigactions[sig.signo].handler = "handler" THEN [frames EXCEPT ![v] = <<f>> \o @] ELSE frames
      BY ZenonT(30), <2>2 DEF DeliverSignal
    <3> HIDE DEF f
    <3>7. <<f>> \in Seq(Frames)
      BY <3>5
    <3>8. <<f>> \o frames[v] \in Seq(Frames)
      BY Zenon, <3>5, <3>7, ConcatFacts
    <3>9. frames' \in [Vcpus -> Seq(Frames)]
      BY ZenonT(30), <3>6, <3>8, Types DEF Frames
    <3>10. QED
      BY ZenonT(30), <1>3, <3>3, <3>4, <3>9, Types DEF Deliver, TypeRun, Frames
  <2>3. QED
    BY ZenonT(30), <1>3, <2>1, <2>2 DEF Deliver
<1>4. CASE /\ UNCHANGED <<sigactions, frames>> /\ returns_signal' \in {returns_signal, returns_signal \cup {v}}
           /\ kicked' \in {kicked, kicked \ {v}} /\ outcome' \in {outcome, "corrupt"}
  BY ZenonT(60), <1>4, Types DEF TypeRun
<1>5. QED
  BY ZenonT(60), <1>1, <1>2, <1>3, <1>4
  DEF GuestStep, runVars, InsertWait, Sigsuspend, Sigtimedwait, Epoll, Pselect, Sigprocmask, OtherCall, Kick,
      SuspendWoken, Expire, TimedOut, TimedwaitWoken, EpollReady, EpollReturn, PselectReturn, KvmRun

\* Every step keeps the types.
LEMMA TypeStep == ASSUME Counting, TypeOK, PlacesOk, Next PROVE TypeOK'
<1>1. ASSUME NEW v \in Vcpus, GuestStep(v) PROVE TypeOK'
  BY ZenonT(30), <1>1, TypeGuestPc, TypeGuestQueues, TypeGuestMasks, TypeGuestRun, TypeJoin
<1>2. QED
  BY ZenonT(30), <1>1, NextSteps, TypePost, TypeWakeup, TypeEnqueueSignal, TypeInterrupt

\* The signal a waker has queued for a vcpu stays until the vcpu takes it.
LEMMA FindsSame ==
    ASSUME TimedwaitFindsSignal, outcome = "running", UNCHANGED <<sigpending, sigmask>>,
           \A v \in Vcpus : pc'[v] = "timedwait_woken" => pc[v] = "timedwait_woken"
    PROVE  TimedwaitFindsSignal'
  BY Zenon DEF TimedwaitFindsSignal, IsBlocked

\* A step of one vcpu leaves the signals of the others that were woken.
LEMMA FindsOther ==
    ASSUME TimedwaitFindsSignal, outcome = "running", NEW u \in Vcpus, pc'[u] # "timedwait_woken",
           \A v \in Vcpus \ {u} : /\ pc'[v] = pc[v] /\ sigmask'[v] = sigmask[v]
                                 /\ sigpending'[v] = sigpending[v]
    PROVE  TimedwaitFindsSignal'
  BY Zenon DEF TimedwaitFindsSignal, IsBlocked

\* Taking a signal leaves the queues of other vcpus alone.
LEMMA DequeueOthers ==
    ASSUME Counting, TypeOK, NEW v \in Vcpus, NEW mask, Ready(v, mask), Dequeue(v, mask)
    PROVE  \A w \in Vcpus \ {v} : sigpending'[w] = sigpending[w]
<1>1. PICK s \in {v, VM} : \E c \in 1 .. Len(sigpending[s]) :
              sigpending' = [sigpending EXCEPT ![s] = Removed(sigpending[s], c)]
  BY Zenon, DequeueFacts
<1>2. QED
  BY Zenon, <1>1, VMNotVcpu, Types

\* So does claiming one.
LEMMA ClaimOthers ==
    ASSUME Counting, TypeOK, NEW v \in Vcpus, NEW mask, Claim(v, mask)
    PROVE  \A w \in Vcpus \ {v} : sigpending'[w] = sigpending[w]
<1>1. CASE UNCHANGED sigpending
  BY Zenon, <1>1
<1>2. CASE \E i \in 1 .. Len(sigpending[VM]) :
              sigpending' = [sigpending EXCEPT ![VM] = Removed(sigpending[VM], i),
                                               ![v] = Append(sigpending[v], sigpending[VM][i])]
  BY Zenon, <1>2, VMNotVcpu, Types
<1>3. QED
  BY Zenon, <1>1, <1>2, ClaimFacts

\* A signal that is queued is there for the vcpu that is woken for it.
LEMMA FindsEnqueue ==
    ASSUME TypeOK, TimedwaitFindsSignal, outcome = "running", NEW x \in Threads, NEW e \in Entries,
           Enqueue(x, e), UNCHANGED sigmask,
           \A v \in Vcpus : pc'[v] = "timedwait_woken" =>
                pc[v] = "timedwait_woken" \/ (v = x /\ e.signo \notin sigmask[v])
    PROVE  TimedwaitFindsSignal'
<1> SUFFICES ASSUME NEW v \in Vcpus, outcome' = "running", pc'[v] = "timedwait_woken"
             PROVE  \E i \in DOMAIN sigpending'[v] : ~IsBlocked(sigmask'[v], sigpending'[v][i])
  BY Zenon DEF TimedwaitFindsSignal, IsBlocked
<1>1. sigpending' = [sigpending EXCEPT ![x] = Append(@, e)]
  BY Zenon DEF Enqueue
<1>2. sigpending[v] \in Seq(Entries) /\ v \in Threads
  BY Zenon, VMNotVcpu, Types
<1>3. CASE v # x
  <2>1. sigpending'[v] = sigpending[v] /\ pc[v] = "timedwait_woken"
    BY Zenon, <1>1, <1>2, <1>3, Types
  <2>2. QED
    BY Zenon, <2>1 DEF TimedwaitFindsSignal, IsBlocked
<1>4. CASE v = x
  <2>1. /\ sigpending'[v] = Append(sigpending[v], e) /\ Len(sigpending[v]) \in Nat
        /\ DOMAIN sigpending'[v] = 1 .. Len(sigpending[v]) + 1
        /\ \A i \in 1 .. Len(sigpending[v]) : sigpending'[v][i] = sigpending[v][i]
        /\ sigpending'[v][Len(sigpending[v]) + 1] = e
    BY SMTT(30), <1>1, <1>2, <1>4, Types
  <2>2. CASE pc[v] = "timedwait_woken"
    <3>1. PICK i \in 1 .. Len(sigpending[v]) : ~IsBlocked(sigmask[v], sigpending[v][i])
      BY SMTT(30), <1>2, <2>2 DEF TimedwaitFindsSignal
    <3>2. i \in DOMAIN sigpending'[v] /\ sigpending'[v][i] = sigpending[v][i]
      BY SMTT(30), <2>1
    <3>3. QED
      BY Zenon, <3>1, <3>2 DEF IsBlocked
  <2>3. CASE pc[v] # "timedwait_woken"
    <3>1. e.signo \notin sigmask'[v] /\ Len(sigpending[v]) + 1 \in DOMAIN sigpending'[v]
      BY <2>1, <2>3
    <3>2. QED
      BY Zenon, <2>1, <3>1 DEF IsBlocked
  <2>4. QED
    BY ZenonT(30), <2>2, <2>3
<1>5. QED
  BY ZenonT(30), <1>3, <1>4

\* The steps that leave the queued posts and those under way alone, and the woken
\* waiters other than v.
PostsKept ==
    /\ UNCHANGED <<sigpending, sigfree, done, posted>>
    /\ \A u \in Threads : (InPost(u)' <=> InPost(u)) /\ (InPost(u) => post'[u] = post[u])
OthersKept(v) ==
    /\ pc'[v] # "timedwait_woken"
    /\ \A u \in Vcpus \ {v} : pc'[u] = pc[u] /\ sigmask'[u] = sigmask[u]

\* What the lemmas below use of the types.
LEMMA ConservedTypes ==
    ASSUME TypeOK
    PROVE  /\ VM \notin Vcpus /\ VM \in Threads /\ Vcpus \subseteq Threads
           /\ pc \in [Threads -> PCs] /\ post \in [Threads -> Entries]
           /\ sigmask \in [Vcpus -> SUBSET Signals]
  BY ZenonT(30), VMNotVcpu, Types

\* A new post is with its poster.
LEMMA ConservedPost ==
    ASSUME TypeOK, PlacesOk, TimedwaitFindsSignal, outcome = "running",
           (\E t \in Threads : Kill(t)) \/ \E v \in Vcpus : Tkill(v) \/ Fault(v)
    PROVE  PlacesOk' /\ TimedwaitFindsSignal'
<1>1. PICK t \in Threads, sig \in Entries : sig.id = posted + 1 /\ pc[t] = "guest" /\ PostSignal(t, sig)
  BY ZenonT(30), TypeConstants, PostTypes DEF Kill, Tkill, Fault
<1>2. PlacesOk'
  BY ZenonT(30), <1>1, PlacesPosted
<1>3. UNCHANGED <<sigpending, sigmask>>
  BY ZenonT(30), <1>1 DEF PostSignal, maskVars
<1>4. \A v \in Vcpus : pc'[v] = "timedwait_woken" => pc[v] = "timedwait_woken"
  BY ZenonT(30), ConservedTypes, <1>1 DEF PostSignal, Return, Goto
<1>5. QED
  BY ZenonT(30), <1>2, <1>3, <1>4, FindsSame

\* A post that wakes a waiter goes into the waiter's queue.
LEMMA ConservedWakeup ==
    ASSUME Counting, TypeOK, PlacesOk, TimedwaitFindsSignal, outcome = "running", NEW t \in Threads, Wakeup(t)
    PROVE  PlacesOk' /\ TimedwaitFindsSignal'
<1>1. CASE Waiters(post[t].signo) = {}
  <2>1. /\ UNCHANGED <<sigpending, sigfree, done, posted, post, sigmask>>
        /\ \A u \in Threads : InPost(u)' <=> InPost(u)
        /\ \A u \in Vcpus : pc'[u] = "timedwait_woken" => pc[u] = "timedwait_woken"
    BY Zenon, ConservedTypes, <1>1 DEF Wakeup, Goto, InPost, maskVars
  <2>2. QED
    BY Zenon, ConservedTypes, <2>1, PlacesFrame, FindsSame
<1>2. CASE Waiters(post[t].signo) # {}
  <2>1. PICK i \in 1 .. Len(wait_queue) :
            /\ post[t].signo \notin sigmask[wait_queue[i]]
            /\ wait_queue' = Removed(wait_queue, i)
            /\ Enqueue(wait_queue[i], post[t])
            /\ post' = [post EXCEPT ![t] = NoPost]
            /\ pc' = [pc EXCEPT ![t] = IF t = VM THEN "guest" ELSE "deliver",
                                ![wait_queue[i]] = CASE @ = "suspend" -> "suspend_woken"
                                       [] @ \in {"timedwait", "timedwait_timed"} -> "timedwait_woken"
                                       [] OTHER -> @]
    BY Zenon, <1>2, WakeupFacts
  <2> DEFINE w == wait_queue[i]
  <2>a. wait_queue \in Seq(Vcpus)
    BY ZenonT(30), Types
  <2>b. w \in Vcpus
    BY <2>a
  <2>2. w \in Threads /\ InPost(t) /\ post[t] \in Entries
    BY ZenonT(30), <2>b, ConservedTypes DEF Wakeup, InPost
  <2>3. /\ \A u \in Threads : InPost(u)' <=> u # t /\ InPost(u)
        /\ \A u \in Threads \ {t} : post'[u] = post[u]
        /\ \A u \in Vcpus : pc'[u] = "timedwait_woken" => pc[u] = "timedwait_woken" \/ u = w
        /\ UNCHANGED <<posted, done, sigmask>>
    <3>1. UNCHANGED <<posted, done, sigmask>>
      BY ZenonT(30) DEF Wakeup, maskVars
    <3>2. pc \in [Threads -> PCs] /\ post \in [Threads -> Entries] /\ Vcpus \subseteq Threads
      BY ZenonT(30), ConservedTypes
    <3> HIDE DEF w
    <3>3. /\ post' = [post EXCEPT ![t] = NoPost]
          /\ pc' = [pc EXCEPT ![t] = IF t = VM THEN "guest" ELSE "deliver",
                              ![w] = CASE @ = "suspend" -> "suspend_woken"
                                       [] @ \in {"timedwait", "timedwait_timed"} -> "timedwait_woken"
                                       [] OTHER -> @]
      BY ZenonT(30), <2>1 DEF w
    <3>4. /\ \A u \in Threads : InPost(u)' <=> u # t /\ InPost(u)
          /\ \A u \in Vcpus : pc'[u] = "timedwait_woken" => pc[u] = "timedwait_woken" \/ u = w
      BY <2>2, <3>2, <3>3 DEF InPost
    <3>5. \A u \in Threads \ {t} : post'[u] = post[u]
      BY Zenon, <3>2, <3>3
    <3>6. QED
      BY ZenonT(30), <3>1, <3>4, <3>5
  <2>4. PlacesOk'
    BY ZenonT(30), ConservedTypes, <2>1, <2>2, <2>3, PlacesEnqueue
  <2>5. TimedwaitFindsSignal'
    BY ZenonT(30), ConservedTypes, <2>1, <2>2, <2>3, FindsEnqueue
  <2>6. QED
    BY Zenon, <2>4, <2>5
<1>3. QED
  BY Zenon, <1>1, <1>2

\* A post that wakes nobody goes into the queue of its target, or is over.
LEMMA ConservedEnqueueSignal ==
    ASSUME Counting, TypeOK, PlacesOk, TimedwaitFindsSignal, outcome = "running", NEW t \in Threads, EnqueueSignal(t)
    PROVE  PlacesOk' /\ TimedwaitFindsSignal'
<1>1. /\ post[t].target \in Threads /\ InPost(t) /\ post[t] \in Entries
      /\ Enqueue(post[t].target, post[t])
  BY Zenon, ConservedTypes DEF Entries, InPost, EnqueueSignal
<1>2. /\ \A u \in Threads : InPost(u)' <=> u # t /\ InPost(u)
      /\ \A u \in Threads \ {t} : post'[u] = post[u]
      /\ \A u \in Vcpus : pc'[u] = "timedwait_woken" => pc[u] = "timedwait_woken"
      /\ UNCHANGED <<posted, done, sigmask>>
  BY Zenon, ConservedTypes DEF EnqueueSignal, Goto, InPost, maskVars
<1>3. PlacesOk'
  BY ZenonT(30), ConservedTypes, <1>1, <1>2, PlacesEnqueue
<1>4. TimedwaitFindsSignal'
  BY ZenonT(30), ConservedTypes, <1>1, <1>2, FindsEnqueue
<1>5. QED
  BY Zenon, <1>3, <1>4

\* Interrupts move no post.
LEMMA ConservedWakers ==
    ASSUME TypeOK, PlacesOk, TimedwaitFindsSignal, outcome = "running",
           (\E t \in Threads : Interrupt(t)) \/ \E v \in Vcpus : Kick(v)
    PROVE  PlacesOk' /\ TimedwaitFindsSignal'
<1>1. UNCHANGED <<sigpending, sigfree, done, posted, sigmask>>
  BY ZenonT(30) DEF Interrupt, Kick, queueVars, maskVars
<1>2. \A u \in Threads : InPost(u)' <=> InPost(u)
  BY ZenonT(30), ConservedTypes DEF Interrupt, Kick, Goto, Return, InPost
<1>3. \A u \in Threads : InPost(u) => post'[u] = post[u]
  BY ZenonT(30), ConservedTypes DEF Interrupt, Kick, InPost, queueVars
<1>4. \A u \in Vcpus : pc'[u] = "timedwait_woken" => pc[u] = "timedwait_woken"
  BY ZenonT(30), ConservedTypes DEF Interrupt, Kick, Goto, Return
<1>5. QED
  BY ZenonT(30), <1>1, <1>2, <1>3, <1>4, PlacesFrame, FindsSame

\* Calls that take no signal move no post.
LEMMA ConservedQuiet ==
    ASSUME TypeOK, PlacesOk, TimedwaitFindsSignal, outcome = "running", NEW v \in Vcpus,
           \/ Expire(v) \/ Epoll(v) \/ EpollReady(v) \/ EpollReturn(v) \/ Sigaction(v) \/ OtherCall(v) \/ KvmRun(v)
           \/ TimedOut(v) \/ Pselect(v) \/ PselectReturn(v) \/ Sigprocmask(v) \/ Sigreturn(v)
    PROVE  PlacesOk' /\ TimedwaitFindsSignal'
<1>1. UNCHANGED <<sigpending, sigfree, done, posted, post>>
  BY ZenonT(60)
  DEF queueVars, Epoll, Pselect, Sigprocmask, Sigaction, Sigreturn, OtherCall, Expire, TimedOut, EpollReady,
      EpollReturn, PselectReturn, KvmRun
<1>2. /\ pc[v] \notin {"wakeup", "enqueue"}
      /\ \E l \in PCs \ {"wakeup", "enqueue", "timedwait_woken"} : pc' = [pc EXCEPT ![v] = l]
  BY ZenonT(60)
  DEF PCs, Goto, Return, Epoll, Pselect, Sigprocmask, Sigaction, Sigreturn, OtherCall, Expire, TimedOut,
      EpollReady, EpollReturn, PselectReturn, KvmRun
<1>3. \A u \in Vcpus \ {v} : sigmask'[u] = sigmask[u]
  BY ZenonT(60), ConservedTypes
  DEF maskVars, Epoll, Pselect, Sigprocmask, Sigaction, Sigreturn, OtherCall, Expire, TimedOut, EpollReady,
      EpollReturn, PselectReturn, KvmRun
<1>4. PostsKept /\ OthersKept(v)
  BY ZenonT(60), <1>1, <1>2, <1>3, ConservedTypes DEF PostsKept, OthersKept, InPost
<1>5. QED
  BY ZenonT(30), <1>1, <1>4, ConservedTypes, PlacesFrame, FindsOther DEF PostsKept, OthersKept

\* rt_sigsuspend moves a signal of the process to its vcpu.
LEMMA ConservedClaim ==
    ASSUME Counting, TypeOK, PlacesOk, TimedwaitFindsSignal, outcome = "running", NEW v \in Vcpus,
           Sigsuspend(v) \/ SuspendWoken(v)
    PROVE  PlacesOk' /\ TimedwaitFindsSignal'
<1>1. PICK mask : Claim(v, mask)
  BY ZenonT(30) DEF Sigsuspend, SuspendWoken
<1>2. /\ UNCHANGED <<sigfree, done, posted, post>> /\ pc'[v] # "timedwait_woken"
      /\ \A u \in Threads : InPost(u)' <=> InPost(u)
  BY ZenonT(30), ConservedTypes DEF Sigsuspend, SuspendWoken, Goto, InPost
<1>3. \A u \in Vcpus \ {v} : pc'[u] = pc[u] /\ sigmask'[u] = sigmask[u]
  BY ZenonT(30), ConservedTypes DEF Sigsuspend, SuspendWoken, Goto, maskVars
<1>4. PlacesOk'
  BY ZenonT(30), <1>1, <1>2, PlacesClaim
<1>5. \A u \in Vcpus \ {v} : sigpending'[u] = sigpending[u]
  BY ZenonT(30), <1>1, ClaimOthers
<1>6. QED
  BY ZenonT(30), <1>2, <1>3, <1>4, <1>5, FindsOther

\* A signal that is taken is over, and its entry is back in the pool.
LEMMA ConservedTake ==
    ASSUME Counting, TypeOK, PlacesOk, TimedwaitFindsSignal, outcome = "running", NEW v \in Vcpus,
           Sigtimedwait(v) \/ TimedwaitWoken(v) \/ Deliver(v)
    PROVE  PlacesOk' /\ TimedwaitFindsSignal'
<1>1. \/ \E mask : Ready(v, mask) /\ Dequeue(v, mask)
      \/ UNCHANGED <<sigpending, sigfree, posted, done, post>>
  BY ZenonT(30) DEF Sigtimedwait, TimedwaitWoken, Deliver, queueVars
<1>2. /\ pc'[v] # "timedwait_woken"
      /\ \A u \in Threads : InPost(u)' <=> InPost(u)
  BY ZenonT(30), ConservedTypes DEF Sigtimedwait, TimedwaitWoken, Deliver, Goto, Return, InPost
<1>3. \A u \in Vcpus \ {v} : pc'[u] = pc[u] /\ sigmask'[u] = sigmask[u]
  BY ZenonT(30), ConservedTypes DEF Sigtimedwait, TimedwaitWoken, Deliver, DeliverSignal, Goto, Return
<1>4. PlacesOk' /\ \A u \in Vcpus \ {v} : sigpending'[u] = sigpending[u]
  <2>1. CASE \E mask : Ready(v, mask) /\ Dequeue(v, mask)
    BY ZenonT(30), <1>2, <2>1, PlacesDequeue, DequeueOthers
  <2>2. CASE UNCHANGED <<sigpending, sigfree, posted, done, post>>
    BY ZenonT(30), <1>2, <2>2, PlacesFrame
  <2>3. QED
    BY Zenon, <1>1, <2>1, <2>2
<1>5. QED
  BY ZenonT(30), <1>2, <1>3, <1>4, FindsOther

\* Every step keeps each post in one place.
LEMMA ConservedStep ==
    ASSUME Counting, TypeOK, PlacesOk, TimedwaitFindsSignal, Next
    PROVE  PlacesOk' /\ TimedwaitFindsSignal'
  BY ZenonT(30), NextSteps, ConservedPost, ConservedWakeup, ConservedEnqueueSignal, ConservedWakers, ConservedQuiet,
     ConservedClaim, ConservedTake
  DEF GuestStep

\* There are no posts initially.
LEMMA ConservedInit == ASSUME Counting, Init PROVE ConservedInv
<1>1. TypeOK
  <2>1. <<>> \in Seq(Entries) /\ <<>> \in Seq(Vcpus) /\ <<>> \in Seq([signo : Signals, mask : SUBSET Signals])
    BY SMTT(30)
  <2>2. TypeQueues
    BY SMTT(30), <2>1, PostTypes, SignalsAssumption DEF Init, TypeQueues, SignalsAssumption
  <2>3. TypeMasks /\ TypePc
    BY Zenon DEF Init, TypeMasks, TypePc, PCs
  <2>4. TypeRun
    BY Zenon, <2>1 DEF Init, TypeRun, Actions, Handlers
  <2>5. QED
    BY Zenon, <2>2, <2>3, <2>4, TypeParts
<1>2. \A t \in Threads : Ids(sigpending[t]) = {} /\ Distinct(sigpending[t]) /\ ~InPost(t)
  BY DEF Init, Ids, Distinct, InPost
<1>3. Queued = {} /\ 1 .. posted = {}
  BY <1>2 DEF Init, Queued
<1>4. Cardinality(Queued) = 0
  BY Zenon, <1>3 DEF Counting
<1>5. PlacesOk
  <2>1. sigfree = NSIGENTRY - Cardinality(Queued) /\ done = {}
    BY SMTT(30), <1>4, SignalsAssumption DEF Init, SignalsAssumption
  <2>2. QED
    BY ZenonT(30), <1>2, <1>3, <2>1 DEF PlacesOk
<1>6. TimedwaitFindsSignal
  BY Zenon, VMNotVcpu DEF Init, TimedwaitFindsSignal
<1>7. QED
  BY Zenon, <1>1, <1>5, <1>6 DEF ConservedInv

\* Nothing changes in a step of nobody.
LEMMA ConservedStutter == ASSUME ConservedInv, UNCHANGED vars PROVE ConservedInv'
<1>1. TypeOK'
  BY ZenonT(30) DEF ConservedInv, TypeOK, vars, queueVars, maskVars, runVars
<1>2. /\ UNCHANGED <<sigpending, sigfree, done, posted, post, outcome, pc, sigmask>>
      /\ PlacesOk /\ TimedwaitFindsSignal
  BY Zenon DEF ConservedInv, vars, queueVars, maskVars, runVars
<1>3. /\ Queued' = Queued
      /\ \A t \in Threads : (Distinct(sigpending[t])' <=> Distinct(sigpending[t]))
      /\ \A t \in Threads : Ids(sigpending[t])' = Ids(sigpending[t])
      /\ \A t \in Threads : InPost(t)' <=> InPost(t)
  <2>1. UNCHANGED <<sigpending, pc>>
    BY ZenonT(30), <1>2
  <2>2. QED
    BY SMTT(30), <2>1 DEF Queued, Ids, Distinct, InPost
<1>4. PlacesOk'
  BY <1>2, <1>3, ZenonT(30) DEF PlacesOk
<1>5. TimedwaitFindsSignal'
  BY Zenon, <1>2 DEF TimedwaitFindsSignal, IsBlocked
<1>6. QED
  BY Zenon, <1>1, <1>4, <1>5 DEF ConservedInv

\* The one place of a post.
LEMMA OnePlace ==
    ASSUME TypeOK, PlacesOk, outcome # "aborted", NEW id \in 1 .. posted
    PROVE  \E p : Places(id) = {p}
<1> DEFINE A == WithPoster(id)
           B == InQueues(id)
           C == Over(id)
<1>1. Places(id) = A \cup B \cup C
  BY Zenon DEF Places
<1>2. \A t \in Threads : DOMAIN sigpending[t] = 1 .. Len(sigpending[t])
  BY Types
<1>3. id \notin Queued => B = {}
  BY <1>2 DEF Queued, Ids, InQueues
<1>4. (\A t \in Threads : ~(InPost(t) /\ post[t].id = id)) => A = {}
  BY Zenon DEF WithPoster
<1>5. CASE id \in done
  <2>1. id \notin Queued /\ \A t \in Threads : ~(InPost(t) /\ post[t].id = id)
    BY <1>5 DEF PlacesOk
  <2>2. C = {<<"done", VM>>}
    BY Zenon, <1>5 DEF Over
  <2> HIDE DEF A, B, C
  <2>3. QED
    BY ZenonT(30), <1>1, <1>3, <1>4, <2>1, <2>2
<1>6. CASE id \in Queued
  <2>1. id \notin done /\ \A t \in Threads : ~(InPost(t) /\ post[t].id = id)
    BY <1>6 DEF PlacesOk
  <2>2. PICK t \in Threads : id \in Ids(sigpending[t])
    BY Zenon, <1>6 DEF Queued
  <2>3. PICK k \in 1 .. Len(sigpending[t]) : sigpending[t][k].id = id
    BY Zenon, <2>2 DEF Ids
  <2>4. ASSUME NEW u \in Threads, NEW j \in 1 .. Len(sigpending[u]), sigpending[u][j].id = id
        PROVE  u = t /\ j = k
    <3>1. id \in Ids(sigpending[u])
      BY Zenon, <2>4 DEF Ids
    <3>2. u = t
      BY ZenonT(30), <2>2, <3>1 DEF PlacesOk
    <3>3. QED
      BY Zenon, <2>3, <2>4, <3>2 DEF PlacesOk, Distinct
  <2>5. \A x : x \in B <=> x = <<t, k>>
    <3>1. \A x : x \in B <=> \E u \in Threads : \E j \in 1 .. Len(sigpending[u]) : sigpending[u][j].id = id /\ x = <<u, j>>
      BY <1>2 DEF InQueues
    <3> HIDE DEF B
    <3>2. QED
      BY Zenon, <2>3, <2>4, <3>1
  <2>6. C = {}
    BY Zenon, <2>1 DEF Over
  <2> HIDE DEF A, B, C
  <2>7. B = {<<t, k>>}
    BY Zenon, <2>5
  <2>8. QED
    BY ZenonT(30), <1>1, <1>4, <2>1, <2>6, <2>7
<1>7. CASE id \notin done /\ id \notin Queued
  <2>1. PICK t \in Threads : InPost(t) /\ post[t].id = id
    BY Zenon, <1>7 DEF PlacesOk
  <2>2. \A u \in Threads : InPost(u) /\ post[u].id = id => u = t
    BY Zenon, <2>1 DEF PlacesOk
  <2>3. \A x : x \in A <=> x = <<"post", t>>
    BY Zenon, <2>1, <2>2 DEF WithPoster
  <2>4. C = {}
    BY Zenon, <1>7 DEF Over
  <2> HIDE DEF A, B, C
  <2>5. A = {<<"post", t>>}
    BY Zenon, <2>3
  <2>6. QED
    BY ZenonT(30), <1>1, <1>3, <1>7, <2>4, <2>5
<1>8. QED
  BY ZenonT(30), <1>5, <1>6, <1>7

\* The invariant says that signals are conserved.
LEMMA ConservedMeans == ASSUME Counting, ConservedInv PROVE SignalsConserved
<1>0. TypeOK /\ PlacesOk /\ TimedwaitFindsSignal
  BY Zenon DEF ConservedInv
<1>1. ASSUME outcome # "aborted", NEW id \in 1 .. posted PROVE Cardinality(Places(id)) = 1
  <2>1. PICK p : Places(id) = {p}
    BY ZenonT(30), <1>0, <1>1, OnePlace
  <2>2. QED
    BY ZenonT(60), <2>1 DEF Counting
<1>2. {id \in 1 .. posted : \E t \in Threads : \E i \in DOMAIN sigpending[t] : sigpending[t][i].id = id} = Queued
  <2>1. \A t \in Threads : DOMAIN sigpending[t] = 1 .. Len(sigpending[t])
    BY <1>0, Types
  <2>2. \A id : id \in Queued <=> \E t \in Threads : \E i \in DOMAIN sigpending[t] : sigpending[t][i].id = id
    BY <2>1 DEF Queued, Ids
  <2>3. Queued \subseteq 1 .. posted
    BY Zenon, <1>0 DEF PlacesOk
  <2>4. QED
    BY ZenonT(30), <2>2, <2>3
<1>3. sigfree = NSIGENTRY - Cardinality(Queued)
  BY Zenon, <1>0 DEF PlacesOk
<1>4. QED
  BY Zenon, <1>0, <1>1, <1>2, <1>3 DEF SignalsConserved

-----------------------------------------------------------------------------
(* The links of the wait queue and the sleep queue *)

InTimedwait(v) == pc[v] \in {"timedwait", "timedwait_timed", "timedwait_expired"}

\* A vcpu is linked once, and only while it waits.
Once(q, v) == \A i, j \in 1 .. Len(q) : q[i] = v /\ q[j] = v => i = j
LinkOk(v) ==
    /\ OnQueue(wait_queue, v) => InTimedwait(v)
    /\ pc[v] \in {"timedwait", "timedwait_timed"} => OnQueue(wait_queue, v)
    /\ OnQueue(sleep_queue, v) => pc[v] \in {"epoll", "epoll_return"}
    /\ Once(wait_queue, v) /\ Once(sleep_queue, v)
LinksOk == outcome = "running" => \A v \in Vcpus \ suspended : LinkOk(v)

\* A vcpu that is inserted once is linked once.
LEMMA AppendLinks ==
    ASSUME NEW q \in Seq(Vcpus), NEW u \in Vcpus, NEW v \in Vcpus, Once(q, v)
    PROVE  /\ u # v => Once(Append(q, u), v) /\ (OnQueue(Append(q, u), v) <=> OnQueue(q, v))
           /\ u = v => OnQueue(Append(q, u), v) /\ (~OnQueue(q, v) => Once(Append(q, u), v))
<1>1. /\ Len(Append(q, u)) = Len(q) + 1 /\ Len(q) \in Nat
      /\ \A i \in 1 .. Len(q) : Append(q, u)[i] = q[i]
      /\ Append(q, u)[Len(q) + 1] = u
  BY AppendFacts
<1> DEFINE a == Append(q, u)
<1> HIDE DEF a
<1>2. \A i \in 1 .. Len(a) : i \in 1 .. Len(q) \/ i = Len(q) + 1
  BY <1>1 DEF a
<1>3. \A i \in 1 .. Len(q) : i \in 1 .. Len(a)
  BY <1>1 DEF a
<1>4. Len(q) + 1 \in 1 .. Len(a)
  BY <1>1 DEF a
<1>5. ASSUME u # v PROVE Once(a, v) /\ (OnQueue(a, v) <=> OnQueue(q, v))
  <2>1. \A i \in 1 .. Len(a) : a[i] = v => i \in 1 .. Len(q) /\ q[i] = v
    BY Zenon, <1>1, <1>2, <1>5 DEF a
  <2>2. Once(a, v)
    BY Zenon, <2>1 DEF Once
  <2>3. OnQueue(a, v) <=> OnQueue(q, v)
    BY Zenon, <1>1, <1>3, <2>1 DEF OnQueue, a
  <2>4. QED
    BY Zenon, <2>2, <2>3
<1>6. ASSUME u = v PROVE OnQueue(a, v) /\ (~OnQueue(q, v) => Once(a, v))
  <2>1. OnQueue(a, v)
    BY Zenon, <1>1, <1>4, <1>6 DEF OnQueue, a
  <2>2. ASSUME ~OnQueue(q, v) PROVE Once(a, v)
    <3>1. \A i \in 1 .. Len(a) : a[i] = v => i = Len(q) + 1
      BY Zenon, <1>1, <1>2, <2>2 DEF OnQueue, a
    <3>2. QED
      BY Zenon, <3>1 DEF Once
  <2>3. QED
    BY Zenon, <2>1, <2>2
<1>7. QED
  BY Zenon, <1>5, <1>6 DEF a

\* A vcpu that is removed is no longer linked, and others stay.
LEMMA RemoveLinks ==
    ASSUME NEW q \in Seq(Vcpus), NEW i \in 1 .. Len(q), NEW v \in Vcpus, Once(q, v)
    PROVE  /\ Once(Removed(q, i), v)
           /\ q[i] = v => ~OnQueue(Removed(q, i), v)
           /\ q[i] # v => (OnQueue(Removed(q, i), v) <=> OnQueue(q, v))
<1> DEFINE r == Removed(q, i)
<1>1. /\ \A j \in 1 .. Len(r) : \E k \in 1 .. Len(q) : k # i /\ r[j] = q[k] /\ k = IF j < i THEN j ELSE j + 1
      /\ \A k \in 1 .. Len(q) : k # i => \E j \in 1 .. Len(r) : r[j] = q[k]
  BY ZenonT(60), RemovedFrom
<1>2. Len(q) \in Nat /\ i \in Nat
  OBVIOUS
<1> HIDE DEF r
<1>3. ASSUME NEW j \in 1 .. Len(r), NEW k \in 1 .. Len(r), r[j] = v, r[k] = v PROVE j = k
  <2>1. PICK a \in 1 .. Len(q) : a # i /\ r[j] = q[a] /\ a = IF j < i THEN j ELSE j + 1
    BY ZenonT(60), <1>1
  <2>2. PICK b \in 1 .. Len(q) : b # i /\ r[k] = q[b] /\ b = IF k < i THEN k ELSE k + 1
    BY ZenonT(60), <1>1
  <2>3. a = b
    BY Zenon, <1>3, <2>1, <2>2 DEF Once
  <2>4. j \in Int /\ k \in Int
    OBVIOUS
  <2>5. QED
    BY SMTT(30), <1>2, <2>1, <2>2, <2>3, <2>4
<1>4. ASSUME q[i] = v PROVE ~OnQueue(r, v)
  BY Zenon, <1>1, <1>4 DEF Once, OnQueue
<1>5. ASSUME q[i] # v PROVE OnQueue(r, v) <=> OnQueue(q, v)
  BY ZenonT(30), <1>1, <1>5 DEF OnQueue
<1>6. QED
  BY Zenon, <1>3, <1>4, <1>5 DEF r, Once

\* The same for a removal by vcpu.
LEMMA RemoveFromLinks ==
    ASSUME NEW q \in Seq(Vcpus), NEW u \in Vcpus, NEW v \in Vcpus, Once(q, v)
    PROVE  /\ Once(RemoveFrom(q, u), v)
           /\ u = v => ~OnQueue(RemoveFrom(q, u), v)
           /\ u # v => (OnQueue(RemoveFrom(q, u), v) <=> OnQueue(q, v))
<1>1. CASE OnQueue(q, u)
  <2> DEFINE i == CHOOSE k \in DOMAIN q : q[k] = u
  <2>1. i \in 1 .. Len(q) /\ q[i] = u
    BY <1>1 DEF OnQueue
  <2>2. RemoveFrom(q, u) = Removed(q, i)
    BY Zenon, <1>1 DEF RemoveFrom
  <2> HIDE DEF i
  <2>3. QED
    BY <2>1, <2>2, RemoveLinks
<1>2. CASE ~OnQueue(q, u)
  BY Zenon, <1>2 DEF RemoveFrom
<1>3. QED
  BY Zenon, <1>1, <1>2

\* Taking the first vcpu leaves the others linked as they were.
LEMMA TailLinks ==
    ASSUME NEW q \in Seq(Vcpus), q # <<>>, NEW v \in Vcpus, Once(q, v)
    PROVE  Once(Tail(q), v) /\ (OnQueue(Tail(q), v) => OnQueue(q, v))
<1>1. /\ Len(q) \in Nat /\ Len(Tail(q)) = Len(q) - 1 /\ Len(q) > 0
      /\ \A j \in 1 .. Len(Tail(q)) : Tail(q)[j] = q[j + 1] /\ j + 1 \in 1 .. Len(q) /\ j \in Int
  BY SMTT(30), EmptyFacts
<1>2. QED
  BY <1>1 DEF Once, OnQueue

\* A step that does not touch the links of v, and keeps it where it waits.
LinkKept(v) ==
    /\ UNCHANGED <<wait_queue, sleep_queue>>
    /\ \/ pc'[v] = pc[v]
       \/ /\ ~InTimedwait(v) /\ pc[v] \notin {"epoll", "epoll_return"}
          /\ pc'[v] \notin {"timedwait", "timedwait_timed"}
       \/ pc[v] = "timedwait_timed" /\ pc'[v] = "timedwait_expired"
       \/ pc[v] = "epoll" /\ pc'[v] = "epoll_return"

\* A vcpu whose place and links do not change keeps them right.
LEMMA LinkFrame ==
    ASSUME NEW v \in Vcpus, LinkOk(v), LinkKept(v) PROVE LinkOk(v)'
<1>1. Once(wait_queue, v)' /\ Once(sleep_queue, v)'
  BY Zenon DEF LinkOk, LinkKept, Once
<1>2. (OnQueue(wait_queue, v)' <=> OnQueue(wait_queue, v)) /\ (OnQueue(sleep_queue, v)' <=> OnQueue(sleep_queue, v))
  BY Zenon DEF LinkKept, OnQueue
<1>3. QED
  BY Zenon, <1>1, <1>2 DEF LinkOk, LinkKept, InTimedwait

\* Posting a signal without a waiter changes no link.
LEMMA LinkPosts ==
    ASSUME TypeOK, (\E t \in Threads : Kill(t) \/ EnqueueSignal(t)) \/ \E u \in Vcpus : Tkill(u) \/ Fault(u),
           NEW v \in Vcpus
    PROVE  LinkKept(v)
  BY ZenonT(30), ConservedTypes DEF LinkKept, InTimedwait, Kill, EnqueueSignal, Tkill, Fault, PostSignal, Goto, Return

\* Neither do these calls.
LEMMA LinkQuiet ==
    ASSUME TypeOK, NEW u \in Vcpus,
           \/ Kick(u) \/ SuspendWoken(u) \/ Expire(u) \/ TimedwaitWoken(u) \/ EpollReady(u) \/ Pselect(u)
           \/ PselectReturn(u) \/ Sigprocmask(u) \/ Sigaction(u) \/ Sigreturn(u) \/ OtherCall(u) \/ Deliver(u)
           \/ KvmRun(u),
           NEW v \in Vcpus
    PROVE  LinkKept(v)
<1>1. UNCHANGED <<wait_queue, sleep_queue>>
  BY ZenonT(30)
  DEF queueVars, Dequeue, Kick, SuspendWoken, Expire, TimedwaitWoken, EpollReady, Pselect, PselectReturn, Sigprocmask,
      Sigaction, Sigreturn, OtherCall, Deliver, KvmRun
<1>2. QED
  BY ZenonT(30), <1>1, ConservedTypes
  DEF LinkKept, InTimedwait, Goto, Return, Kick, SuspendWoken, Expire, TimedwaitWoken, EpollReady, Pselect,
      PselectReturn, Sigprocmask, Sigaction, Sigreturn, OtherCall, Deliver, KvmRun

\* A vcpu that has used rt_sigsuspend is always known to have.
LEMMA SuspendedGrows == ASSUME Next PROVE suspended \subseteq suspended'
<1>1. ASSUME NEW v \in Vcpus, GuestStep(v) PROVE suspended' = suspended \/ suspended' = suspended \cup {v}
  BY ZenonT(30), <1>1
  DEF GuestStep, maskVars, Sigsuspend, Sigtimedwait, Epoll, Pselect, Sigprocmask, Sigaction, Sigreturn, OtherCall,
      Kick, SuspendWoken, Expire, TimedOut, TimedwaitWoken, EpollReady, EpollReturn, PselectReturn, Deliver, KvmRun
<1>2. ASSUME \/ \E t \in Threads : Kill(t) \/ Wakeup(t) \/ EnqueueSignal(t) \/ Interrupt(t)
             \/ \E v \in Vcpus : Tkill(v) \/ Fault(v)
      PROVE  suspended' = suspended
  BY ZenonT(30), <1>2 DEF maskVars, Kill, Tkill, Fault, PostSignal, Wakeup, EnqueueSignal, Interrupt
<1>3. QED
  BY ZenonT(30), <1>1, <1>2, NextSteps

\* Every step keeps the links right.
LEMMA LinksStep == ASSUME Counting, TypeOK, LinksOk, Next PROVE LinksOk'
<1> SUFFICES ASSUME outcome' = "running", NEW v \in Vcpus \ suspended' PROVE LinkOk(v)'
  BY ZenonT(30) DEF LinksOk
<1>0. /\ VM \notin Vcpus /\ VM \in Threads /\ Vcpus \subseteq Threads /\ outcome = "running"
      /\ pc \in [Threads -> PCs] /\ wait_queue \in Seq(Vcpus) /\ sleep_queue \in Seq(Vcpus)
      /\ v \in Vcpus /\ v \in Threads
  BY ZenonT(30), NextSteps, VMNotVcpu, Types
<1>b. v \notin suspended
  BY ZenonT(30), SuspendedGrows
<1>c. LinkOk(v) /\ Once(wait_queue, v) /\ Once(sleep_queue, v)
  BY ZenonT(30), <1>0, <1>b DEF LinksOk, LinkOk
<1>d. (OnQueue(wait_queue', v) <=> OnQueue(wait_queue, v)') /\ (Once(wait_queue', v) <=> Once(wait_queue, v)')
      /\ (OnQueue(sleep_queue', v) <=> OnQueue(sleep_queue, v)') /\ (Once(sleep_queue', v) <=> Once(sleep_queue, v)')
  BY Zenon DEF OnQueue, Once
<1>e. UNCHANGED wait_queue => (OnQueue(wait_queue', v) <=> OnQueue(wait_queue, v)) /\ Once(wait_queue', v)
  BY Zenon, <1>c
<1>f. UNCHANGED sleep_queue => (OnQueue(sleep_queue', v) <=> OnQueue(sleep_queue, v)) /\ Once(sleep_queue', v)
  BY Zenon, <1>c
<1>1. CASE LinkKept(v)
  BY ZenonT(30), <1>0, <1>c, <1>1, LinkFrame
<1>2. ASSUME NEW t \in Threads, Wakeup(t) PROVE LinkOk(v)'
  <2>0. UNCHANGED sleep_queue /\ pc[t] = "wakeup"
    BY Zenon, <1>2 DEF Wakeup
  <2>1. CASE Waiters(post[t].signo) = {}
    <3>1. UNCHANGED wait_queue /\ pc' = [pc EXCEPT ![t] = "enqueue"]
      BY Zenon, <1>2, <2>1 DEF Wakeup, Goto
    <3>2. QED
      BY <1>0, <1>1, <2>0, <3>1 DEF LinkKept, InTimedwait
  <2>2. CASE Waiters(post[t].signo) # {}
    <3>1. PICK i \in 1 .. Len(wait_queue) :
              /\ wait_queue' = Removed(wait_queue, i)
              /\ pc' = [pc EXCEPT ![t] = IF t = VM THEN "guest" ELSE "deliver",
                                  ![wait_queue[i]] = CASE @ = "suspend" -> "suspend_woken"
                                         [] @ \in {"timedwait", "timedwait_timed"} -> "timedwait_woken"
                                         [] OTHER -> @]
      BY Zenon, <1>2, <2>2, WakeupFacts
    <3> DEFINE w == wait_queue[i]
    <3>2. /\ Once(wait_queue', v)
          /\ w = v => ~OnQueue(wait_queue', v)
          /\ w # v => (OnQueue(wait_queue', v) <=> OnQueue(wait_queue, v))
      BY Zenon, <1>0, <1>c, <3>1, RemoveLinks
    <3>3. w = v => OnQueue(wait_queue, v)
      BY Zenon DEF OnQueue
    <3>4. w \in Threads
      BY <1>0
    <3>5. w # v => pc'[v] = IF v = t THEN "deliver" ELSE pc[v]
      BY Zenon, <1>0, <3>1, <3>4
    <3>6. w = v /\ v # t => pc'[v] = IF pc[v] \in {"timedwait", "timedwait_timed"} THEN "timedwait_woken"
                                     ELSE IF pc[v] = "suspend" THEN "suspend_woken" ELSE pc[v]
      BY Zenon, <1>0, <3>1, <3>4
    <3> HIDE DEF w
    <3>7. QED
      BY Zenon, <1>c, <1>d, <1>f, <2>0, <3>2, <3>3, <3>5, <3>6 DEF LinkOk, InTimedwait
  <2>3. QED
    BY Zenon, <2>1, <2>2
<1>3. ASSUME NEW t \in Threads, Interrupt(t) PROVE LinkOk(v)'
  <2>1. UNCHANGED wait_queue /\ (pc'[v] = pc[v] \/ (pc[v] = "interrupt" /\ pc'[v] = "deliver"))
    BY ZenonT(60), <1>3, <1>0 DEF Interrupt, Return, Goto
  <2>2. Once(sleep_queue', v) /\ (OnQueue(sleep_queue', v) => OnQueue(sleep_queue, v))
    <3>1. UNCHANGED sleep_queue \/ (sleep_queue # <<>> /\ sleep_queue' = Tail(sleep_queue))
      BY ZenonT(60), <1>3 DEF Interrupt
    <3>2. QED
      BY ZenonT(30), <1>0, <1>c, <1>f, <3>1, TailLinks
  <2>3. QED
    BY Zenon, <1>c, <1>d, <1>e, <2>1, <2>2 DEF LinkOk, InTimedwait
<1>4. ASSUME NEW u \in Vcpus, Sigsuspend(u) PROVE LinkOk(v)'
  <2>1. u # v /\ wait_queue' = Append(wait_queue, u) /\ UNCHANGED sleep_queue /\ pc'[v] = pc[v]
    BY ZenonT(60), <1>4, <1>0 DEF Sigsuspend, InsertWait, Goto
  <2>2. Once(wait_queue', v) /\ (OnQueue(wait_queue', v) <=> OnQueue(wait_queue, v))
    BY Zenon, <1>0, <1>c, <2>1, AppendLinks
  <2>3. QED
    BY Zenon, <1>c, <1>d, <1>f, <2>1, <2>2 DEF LinkOk, InTimedwait
<1>5. ASSUME NEW u \in Vcpus, Sigtimedwait(u) PROVE LinkOk(v)'
  <2>0. pc[u] = "guest"
    BY ZenonT(60), <1>5 DEF Sigtimedwait
  <2>1. CASE UNCHANGED <<wait_queue, sleep_queue>> /\ Return(u)
    <3>1. pc'[v] = pc[v] \/ (pc[v] = "guest" /\ pc'[v] = "deliver")
      BY Zenon, <1>0, <2>0, <2>1 DEF Return, Goto
    <3>2. QED
      BY Zenon, <1>0, <1>1, <2>1, <3>1 DEF LinkKept, InTimedwait
  <2>2. CASE InsertWait(u) /\ \E l \in {"timedwait", "timedwait_timed"} : Goto(u, l)
    <3>1. wait_queue' = Append(wait_queue, u) /\ UNCHANGED sleep_queue
      BY <2>2 DEF InsertWait
    <3>2. IF u = v THEN pc'[v] \in {"timedwait", "timedwait_timed"} ELSE pc'[v] = pc[v]
      BY Zenon, <1>0, <2>2 DEF Goto
    <3>3. CASE u # v
      <4>1. Once(wait_queue', v) /\ (OnQueue(wait_queue', v) <=> OnQueue(wait_queue, v))
        BY SMTT(30), <1>0, <1>c, <3>1, <3>3, AppendLinks
      <4>2. QED
        BY ZenonT(60), <1>c, <1>d, <1>f, <3>1, <3>2, <3>3, <4>1 DEF LinkOk, InTimedwait
    <3>4. CASE u = v
      <4>1. ~OnQueue(wait_queue, v) /\ ~OnQueue(sleep_queue, v)
        BY Zenon, <1>c, <2>0, <3>4 DEF LinkOk, InTimedwait
      <4>2. Once(wait_queue', v) /\ OnQueue(wait_queue', v)
        BY SMTT(30), <1>0, <1>c, <3>1, <3>4, <4>1, AppendLinks
      <4>3. QED
        BY ZenonT(60), <1>c, <1>d, <1>f, <3>1, <3>2, <3>4, <4>1, <4>2 DEF LinkOk, InTimedwait
    <3>5. QED
      BY Zenon, <3>3, <3>4
  <2>3. QED
    BY ZenonT(60), <1>5, <2>1, <2>2 DEF Sigtimedwait, Dequeue, queueVars
<1>6. ASSUME NEW u \in Vcpus, TimedOut(u) PROVE LinkOk(v)'
  <2>1. /\ wait_queue' = RemoveFrom(wait_queue, u) /\ UNCHANGED sleep_queue /\ pc[u] = "timedwait_expired"
        /\ pc'[v] = IF u = v THEN "deliver" ELSE pc[v]
    BY Zenon, <1>6, <1>0 DEF TimedOut, Return, Goto
  <2>2. /\ Once(wait_queue', v) /\ (u = v => ~OnQueue(wait_queue', v))
        /\ u # v => (OnQueue(wait_queue', v) <=> OnQueue(wait_queue, v))
    BY Zenon, <1>0, <1>c, <2>1, RemoveFromLinks
  <2>3. QED
    BY ZenonT(60), <1>c, <1>d, <1>f, <2>1, <2>2 DEF LinkOk, InTimedwait
<1>7. ASSUME NEW u \in Vcpus, EpollReturn(u) PROVE LinkOk(v)'
  <2>1. /\ sleep_queue' = RemoveFrom(sleep_queue, u) /\ UNCHANGED wait_queue /\ pc[u] = "epoll_return"
        /\ pc'[v] = IF u = v THEN "deliver" ELSE pc[v]
    BY Zenon, <1>7, <1>0 DEF EpollReturn, Return, Goto
  <2>2. /\ Once(sleep_queue', v) /\ (u = v => ~OnQueue(sleep_queue', v))
        /\ u # v => (OnQueue(sleep_queue', v) <=> OnQueue(sleep_queue, v))
    BY SMTT(30), <1>0, <1>c, <2>1, RemoveFromLinks
  <2>3. QED
    BY ZenonT(60), <1>c, <1>d, <1>e, <2>1, <2>2 DEF LinkOk, InTimedwait
<1>8. ASSUME NEW u \in Vcpus, Epoll(u) PROVE LinkOk(v)'
  <2>1. /\ sleep_queue' = Append(sleep_queue, u) /\ UNCHANGED wait_queue /\ pc[u] = "guest"
        /\ pc'[v] = IF u = v THEN "epoll" ELSE pc[v]
    BY ZenonT(60), <1>8, <1>0 DEF Epoll, Goto
  <2>2. CASE u # v
    <3>1. Once(sleep_queue', v) /\ (OnQueue(sleep_queue', v) <=> OnQueue(sleep_queue, v))
      BY SMTT(30), <1>0, <1>c, <2>1, <2>2, AppendLinks
    <3>2. QED
      BY ZenonT(60), <1>c, <1>d, <1>e, <2>1, <2>2, <3>1 DEF LinkOk, InTimedwait
  <2>3. CASE u = v
    <3>1. ~OnQueue(wait_queue, v) /\ ~OnQueue(sleep_queue, v)
      BY Zenon, <1>c, <2>1, <2>3 DEF LinkOk, InTimedwait
    <3>2. Once(sleep_queue', v)
      BY ZenonT(60), <1>0, <1>c, <2>1, <2>3, <3>1, AppendLinks
    <3>3. QED
      BY ZenonT(60), <1>c, <1>d, <1>e, <2>1, <2>3, <3>1, <3>2 DEF LinkOk, InTimedwait
  <2>4. QED
    BY Zenon, <2>2, <2>3
<1>9. QED
  BY ZenonT(30), <1>0, <1>1, <1>2, <1>3, <1>4, <1>5, <1>6, <1>7, <1>8, NextSteps, LinkPosts, LinkQuiet DEF GuestStep

\* Linked once at most, counted.
LEMMA OnceCardinality ==
    ASSUME Counting, NEW q \in Seq(Vcpus), NEW v \in Vcpus, Once(q, v)
    PROVE  /\ Cardinality({i \in DOMAIN q : q[i] = v}) \in 0 .. 1
           /\ ~OnQueue(q, v) => Cardinality({i \in DOMAIN q : q[i] = v}) = 0
<1> DEFINE S == {i \in DOMAIN q : q[i] = v}
<1>1. CASE OnQueue(q, v)
  <2>1. PICK i \in 1 .. Len(q) : q[i] = v
    BY Zenon, <1>1 DEF OnQueue
  <2>2. \A j : j \in S <=> j = i
    BY <2>1 DEF Once
  <2> HIDE DEF S
  <2>3. S = {i}
    BY Zenon, <2>2
  <2>4. Cardinality(S) = 1
    BY ZenonT(30), <2>3 DEF Counting
  <2>5. QED
    BY <1>1, <2>4 DEF S
<1>2. CASE ~OnQueue(q, v)
  <2>1. S = {}
    BY <1>2 DEF OnQueue
  <2>2. Cardinality(S) = 0
    BY ZenonT(30), <2>1 DEF Counting
  <2>3. QED
    BY <2>2
<1>3. QED
  BY Zenon, <1>1, <1>2

\* The wait queue and the sleep queue are empty initially.
LEMMA LinksInit == ASSUME Init PROVE LinksOk
<1> SUFFICES ASSUME NEW v \in Vcpus PROVE LinkOk(v)
  BY Zenon DEF LinksOk
<1>1. /\ wait_queue = <<>> /\ sleep_queue = <<>> /\ pc[v] = "guest"
  BY Zenon, VMNotVcpu DEF Init
<1>2. QED
  BY <1>1 DEF LinkOk, Once, OnQueue, InTimedwait

\* Nothing changes in a step of nobody.
LEMMA LinksStutter == ASSUME LinksOk, UNCHANGED vars PROVE LinksOk'
<1>1. UNCHANGED <<wait_queue, sleep_queue, pc, outcome, suspended>>
  BY Zenon DEF vars, queueVars, maskVars, runVars
<1>2. ASSUME NEW v \in Vcpus, LinkOk(v) PROVE LinkOk(v)'
  BY Zenon, <1>1, <1>2, LinkFrame DEF LinkKept
<1>3. QED
  BY Zenon, <1>1, <1>2 DEF LinksOk

\* The invariant says that the queues are right.
LEMMA LinksMean == ASSUME Counting, TypeOK, LinksOk PROVE QueuesOk
<1> SUFFICES ASSUME outcome = "running", NEW v \in Vcpus \ suspended
             PROVE  /\ OnQueue(wait_queue, v) => pc[v] \in {"timedwait", "timedwait_timed", "timedwait_expired"}
                    /\ pc[v] = "timedwait" => OnQueue(wait_queue, v)
                    /\ OnQueue(sleep_queue, v) => pc[v] \in {"epoll", "epoll_return"}
                    /\ Cardinality({i \in DOMAIN wait_queue : wait_queue[i] = v})
                          + Cardinality({i \in DOMAIN sleep_queue : sleep_queue[i] = v}) <= 1
  BY ZenonT(30) DEF QueuesOk
<1> DEFINE W == Cardinality({i \in DOMAIN wait_queue : wait_queue[i] = v})
           S == Cardinality({i \in DOMAIN sleep_queue : sleep_queue[i] = v})
<1>1. LinkOk(v) /\ wait_queue \in Seq(Vcpus) /\ sleep_queue \in Seq(Vcpus)
  BY Zenon, Types DEF LinksOk
<1>2. W \in 0 .. 1 /\ (~OnQueue(wait_queue, v) => W = 0)
  BY Zenon, <1>1, OnceCardinality DEF LinkOk
<1>3. S \in 0 .. 1 /\ (~OnQueue(sleep_queue, v) => S = 0)
  BY Zenon, <1>1, OnceCardinality DEF LinkOk
<1> HIDE DEF W, S
<1>4. ~OnQueue(wait_queue, v) \/ ~OnQueue(sleep_queue, v)
  BY Zenon, <1>1 DEF LinkOk, InTimedwait
<1>5. W + S <= 1
  BY SMTT(30), <1>2, <1>3, <1>4
<1>6. QED
  BY Zenon, <1>1, <1>5 DEF LinkOk, InTimedwait, W, S

=============================================================================
