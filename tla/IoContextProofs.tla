--------------------------- MODULE IoContextProofs ---------------------------
(***************************************************************************)
(* The context table of km_iocontext.c, for every number of threads,       *)
(* contexts and requests: the ids the payload holds are those of the       *)
(* table, each with a kernel context of its own, and a new id is new.      *)
(***************************************************************************)
EXTENDS IoContext, TLAPS

Ids == Nat \ {0}
Entry == [p : Ids, k : KContexts, nr : NrEvents]
Saved == [p : Ids, nr : NrEvents]

\* The inductive invariant.  Types, as far as the table needs them.
Shape ==
    /\ DOMAIN kernel = KContexts
    /\ \A k \in KContexts : DOMAIN kernel[k] = {"owner", "nr", "running", "done"}
    /\ iocp \in Seq(Entry)
    /\ km_piocontext \in Nat
    /\ DOMAIN iocall = Threads
    /\ \A t \in Threads : DOMAIN iocall[t] = {"pc", "p", "k", "n"}

\* What a context under construction or destruction is: its kernel context has
\* been set up for it, and the thread that destroys it holds the lock and has
\* found its entry.
CallOk(t) ==
    /\ SettingUp(t) => /\ iocall[t].p \in Ids /\ iocall[t].p <= km_piocontext
                       /\ iocall[t].n \in NrEvents
    /\ iocall[t].pc = "add" =>
          /\ iocall[t].k \in KContexts
          /\ ~forked => /\ kernel[iocall[t].k].owner = iocall[t].p
                        /\ kernel[iocall[t].k].nr = iocall[t].n
    /\ iocall[t].pc = "destroy" =>
          /\ km_iocmutex = t
          /\ \E i \in DOMAIN iocp : iocp[i].p = iocall[t].p /\ iocp[i].k = iocall[t].k
Calls == \A t \in Threads : CallOk(t)

\* A snapshot has the ids that the payload in it holds, below its counter.
NoteOk ==
    note # NoNote =>
        /\ note.contexts \in Seq(Saved) /\ note.piocontext \in Nat
        /\ note.held = Pairs(note.contexts) /\ Distinct(note.contexts)
        /\ \A i \in DOMAIN note.contexts : note.contexts[i].p <= note.piocontext

IoInv == Shape /\ ContextsMapped /\ IdsFresh /\ Calls /\ NoteOk

-----------------------------------------------------------------------------
(* The table as a sequence *)

\* The fields of an entry.
LEMMA EntryTyped ==
    ASSUME NEW s \in Seq(Entry), NEW i \in DOMAIN s
    PROVE  s[i].p \in Ids /\ s[i].k \in KContexts /\ s[i].nr \in NrEvents
<1>1. s[i] \in Entry
      BY SMTT(30)
<1> QED BY <1>1, SMTT(30) DEF Entry

\* Appending an entry with a new id, as km_iocontext_recover does.
LEMMA AppendOk ==
    ASSUME NEW s \in Seq(Entry), NEW e \in Entry, Distinct(s),
           \A i \in DOMAIN s : s[i].p # e.p
    PROVE  /\ Append(s, e) \in Seq(Entry)
           /\ Pairs(Append(s, e)) = Pairs(s) \cup {<<e.p, e.nr>>}
           /\ Distinct(Append(s, e))
           /\ \A j \in DOMAIN Append(s, e) : Append(s, e)[j] = e \/ \E i \in DOMAIN s : Append(s, e)[j] = s[i]
<1> DEFINE a == Append(s, e)
<1>1. a \in Seq(Entry) /\ Len(a) = Len(s) + 1 /\ DOMAIN a = 1 .. Len(s) + 1 /\ DOMAIN s = 1 .. Len(s)
      BY SMTT(30)
<1>2. a[Len(s) + 1] = e /\ \A i \in 1 .. Len(s) : a[i] = s[i]
      BY SMTT(30)
<1> HIDE DEF a
<1>3. Len(s) \in Nat
      BY SMTT(30)
<1>4. Distinct(a)
      BY <1>1, <1>2, <1>3, SMTT(30) DEF Distinct
<1>5. Pairs(a) = Pairs(s) \cup {<<e.p, e.nr>>}
  <2>1. ASSUME NEW x \in Pairs(a) PROVE x \in Pairs(s) \cup {<<e.p, e.nr>>}
        BY <2>1, <1>1, <1>2, <1>3, SMTT(30) DEF Pairs
  <2>2. ASSUME NEW x \in Pairs(s) PROVE x \in Pairs(a)
        BY <2>2, <1>1, <1>2, <1>3, SMTT(30) DEF Pairs
  <2>3. <<e.p, e.nr>> \in Pairs(a)
        BY <1>1, <1>2, <1>3, SMTT(30) DEF Pairs
  <2> QED BY <2>1, <2>2, <2>3, ZenonT(30)
<1>6. \A j \in DOMAIN a : a[j] = e \/ \E i \in DOMAIN s : a[j] = s[i]
      BY <1>1, <1>2, <1>3, SMTT(30)
<1> QED BY <1>1, <1>4, <1>5, <1>6, ZenonT(30) DEF a

\* Closing the gap, as km_iocontext_remove does: the other entries stay.
LEMMA ShiftedOk ==
    ASSUME NEW s \in Seq(Entry), NEW i \in DOMAIN s, Distinct(s)
    PROVE  /\ Shifted(s, i) \in Seq(Entry)
           /\ Pairs(Shifted(s, i)) = {h \in Pairs(s) : h[1] # s[i].p}
           /\ Distinct(Shifted(s, i))
           /\ \A j \in DOMAIN Shifted(s, i) : \E l \in DOMAIN s : l # i /\ Shifted(s, i)[j] = s[l]
<1> DEFINE a == Shifted(s, i)
           back(j) == IF j < i THEN j ELSE j + 1
<1>1. Len(s) \in Nat /\ DOMAIN s = 1 .. Len(s) /\ i \in 1 .. Len(s) /\ \A j \in DOMAIN s : s[j] \in Entry
      BY SMTT(30)
<1>2. DOMAIN a = 1 .. Len(s) - 1 /\ \A j \in DOMAIN a : a[j] = s[back(j)]
      BY <1>1, SMTT(30) DEF Shifted
<1>3. \A j \in DOMAIN a : back(j) \in DOMAIN s \ {i}
      BY <1>1, <1>2, SMTT(30)
<1>4. \A l \in DOMAIN s \ {i} : \E j \in DOMAIN a : back(j) = l
  <2>1. ASSUME NEW l \in DOMAIN s, l < i PROVE \E j \in DOMAIN a : back(j) = l
        BY <2>1, <1>1, <1>2, SMTT(30)
  <2>2. ASSUME NEW l \in DOMAIN s, l > i PROVE \E j \in DOMAIN a : back(j) = l
    <3>1. l - 1 \in DOMAIN a /\ back(l - 1) = l
          BY <2>2, <1>1, <1>2, SMTT(30)
    <3> QED BY <3>1, ZenonT(30)
  <2> QED BY <2>1, <2>2, <1>1, SMTT(30)
<1>5. \A j, l \in DOMAIN a : back(j) = back(l) => j = l
      BY <1>1, <1>2, SMTT(30)
<1>6. a \in Seq(Entry)
  <2>1. \A j \in 1 .. Len(s) - 1 : a[j] \in Entry
        BY <1>1, <1>2, <1>3, ZenonT(30)
  <2>2. a = [j \in 1 .. Len(s) - 1 |-> a[j]]
        BY <1>2, ZenonT(30) DEF Shifted
  <2>3. Len(s) - 1 \in Nat
        BY <1>1, SMTT(30)
  <2> HIDE DEF a
  <2> QED BY <2>1, <2>2, <2>3, SMTT(30)
<1> HIDE DEF a, back
<1>7. Distinct(a)
      BY <1>2, <1>3, <1>5, ZenonT(30) DEF Distinct
<1>8. Pairs(a) = {h \in Pairs(s) : h[1] # s[i].p}
  <2>1. ASSUME NEW j \in DOMAIN a PROVE <<a[j].p, a[j].nr>> \in {h \in Pairs(s) : h[1] # s[i].p}
    <3>1. a[j] = s[back(j)] /\ back(j) \in DOMAIN s /\ back(j) # i
          BY <1>2, <1>3, ZenonT(30)
    <3>2. s[back(j)].p # s[i].p
          BY <3>1, ZenonT(30) DEF Distinct
    <3> QED BY <3>1, <3>2, SMTT(30) DEF Pairs
  <2>2. ASSUME NEW l \in DOMAIN s, s[l].p # s[i].p PROVE <<s[l].p, s[l].nr>> \in Pairs(a)
    <3>1. PICK j \in DOMAIN a : back(j) = l
          BY <2>2, <1>4, ZenonT(30)
    <3> QED BY <3>1, <1>2, ZenonT(30) DEF Pairs
  <2>3. ASSUME NEW x \in Pairs(a) PROVE x \in {h \in Pairs(s) : h[1] # s[i].p}
        BY <2>1, <2>3, ZenonT(30) DEF Pairs
  <2>4. ASSUME NEW x \in Pairs(s), x[1] # s[i].p PROVE x \in Pairs(a)
    <3>1. PICK l \in DOMAIN s : x = <<s[l].p, s[l].nr>>
          BY <2>4, ZenonT(30) DEF Pairs
    <3>2. s[l].p # s[i].p
          BY <3>1, <2>4, SMTT(30)
    <3> QED BY <3>1, <3>2, <2>2, ZenonT(30)
  <2> QED BY <2>3, <2>4, ZenonT(30)
<1> QED BY <1>2, <1>3, <1>6, <1>7, <1>8, ZenonT(30) DEF a

-----------------------------------------------------------------------------
(* The steps *)

KRecord == {"owner", "nr", "running", "done"}
CRecord == {"pc", "p", "k", "n"}
InTable == {"setup", "add", "destroy"}

\* What a step does that concerns requests only.
Mild ==
    /\ UNCHANGED <<iocp, km_piocontext, km_iocmutex, held, note, forked>>
    /\ DOMAIN kernel' = KContexts
    /\ \A k \in KContexts : /\ DOMAIN kernel'[k] = KRecord
                            /\ kernel'[k].owner = kernel[k].owner /\ kernel'[k].nr = kernel[k].nr
    /\ DOMAIN iocall' = Threads
    /\ \A u \in Threads : \/ iocall'[u] = iocall[u]
                          \/ DOMAIN iocall'[u] = CRecord /\ iocall'[u].pc \notin InTable

\* Such a step leaves the table as it is.
LEMMA MildOk == ASSUME IoInv, Mild PROVE IoInv'
<1>1. Shape'
      BY ZenonT(30) DEF IoInv, Shape, Mild, KRecord, CRecord
<1>2. \A i \in DOMAIN iocp : iocp[i].k \in KContexts
      BY EntryTyped, ZenonT(30) DEF IoInv, Shape
<1>3. ContextsMapped'
  <2>1. held' = Pairs(iocp') /\ Distinct(iocp')
        BY ZenonT(30) DEF IoInv, ContextsMapped, Mild
  <2>2. ASSUME ~forked', NEW i \in DOMAIN iocp'
        PROVE  kernel'[iocp'[i].k].owner = iocp'[i].p /\ kernel'[iocp'[i].k].nr = iocp'[i].nr
    <3>1. iocp' = iocp /\ ~forked
          BY <2>2, ZenonT(30) DEF Mild
    <3>2. kernel[iocp[i].k].owner = iocp[i].p /\ kernel[iocp[i].k].nr = iocp[i].nr
          BY <3>1, ZenonT(30) DEF IoInv, ContextsMapped
    <3>3. iocp[i].k \in KContexts
          BY <3>1, <1>2, ZenonT(30)
    <3> QED BY <3>1, <3>2, <3>3, ZenonT(30) DEF Mild
  <2> QED BY <2>1, <2>2, ZenonT(30) DEF ContextsMapped
<1>4. \A u \in Threads : iocall'[u] = iocall[u] \/ iocall'[u].pc \notin InTable
      BY ZenonT(30) DEF Mild
<1>5. HeldIds' = HeldIds
      BY ZenonT(30) DEF Mild, HeldIds
<1>6. IdsFresh'
      BY <1>4, <1>5, SMTT(30) DEF IoInv, IdsFresh, SettingUp, Mild, InTable
<1>7. Calls'
  <2>1. SUFFICES ASSUME NEW u \in Threads, iocall'[u].pc \in InTable
                 PROVE  CallOk(u)'
        BY ZenonT(30) DEF Calls, CallOk, SettingUp, InTable
  <2>2. iocall'[u] = iocall[u] /\ CallOk(u)
        BY <2>1, <1>4, ZenonT(30) DEF IoInv, Calls
  <2> QED BY <2>2, ZenonT(30) DEF CallOk, SettingUp, Mild
<1>8. NoteOk'
      BY ZenonT(30) DEF IoInv, NoteOk, Mild, NoNote
<1> QED BY <1>1, <1>3, <1>6, <1>7, <1>8, ZenonT(30) DEF IoInv

\* Steps of a call that only moves the thread on.
LEMMA MovesOn ==
    ASSUME IoInv, NEW t \in Threads, NEW c, DOMAIN c = CRecord, c.pc \notin InTable,
           IoGoto(t, c), UNCHANGED kernel,
           UNCHANGED <<iocp, km_piocontext, km_iocmutex, held, note, forked>>
    PROVE  IoInv'
<1>1. DOMAIN iocall' = Threads /\ \A u \in Threads : iocall'[u] = IF u = t THEN c ELSE iocall[u]
      BY SMTT(30) DEF IoGoto, IoInv, Shape
<1>2. Mild
      BY <1>1, ZenonT(30) DEF Mild, IoInv, Shape, KRecord
<1> QED BY <1>2, MildOk, ZenonT(30)

\* A return changes the table no more.
LEMMA Returns ==
    ASSUME IoInv, NEW t \in Threads, IoReturn(t), UNCHANGED kernel,
           UNCHANGED <<iocp, km_piocontext, km_iocmutex, held, note, forked>>
    PROVE  IoInv'
<1>1. DOMAIN NoIo = CRecord /\ NoIo.pc \notin InTable
      BY SMTT(30) DEF NoIo, CRecord, InTable
<1>2. IoGoto(t, NoIo)
      BY ZenonT(30) DEF IoReturn
<1> QED BY <1>1, <1>2, MovesOn, ZenonT(30)

\* The kernel's calls on requests keep the owner of a context.
LEMMA KernelCallOk ==
    ASSUME IoInv, NEW t \in Threads, NEW r, NEW d, NEW n, NEW next \in {"count", "uncount"},
           KernelCall(t, r, d, n, next),
           UNCHANGED <<iocp, km_piocontext, km_iocmutex, held, note, forked>>
    PROVE  IoInv'
<1>1. DOMAIN iocall' = Threads /\ \A u \in Threads : u # t => iocall'[u] = iocall[u]
      BY SMTT(30) DEF KernelCall, IoGoto, IoInv, Shape
<1>2. DOMAIN iocall'[t] = CRecord /\ iocall'[t].pc = next
      BY SMTT(30) DEF KernelCall, IoGoto, IoInv, Shape, CRecord
<1>3. next \notin InTable
      BY SMTT(30) DEF InTable
<1>4. DOMAIN kernel' = KContexts /\ \A k \in KContexts : DOMAIN kernel'[k] = KRecord
      BY SMTT(30) DEF KernelCall, IoInv, Shape, KRecord
<1>5. \A k \in KContexts : kernel'[k].owner = kernel[k].owner /\ kernel'[k].nr = kernel[k].nr
      BY SMTT(30) DEF KernelCall, IoInv, Shape
<1>6. Mild
      BY <1>1, <1>2, <1>3, <1>4, <1>5, ZenonT(30) DEF Mild
<1> QED BY <1>6, MildOk, ZenonT(30)

\* So does the end of a request.
LEMMA CompleteOk == ASSUME IoInv, NEW k \in KContexts, Complete(k) PROVE IoInv'
<1>1. DOMAIN kernel' = KContexts /\ \A x \in KContexts : DOMAIN kernel'[x] = KRecord
      BY SMTT(30) DEF Complete, IoInv, Shape, KRecord
<1>2. \A x \in KContexts : kernel'[x].owner = kernel[x].owner /\ kernel'[x].nr = kernel[x].nr
      BY SMTT(30) DEF Complete, IoInv, Shape
<1>3. Mild
      BY <1>1, <1>2, ZenonT(30) DEF Mild, Complete, IoInv, Shape
<1> QED BY <1>3, MildOk, ZenonT(30)

\* The ids of the table are those the payload holds.
LEMMA HeldInTable ==
    ASSUME IoInv
    PROVE  /\ \A i \in DOMAIN iocp : iocp[i].p \in HeldIds
           /\ \A p \in HeldIds : \E i \in DOMAIN iocp : iocp[i].p = p
<1>1. held = Pairs(iocp)
      BY ZenonT(30) DEF IoInv, ContextsMapped
<1>2. ASSUME NEW i \in DOMAIN iocp PROVE iocp[i].p \in HeldIds
  <2>1. <<iocp[i].p, iocp[i].nr>> \in held /\ <<iocp[i].p, iocp[i].nr>>[1] = iocp[i].p
        BY <1>1, SMTT(30) DEF Pairs
  <2> QED BY <2>1, ZenonT(30) DEF HeldIds
<1>3. ASSUME NEW p \in HeldIds PROVE \E i \in DOMAIN iocp : iocp[i].p = p
  <2>1. PICK h \in held : h[1] = p
        BY ZenonT(30) DEF HeldIds
  <2>2. PICK i \in DOMAIN iocp : h = <<iocp[i].p, iocp[i].nr>>
        BY <1>1, ZenonT(30) DEF Pairs
  <2> QED BY <2>1, <2>2, SMTT(30)
<1> QED BY <1>2, <1>3, ZenonT(30)

\* km_iocontext_add takes an id above all others.
LEMMA AddOk == ASSUME IoInv, NEW t \in Threads, km_iocontext_add(t) PROVE IoInv'
<1>1. PICK nr \in NrEvents :
          iocall' = [iocall EXCEPT ![t] = [pc |-> "setup", p |-> km_piocontext + 1, k |-> 0, n |-> nr]]
      BY ZenonT(30) DEF km_iocontext_add, IoGoto
<1>2. UNCHANGED <<kernel, iocp, km_iocmutex, held, note, forked>> /\ km_piocontext' = km_piocontext + 1
      BY ZenonT(30) DEF km_iocontext_add
<1>3. /\ DOMAIN iocall' = Threads /\ DOMAIN iocall'[t] = CRecord
      /\ iocall'[t].pc = "setup" /\ iocall'[t].p = km_piocontext + 1 /\ iocall'[t].n = nr
      /\ \A u \in Threads \ {t} : iocall'[u] = iocall[u]
      BY <1>1, SMTT(30) DEF IoInv, Shape, CRecord
<1>4. km_piocontext \in Nat /\ km_piocontext + 1 \in Ids
      BY SMTT(30) DEF IoInv, Shape, Ids
<1>5. Shape'
  <2>1. km_piocontext' \in Nat
        BY <1>2, <1>4, SMTT(30)
  <2> QED BY <2>1, <1>2, <1>3, ZenonT(30) DEF IoInv, Shape, CRecord
<1>6. ContextsMapped'
      BY <1>2, ZenonT(30) DEF IoInv, ContextsMapped
<1>7. HeldIds' = HeldIds
      BY <1>2, ZenonT(30) DEF HeldIds
<1>8. \A p \in HeldIds : p \in Nat
      BY HeldInTable, EntryTyped, SMTT(30) DEF IoInv, Shape, Ids
<1>9. \A u \in Threads : SettingUp(u) => iocall[u].p \in Nat /\ iocall[u].p <= km_piocontext
      BY SMTT(30) DEF IoInv, Calls, CallOk, Ids
<1>10. \A p \in HeldIds : p <= km_piocontext
      BY ZenonT(30) DEF IoInv, IdsFresh
<1>11. IdsFresh'
  <2>1. \A p \in HeldIds : p <= km_piocontext + 1 /\ p # km_piocontext + 1
        BY <1>4, <1>8, <1>10, SMTT(30)
  <2>2. \A u \in Threads : SettingUp(u) => iocall[u].p # km_piocontext + 1
        BY <1>4, <1>9, SMTT(30)
  <2>3. ASSUME NEW x \in Threads, SettingUp(x)'
        PROVE  /\ iocall'[x].p \notin HeldIds
               /\ \A u \in Threads : SettingUp(u)' /\ iocall'[u].p = iocall'[x].p => u = x
    <3>1. CASE x = t
          BY <3>1, <2>1, <2>2, <1>3, ZenonT(30) DEF SettingUp
    <3>2. CASE x # t
          BY <3>2, <2>2, <2>3, <1>3, ZenonT(30) DEF SettingUp, IoInv, IdsFresh
    <3> QED BY <3>1, <3>2, ZenonT(30)
  <2> QED BY <2>1, <2>3, <1>2, <1>7, ZenonT(30) DEF IdsFresh, SettingUp
<1>12. Calls'
  <2>1. CallOk(t)'
    <3>1. iocall'[t].p <= km_piocontext'
          BY <1>2, <1>3, <1>4, SMTT(30)
    <3>2. "setup" # "add" /\ "setup" # "destroy"
          BY SMTT(30)
    <3> QED BY <3>1, <3>2, <1>3, <1>4, ZenonT(30) DEF CallOk
  <2>2. ASSUME NEW u \in Threads \ {t} PROVE CallOk(u)'
    <3>1. iocall'[u] = iocall[u] /\ CallOk(u)
          BY <1>3, ZenonT(30) DEF IoInv, Calls
    <3>2. SettingUp(u) => iocall[u].p <= km_piocontext'
          BY <1>2, <1>4, <1>9, SMTT(30)
    <3> QED BY <3>1, <3>2, <1>2, ZenonT(30) DEF CallOk, SettingUp
  <2> QED BY <2>1, <2>2, ZenonT(30) DEF Calls
<1>13. NoteOk'
      BY <1>2, ZenonT(30) DEF IoInv, NoteOk, NoNote
<1> QED BY <1>5, <1>6, <1>11, <1>12, <1>13, ZenonT(30) DEF IoInv

\* Owners: a context that is in the table or about to be is owned, by one id.
LEMMA Owned ==
    ASSUME IoInv, ~forked
    PROVE  /\ \A i \in DOMAIN iocp : kernel[iocp[i].k].owner # 0
           /\ \A u \in Threads : iocall[u].pc = "add" => kernel[iocall[u].k].owner # 0
           /\ \A i \in DOMAIN iocp, u \in Threads : iocall[u].pc = "add" => iocp[i].k # iocall[u].k
           /\ \A t, u \in Threads : iocall[t].pc = "add" /\ iocall[u].pc = "add" /\ iocall[t].k = iocall[u].k => t = u
           /\ \A i, j \in DOMAIN iocp : iocp[i].k = iocp[j].k => i = j
<1>1. \A i \in DOMAIN iocp : iocp[i].p \in HeldIds /\ iocp[i].p # 0 /\ kernel[iocp[i].k].owner = iocp[i].p
      BY HeldInTable, EntryTyped, ZenonT(30) DEF IoInv, Shape, Ids, ContextsMapped
<1>2. \A u \in Threads : iocall[u].pc = "add" =>
          /\ SettingUp(u) /\ iocall[u].p # 0 /\ kernel[iocall[u].k].owner = iocall[u].p
      BY ZenonT(30) DEF IoInv, Calls, CallOk, SettingUp, Ids
<1>3. \A u \in Threads : SettingUp(u) => iocall[u].p \notin HeldIds
      BY ZenonT(30) DEF IoInv, IdsFresh
<1>4. \A t, u \in Threads : SettingUp(t) /\ SettingUp(u) /\ iocall[t].p = iocall[u].p => t = u
      BY ZenonT(30) DEF IoInv, IdsFresh
<1>5. Distinct(iocp)
      BY ZenonT(30) DEF IoInv, ContextsMapped
<1>6. /\ \A i \in DOMAIN iocp : kernel[iocp[i].k].owner # 0
      /\ \A u \in Threads : iocall[u].pc = "add" => kernel[iocall[u].k].owner # 0
      BY <1>1, <1>2, ZenonT(30)
<1>7. \A i \in DOMAIN iocp, u \in Threads : iocall[u].pc = "add" => iocp[i].k # iocall[u].k
      BY <1>1, <1>2, <1>3, ZenonT(30)
<1>8. \A t, u \in Threads : iocall[t].pc = "add" /\ iocall[u].pc = "add" /\ iocall[t].k = iocall[u].k => t = u
      BY <1>2, <1>4, ZenonT(30)
<1>9. \A i, j \in DOMAIN iocp : iocp[i].k = iocp[j].k => i = j
      BY <1>1, <1>5, ZenonT(30) DEF Distinct
<1> QED BY <1>6, <1>7, <1>8, <1>9, ZenonT(30)

\* The kernel sets up a context that nobody owns.
LEMMA SetupOk ==
    ASSUME IoInv, NEW t \in Threads, SYS_io_setup(t), NEW k \in KContexts, kernel[k] = Unused,
           kernel' = [kernel EXCEPT ![k] = [Unused EXCEPT !.owner = iocall[t].p, !.nr = iocall[t].n]],
           IoGoto(t, [iocall[t] EXCEPT !.pc = "add", !.k = k])
    PROVE  IoInv'
<1>1. UNCHANGED <<iocp, km_piocontext, km_iocmutex, held, note, forked>> /\ iocall[t].pc = "setup"
      BY ZenonT(30) DEF SYS_io_setup, IoAt
<1>2. /\ DOMAIN iocall' = Threads /\ DOMAIN iocall'[t] = CRecord
      /\ iocall'[t].pc = "add" /\ iocall'[t].p = iocall[t].p /\ iocall'[t].n = iocall[t].n /\ iocall'[t].k = k
      /\ \A u \in Threads \ {t} : iocall'[u] = iocall[u]
      BY SMTT(30) DEF IoGoto, IoInv, Shape, CRecord
<1>3. /\ DOMAIN kernel' = KContexts
      /\ \A x \in KContexts : DOMAIN kernel'[x] = KRecord
      BY SMTT(30) DEF IoInv, Shape, KRecord, Unused
<1>4. /\ kernel'[k].owner = iocall[t].p /\ kernel'[k].nr = iocall[t].n
      /\ \A x \in KContexts \ {k} : kernel'[x] = kernel[x]
      BY SMTT(30) DEF IoInv, Shape, Unused
<1>5. kernel[k].owner = 0
      BY SMTT(30) DEF Unused
<1>6. Shape'
      BY <1>1, <1>2, <1>3, ZenonT(30) DEF IoInv, Shape, KRecord, CRecord
<1>7. \A i \in DOMAIN iocp : ~forked => iocp[i].k \in KContexts \ {k}
      BY <1>5, Owned, EntryTyped, ZenonT(30) DEF IoInv, Shape
<1>8. ContextsMapped'
  <2>1. held' = Pairs(iocp') /\ Distinct(iocp')
        BY <1>1, ZenonT(30) DEF IoInv, ContextsMapped
  <2>2. ASSUME ~forked', NEW i \in DOMAIN iocp'
        PROVE  kernel'[iocp'[i].k].owner = iocp'[i].p /\ kernel'[iocp'[i].k].nr = iocp'[i].nr
    <3>1. iocp' = iocp /\ ~forked
          BY <2>2, <1>1, ZenonT(30)
    <3>2. kernel[iocp[i].k].owner = iocp[i].p /\ kernel[iocp[i].k].nr = iocp[i].nr
          BY <3>1, ZenonT(30) DEF IoInv, ContextsMapped
    <3>3. kernel'[iocp[i].k] = kernel[iocp[i].k]
          BY <3>1, <1>4, <1>7, ZenonT(30)
    <3> QED BY <3>1, <3>2, <3>3, ZenonT(30)
  <2> QED BY <2>1, <2>2, ZenonT(30) DEF ContextsMapped
<1>9. \A u \in Threads : SettingUp(u)' => SettingUp(u) /\ iocall'[u].p = iocall[u].p
      BY <1>1, <1>2, ZenonT(30) DEF SettingUp
<1>10. IdsFresh'
      BY <1>1, <1>9, ZenonT(30) DEF IoInv, IdsFresh, HeldIds
<1>11. Calls'
  <2>1. CallOk(t)'
    <3>1. SettingUp(t) /\ CallOk(t)
          BY <1>1, ZenonT(30) DEF IoInv, Calls, SettingUp
    <3>2. "add" # "destroy"
          BY SMTT(30)
    <3> QED BY <3>1, <3>2, <1>1, <1>2, <1>4, ZenonT(30) DEF CallOk
  <2>2. ASSUME NEW u \in Threads \ {t} PROVE CallOk(u)'
    <3>1. iocall'[u] = iocall[u] /\ CallOk(u)
          BY <1>2, ZenonT(30) DEF IoInv, Calls
    <3>2. iocall[u].pc = "add" /\ ~forked => iocall[u].k \in KContexts \ {k}
          BY <3>1, <1>5, Owned, ZenonT(30) DEF CallOk
    <3> QED BY <3>1, <3>2, <1>1, <1>4, ZenonT(30) DEF CallOk, SettingUp
  <2> QED BY <2>1, <2>2, ZenonT(30) DEF Calls
<1>12. NoteOk'
      BY <1>1, ZenonT(30) DEF IoInv, NoteOk, NoNote
<1> QED BY <1>6, <1>8, <1>10, <1>11, <1>12, ZenonT(30) DEF IoInv

\* km_iocontext_recover appends the entry of an id nobody else has.
LEMMA RecoverOk ==
    ASSUME IoInv, NoOne \notin Threads, NEW t \in Threads, km_iocontext_recover(t), UNCHANGED kernel,
           iocp' = Append(iocp, [p |-> iocall[t].p, k |-> iocall[t].k, nr |-> iocall[t].n]),
           held' = held \cup {<<iocall[t].p, iocall[t].n>>}
    PROVE  IoInv'
<1> DEFINE e == [p |-> iocall[t].p, k |-> iocall[t].k, nr |-> iocall[t].n]
<1>1. /\ UNCHANGED <<km_piocontext, km_iocmutex, note, forked>> /\ iocall[t].pc = "add" /\ km_iocmutex = NoOne
      /\ IoGoto(t, NoIo)
      BY ZenonT(30) DEF km_iocontext_recover, IoAt, IoReturn
<1>2. CallOk(t) /\ SettingUp(t)
      BY <1>1, ZenonT(30) DEF IoInv, Calls, SettingUp
<1>3. e \in Entry
      BY <1>1, <1>2, SMTT(30) DEF CallOk, Entry
<1>4. e.p = iocall[t].p /\ e.k = iocall[t].k /\ e.nr = iocall[t].n
      BY SMTT(30)
<1>5. iocp' = Append(iocp, e) /\ held' = held \cup {<<e.p, e.nr>>}
      BY <1>4, ZenonT(30)
<1> HIDE DEF e
<1>6. iocp \in Seq(Entry) /\ Distinct(iocp) /\ held = Pairs(iocp)
      BY ZenonT(30) DEF IoInv, Shape, ContextsMapped
<1>7. e.p \notin HeldIds /\ e.p <= km_piocontext
      BY <1>2, <1>4, ZenonT(30) DEF IoInv, IdsFresh, CallOk
<1>8. \A i \in DOMAIN iocp : iocp[i].p # e.p
      BY <1>7, HeldInTable, ZenonT(30)
<1>9. /\ iocp' \in Seq(Entry) /\ Pairs(iocp') = held' /\ Distinct(iocp')
      /\ \A j \in DOMAIN iocp' : iocp'[j] = e \/ \E i \in DOMAIN iocp : iocp'[j] = iocp[i]
  <2>1. /\ Append(iocp, e) \in Seq(Entry)
        /\ Pairs(Append(iocp, e)) = Pairs(iocp) \cup {<<e.p, e.nr>>}
        /\ Distinct(Append(iocp, e))
        /\ \A j \in DOMAIN Append(iocp, e) : Append(iocp, e)[j] = e \/ \E i \in DOMAIN iocp : Append(iocp, e)[j] = iocp[i]
        BY <1>3, <1>6, <1>8, AppendOk, ZenonT(30)
  <2> QED BY <2>1, <1>5, <1>6, ZenonT(30)
<1>10. /\ DOMAIN iocall' = Threads /\ iocall'[t] = NoIo /\ DOMAIN NoIo = CRecord /\ NoIo.pc = "idle"
       /\ \A u \in Threads \ {t} : iocall'[u] = iocall[u]
      BY <1>1, SMTT(30) DEF IoGoto, IoInv, Shape, CRecord, NoIo
<1>11. Shape'
      BY <1>1, <1>9, <1>10, ZenonT(30) DEF IoInv, Shape, CRecord
<1>12. ContextsMapped'
  <2>1. ~forked => kernel[e.k].owner = e.p /\ kernel[e.k].nr = e.nr
        BY <1>1, <1>2, <1>4, ZenonT(30) DEF CallOk
  <2>2. ASSUME ~forked', NEW j \in DOMAIN iocp'
        PROVE  kernel'[iocp'[j].k].owner = iocp'[j].p /\ kernel'[iocp'[j].k].nr = iocp'[j].nr
    <3>1. ~forked /\ kernel' = kernel
          BY <2>2, <1>1, ZenonT(30)
    <3>2. CASE iocp'[j] = e
          BY <3>1, <3>2, <2>1, ZenonT(30)
    <3>3. ASSUME NEW i \in DOMAIN iocp, iocp'[j] = iocp[i]
          PROVE  kernel'[iocp'[j].k].owner = iocp'[j].p /\ kernel'[iocp'[j].k].nr = iocp'[j].nr
          BY <3>1, <3>3, ZenonT(30) DEF IoInv, ContextsMapped
    <3> QED BY <3>2, <3>3, <1>9, ZenonT(30)
  <2> QED BY <2>2, <1>9, ZenonT(30) DEF ContextsMapped
<1>13. "idle" \notin InTable
      BY SMTT(30) DEF InTable
<1>14. \A u \in Threads : iocall'[u].pc \in InTable => u # t /\ iocall'[u] = iocall[u]
      BY <1>10, <1>13, ZenonT(30)
<1>15. HeldIds' = HeldIds \cup {e.p}
  <2>1. <<e.p, e.nr>>[1] = e.p
        BY SMTT(30)
  <2> QED BY <2>1, <1>5, ZenonT(30) DEF HeldIds
<1>16. IdsFresh'
  <2>1. \A p \in HeldIds' : p <= km_piocontext'
        BY <1>1, <1>7, <1>15, ZenonT(30) DEF IoInv, IdsFresh
  <2>2. \A u \in Threads : SettingUp(u)' => u # t /\ SettingUp(u) /\ iocall'[u] = iocall[u]
        BY <1>14, ZenonT(30) DEF SettingUp, InTable
  <2>3. \A u \in Threads : SettingUp(u)' => iocall'[u].p \notin HeldIds'
        BY <2>2, <1>2, <1>4, <1>15, ZenonT(30) DEF IoInv, IdsFresh
  <2>4. \A u, x \in Threads : SettingUp(u)' /\ SettingUp(x)' /\ iocall'[u].p = iocall'[x].p => u = x
        BY <2>2, ZenonT(30) DEF IoInv, IdsFresh
  <2> QED BY <2>1, <2>3, <2>4, ZenonT(30) DEF IdsFresh
<1>17. Calls'
  <2>1. SUFFICES ASSUME NEW u \in Threads, iocall'[u].pc \in InTable
                 PROVE  CallOk(u)'
        BY ZenonT(30) DEF Calls, CallOk, SettingUp, InTable
  <2>2. iocall'[u] = iocall[u] /\ CallOk(u)
        BY <2>1, <1>14, ZenonT(30) DEF IoInv, Calls
  <2>3. iocall[u].pc # "destroy"
        BY <2>2, <1>1, ZenonT(30) DEF CallOk
  <2> QED BY <2>2, <2>3, <1>1, ZenonT(30) DEF CallOk, SettingUp
<1>18. NoteOk'
      BY <1>1, ZenonT(30) DEF IoInv, NoteOk, NoNote
<1> QED BY <1>11, <1>12, <1>16, <1>17, <1>18, ZenonT(30) DEF IoInv

\* Without memory for the entry the kernel context goes, which is no entry's.
LEMMA RecoverFails ==
    ASSUME IoInv, NEW t \in Threads, km_iocontext_recover(t),
           kernel' = [kernel EXCEPT ![iocall[t].k] = Unused], UNCHANGED <<iocp, held>>
    PROVE  IoInv'
<1>1. /\ UNCHANGED <<km_piocontext, km_iocmutex, note, forked>> /\ iocall[t].pc = "add"
      /\ IoGoto(t, NoIo)
      BY ZenonT(30) DEF km_iocontext_recover, IoAt, IoReturn
<1>2. /\ DOMAIN iocall' = Threads /\ iocall'[t] = NoIo /\ DOMAIN NoIo = CRecord /\ NoIo.pc = "idle"
      /\ \A u \in Threads \ {t} : iocall'[u] = iocall[u]
      BY <1>1, SMTT(30) DEF IoGoto, IoInv, Shape, CRecord, NoIo
<1>3. /\ DOMAIN kernel' = KContexts /\ \A x \in KContexts : DOMAIN kernel'[x] = KRecord
      /\ \A x \in KContexts : x # iocall[t].k => kernel'[x] = kernel[x]
      BY SMTT(30) DEF IoInv, Shape, KRecord, Unused
<1>4. Shape'
      BY <1>1, <1>2, <1>3, ZenonT(30) DEF IoInv, Shape, KRecord, CRecord
<1>5. ContextsMapped'
  <2>1. held' = Pairs(iocp') /\ Distinct(iocp')
        BY ZenonT(30) DEF IoInv, ContextsMapped
  <2>2. ASSUME ~forked', NEW i \in DOMAIN iocp'
        PROVE  kernel'[iocp'[i].k].owner = iocp'[i].p /\ kernel'[iocp'[i].k].nr = iocp'[i].nr
    <3>1. iocp' = iocp /\ ~forked
          BY <2>2, <1>1, ZenonT(30)
    <3>2. kernel[iocp[i].k].owner = iocp[i].p /\ kernel[iocp[i].k].nr = iocp[i].nr
          BY <3>1, ZenonT(30) DEF IoInv, ContextsMapped
    <3>3. iocp[i].k # iocall[t].k
          BY <3>1, <1>1, Owned, ZenonT(30)
    <3>4. iocp[i].k \in KContexts
          BY <3>1, EntryTyped, ZenonT(30) DEF IoInv, Shape
    <3> QED BY <3>1, <3>2, <3>3, <3>4, <1>3, ZenonT(30)
  <2> QED BY <2>1, <2>2, ZenonT(30) DEF ContextsMapped
<1>6. "idle" \notin InTable
      BY SMTT(30) DEF InTable
<1>7. \A u \in Threads : iocall'[u].pc \in InTable => u # t /\ iocall'[u] = iocall[u]
      BY <1>2, <1>6, ZenonT(30)
<1>8. \A u \in Threads : SettingUp(u)' => SettingUp(u) /\ iocall'[u].p = iocall[u].p
      BY <1>7, ZenonT(30) DEF SettingUp, InTable
<1>9. IdsFresh'
      BY <1>1, <1>8, ZenonT(30) DEF IoInv, IdsFresh, HeldIds
<1>10. Calls'
  <2>1. SUFFICES ASSUME NEW u \in Threads, iocall'[u].pc \in InTable
                 PROVE  CallOk(u)'
        BY ZenonT(30) DEF Calls, CallOk, SettingUp, InTable
  <2>2. u # t /\ iocall'[u] = iocall[u] /\ CallOk(u)
        BY <2>1, <1>7, ZenonT(30) DEF IoInv, Calls
  <2>3. iocall[u].pc = "add" /\ ~forked => kernel'[iocall[u].k] = kernel[iocall[u].k]
        BY <2>2, <1>1, <1>3, Owned, ZenonT(30) DEF CallOk
  <2> QED BY <2>2, <2>3, <1>1, ZenonT(30) DEF CallOk, SettingUp
<1>11. NoteOk'
      BY <1>1, ZenonT(30) DEF IoInv, NoteOk, NoNote
<1> QED BY <1>4, <1>5, <1>9, <1>10, <1>11, ZenonT(30) DEF IoInv

\* The entry that First finds.
LEMMA FirstOk ==
    ASSUME NEW p, iocp \in Seq(Entry), Distinct(iocp), NEW i \in DOMAIN iocp, iocp[i].p = p
    PROVE  Entries(p) = {i} /\ First(Entries(p)) = i
<1>1. Entries(p) = {i}
      BY ZenonT(30) DEF Entries, Distinct
<1>2. i <= i
      BY SMTT(30)
<1>3. First({i}) = i
      BY <1>2, ZenonT(30) DEF First
<1> QED BY <1>1, <1>3, ZenonT(30)

\* km_iocontext_remove takes the lock, which nobody else has.
LEMMA RemoveOk ==
    ASSUME IoInv, NoOne \notin Threads, NEW t \in Threads, NEW p, km_iocontext_remove(t, p) PROVE IoInv'
<1>1. PICK i \in DOMAIN iocp : iocp[i].p = p
      BY ZenonT(30) DEF km_iocontext_remove, Entries
<1>2. First(Entries(p)) = i
      BY <1>1, FirstOk, ZenonT(30) DEF IoInv, Shape, ContextsMapped
<1>3. /\ km_iocmutex = NoOne /\ km_iocmutex' = t
      /\ UNCHANGED <<kernel, iocp, km_piocontext, held, note, forked>>
      /\ IoGoto(t, [pc |-> "destroy", p |-> p, k |-> iocp[i].k, n |-> 0])
      BY <1>2, ZenonT(30) DEF km_iocontext_remove
<1>4. /\ DOMAIN iocall' = Threads /\ DOMAIN iocall'[t] = CRecord
      /\ iocall'[t].pc = "destroy" /\ iocall'[t].p = p /\ iocall'[t].k = iocp[i].k
      /\ \A u \in Threads \ {t} : iocall'[u] = iocall[u]
      BY <1>3, SMTT(30) DEF IoGoto, IoInv, Shape, CRecord
<1>5. Shape'
      BY <1>3, <1>4, ZenonT(30) DEF IoInv, Shape, CRecord
<1>6. ContextsMapped'
      BY <1>3, ZenonT(30) DEF IoInv, ContextsMapped
<1>7. "destroy" \notin {"setup", "add"}
      BY SMTT(30)
<1>8. \A u \in Threads : SettingUp(u)' => SettingUp(u) /\ iocall'[u].p = iocall[u].p
      BY <1>4, <1>7, ZenonT(30) DEF SettingUp
<1>9. IdsFresh'
      BY <1>3, <1>8, ZenonT(30) DEF IoInv, IdsFresh, HeldIds
<1>10. Calls'
  <2>1. CallOk(t)'
        BY <1>1, <1>3, <1>4, <1>7, ZenonT(30) DEF CallOk, SettingUp
  <2>2. ASSUME NEW u \in Threads \ {t} PROVE CallOk(u)'
    <3>1. iocall'[u] = iocall[u] /\ CallOk(u)
          BY <1>4, ZenonT(30) DEF IoInv, Calls
    <3>2. iocall[u].pc # "destroy"
          BY <3>1, <1>3, ZenonT(30) DEF CallOk
    <3> QED BY <3>1, <3>2, <1>3, ZenonT(30) DEF CallOk, SettingUp
  <2> QED BY <2>1, <2>2, ZenonT(30) DEF Calls
<1>11. NoteOk'
      BY <1>3, ZenonT(30) DEF IoInv, NoteOk, NoNote
<1> QED BY <1>5, <1>6, <1>9, <1>10, <1>11, ZenonT(30) DEF IoInv

\* io_destroy of a context the kernel knows: its entry goes, and the others keep theirs.
LEMMA DestroyOk ==
    ASSUME IoInv, NEW t \in Threads, SYS_io_destroy(t), kernel[iocall[t].k].owner # 0 PROVE IoInv'
<1>1. iocall[t].pc = "destroy" /\ CallOk(t)
      BY ZenonT(30) DEF SYS_io_destroy, IoAt, IoInv, Calls
<1>2. PICK i \in DOMAIN iocp : iocp[i].p = iocall[t].p /\ iocp[i].k = iocall[t].k
      BY <1>1, ZenonT(30) DEF CallOk
<1>3. iocp \in Seq(Entry) /\ Distinct(iocp) /\ held = Pairs(iocp)
      BY ZenonT(30) DEF IoInv, Shape, ContextsMapped
<1>4. First(Entries(iocall[t].p)) = i
      BY <1>2, <1>3, FirstOk, ZenonT(30)
<1>5. /\ kernel' = [kernel EXCEPT ![iocall[t].k] = Unused]
      /\ iocp' = Shifted(iocp, i) /\ held' = {h \in held : h[1] # iocp[i].p}
      /\ UNCHANGED <<km_piocontext, note, forked>> /\ IoGoto(t, NoIo)
      BY <1>2, <1>4, ZenonT(30) DEF SYS_io_destroy, IoReturn
<1>6. /\ Shifted(iocp, i) \in Seq(Entry)
      /\ Pairs(Shifted(iocp, i)) = {h \in Pairs(iocp) : h[1] # iocp[i].p}
      /\ Distinct(Shifted(iocp, i))
      /\ \A j \in DOMAIN Shifted(iocp, i) : \E l \in DOMAIN iocp : l # i /\ Shifted(iocp, i)[j] = iocp[l]
      BY <1>3, ShiftedOk, ZenonT(30)
<1>7. /\ iocp' \in Seq(Entry) /\ held' = Pairs(iocp') /\ Distinct(iocp')
      /\ \A j \in DOMAIN iocp' : \E l \in DOMAIN iocp : l # i /\ iocp'[j] = iocp[l]
      BY <1>3, <1>5, <1>6, ZenonT(30)
<1>8. /\ DOMAIN iocall' = Threads /\ iocall'[t] = NoIo /\ DOMAIN NoIo = CRecord /\ NoIo.pc = "idle"
      /\ \A u \in Threads \ {t} : iocall'[u] = iocall[u]
      BY <1>5, SMTT(30) DEF IoGoto, IoInv, Shape, CRecord, NoIo
<1>9. /\ DOMAIN kernel' = KContexts /\ \A x \in KContexts : DOMAIN kernel'[x] = KRecord
      /\ \A x \in KContexts : x # iocall[t].k => kernel'[x] = kernel[x]
      BY <1>5, SMTT(30) DEF IoInv, Shape, KRecord, Unused
<1>10. Shape'
      BY <1>5, <1>7, <1>8, <1>9, ZenonT(30) DEF IoInv, Shape, KRecord, CRecord
<1>11. ContextsMapped'
  <2>1. ASSUME ~forked', NEW j \in DOMAIN iocp'
        PROVE  kernel'[iocp'[j].k].owner = iocp'[j].p /\ kernel'[iocp'[j].k].nr = iocp'[j].nr
    <3>1. PICK l \in DOMAIN iocp : l # i /\ iocp'[j] = iocp[l]
          BY <1>7, ZenonT(30)
    <3>2. ~forked
          BY <2>1, <1>5, ZenonT(30)
    <3>3. kernel[iocp[l].k].owner = iocp[l].p /\ kernel[iocp[l].k].nr = iocp[l].nr
          BY <3>2, ZenonT(30) DEF IoInv, ContextsMapped
    <3>4. iocp[l].k # iocall[t].k
          BY <3>1, <3>2, <1>2, Owned, ZenonT(30)
    <3>5. iocp[l].k \in KContexts
          BY <1>3, EntryTyped, ZenonT(30)
    <3> QED BY <3>1, <3>3, <3>4, <3>5, <1>9, ZenonT(30)
  <2> QED BY <2>1, <1>7, ZenonT(30) DEF ContextsMapped
<1>12. "idle" \notin InTable
      BY SMTT(30) DEF InTable
<1>13. \A u \in Threads : iocall'[u].pc \in InTable => u # t /\ iocall'[u] = iocall[u]
      BY <1>8, <1>12, ZenonT(30)
<1>14. \A u \in Threads : SettingUp(u)' => SettingUp(u) /\ iocall'[u].p = iocall[u].p
      BY <1>13, ZenonT(30) DEF SettingUp, InTable
<1>15. HeldIds' \subseteq HeldIds
      BY <1>5, ZenonT(30) DEF HeldIds
<1>16. IdsFresh'
      BY <1>5, <1>14, <1>15, ZenonT(30) DEF IoInv, IdsFresh
<1>17. Calls'
  <2>1. SUFFICES ASSUME NEW u \in Threads, iocall'[u].pc \in InTable
                 PROVE  CallOk(u)'
        BY ZenonT(30) DEF Calls, CallOk, SettingUp, InTable
  <2>2. u # t /\ iocall'[u] = iocall[u] /\ CallOk(u)
        BY <2>1, <1>13, ZenonT(30) DEF IoInv, Calls
  <2>3. iocall[u].pc # "destroy"
        BY <2>2, <1>1, ZenonT(30) DEF CallOk
  <2>4. iocall[u].pc = "add" /\ ~forked => kernel'[iocall[u].k] = kernel[iocall[u].k]
        BY <2>2, <1>2, <1>9, Owned, ZenonT(30) DEF CallOk
  <2> QED BY <2>2, <2>3, <2>4, <1>5, ZenonT(30) DEF CallOk, SettingUp
<1>18. NoteOk'
      BY <1>5, ZenonT(30) DEF IoInv, NoteOk, NoNote
<1> QED BY <1>10, <1>11, <1>16, <1>17, <1>18, ZenonT(30) DEF IoInv

\* A snapshot saves the table.
LEMMA SnapshotOk == ASSUME IoInv, km_fs_iocontext_notes_write PROVE IoInv'
<1> DEFINE saved == [i \in DOMAIN iocp |-> [p |-> iocp[i].p, nr |-> iocp[i].nr]]
<1>1. /\ note' = [contexts |-> saved, piocontext |-> km_piocontext, held |-> held]
      /\ UNCHANGED <<kernel, iocp, km_piocontext, km_iocmutex, iocall, held, forked>>
      BY ZenonT(30) DEF km_fs_iocontext_notes_write
<1>2. DOMAIN saved = DOMAIN iocp /\ \A i \in DOMAIN iocp : saved[i].p = iocp[i].p /\ saved[i].nr = iocp[i].nr
      BY SMTT(30)
<1>3. saved \in Seq(Saved)
  <2>1. \A i \in DOMAIN iocp : saved[i] \in Saved
        BY EntryTyped, SMTT(30) DEF IoInv, Shape, Saved
  <2>2. DOMAIN iocp = 1 .. Len(iocp) /\ Len(iocp) \in Nat
        BY SMTT(30) DEF IoInv, Shape
  <2>3. saved = [i \in 1 .. Len(iocp) |-> saved[i]]
        BY <2>2, ZenonT(30)
  <2> HIDE DEF saved
  <2> QED BY <2>1, <2>2, <2>3, SMTT(30)
<1> HIDE DEF saved
<1>4. note'.contexts = saved /\ note'.piocontext = km_piocontext /\ note'.held = held
      BY <1>1, SMTT(30)
<1>5. held = Pairs(saved) /\ Distinct(saved)
  <2>1. held = Pairs(iocp) /\ Distinct(iocp)
        BY ZenonT(30) DEF IoInv, ContextsMapped
  <2>2. Distinct(saved)
        BY <2>1, <1>2, ZenonT(30) DEF Distinct
  <2>3. \A i \in DOMAIN iocp : <<saved[i].p, saved[i].nr>> = <<iocp[i].p, iocp[i].nr>>
        BY <1>2, ZenonT(30)
  <2>4. ASSUME NEW x \in Pairs(iocp) PROVE x \in Pairs(saved)
        BY <2>3, <2>4, <1>2, ZenonT(30) DEF Pairs
  <2>5. ASSUME NEW x \in Pairs(saved) PROVE x \in Pairs(iocp)
        BY <2>3, <2>5, <1>2, ZenonT(30) DEF Pairs
  <2>6. Pairs(iocp) = Pairs(saved)
        BY <2>4, <2>5, ZenonT(30)
  <2> QED BY <2>1, <2>2, <2>6, ZenonT(30)
<1>6. \A i \in DOMAIN saved : saved[i].p <= km_piocontext
      BY <1>2, HeldInTable, ZenonT(30) DEF IoInv, IdsFresh
<1>7. NoteOk'
      BY <1>3, <1>4, <1>5, <1>6, ZenonT(30) DEF NoteOk, IoInv, Shape
<1>8. (Shape /\ ContextsMapped /\ IdsFresh /\ Calls)'
      BY <1>1, ZenonT(30) DEF IoInv, Shape, ContextsMapped, IdsFresh, HeldIds, SettingUp, Calls, CallOk
<1> QED BY <1>7, <1>8, ZenonT(30) DEF IoInv

\* A restore builds the table of the note, with fresh kernel contexts.
LEMMA RestoreOk == ASSUME IoInv, km_fs_recover_iocontexts PROVE IoInv'
<1>1. note # NoNote /\ NoteOk
      BY ZenonT(30) DEF km_fs_recover_iocontexts, IoInv
<1> DEFINE ctx == note.contexts
<1>2. PICK f \in [DOMAIN ctx -> KContexts] :
        /\ \A i, j \in DOMAIN f : f[i] = f[j] => i = j
        /\ iocp' = [i \in DOMAIN f |-> [p |-> ctx[i].p, k |-> f[i], nr |-> ctx[i].nr]]
        /\ kernel' = [k \in KContexts |->
                        IF \E i \in DOMAIN f : f[i] = k
                        THEN LET c == ctx[CHOOSE i \in DOMAIN f : f[i] = k]
                             IN  [Unused EXCEPT !.owner = c.p, !.nr = c.nr]
                        ELSE Unused]
      BY ZenonT(30) DEF km_fs_recover_iocontexts
<1>3. /\ km_piocontext' = note.piocontext /\ iocall' = [t \in Threads |-> NoIo]
      /\ held' = note.held /\ note' = NoNote
      BY ZenonT(30) DEF km_fs_recover_iocontexts, RecoveredId
<1>4. /\ ctx \in Seq(Saved) /\ note.piocontext \in Nat /\ note.held = Pairs(ctx) /\ Distinct(ctx)
      /\ \A i \in DOMAIN ctx : ctx[i].p <= note.piocontext
      BY <1>1, ZenonT(30) DEF NoteOk
<1> HIDE DEF ctx
<1>5. DOMAIN f = DOMAIN ctx /\ \A i \in DOMAIN ctx : f[i] \in KContexts
      BY <1>2, ZenonT(30)
<1>6. \A i \in DOMAIN ctx : ctx[i].p \in Ids /\ ctx[i].nr \in NrEvents
  <2>1. \A i \in DOMAIN ctx : ctx[i] \in Saved
        BY <1>4, SMTT(30)
  <2> QED BY <2>1, SMTT(30) DEF Saved
<1>7. /\ DOMAIN iocp' = DOMAIN ctx
      /\ \A i \in DOMAIN ctx : iocp'[i].p = ctx[i].p /\ iocp'[i].nr = ctx[i].nr /\ iocp'[i].k = f[i]
  <2>1. iocp' = [i \in DOMAIN ctx |-> [p |-> ctx[i].p, k |-> f[i], nr |-> ctx[i].nr]]
        BY <1>2, <1>5, ZenonT(30)
  <2> QED BY <2>1, SMTT(30)
<1>8. iocp' \in Seq(Entry)
  <2>0. iocp' = [i \in DOMAIN ctx |-> [p |-> ctx[i].p, k |-> f[i], nr |-> ctx[i].nr]]
        BY <1>2, <1>5, ZenonT(30)
  <2>1. \A i \in DOMAIN ctx : iocp'[i] \in Entry
        BY <2>0, <1>5, <1>6, SMTT(30) DEF Entry
  <2>2. DOMAIN ctx = 1 .. Len(ctx) /\ Len(ctx) \in Nat
        BY <1>4, SMTT(30)
  <2>3. iocp' = [i \in 1 .. Len(ctx) |-> iocp'[i]]
        BY <2>0, <2>2, SMTT(30)
  <2> QED BY <2>1, <2>2, <2>3, SMTT(30)
<1>9. DOMAIN kernel' = KContexts /\ \A k \in KContexts : DOMAIN kernel'[k] = KRecord
  <2>1. DOMAIN Unused = KRecord
        BY SMTT(30) DEF Unused, KRecord
  <2>2. \A c, d : DOMAIN [Unused EXCEPT !.owner = c, !.nr = d] = KRecord
        BY SMTT(30) DEF Unused, KRecord
  <2> QED BY <2>1, <2>2, <1>2, ZenonT(30)
<1>10. \A i \in DOMAIN ctx : kernel'[f[i]].owner = ctx[i].p /\ kernel'[f[i]].nr = ctx[i].nr
  <2> DEFINE made(c, d) == [Unused EXCEPT !.owner = c, !.nr = d]
  <2>1. ASSUME NEW i \in DOMAIN ctx PROVE (CHOOSE j \in DOMAIN f : f[j] = f[i]) = i
        BY <1>2, <1>5, ZenonT(30)
  <2>2. \A i \in DOMAIN ctx : kernel'[f[i]] = made(ctx[i].p, ctx[i].nr)
        BY <2>1, <1>2, <1>5, ZenonT(30)
  <2>3. \A c, d : made(c, d).owner = c /\ made(c, d).nr = d
        BY SMTT(30) DEF Unused
  <2> HIDE DEF made
  <2>4. ASSUME NEW i \in DOMAIN ctx PROVE kernel'[f[i]].owner = ctx[i].p /\ kernel'[f[i]].nr = ctx[i].nr
    <3>1. PICK r : r = made(ctx[i].p, ctx[i].nr)
          OBVIOUS
    <3>2. r.owner = ctx[i].p /\ r.nr = ctx[i].nr
          BY <3>1, <2>3, SMTT(30)
    <3>3. kernel'[f[i]] = r
          BY <3>1, <2>2, SMTT(30)
    <3> QED BY <3>2, <3>3, ZenonT(30)
  <2> QED BY <2>4, ZenonT(30)
<1>11. /\ DOMAIN iocall' = Threads /\ DOMAIN NoIo = CRecord /\ NoIo.pc = "idle"
       /\ \A t \in Threads : iocall'[t] = NoIo
      BY <1>3, SMTT(30) DEF NoIo, CRecord
<1>12. Shape'
      BY <1>3, <1>4, <1>8, <1>9, <1>11, ZenonT(30) DEF Shape, KRecord, CRecord
<1>13. held' = Pairs(iocp')
  <2>1. held' = Pairs(ctx)
        BY <1>3, <1>4, ZenonT(30)
  <2>2. \A i \in DOMAIN ctx : <<iocp'[i].p, iocp'[i].nr>> = <<ctx[i].p, ctx[i].nr>>
        BY <1>7, ZenonT(30)
  <2>3. ASSUME NEW x \in Pairs(ctx) PROVE x \in Pairs(iocp')
        BY <2>2, <2>3, <1>7, ZenonT(30) DEF Pairs
  <2>4. ASSUME NEW x \in Pairs(iocp') PROVE x \in Pairs(ctx)
        BY <2>2, <2>4, <1>7, ZenonT(30) DEF Pairs
  <2> QED BY <2>1, <2>3, <2>4, ZenonT(30)
<1>14. ContextsMapped'
  <2>1. Distinct(iocp')
        BY <1>4, <1>7, ZenonT(30) DEF Distinct
  <2>2. \A i \in DOMAIN iocp' : kernel'[iocp'[i].k].owner = iocp'[i].p /\ kernel'[iocp'[i].k].nr = iocp'[i].nr
        BY <1>7, <1>10, ZenonT(30)
  <2> QED BY <2>1, <2>2, <1>13, ZenonT(30) DEF ContextsMapped
<1>15. "idle" \notin InTable
      BY SMTT(30) DEF InTable
<1>16. \A t \in Threads : iocall'[t].pc \notin InTable
      BY <1>11, <1>15, ZenonT(30)
<1>17. IdsFresh'
  <2>1. ASSUME NEW p \in HeldIds' PROVE p <= km_piocontext'
    <3>1. PICK h \in held' : h[1] = p
          BY ZenonT(30) DEF HeldIds
    <3>2. PICK i \in DOMAIN ctx : h = <<ctx[i].p, ctx[i].nr>>
          BY <1>3, <1>4, ZenonT(30) DEF Pairs
    <3>3. p = ctx[i].p
          BY <3>1, <3>2, SMTT(30)
    <3> QED BY <3>3, <1>3, <1>4, ZenonT(30)
  <2>2. \A t \in Threads : ~SettingUp(t)'
        BY <1>16, ZenonT(30) DEF SettingUp, InTable
  <2> QED BY <2>1, <2>2, ZenonT(30) DEF IdsFresh
<1>18. Calls'
      BY <1>16, ZenonT(30) DEF Calls, CallOk, SettingUp, InTable
<1>19. NoteOk'
      BY <1>3, ZenonT(30) DEF NoteOk, NoNote
<1> QED BY <1>12, <1>14, <1>17, <1>18, <1>19, ZenonT(30) DEF IoInv

\* The child of a fork keeps the table, and no call.
LEMMA ForkOk == ASSUME IoInv, NEW t \in Threads, Fork(t) PROVE IoInv'
<1>1. /\ UNCHANGED <<iocp, km_piocontext, km_iocmutex, held, note>> /\ forked' = TRUE
      /\ kernel' = [k \in KContexts |-> Unused]
      /\ iocall' = [u \in Threads |-> IF u = t THEN NoIo ELSE [NoIo EXCEPT !.pc = "gone"]]
      BY ZenonT(30) DEF Fork
<1>2. DOMAIN kernel' = KContexts /\ \A k \in KContexts : DOMAIN kernel'[k] = KRecord
      BY <1>1, SMTT(30) DEF Unused, KRecord
<1>3. /\ DOMAIN iocall' = Threads
      /\ \A u \in Threads : DOMAIN iocall'[u] = CRecord /\ iocall'[u].pc \notin InTable
      BY <1>1, SMTT(30) DEF NoIo, CRecord, InTable
<1>4. Shape'
      BY <1>1, <1>2, <1>3, ZenonT(30) DEF IoInv, Shape, KRecord, CRecord
<1>5. ContextsMapped'
      BY <1>1, ZenonT(30) DEF IoInv, ContextsMapped
<1>6. IdsFresh'
      BY <1>1, <1>3, ZenonT(30) DEF IoInv, IdsFresh, HeldIds, SettingUp, InTable
<1>7. Calls'
      BY <1>3, ZenonT(30) DEF Calls, CallOk, SettingUp, InTable
<1>8. NoteOk'
      BY <1>1, ZenonT(30) DEF IoInv, NoteOk, NoNote
<1> QED BY <1>4, <1>5, <1>6, <1>7, <1>8, ZenonT(30) DEF IoInv

-----------------------------------------------------------------------------
(* The theorems *)

\* The invariant holds at the start: an empty table.
LEMMA InitIoInv == IoInit => IoInv
<1> SUFFICES ASSUME IoInit PROVE IoInv
    OBVIOUS
<1>1. /\ DOMAIN kernel = KContexts /\ iocp = <<>> /\ km_piocontext = 0 /\ DOMAIN iocall = Threads
      /\ held = {} /\ note = NoNote
      BY ZenonT(30) DEF IoInit
<1>2. \A k \in KContexts : DOMAIN kernel[k] = KRecord
      BY SMTT(30) DEF IoInit, Unused, KRecord
<1>3. \A t \in Threads : DOMAIN iocall[t] = CRecord /\ iocall[t].pc \notin InTable
      BY SMTT(30) DEF IoInit, NoIo, CRecord, InTable
<1>4. <<>> \in Seq(Entry) /\ DOMAIN <<>> = {} /\ 0 \in Nat
      BY SMTT(30)
<1>5. Shape
      BY <1>1, <1>2, <1>3, <1>4, ZenonT(30) DEF Shape, KRecord, CRecord
<1>6. ContextsMapped
      BY <1>1, <1>4, ZenonT(30) DEF ContextsMapped, Pairs, Distinct
<1>7. IdsFresh /\ Calls
      BY <1>1, <1>3, ZenonT(30) DEF IdsFresh, HeldIds, Calls, CallOk, SettingUp, InTable
<1>8. NoteOk
      BY <1>1, ZenonT(30) DEF NoteOk
<1> QED BY <1>5, <1>6, <1>7, <1>8, ZenonT(30) DEF IoInv

\* Every step keeps it.
LEMMA NextIoInv == ASSUME NoOne \notin Threads, IoInv, FsNext PROVE IoInv'
<1>1. CASE UNCHANGED iovars
      BY <1>1, ZenonT(30) DEF iovars, IoInv, Shape, ContextsMapped, IdsFresh, HeldIds, SettingUp, Calls, CallOk, NoteOk, NoNote
<1>2. ASSUME NEW t \in Threads, SYS_io_setup(t) PROVE IoInv'
  <2>1. CASE IoReturn(t) /\ UNCHANGED kernel
        BY <1>2, <2>1, Returns, ZenonT(30) DEF SYS_io_setup
  <2> QED BY <1>2, <2>1, SetupOk, ZenonT(30) DEF SYS_io_setup
<1>3. ASSUME NEW t \in Threads, km_iocontext_recover(t) PROVE IoInv'
      BY <1>3, RecoverOk, RecoverFails, ZenonT(30) DEF km_iocontext_recover
<1>4. ASSUME NEW t \in Threads, SYS_io_destroy(t) PROVE IoInv'
  <2>1. CASE kernel[iocall[t].k].owner # 0
        BY <1>4, <2>1, DestroyOk, ZenonT(30)
  <2>2. CASE kernel[iocall[t].k].owner = 0
        BY <1>4, <2>2, Returns, ZenonT(30) DEF SYS_io_destroy
  <2> QED BY <2>1, <2>2, ZenonT(30)
<1>5. ASSUME NEW t \in Threads, SYS_io_submit(t) \/ SYS_io_getevents(t) \/ SYS_io_cancel(t) PROVE IoInv'
  <2>1. UNCHANGED <<iocp, km_piocontext, km_iocmutex, held, note, forked>>
        BY <1>5, ZenonT(30) DEF SYS_io_submit, SYS_io_getevents, SYS_io_cancel
  <2>2. CASE Refused(t)
        BY <2>1, <2>2, Returns, ZenonT(30) DEF Refused
  <2>3. CASE \E r, d, n, next : next \in {"count", "uncount"} /\ KernelCall(t, r, d, n, next)
        BY <2>1, <2>3, KernelCallOk, ZenonT(30)
  <2> QED BY <1>5, <2>2, <2>3, ZenonT(30) DEF SYS_io_submit, SYS_io_getevents, SYS_io_cancel
<1>6. ASSUME NEW t \in Threads, Count(t) PROVE IoInv'
      BY <1>6, Returns, ZenonT(30) DEF Count
<1>7. ASSUME NEW t \in Threads, NEW p, UsingContext(t, p) PROVE IoInv'
  <2>1. CASE km_iocontext_remove(t, p)
        BY <2>1, RemoveOk, ZenonT(30)
  <2>2. ASSUME NEW name \in {"io_submit", "io_getevents", "io_cancel"}, km_iocontext_xlate_p2k(t, p, name)
        PROVE  IoInv'
    <3> DEFINE c == [pc |-> name, p |-> p, k |-> Translated(p), n |-> 0]
    <3>1. DOMAIN c = CRecord /\ c.pc \notin InTable
          BY SMTT(30) DEF CRecord, InTable
    <3>2. IoGoto(t, c) /\ UNCHANGED <<kernel, iocp, km_piocontext, km_iocmutex, held, note, forked>>
          BY <2>2, ZenonT(30) DEF km_iocontext_xlate_p2k
    <3> HIDE DEF c
    <3> QED BY <3>1, <3>2, MovesOn, ZenonT(30)
  <2> QED BY <1>7, <2>1, <2>2, ZenonT(30) DEF UsingContext
<1> QED BY <1>1, <1>2, <1>3, <1>4, <1>5, <1>6, <1>7, AddOk, CompleteOk, ForkOk, SnapshotOk, RestoreOk, ZenonT(30)
           DEF FsNext, IoNext

\* The invariant of the table, over every behaviour.
LEMMA IoInvCorrect == ASSUME NoOne \notin Threads PROVE FsSpec => []IoInv
<1>1. IoInit => IoInv
      BY InitIoInv, ZenonT(30)
<1>2. IoInv /\ [FsNext]_<<vars, iovars>> => IoInv'
  <2>1. CASE UNCHANGED <<vars, iovars>>
        BY <2>1, ZenonT(30) DEF iovars, IoInv, Shape, ContextsMapped, IdsFresh, HeldIds, SettingUp, Calls, CallOk, NoteOk, NoNote
  <2> QED BY <2>1, NextIoInv, ZenonT(30)
<1> QED BY <1>1, <1>2, PTL DEF FsSpec, FsInit

\* For every number of threads, contexts and requests, with calls of io_setup,
\* io_destroy, io_submit, io_getevents and io_cancel in any interleaving and over
\* snapshots and forks: the ids the payload holds are those of km_iocp, each once,
\* and each has its own kernel context (but in the child of a fork).
THEOREM ContextsMappedCorrect == ASSUME NoOne \notin Threads PROVE FsSpec => []ContextsMapped
<1>1. IoInv => ContextsMapped
      BY ZenonT(30) DEF IoInv
<1> QED BY <1>1, IoInvCorrect, PTL

\* Likewise km_iocontext_add never gives out an id that is in use.
THEOREM IdsFreshCorrect == ASSUME NoOne \notin Threads PROVE FsSpec => []IdsFresh
<1>1. IoInv => IdsFresh
      BY ZenonT(30) DEF IoInv
<1> QED BY <1>1, IoInvCorrect, PTL
=============================================================================
