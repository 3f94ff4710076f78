-------------------------- MODULE GdbPacketsProofs --------------------------
(* Theorems about GdbPackets: breakpoints, for every set of addresses, any     *)
(* number of debug registers and whatever the client writes.                   *)
EXTENDS GdbPackets, Integers, TLAPS

-----------------------------------------------------------------------------
(* The lists of sys/queue.h *)

\* The empty list, and the length of one that is not empty.
LEMMA EmptyFacts ==
    ASSUME NEW S PROVE <<>> \in Seq(S) /\ Len(<<>>) = 0 /\ \A s \in Seq(S) : s # <<>> => Len(s) \in Nat \ {0}
  OBVIOUS

\* A list of one entry.
LEMMA SingletonFacts ==
    ASSUME NEW S, NEW x \in S PROVE <<x>> \in Seq(S) /\ Len(<<x>>) = 1 /\ <<x>>[1] = x
  OBVIOUS

\* What a concatenation holds, position by position.
LEMMA ConcatFacts ==
    ASSUME NEW S, NEW a \in Seq(S), NEW b \in Seq(S)
    PROVE  /\ a \o b \in Seq(S)
           /\ Len(a \o b) = Len(a) + Len(b)
           /\ \A j \in 1 .. Len(a) + Len(b) : (a \o b)[j] = IF j <= Len(a) THEN a[j] ELSE b[j - Len(a)]
  OBVIOUS

\* TAILQ_INSERT_HEAD.
LEMMA PushedFacts ==
    ASSUME NEW S, NEW x \in S, NEW b \in Seq(S), NEW q, q = <<x>> \o b
    PROVE  /\ q \in Seq(S)
           /\ Len(q) = 1 + Len(b)
           /\ \A j \in 1 .. 1 + Len(b) : q[j] = IF j <= 1 THEN x ELSE b[j - 1]
<1> DEFINE a == <<x>>
<1>1. a \in Seq(S) /\ Len(a) = 1 /\ a[1] = x
  BY Zenon, SingletonFacts
<1> HIDE DEF a
<1>2. /\ a \o b \in Seq(S)
      /\ Len(a \o b) = Len(a) + Len(b)
      /\ \A j \in 1 .. Len(a) + Len(b) : (a \o b)[j] = IF j <= Len(a) THEN a[j] ELSE b[j - Len(a)]
  BY <1>1, ConcatFacts, ZenonT(30)
<1>3. /\ a \o b \in Seq(S)
      /\ Len(a \o b) = 1 + Len(b)
      /\ \A j \in 1 .. 1 + Len(b) : (a \o b)[j] = IF j <= 1 THEN x ELSE b[j - 1]
  <2>1. \A j \in 1 .. 1 + Len(b) : j <= 1 => j = 1
    OBVIOUS
  <2>2. QED
    BY <1>1, <1>2, <2>1
<1>4. QED
  BY Zenon, <1>3 DEF a

\* TAILQ_REMOVE of the i-th entry.
LEMMA RemovedFacts ==
    ASSUME NEW S, NEW s \in Seq(S), NEW i \in 1 .. Len(s)
    PROVE  /\ Removed(s, i) \in Seq(S)
           /\ Len(Removed(s, i)) = Len(s) - 1
           /\ \A j \in 1 .. Len(s) - 1 : Removed(s, i)[j] = s[IF j < i THEN j ELSE j + 1]
<1> DEFINE a == SubSeq(s, 1, i - 1)
           b == SubSeq(s, i + 1, Len(s))
<1>1. a \in Seq(S) /\ Len(a) = i - 1 /\ \A j \in 1 .. i - 1 : a[j] = s[j]
  OBVIOUS
<1>2. b \in Seq(S) /\ Len(b) = Len(s) - i /\ \A j \in 1 .. Len(s) - i : b[j] = s[i + j]
  OBVIOUS
<1>3. Removed(s, i) = a \o b
  BY Zenon DEF Removed
<1> HIDE DEF a, b
<1>4. /\ a \o b \in Seq(S)
      /\ Len(a \o b) = Len(a) + Len(b)
      /\ \A j \in 1 .. Len(a) + Len(b) : (a \o b)[j] = IF j <= Len(a) THEN a[j] ELSE b[j - Len(a)]
  BY <1>1, <1>2, ConcatFacts, ZenonT(30)
<1>5. Len(a \o b) = Len(s) - 1
  BY <1>1, <1>2, <1>4
<1>6. ASSUME NEW j \in 1 .. Len(s) - 1 PROVE (a \o b)[j] = s[IF j < i THEN j ELSE j + 1]
  <2>1. CASE j < i
    BY <1>1, <1>2, <1>4, <2>1
  <2>2. CASE ~(j < i)
    <3>1. (a \o b)[j] = b[j - (i - 1)] /\ j - (i - 1) \in 1 .. Len(s) - i
      BY <1>1, <1>2, <1>4, <2>2
    <3>2. QED
      BY <1>2, <2>2, <3>1
  <2>3. QED
    BY <2>1, <2>2, ZenonT(30)
<1>7. QED
  BY Zenon, <1>3, <1>4, <1>5, <1>6

-----------------------------------------------------------------------------
(* The inductive invariant *)

PBytes == {"code", "other", "int3"} \cup Bytes
BpRecords(types) == [type : types, addr : Addrs, len : Sizes, saved : PBytes]
DrRecords == [addr : Addrs, len : Sizes, code : 0 .. 3]
Registers == [reported : Values \cup {0}, r12 : Values \cup {0}]
Hits == [how : {"int3", "step", "hw"}, addr : Nat, n : Nat, code : {0, 1, 3}, changed : BOOLEAN]

PayloadType ==
    payload \in [mem : [Addrs -> PBytes], prog : [Addrs -> PBytes], mapped : SUBSET Addrs,
                 disturbed : SUBSET Addrs, writes : Nat]
ListsType ==
    /\ sw \subseteq BpRecords({"SW"}) /\ hw \in Seq(BpRecords(HwTypes)) /\ Len(hw) <= MAX_HW_BREAKPOINTS
    /\ \A b, c \in sw : b.addr = c.addr => b = c
    /\ \A i, j \in 1 .. Len(hw) : hw[i].addr = hw[j].addr => i = j
DebugType ==
    /\ debug \in [step : BOOLEAN, sw : BOOLEAN, hw : Seq(DrRecords)]
    /\ dr_regs \in [1 .. MAX_HW_BREAKPOINTS -> Nat]
HitType ==
    /\ hit \in {NoHit} \cup Hits
    /\ hit.how = "hw" => hit.n \in 1 .. MAX_HW_BREAKPOINTS
    /\ reply \in {NoReply} \cup [how : {"trap", "hwbreak", "watch", "awatch"}, addr : Nat, of : Hits]
SessionType ==
    /\ attached \in BOOLEAN /\ crash \in {"none", "int3"}
    /\ regs \in [vcpu : Registers, buffer : Registers, client : Registers]
    /\ regs.vcpu.reported \in Values

\* A breakpoint nobody has written over is planted, and remembers the program's byte.
Planted ==
    /\ \A bp \in sw : bp.addr \notin payload.disturbed =>
          /\ bp.addr \in payload.mapped /\ payload.mem[bp.addr] = "int3"
          /\ bp.saved = payload.prog[bp.addr]
    /\ \A a \in payload.mapped \ payload.disturbed :
          (\A bp \in sw : bp.addr # a) => payload.mem[a] = payload.prog[a]
Watched ==
    /\ Len(debug.hw) = Len(hw)
    /\ \A n \in 1 .. Len(hw) : debug.hw[n].addr = hw[n].addr /\ dr_regs[n] = hw[n].addr
    /\ debug.sw => sw # {}
    /\ (\E bp \in sw : bp.addr \notin payload.disturbed) => debug.sw
Detached ==
    ~attached => /\ ~debug.step /\ hw = <<>>
                 /\ \A bp \in sw : bp.addr \in payload.disturbed
\* The register of a hit still holds its address, unless the lists have changed.
HitFresh ==
    /\ hit.how = "hw" /\ ~hit.changed => dr_regs[hit.n] = hit.addr
    /\ HitNamed

BpInv ==
    /\ PayloadType /\ ListsType /\ DebugType /\ HitType /\ SessionType
    /\ Planted /\ Watched /\ Detached /\ HitFresh

\* The rest of TypeOK.
TransferInv ==
    /\ subject \in Subjects
    /\ DOMAIN link = {"rx", "buf", "handled", "wire", "back", "client", "next", "replies", "corrupted"}
    /\ link.rx \in {"start", "data", "sum", "reply"} /\ link.client \in {"send", "ack", "reply"}
    /\ DOMAIN xfer = {"kind", "doc", "copy", "got", "state", "chunks"}
    /\ xfer.state \in {"read", "done", "error"}
    /\ DOMAIN vfile = {"fd", "host", "fs", "file", "reads", "got", "done"}
    /\ vfile.host \subseteq HostFds
    /\ DOMAIN vcont = {"packet", "run_state", "stepping", "delivered", "answer"}
    /\ vcont.answer \in {"none", "error", "resume"}
    /\ sig \in [linux : Signals \cup {1}, back : 0 .. 64]

-----------------------------------------------------------------------------
(* Init *)

\* The invariant of the breakpoints holds initially.
LEMMA InitBp == BpInit => BpInv
<1> SUFFICES ASSUME BpInit PROVE BpInv
  BY Zenon
<1> USE BreakpointsAssumption
<1>1. /\ payload.mem = [a \in Addrs |-> "code"] /\ payload.prog = [a \in Addrs |-> "code"]
      /\ payload.mapped = Addrs /\ payload.disturbed = {} /\ sw = {} /\ hw = <<>> /\ Len(hw) = 0
      /\ debug = NoDebug /\ debug.hw = <<>> /\ Len(debug.hw) = 0 /\ ~debug.step /\ ~debug.sw /\ attached
  BY Zenon DEF BpInit, NoDebug
<1>2. PayloadType
  BY Zenon DEF BpInit, PayloadType, PBytes
<1>3. ListsType
  BY <1>1, EmptyFacts DEF ListsType
<1>4. DebugType
  <2>1. debug.hw \in Seq(DrRecords)
    BY <1>1, EmptyFacts
  <2>2. dr_regs \in [1 .. MAX_HW_BREAKPOINTS -> Nat]
    BY Zenon DEF BpInit
  <2>3. QED
    BY Zenon, <1>1, <2>1, <2>2 DEF DebugType, NoDebug
<1>5. HitType /\ HitFresh
  BY Zenon DEF BpInit, HitType, HitFresh, HitNamed, NoHit, NoReply
<1>6. SessionType
  BY DEF BpInit, SessionType, Registers
<1>7. Planted /\ Watched /\ Detached
  BY <1>1 DEF Planted, Watched, Detached
<1>8. QED
  BY Zenon, <1>2, <1>3, <1>4, <1>5, <1>6, <1>7 DEF BpInv

-----------------------------------------------------------------------------
(* km_gdb_update_guest_debug *)

\* The code of a watchpoint fits the two bits of the debug control register.
LEMMA CodeType == \A type \in HwTypes : Code(type) \in 0 .. 3
BY BreakpointsAssumption DEF Code

\* It brings the registers in line with the lists it is given.
LEMMA UpdateFacts ==
    ASSUME DebugType, HitType, NEW step \in BOOLEAN, NEW newsw,
           NEW newhw \in Seq(BpRecords(HwTypes)), Len(newhw) <= MAX_HW_BREAKPOINTS,
           km_gdb_update_guest_debug(step, newsw, newhw), UNCHANGED reply
    PROVE  /\ DebugType' /\ HitType'
           /\ debug'.step = step /\ debug'.sw = (newsw # {}) /\ Len(debug'.hw) = Len(newhw)
           /\ \A n \in 1 .. Len(newhw) : debug'.hw[n].addr = newhw[n].addr /\ dr_regs'[n] = newhw[n].addr
           /\ hit'.how = "hw" => hit'.changed
<1> USE BreakpointsAssumption
<1> DEFINE h == [n \in DOMAIN newhw |-> [addr |-> newhw[n].addr, len |-> newhw[n].len,
                                         code |-> Code(newhw[n].type)]]
<1>0. DOMAIN newhw = 1 .. Len(newhw) /\ Len(newhw) \in Nat
  OBVIOUS
<1>1. \A n \in 1 .. Len(newhw) : newhw[n] \in BpRecords(HwTypes)
  OBVIOUS
<1>2. \A n \in 1 .. Len(newhw) :
         [addr |-> newhw[n].addr, len |-> newhw[n].len, code |-> Code(newhw[n].type)]
           \in DrRecords
  BY ZenonT(60), <1>1, CodeType DEF BpRecords, DrRecords
<1>3. h \in Seq(DrRecords) /\ Len(h) = Len(newhw)
  <2>1. h \in [1 .. Len(newhw) -> DrRecords]
    BY Zenon, <1>0, <1>2
  <2>2. QED
    BY <1>0, <2>1
<1>4. \A n \in 1 .. Len(newhw) : h[n].addr = newhw[n].addr
  BY Zenon, <1>0
<1>5. debug' = [step |-> step, sw |-> newsw # {}, hw |-> h]
  BY Zenon DEF km_gdb_update_guest_debug
<1> HIDE DEF h
<1>6. dr_regs' = [n \in 1 .. MAX_HW_BREAKPOINTS |-> IF n \in 1 .. Len(newhw) THEN newhw[n].addr ELSE dr_regs[n]]
  BY Zenon, <1>0 DEF km_gdb_update_guest_debug, DebugType
<1>7. dr_regs' \in [1 .. MAX_HW_BREAKPOINTS -> Nat]
  BY ZenonT(60), <1>1, <1>6 DEF DebugType, BpRecords
<1>8. \A n \in 1 .. Len(newhw) : dr_regs'[n] = newhw[n].addr
  BY <1>0, <1>6
<1>9. HitType' /\ (hit'.how = "hw" => hit'.changed)
  <2>1. hit' = IF hit.how = "none" THEN hit ELSE [hit EXCEPT !.changed = TRUE]
    BY Zenon DEF km_gdb_update_guest_debug
  <2>2. CASE hit = NoHit
    BY Zenon, <2>1, <2>2 DEF HitType, NoHit
  <2>3. CASE hit \in Hits
    <3>1. hit' = [hit EXCEPT !.changed = TRUE] /\ hit'.how = hit.how /\ hit'.n = hit.n
      BY Zenon, <2>1, <2>3 DEF Hits
    <3>2. hit' \in Hits /\ hit'.changed
      BY ZenonT(60), <2>3, <3>1 DEF Hits
    <3>3. QED
      BY Zenon, <3>1, <3>2 DEF HitType
  <2>4. QED
    BY Zenon, <2>2, <2>3 DEF HitType
<1>10. DebugType'
  BY Zenon, <1>3, <1>5, <1>7 DEF DebugType
<1>11. QED
  BY Zenon, <1>3, <1>4, <1>5, <1>8, <1>9, <1>10

\* A reply that stays names its hit; the parts that look at the lists.
LEMMA ReplyStays == HitFresh /\ UNCHANGED reply => HitNamed'
BY Zenon DEF HitFresh, HitNamed

\* A command that only changes the lists, the memory under them and the registers.
LEMMA ListsMatch ==
    ASSUME BpInv, attached, UNCHANGED <<attached, reply, regs, crash>>, ListsType', PayloadType', Planted',
           km_gdb_update_guest_debug(debug.step, sw', hw')
    PROVE  BpInv'
<1>1. debug.step \in BOOLEAN /\ hw' \in Seq(BpRecords(HwTypes)) /\ Len(hw') <= MAX_HW_BREAKPOINTS
  BY Zenon DEF BpInv, DebugType, ListsType
<1>2. /\ DebugType' /\ HitType'
      /\ debug'.sw = (sw' # {}) /\ Len(debug'.hw) = Len(hw')
      /\ \A n \in 1 .. Len(hw') : debug'.hw[n].addr = hw'[n].addr /\ dr_regs'[n] = hw'[n].addr
      /\ hit'.how = "hw" => hit'.changed
  BY Zenon, <1>1, UpdateFacts DEF BpInv
<1>3. Watched'
  BY ZenonT(60), <1>2 DEF Watched
<1>4. HitFresh'
  BY Zenon, <1>2, ReplyStays DEF BpInv, HitFresh
<1>5. SessionType' /\ Detached'
  BY Zenon DEF BpInv, SessionType, Detached
<1>6. QED
  BY Zenon, <1>2, <1>3, <1>4, <1>5 DEF BpInv

-----------------------------------------------------------------------------
(* Setting and clearing a breakpoint *)

\* Planting a trap instruction keeps the invariant.
LEMMA AddTrap ==
    ASSUME BpInv, NEW a \in Addrs, NEW len \in Sizes, km_gdb_add_breakpoint("SW", a, len)
    PROVE  BpInv'
<1> DEFINE bp == [type |-> "SW", addr |-> a, len |-> len, saved |-> payload.mem[a]]
<1>1. /\ sw' = sw \cup {bp} /\ hw' = hw /\ payload' = [payload EXCEPT !.mem[a] = "int3"]
      /\ km_gdb_update_guest_debug(debug.step, sw', hw) /\ attached
      /\ UNCHANGED <<attached, reply, regs, crash>> /\ a \in payload.mapped
  BY Zenon DEF km_gdb_add_breakpoint, Talks, Poke
<1>2. \A b \in sw : b.addr # a
  BY Zenon DEF km_gdb_add_breakpoint, bp_list_find, bp_list
<1>3. bp \in BpRecords({"SW"}) /\ bp.addr = a /\ bp.saved = payload.mem[a]
  BY Zenon DEF BpInv, PayloadType, BpRecords
<1>4. /\ payload'.mem = [payload.mem EXCEPT ![a] = "int3"] /\ payload'.prog = payload.prog
      /\ payload'.mapped = payload.mapped /\ payload'.disturbed = payload.disturbed
      /\ payload.mem \in [Addrs -> PBytes] /\ payload.mapped \subseteq Addrs
  BY Zenon, <1>1 DEF BpInv, PayloadType
<1>5. PayloadType'
  BY Zenon, <1>1 DEF BpInv, PayloadType, PBytes
<1> HIDE DEF bp
<1>6. ListsType'
  BY Zenon, <1>1, <1>2, <1>3 DEF BpInv, ListsType
<1>7. Planted'
  <2>1. ASSUME NEW b \in sw', b.addr \notin payload'.disturbed
        PROVE  /\ b.addr \in payload'.mapped /\ payload'.mem[b.addr] = "int3"
               /\ b.saved = payload'.prog[b.addr]
    <3>1. CASE b = bp
      BY <1>1, <1>2, <1>3, <1>4, <2>1, <3>1 DEF BpInv, Planted
    <3>2. CASE b \in sw
      <4>1. b.addr \in payload.mapped /\ payload.mem[b.addr] = "int3" /\ b.saved = payload.prog[b.addr]
        BY Zenon, <1>4, <2>1, <3>2 DEF BpInv, Planted
      <4>2. b.addr # a
        BY Zenon, <1>2, <3>2
      <4>3. QED
        BY Zenon, <1>4, <4>1, <4>2
    <3>3. QED
      BY Zenon, <1>1, <3>1, <3>2
  <2>2. ASSUME NEW c \in payload'.mapped \ payload'.disturbed, \A b \in sw' : b.addr # c
        PROVE  payload'.mem[c] = payload'.prog[c]
    <3>1. c # a /\ \A b \in sw : b.addr # c
      BY Zenon, <1>1, <1>3, <2>2
    <3>2. payload.mem[c] = payload.prog[c]
      BY Zenon, <1>4, <2>2, <3>1 DEF BpInv, Planted
    <3>3. QED
      BY Zenon, <1>4, <2>2, <3>1, <3>2
  <2>3. QED
    BY Zenon, <2>1, <2>2 DEF Planted
<1>8. QED
  BY Zenon, <1>1, <1>5, <1>6, <1>7, ListsMatch

\* While memory and the list of software breakpoints stay, so do the traps.
LEMMA TrapsStay == ASSUME BpInv, UNCHANGED <<payload, sw>> PROVE PayloadType' /\ Planted'
BY Zenon DEF BpInv, PayloadType, Planted

\* So does a new hardware breakpoint or watchpoint, or its refusal.
LEMMA AddWatch ==
    ASSUME BpInv, NEW type \in HwTypes, NEW a \in Addrs, NEW len \in Sizes,
           km_gdb_add_breakpoint(type, a, len)
    PROVE  BpInv'
<1> USE BreakpointsAssumption
<1> DEFINE bp == [type |-> type, addr |-> a, len |-> len, saved |-> payload.mem[a]]
<1>0. type # "SW"
  BY Zenon
<1>1. /\ hw' = <<bp>> \o hw /\ sw' = sw /\ payload' = payload /\ Len(hw) < MAX_HW_BREAKPOINTS
      /\ km_gdb_update_guest_debug(debug.step, sw, hw') /\ attached
      /\ UNCHANGED <<attached, reply, regs, crash>>
  BY Zenon, <1>0 DEF km_gdb_add_breakpoint, Talks
<1>2. \A n \in 1 .. Len(hw) : hw[n].addr # a
  <2>1. {b \in Range(hw) : b.addr = a} = {}
    BY Zenon, <1>0 DEF km_gdb_add_breakpoint, bp_list_find, bp_list
  <2>2. \A n \in 1 .. Len(hw) : hw[n] \in Range(hw)
    BY DEF Range, BpInv, ListsType
  <2>3. QED
    BY Zenon, <2>1, <2>2
<1>3. bp \in BpRecords(HwTypes) /\ bp.addr = a
  BY Zenon DEF BpInv, PayloadType, BpRecords
<1> HIDE DEF bp
<1>4. hw \in Seq(BpRecords(HwTypes)) /\ <<bp>> \in Seq(BpRecords(HwTypes)) /\ Len(<<bp>>) = 1 /\ <<bp>>[1] = bp
  BY <1>3 DEF BpInv, ListsType
<1>5. /\ hw' \in Seq(BpRecords(HwTypes)) /\ Len(hw') = 1 + Len(hw) /\ Len(hw) \in Nat
      /\ \A i \in 1 .. 1 + Len(hw) : hw'[i] = IF i <= 1 THEN bp ELSE hw[i - 1]
  <2>1. hw' = <<bp>> \o hw /\ Len(hw) \in Nat
    BY <1>1, <1>4
  <2>2. QED
    BY SMTT(30), <1>3, <1>4, <2>1, PushedFacts
<1>6. /\ hw'[1] = bp
      /\ \A i \in 2 .. 1 + Len(hw) : hw'[i] = hw[i - 1] /\ i - 1 \in 1 .. Len(hw)
  BY <1>4, <1>5
<1>7. ListsType'
  <2>1. ASSUME NEW i \in 1 .. 1 + Len(hw), NEW j \in 1 .. 1 + Len(hw), hw'[i].addr = hw'[j].addr
        PROVE  i = j
    <3>1. CASE i = 1 /\ j # 1
      BY <1>2, <1>3, <1>5, <1>6, <2>1, <3>1
    <3>2. CASE i # 1 /\ j = 1
      BY <1>2, <1>3, <1>5, <1>6, <2>1, <3>2
    <3>3. CASE i # 1 /\ j # 1
      <4>1. i \in 2 .. 1 + Len(hw) /\ j \in 2 .. 1 + Len(hw)
        BY <1>5, <3>3
      <4>2. hw[i - 1].addr = hw[j - 1].addr
        BY Zenon, <1>6, <2>1, <4>1
      <4>3. i - 1 = j - 1
        BY Zenon, <1>6, <4>1, <4>2 DEF BpInv, ListsType
      <4>4. QED
        BY <4>1, <4>3
    <3>4. QED
      BY Zenon, <3>1, <3>2, <3>3
  <2>2. Len(hw') <= MAX_HW_BREAKPOINTS
    BY <1>1, <1>5
  <2>3. QED
    BY Zenon, <1>1, <1>5, <2>1, <2>2 DEF BpInv, ListsType
<1>8. QED
  BY Zenon, <1>1, <1>7, TrapsStay, ListsMatch

\* The one entry of an address.
LEMMA FoundTrap ==
    ASSUME BpInv, NEW a, NEW b \in bp_list_find("SW", a)
    PROVE  b \in sw /\ b.addr = a /\ \A c \in sw : c.addr = a => c = b
BY Zenon DEF bp_list_find, bp_list, BpInv, ListsType

\* Taking a trap instruction out puts the byte of the program back.
LEMMA RemoveTrap ==
    ASSUME BpInv, NEW a \in Addrs, km_gdb_remove_breakpoint("SW", a)
    PROVE  BpInv'
<1>1. CASE payload.mem[a] # "int3"
  <2>1. /\ crash' = "int3" /\ UNCHANGED <<payload, sw, hw, debug, dr_regs, hit, attached, reply, regs>>
    BY Zenon, <1>1 DEF km_gdb_remove_breakpoint
  <2>2. QED
    BY ZenonT(60), <2>1 DEF BpInv, PayloadType, ListsType, DebugType, HitType, SessionType, Planted, Watched, Detached,
                HitFresh, HitNamed
<1>2. CASE payload.mem[a] = "int3"
  <2>1. PICK b \in bp_list_find("SW", a) : payload' = [payload EXCEPT !.mem[a] = b.saved]
    BY Zenon, <1>2 DEF km_gdb_remove_breakpoint, Poke
  <2>2. /\ sw' = sw_remove(a) /\ hw' = hw /\ km_gdb_update_guest_debug(debug.step, sw', hw')
        /\ UNCHANGED <<attached, reply, regs, crash>> /\ attached
    BY Zenon, <1>2 DEF km_gdb_remove_breakpoint, Talks
  <2>3. b \in sw /\ b.addr = a /\ \A c \in sw : c.addr = a => c = b
    BY Zenon, FoundTrap
  <2>4. b.saved \in PBytes
    BY Zenon, <2>3 DEF BpInv, ListsType, BpRecords
  <2>5. /\ payload'.mem = [payload.mem EXCEPT ![a] = b.saved] /\ payload'.prog = payload.prog
        /\ payload'.mapped = payload.mapped /\ payload'.disturbed = payload.disturbed
        /\ payload.mem \in [Addrs -> PBytes] /\ payload.mapped \subseteq Addrs
    BY Zenon, <2>1 DEF BpInv, PayloadType
  <2>6. PayloadType'
    BY Zenon, <2>1, <2>4 DEF BpInv, PayloadType
  <2>7. \A c : c \in sw' <=> c \in sw /\ c.addr # a
    BY Zenon, <2>2 DEF sw_remove
  <2>8. ListsType'
    <3>1. sw' \subseteq BpRecords({"SW"})
      BY Zenon, <2>7 DEF BpInv, ListsType
    <3>2. QED
      BY Zenon, <2>2, <2>7, <3>1 DEF BpInv, ListsType
  <2>9. Planted'
    <3>1. ASSUME NEW c \in sw', c.addr \notin payload'.disturbed
          PROVE  /\ c.addr \in payload'.mapped /\ payload'.mem[c.addr] = "int3"
                 /\ c.saved = payload'.prog[c.addr]
      <4>1. c \in sw /\ c.addr # a
        BY Zenon, <2>7
      <4>2. c.addr \in payload.mapped /\ payload.mem[c.addr] = "int3" /\ c.saved = payload.prog[c.addr]
        BY Zenon, <2>5, <3>1, <4>1 DEF BpInv, Planted
      <4>3. QED
        BY Zenon, <2>5, <4>1, <4>2
    <3>2. ASSUME NEW c \in payload'.mapped \ payload'.disturbed, \A d \in sw' : d.addr # c
          PROVE  payload'.mem[c] = payload'.prog[c]
      <4>1. CASE c = a
        BY Zenon, <2>3, <2>5, <3>2, <4>1 DEF BpInv, Planted
      <4>2. CASE c # a
        <5>1. \A d \in sw : d.addr # c
          BY Zenon, <2>7, <3>2, <4>2
        <5>2. payload.mem[c] = payload.prog[c]
          BY Zenon, <2>5, <3>2, <5>1 DEF BpInv, Planted
        <5>3. QED
          BY Zenon, <2>5, <3>2, <4>2, <5>2
      <4>3. QED
        BY Zenon, <4>1, <4>2
    <3>3. QED
      BY Zenon, <3>1, <3>2 DEF Planted
  <2>10. QED
    BY Zenon, <2>2, <2>6, <2>8, <2>9, ListsMatch
<1>3. QED
  BY Zenon, <1>1, <1>2

\* Taking a hardware breakpoint out keeps registers and list in step.
LEMMA RemoveWatch ==
    ASSUME BpInv, NEW type \in HwTypes, NEW a \in Addrs, km_gdb_remove_breakpoint(type, a)
    PROVE  BpInv'
<1> USE BreakpointsAssumption
<1>0. type # "SW"
  BY Zenon
<1>1. /\ hw' = hw_remove(a) /\ sw' = sw /\ payload' = payload
      /\ km_gdb_update_guest_debug(debug.step, sw', hw') /\ attached
      /\ UNCHANGED <<attached, reply, regs, crash>>
  BY Zenon, <1>0 DEF km_gdb_remove_breakpoint, Talks
<1>2. hw \in Seq(BpRecords(HwTypes)) /\ Len(hw) \in Nat /\ DOMAIN hw = 1 .. Len(hw)
  BY SMTT(30) DEF BpInv, ListsType
<1>3. \E n \in DOMAIN hw : hw[n].addr = a
  <2>1. {b \in Range(hw) : b.addr = a} # {}
    BY Zenon, <1>0 DEF km_gdb_remove_breakpoint, bp_list_find, bp_list
  <2>2. QED
    BY Zenon, <2>1 DEF Range
<1> DEFINE i == CHOOSE n \in DOMAIN hw : hw[n].addr = a
<1>4. i \in 1 .. Len(hw)
  BY Zenon, <1>2, <1>3
<1>5. hw' = Removed(hw, i)
  BY Zenon, <1>1 DEF hw_remove
<1> HIDE DEF i
<1>6. /\ hw' \in Seq(BpRecords(HwTypes)) /\ Len(hw') = Len(hw) - 1
      /\ \A j \in 1 .. Len(hw) - 1 : hw'[j] = hw[IF j < i THEN j ELSE j + 1]
  BY ZenonT(30), <1>2, <1>4, <1>5, RemovedFacts
<1>7. ASSUME NEW j \in 1 .. Len(hw'), NEW k \in 1 .. Len(hw'), hw'[j].addr = hw'[k].addr PROVE j = k
  <2> DEFINE J == IF j < i THEN j ELSE j + 1
             K == IF k < i THEN k ELSE k + 1
  <2>1. J \in 1 .. Len(hw) /\ K \in 1 .. Len(hw)
    BY SMTT(30), <1>2, <1>4, <1>6
  <2>2. hw'[j] = hw[J] /\ hw'[k] = hw[K]
    BY Zenon, <1>6
  <2>3. J = K
    <3> HIDE DEF J, K
    <3>1. QED
      BY Zenon, <1>7, <2>1, <2>2 DEF BpInv, ListsType
  <2>4. QED
    BY SMTT(30), <1>2, <1>4, <1>6, <2>3
<1>8. ListsType'
  BY <1>1, <1>2, <1>6, <1>7 DEF BpInv, ListsType
<1>9. QED
  BY Zenon, <1>1, <1>8, TrapsStay, ListsMatch

-----------------------------------------------------------------------------
(* Detaching, forking, attaching *)

\* What is kept has been unmapped; everywhere else the program's byte is back.
LEMMA AllRemoved ==
    ASSUME BpInv, km_gdb_remove_all_breakpoints
    PROVE  /\ PayloadType' /\ ListsType' /\ Planted'
           /\ hw' = <<>> /\ \A b \in sw' : b.addr \in payload'.disturbed
<1> DEFINE m == [a \in Addrs |-> IF a \in payload.mapped /\ \E bp \in sw : bp.addr = a
                                 THEN (CHOOSE bp \in sw : bp.addr = a).saved ELSE payload.mem[a]]
<1>1. payload' = [payload EXCEPT !.mem = m] /\ sw' = Kept /\ hw' = <<>>
  BY Zenon DEF km_gdb_remove_all_breakpoints
<1>2. ASSUME NEW a \in Addrs, a \in payload.mapped, NEW b \in sw, b.addr = a
      PROVE  m[a] = b.saved /\ b.saved \in PBytes
  <2> DEFINE c == CHOOSE bp \in sw : bp.addr = a
  <2>1. c \in sw /\ c.addr = a
    BY Zenon, <1>2
  <2>2. m[a] = c.saved
    BY Zenon, <1>2
  <2> HIDE DEF c
  <2>3. c = b
    BY Zenon, <1>2, <2>1 DEF BpInv, ListsType
  <2>4. b.saved \in PBytes
    BY Zenon DEF BpInv, ListsType, BpRecords
  <2>5. QED
    BY Zenon, <2>2, <2>3, <2>4
<1>3. ASSUME NEW a \in Addrs, a \notin payload.mapped \/ \A b \in sw : b.addr # a
      PROVE  m[a] = payload.mem[a]
  BY Zenon, <1>3
<1>4. DOMAIN m = Addrs /\ m = [a \in Addrs |-> m[a]]
  BY Zenon
<1> HIDE DEF m
<1>5. m \in [Addrs -> PBytes]
  <2>1. payload.mem \in [Addrs -> PBytes]
    BY Zenon DEF BpInv, PayloadType
  <2>2. ASSUME NEW a \in Addrs PROVE m[a] \in PBytes
    BY Zenon, <1>2, <1>3, <2>1
  <2>3. QED
    BY Zenon, <1>4, <2>2
<1>6. /\ payload'.mem = m /\ payload'.prog = payload.prog
      /\ payload'.mapped = payload.mapped /\ payload'.disturbed = payload.disturbed
      /\ payload.mapped \subseteq Addrs
  BY Zenon, <1>1 DEF BpInv, PayloadType
<1>7. PayloadType'
  BY Zenon, <1>1, <1>5 DEF BpInv, PayloadType
<1>8. \A b : b \in sw' <=> b \in sw /\ b.addr \notin payload.mapped
  BY Zenon, <1>1 DEF Kept
<1>9. ListsType'
  <2>1. sw' \subseteq BpRecords({"SW"}) /\ \A b, c \in sw' : b.addr = c.addr => b = c
    BY Zenon, <1>8 DEF BpInv, ListsType
  <2>2. hw' \in Seq(BpRecords(HwTypes)) /\ Len(hw') = 0
    BY Zenon, <1>1, EmptyFacts
  <2>3. QED
    BY <2>1, <2>2, BreakpointsAssumption DEF ListsType
<1>10. \A b \in sw' : b.addr \in payload'.disturbed
  BY Zenon, <1>6, <1>8 DEF BpInv, Planted
<1>11. ASSUME NEW a \in payload'.mapped \ payload'.disturbed PROVE payload'.mem[a] = payload'.prog[a]
  <2>1. CASE \E b \in sw : b.addr = a
    <3>1. PICK b \in sw : b.addr = a
      BY Zenon, <2>1
    <3>2. b.saved = payload.prog[a]
      BY Zenon, <1>6, <1>11, <3>1 DEF BpInv, Planted
    <3>3. QED
      BY Zenon, <1>2, <1>6, <1>11, <3>1, <3>2
  <2>2. CASE \A b \in sw : b.addr # a
    <3>1. payload.mem[a] = payload.prog[a]
      BY Zenon, <1>6, <1>11, <2>2 DEF BpInv, Planted
    <3>2. QED
      BY Zenon, <1>3, <1>6, <1>11, <2>2, <3>1
  <2>3. QED
    BY Zenon, <2>1, <2>2
<1>12. Planted'
  BY Zenon, <1>10, <1>11 DEF Planted
<1>13. QED
  BY Zenon, <1>1, <1>7, <1>9, <1>10, <1>12

\* A trap instruction that nobody knows ends the payload and changes nothing else.
LEMMA Crashes ==
    ASSUME BpInv, crash' = "int3", UNCHANGED <<attached, payload, sw, hw, debug, dr_regs, hit, reply, regs>>
    PROVE  BpInv'
BY SMTT(30) DEF BpInv, PayloadType, ListsType, DebugType, HitType, SessionType, Planted, Watched, Detached,
       HitFresh, HitNamed

\* Detaching takes every breakpoint out.
LEMMA DetachOk == ASSUME BpInv, km_gdb_detach PROVE BpInv'
<1>1. CASE TrapsGone
  BY Zenon, <1>1, Crashes DEF km_gdb_detach
<1>2. CASE ~TrapsGone
  <2>1. /\ attached' = FALSE /\ km_gdb_remove_all_breakpoints
        /\ km_gdb_update_guest_debug(FALSE, sw', hw') /\ UNCHANGED <<crash, reply, regs>>
    BY ZenonT(60), <1>2 DEF km_gdb_detach
  <2>2. /\ PayloadType' /\ ListsType' /\ Planted'
        /\ hw' = <<>> /\ \A b \in sw' : b.addr \in payload'.disturbed
    BY Zenon, <2>1, AllRemoved
  <2>3. hw' \in Seq(BpRecords(HwTypes)) /\ Len(hw') <= MAX_HW_BREAKPOINTS
    BY Zenon, <2>2 DEF ListsType
  <2>4. /\ DebugType' /\ HitType' /\ debug'.step = FALSE
        /\ debug'.sw = (sw' # {}) /\ Len(debug'.hw) = Len(hw')
        /\ \A n \in 1 .. Len(hw') : debug'.hw[n].addr = hw'[n].addr /\ dr_regs'[n] = hw'[n].addr
        /\ hit'.how = "hw" => hit'.changed
    BY ZenonT(60), <2>1, <2>3, UpdateFacts DEF BpInv
  <2>5. Watched' /\ Detached'
    BY ZenonT(60), <2>1, <2>2, <2>4 DEF Watched, Detached
  <2>6. HitFresh'
    BY Zenon, <2>1, <2>4, ReplyStays DEF BpInv, HitFresh
  <2>7. SessionType'
    BY ZenonT(60), <2>1 DEF BpInv, SessionType
  <2>8. QED
    BY Zenon, <2>2, <2>4, <2>5, <2>6, <2>7 DEF BpInv
<1>3. QED
  BY Zenon, <1>1, <1>2

\* The child of a fork has the parent's memory and lists without the client.
LEMMA ForkOk == ASSUME BpInv, ForkChild PROVE BpInv'
<1>1. CASE TrapsGone
  BY Zenon, <1>1, Crashes DEF ForkChild
<1>2. CASE ~TrapsGone
  <2>1. /\ attached' = FALSE /\ km_gdb_remove_all_breakpoints
        /\ debug' = NoDebug /\ dr_regs' = [n \in DOMAIN dr_regs |-> 0] /\ hit' = NoHit
        /\ UNCHANGED <<crash, reply, regs>>
    BY Zenon, <1>2 DEF ForkChild
  <2>2. /\ PayloadType' /\ ListsType' /\ Planted'
        /\ hw' = <<>> /\ \A b \in sw' : b.addr \in payload'.disturbed
    BY Zenon, <2>1, AllRemoved
  <2>3. ~debug'.step /\ ~debug'.sw /\ debug'.hw = <<>> /\ Len(debug'.hw) = 0 /\ Len(hw') = 0
    BY Zenon, <2>1, <2>2 DEF NoDebug
  <2>4. DebugType'
    <3>1. dr_regs' \in [1 .. MAX_HW_BREAKPOINTS -> Nat]
      BY Zenon, <2>1 DEF BpInv, DebugType
    <3>2. <<>> \in Seq(DrRecords)
      BY Zenon, EmptyFacts
    <3>3. QED
      BY Zenon, <2>1, <3>1, <3>2 DEF DebugType, NoDebug
  <2>5. HitType'
    BY Zenon, <2>1 DEF BpInv, HitType, NoHit
  <2>6. Watched' /\ Detached'
    BY <2>1, <2>2, <2>3 DEF Watched, Detached
  <2>7. HitFresh'
    BY Zenon, <2>1, ReplyStays DEF BpInv, HitFresh, NoHit
  <2>8. SessionType'
    BY ZenonT(60), <2>1 DEF BpInv, SessionType
  <2>9. QED
    BY Zenon, <2>2, <2>4, <2>5, <2>6, <2>7, <2>8 DEF BpInv
<1>3. QED
  BY Zenon, <1>1, <1>2

\* A client that comes or goes keeps the invariant.
LEMMA SessionOk == ASSUME BpInv, Session PROVE BpInv'
<1>1. CASE Attach
  BY SMTT(30), <1>1 DEF Attach, BpInv, PayloadType, ListsType, DebugType, HitType, SessionType, Planted, Watched,
              Detached, HitFresh, HitNamed
<1>2. QED
  BY Zenon, <1>1, DetachOk, ForkOk DEF Session

\* Turning single steps on or off keeps it.
LEMMA SingleStepOk == ASSUME BpInv, NEW on \in BOOLEAN, SingleStep(on) PROVE BpInv'
<1>1. /\ km_gdb_update_guest_debug(on, sw, hw) /\ attached
      /\ UNCHANGED <<attached, payload, sw, hw, reply, regs, crash>>
  BY Zenon DEF SingleStep, Talks
<1>2. hw \in Seq(BpRecords(HwTypes)) /\ Len(hw) <= MAX_HW_BREAKPOINTS
  BY Zenon DEF BpInv, ListsType
<1>3. /\ DebugType' /\ HitType' /\ debug'.sw = (sw # {}) /\ Len(debug'.hw) = Len(hw)
      /\ \A n \in 1 .. Len(hw) : debug'.hw[n].addr = hw[n].addr /\ dr_regs'[n] = hw[n].addr
      /\ hit'.how = "hw" => hit'.changed
  BY Zenon, <1>1, <1>2, UpdateFacts DEF BpInv
<1>4. Watched' /\ ListsType'
  BY ZenonT(60), <1>1, <1>3 DEF Watched, BpInv, ListsType
<1>5. HitFresh'
  BY Zenon, <1>1, <1>3, ReplyStays DEF BpInv, HitFresh
<1>6. SessionType' /\ Detached'
  BY Zenon, <1>1 DEF BpInv, SessionType, Detached
<1>7. PayloadType' /\ Planted'
  BY Zenon, <1>1, TrapsStay
<1>8. QED
  BY Zenon, <1>3, <1>4, <1>5, <1>6, <1>7 DEF BpInv

-----------------------------------------------------------------------------
(* Memory and registers *)

\* Memory changes at one address, which is disturbed if a breakpoint is there.
LEMMA MemoryChanges ==
    ASSUME BpInv, NEW a \in Addrs, UNCHANGED <<attached, sw, hw, debug, dr_regs, hit, reply, regs, crash>>,
           PayloadType', payload.disturbed \subseteq payload'.disturbed,
           \A b \in sw : b.addr = a => a \in payload'.disturbed,
           \A c \in Addrs \ {a} : /\ payload'.mem[c] = payload.mem[c] /\ payload'.prog[c] = payload.prog[c]
                                  /\ c \in payload'.mapped <=> c \in payload.mapped
                                  /\ c \in payload'.disturbed <=> c \in payload.disturbed,
           a \in payload'.mapped \ payload'.disturbed => payload'.mem[a] = payload'.prog[a]
    PROVE  BpInv'
<1>1. /\ ListsType' /\ DebugType' /\ HitType' /\ SessionType' /\ HitFresh'
  BY SMTT(30) DEF BpInv, ListsType, DebugType, HitType, SessionType, HitFresh, HitNamed
<1>2. \A b \in sw : b.addr \in Addrs
  BY Zenon DEF BpInv, ListsType, BpRecords
<1>3. payload'.mapped \subseteq Addrs
  BY Zenon DEF PayloadType
<1>4. Planted'
  <2>1. ASSUME NEW b \in sw, b.addr \notin payload'.disturbed
        PROVE  /\ b.addr \in payload'.mapped /\ payload'.mem[b.addr] = "int3"
               /\ b.saved = payload'.prog[b.addr]
    <3>1. b.addr \in Addrs \ {a} /\ b.addr \notin payload.disturbed
      BY Zenon, <1>2, <2>1
    <3>2. b.addr \in payload.mapped /\ payload.mem[b.addr] = "int3" /\ b.saved = payload.prog[b.addr]
      BY Zenon, <3>1 DEF BpInv, Planted
    <3>3. QED
      BY Zenon, <3>1, <3>2
  <2>2. ASSUME NEW c \in payload'.mapped \ payload'.disturbed, \A b \in sw : b.addr # c
        PROVE  payload'.mem[c] = payload'.prog[c]
    <3>1. CASE c # a
      <4>1. c \in Addrs \ {a} /\ c \in payload.mapped \ payload.disturbed
        BY Zenon, <1>3, <2>2, <3>1
      <4>2. payload.mem[c] = payload.prog[c]
        BY Zenon, <2>2, <4>1 DEF BpInv, Planted
      <4>3. QED
        BY Zenon, <4>1, <4>2
    <3>2. QED
      BY Zenon, <2>2, <3>1
  <2>3. QED
    BY Zenon, <2>1, <2>2 DEF Planted
<1>5. Watched' /\ Detached'
  BY Zenon DEF BpInv, Watched, Detached
<1>6. QED
  BY Zenon, <1>1, <1>4, <1>5 DEF BpInv

\* A write disturbs at most its own address, and the breakpoint there.
LEMMA DisturbFacts ==
    ASSUME BpInv, NEW a \in Addrs
    PROVE  /\ payload.disturbed \subseteq Disturb(a) /\ Disturb(a) \subseteq payload.disturbed \cup {a}
           /\ Disturb(a) \subseteq Addrs /\ \A b \in sw : b.addr = a => a \in Disturb(a)
BY Zenon DEF Disturb, bp_list_find, bp_list, BpInv, PayloadType

\* The type of the payload's memory, from its fields.
LEMMA PayloadFields ==
    ASSUME payload' = [mem |-> payload'.mem, prog |-> payload'.prog, mapped |-> payload'.mapped,
                       disturbed |-> payload'.disturbed, writes |-> payload'.writes],
           payload'.mem \in [Addrs -> PBytes], payload'.prog \in [Addrs -> PBytes],
           payload'.mapped \subseteq Addrs, payload'.disturbed \subseteq Addrs, payload'.writes \in Nat
    PROVE  PayloadType'
<1> DEFINE m == payload'.mem
           p == payload'.prog
           q == payload'.mapped
           d == payload'.disturbed
           w == payload'.writes
<1>1. m \in [Addrs -> PBytes] /\ p \in [Addrs -> PBytes] /\ q \subseteq Addrs /\ d \subseteq Addrs /\ w \in Nat
  BY Zenon
<1>2. payload' = [mem |-> m, prog |-> p, mapped |-> q, disturbed |-> d, writes |-> w]
  BY Zenon
<1> HIDE DEF m, p, q, d, w
<1>3. QED
  BY Zenon, <1>1, <1>2 DEF PayloadType

\* A write of the client to memory keeps the invariant.
LEMMA Hex2MemOk == ASSUME BpInv, NEW a \in Addrs, NEW b \in Bytes, km_guest_hex2mem(a, b) PROVE BpInv'
<1>1. /\ payload' = [payload EXCEPT !.mem[a] = b, !.prog[a] = b, !.disturbed = Disturb(a), !.writes = @ + 1]
      /\ UNCHANGED <<attached, sw, hw, debug, dr_regs, hit, reply, regs, crash>>
  BY Zenon DEF km_guest_hex2mem
<1> DEFINE D == Disturb(a)
<1>2. /\ payload.disturbed \subseteq D /\ D \subseteq payload.disturbed \cup {a}
      /\ D \subseteq Addrs /\ \A c \in sw : c.addr = a => a \in D
  BY Zenon, DisturbFacts
<1> HIDE DEF D
<1>3. /\ payload'.mem = [payload.mem EXCEPT ![a] = b] /\ payload'.prog = [payload.prog EXCEPT ![a] = b]
      /\ payload'.mapped = payload.mapped /\ payload'.disturbed = D
      /\ payload.mem \in [Addrs -> PBytes] /\ payload.prog \in [Addrs -> PBytes]
  BY Zenon, <1>1 DEF BpInv, PayloadType, D
<1>4. PayloadType'
  <2>1. payload' = [mem |-> payload'.mem, prog |-> payload'.prog, mapped |-> payload'.mapped,
                   disturbed |-> payload'.disturbed, writes |-> payload'.writes]
    BY ZenonT(60), <1>1 DEF BpInv, PayloadType
  <2>2. /\ payload.mapped \subseteq Addrs /\ payload'.writes \in Nat
    BY SMTT(30), <1>1 DEF BpInv, PayloadType
  <2>3. payload'.mem \in [Addrs -> PBytes] /\ payload'.prog \in [Addrs -> PBytes]
    BY Zenon, <1>3 DEF PBytes
  <2>4. QED
    BY Zenon, <1>2, <1>3, <2>1, <2>2, <2>3, PayloadFields
<1>5. \A c \in Addrs \ {a} : payload'.mem[c] = payload.mem[c] /\ payload'.prog[c] = payload.prog[c]
  BY Zenon, <1>3
<1>6. payload'.mem[a] = payload'.prog[a]
  BY Zenon, <1>3
<1>7. QED
  BY Zenon, <1>1, <1>2, <1>3, <1>4, <1>5, <1>6, MemoryChanges

\* So does new memory that the payload maps.
LEMMA PayloadMapOk == ASSUME BpInv, NEW a \in Addrs, PayloadMap(a) PROVE BpInv'
<1>0. UNCHANGED <<attached, sw, hw, debug, dr_regs, hit, reply, regs, crash>>
  BY Zenon DEF PayloadMap
<1> DEFINE D == Disturb(a)
<1>1. /\ payload.disturbed \subseteq D /\ D \subseteq payload.disturbed \cup {a}
      /\ D \subseteq Addrs /\ \A c \in sw : c.addr = a => a \in D
  BY Zenon, DisturbFacts
<1>2. CASE a \in payload.mapped
  <2>1. payload' = [payload EXCEPT !.mapped = @ \ {a}, !.disturbed = D, !.writes = @ + 1]
    BY Zenon, <1>2 DEF PayloadMap
  <2> HIDE DEF D
  <2>3. /\ payload'.mem = payload.mem /\ payload'.prog = payload.prog
        /\ payload'.mapped = payload.mapped \ {a} /\ payload'.disturbed = D
    BY Zenon, <2>1 DEF BpInv, PayloadType
  <2>2. PayloadType'
    <3>1. payload' = [mem |-> payload'.mem, prog |-> payload'.prog, mapped |-> payload'.mapped,
                     disturbed |-> payload'.disturbed, writes |-> payload'.writes]
      BY ZenonT(60), <2>1 DEF BpInv, PayloadType
    <3>2. /\ payload.mapped \subseteq Addrs /\ payload'.writes \in Nat
          /\ payload.mem \in [Addrs -> PBytes] /\ payload.prog \in [Addrs -> PBytes]
      BY SMTT(30), <2>1 DEF BpInv, PayloadType
    <3>3. QED
      BY Zenon, <1>1, <2>3, <3>1, <3>2, PayloadFields
  <2>4. QED
    BY Zenon, <1>0, <1>1, <2>2, <2>3, MemoryChanges
<1>3. CASE a \notin payload.mapped
  <2>1. payload' = [payload EXCEPT !.mapped = @ \cup {a}, !.mem[a] = "other", !.prog[a] = "other",
                                   !.writes = @ + 1]
    BY Zenon, <1>3 DEF PayloadMap
  <2>3. /\ payload'.mem = [payload.mem EXCEPT ![a] = "other"]
        /\ payload'.prog = [payload.prog EXCEPT ![a] = "other"]
        /\ payload'.mapped = payload.mapped \cup {a} /\ payload'.disturbed = payload.disturbed
        /\ payload.mem \in [Addrs -> PBytes] /\ payload.prog \in [Addrs -> PBytes]
    BY Zenon, <2>1 DEF BpInv, PayloadType
  <2>2. PayloadType'
    <3>1. payload' = [mem |-> payload'.mem, prog |-> payload'.prog, mapped |-> payload'.mapped,
                     disturbed |-> payload'.disturbed, writes |-> payload'.writes]
      BY ZenonT(60), <2>1 DEF BpInv, PayloadType
    <3>2. /\ payload.mapped \subseteq Addrs /\ payload'.writes \in Nat /\ payload.disturbed \subseteq Addrs
      BY SMTT(30), <2>1 DEF BpInv, PayloadType
    <3>3. payload'.mem \in [Addrs -> PBytes] /\ payload'.prog \in [Addrs -> PBytes]
      BY Zenon, <2>3 DEF PBytes
    <3>4. payload'.mapped \subseteq Addrs
      BY Zenon, <2>3, <3>2
    <3>5. QED
      BY Zenon, <2>3, <3>1, <3>2, <3>3, <3>4, PayloadFields
  <2>4. \A c \in sw : c.addr = a => a \in payload'.disturbed
    BY SMTT(30), <1>3, <2>3 DEF BpInv, Planted
  <2>5. \A c \in Addrs \ {a} : payload'.mem[c] = payload.mem[c] /\ payload'.prog[c] = payload.prog[c]
    BY Zenon, <2>3
  <2>6. payload'.mem[a] = payload'.prog[a]
    BY Zenon, <2>3
  <2>7. QED
    BY ZenonT(60), <1>0, <2>2, <2>3, <2>4, <2>5, <2>6, MemoryChanges
<1>4. QED
  BY Zenon, <1>2, <1>3

\* Commands that leave memory, the lists and the registers for debugging alone.
LEMMA ListsStay ==
    ASSUME BpInv, UNCHANGED <<attached, payload, sw, hw, debug, dr_regs, crash>>,
           HitType', HitFresh', SessionType'
    PROVE  BpInv'
<1>1. PayloadType' /\ ListsType' /\ Planted'
  BY ZenonT(30) DEF BpInv, PayloadType, ListsType, Planted
<1>2. DebugType' /\ Watched' /\ Detached'
  BY ZenonT(30) DEF BpInv, DebugType, Watched, Detached
<1>3. QED
  BY Zenon, <1>1, <1>2 DEF BpInv

\* So do reads and writes of registers.
LEMMA RegistersOk == ASSUME BpInv, RegisterNext PROVE BpInv'
<1>1. UNCHANGED <<attached, payload, sw, hw, debug, dr_regs, crash, hit, reply>>
  BY Zenon DEF RegisterNext, CmdReadRegisters, CmdWriteRegisters
<1>2. HitType' /\ HitFresh'
  BY Zenon, <1>1 DEF BpInv, HitType, HitFresh, HitNamed
<1>3. /\ regs \in [vcpu : Registers, buffer : Registers, client : Registers]
      /\ regs.vcpu.reported \in Values /\ attached \in BOOLEAN /\ crash \in {"none", "int3"}
  BY Zenon DEF BpInv, SessionType
<1>4. CASE CmdReadRegisters
  <2>1. regs' = [ReadRegisters(regs) EXCEPT !.client = ReadRegisters(regs).buffer]
    BY Zenon, <1>4 DEF CmdReadRegisters
  <2>2. /\ regs' \in [vcpu : Registers, buffer : Registers, client : Registers]
        /\ regs'.vcpu = regs.vcpu
    BY ZenonT(60), <1>3, <2>1 DEF ReadRegisters, Registers
  <2>3. SessionType'
    BY Zenon, <1>1, <1>3, <2>2 DEF SessionType
  <2>4. QED
    BY Zenon, <1>1, <1>2, <2>3, ListsStay
<1>5. CASE \E v \in Values : CmdWriteRegisters(v)
  <2>1. PICK v \in Values : CmdWriteRegisters(v)
    BY Zenon, <1>5
  <2> DEFINE set == [regs.client EXCEPT !.reported = v]
  <2>2. regs' = [vcpu |-> set, buffer |-> set, client |-> set]
    BY Zenon, <2>1 DEF CmdWriteRegisters
  <2>3. set \in Registers /\ set.reported \in Values
    BY Zenon, <1>3 DEF Registers
  <2> HIDE DEF set
  <2>4. SessionType'
    BY Zenon, <1>1, <1>3, <2>2, <2>3 DEF SessionType
  <2>5. QED
    BY Zenon, <1>1, <1>2, <2>4, ListsStay
<1>6. QED
  BY Zenon, <1>4, <1>5 DEF RegisterNext

-----------------------------------------------------------------------------
(* Debug exits *)

\* The entries of a list of debug registers.
LEMMA DrEntries ==
    ASSUME NEW h \in Seq(DrRecords)
    PROVE  DOMAIN h = 1 .. Len(h) /\ \A n \in DOMAIN h : h[n] \in DrRecords
BY SMTT(30)

\* A debug exit notes the hit with the address that was touched.
LEMMA DebugExitOk == ASSUME BpInv, DebugExit PROVE BpInv'
<1> USE BreakpointsAssumption
<1>1. UNCHANGED <<attached, payload, sw, hw, debug, dr_regs, reply, regs, crash>>
  BY Zenon DEF DebugExit
<1>2. SessionType' /\ HitNamed'
  BY Zenon, <1>1 DEF BpInv, SessionType, HitFresh, HitNamed
<1>3. reply' \in {NoReply} \cup [how : {"trap", "hwbreak", "watch", "awatch"}, addr : Nat, of : Hits]
  BY Zenon, <1>1 DEF BpInv, HitType
<1>4. ASSUME NEW bp \in sw,
             hit' = [how |-> "int3", addr |-> bp.addr, n |-> 0, code |-> 0, changed |-> FALSE]
      PROVE  hit' \in Hits /\ hit'.how # "hw"
  <2>1. bp.addr \in Nat
    BY ZenonT(60) DEF BpInv, ListsType, BpRecords
  <2>2. QED
    BY Zenon, <1>4, <2>1 DEF Hits
<1>5. ASSUME hit' = [how |-> "step", addr |-> 0, n |-> 0, code |-> 0, changed |-> FALSE]
      PROVE  hit' \in Hits /\ hit'.how # "hw"
  BY Zenon, <1>5 DEF Hits
<1>6. ASSUME NEW n \in DOMAIN debug.hw, debug.hw[n].code # 2,
             hit' = [how |-> "hw", addr |-> debug.hw[n].addr, n |-> n,
                     code |-> debug.hw[n].code, changed |-> FALSE]
      PROVE  hit' \in Hits /\ hit'.n \in 1 .. MAX_HW_BREAKPOINTS /\ dr_regs[hit'.n] = hit'.addr
  <2>1. debug.hw \in Seq(DrRecords)
    BY Zenon DEF BpInv, DebugType
  <2>2. Len(debug.hw) = Len(hw) /\ Len(hw) \in Nat /\ Len(hw) <= MAX_HW_BREAKPOINTS
    BY SMTT(30) DEF BpInv, Watched, ListsType
  <2>3. n \in 1 .. Len(hw) /\ debug.hw[n] \in DrRecords
    BY Zenon, <1>6, <2>1, <2>2, DrEntries
  <2>4. debug.hw[n].addr \in Nat /\ debug.hw[n].code \in {0, 1, 3}
    <3>1. debug.hw[n].addr \in Addrs /\ debug.hw[n].code \in 0 .. 3
      BY ZenonT(30), <2>3 DEF DrRecords
    <3>2. debug.hw[n].addr \in Nat
      BY ZenonT(30), <3>1, BreakpointsAssumption DEF BreakpointsAssumption
    <3> DEFINE c == debug.hw[n].code
    <3>3. c \in 0 .. 3 /\ c # 2
      BY ZenonT(30), <1>6, <3>1
    <3> HIDE DEF c
    <3>4. c \in {0, 1, 3}
      BY SMTT(30), <3>3
    <3>5. QED
      BY ZenonT(30), <3>2, <3>4 DEF c
  <2>5. dr_regs[n] = debug.hw[n].addr
    BY Zenon, <2>3 DEF BpInv, Watched
  <2>6. n \in 1 .. MAX_HW_BREAKPOINTS /\ n \in Nat
    BY SMTT(30), <2>2, <2>3
  <2>7. QED
    BY Zenon, <1>6, <2>4, <2>5, <2>6 DEF Hits
<1>7. /\ hit' \in Hits
      /\ hit'.how = "hw" => hit'.n \in 1 .. MAX_HW_BREAKPOINTS /\ dr_regs[hit'.n] = hit'.addr
  BY Zenon, <1>4, <1>5, <1>6 DEF DebugExit
<1>8. HitType' /\ HitFresh'
  BY Zenon, <1>1, <1>2, <1>3, <1>7 DEF HitType, HitFresh
<1>9. QED
  BY Zenon, <1>1, <1>2, <1>8, ListsStay

\* The stop reply names the address of the hit.
LEMMA StopreplyOk == ASSUME BpInv, km_gdb_exit_debug_stopreply PROVE BpInv'
<1>1. UNCHANGED <<attached, payload, sw, hw, debug, dr_regs, regs, crash>> /\ hit' = NoHit
  BY Zenon DEF km_gdb_exit_debug_stopreply
<1>2. SessionType'
  BY Zenon, <1>1 DEF BpInv, SessionType
<1>3. hit \in Hits /\ (hit.how = "hw" => hit.n \in 1 .. MAX_HW_BREAKPOINTS)
  BY DEF BpInv, HitType, km_gdb_exit_debug_stopreply, NoHit
<1> DEFINE how == CASE hit.how = "int3" -> "trap"
                    [] hit.how = "step" \/ (hit.how = "hw" /\ hit.code = 0) -> "hwbreak"
                    [] hit.how = "hw" /\ hit.code = 1 -> "watch"
                    [] hit.how = "hw" /\ hit.code = 3 -> "awatch"
           addr == IF hit.how = "hw" THEN km_gdb_get_hwbreak_info(hit) ELSE 0
<1>4. reply' = [how |-> how, addr |-> addr, of |-> hit]
  BY Zenon DEF km_gdb_exit_debug_stopreply
<1>5. /\ how \in {"trap", "hwbreak", "watch", "awatch"}
      /\ how \in {"watch", "awatch"} => hit.how = "hw"
  <2>1. hit.how \in {"int3", "step", "hw"} /\ hit.code \in {0, 1, 3}
    BY Zenon, <1>3 DEF Hits
  <2>2. QED
    BY Zenon, <2>1
<1>6. addr \in Nat /\ (hit.how = "hw" => addr = dr_regs[hit.n])
  BY Zenon, <1>3 DEF BpInv, DebugType, km_gdb_get_hwbreak_info
<1> HIDE DEF how, addr
<1>7. HitType'
  BY Zenon, <1>1, <1>3, <1>4, <1>5, <1>6 DEF HitType, NoHit
<1>8. HitFresh'
  BY Zenon, <1>1, <1>4, <1>5, <1>6 DEF BpInv, HitFresh, HitNamed, NoHit
<1>9. QED
  BY Zenon, <1>1, <1>2, <1>7, <1>8, ListsStay

\* The steps from a debug exit to its stop reply keep the invariant.
LEMMA DebugStepOk == ASSUME BpInv, DebugStep PROVE BpInv'
<1>1. CASE DeleteStale
  <2>1. UNCHANGED <<attached, payload, sw, hw, debug, dr_regs, reply, regs, crash>> /\ hit' = NoHit
    BY Zenon, <1>1 DEF DeleteStale
  <2>2. HitType' /\ HitFresh' /\ SessionType'
    BY Zenon, <2>1 DEF BpInv, HitType, HitFresh, HitNamed, SessionType, NoHit
  <2>3. QED
    BY Zenon, <2>1, <2>2, ListsStay
<1>2. CASE Handled
  <2>1. /\ UNCHANGED <<attached, payload, sw, hw, debug, dr_regs, regs, crash>>
        /\ reply' = NoReply /\ hit' \in {hit, NoHit}
    BY Zenon, <1>2 DEF Handled
  <2>2. HitType' /\ HitFresh' /\ SessionType'
    BY SMTT(30), <2>1 DEF BpInv, HitType, HitFresh, HitNamed, SessionType, NoHit, NoReply
  <2>3. QED
    BY Zenon, <2>1, <2>2, ListsStay
<1>3. QED
  BY Zenon, <1>1, <1>2, DebugExitOk, StopreplyOk DEF DebugStep

\* So do the commands Z and z.
LEMMA BreakpointOk == ASSUME BpInv, Breakpoint({"SW"}) \/ Breakpoint(HwTypes) PROVE BpInv'
<1>1. CASE Breakpoint({"SW"})
  BY Zenon, <1>1, AddTrap, RemoveTrap DEF Breakpoint
<1>2. CASE Breakpoint(HwTypes)
  BY Zenon, <1>2, AddWatch, RemoveWatch DEF Breakpoint
<1>3. QED
  BY Zenon, <1>1, <1>2

-----------------------------------------------------------------------------
(* The rest of the connection *)

\* The two ends of the connection stay in their states.
LEMMA LinkOk ==
    ASSUME TransferInv, LinkNext
    PROVE  /\ DOMAIN link' = DOMAIN link
           /\ link'.rx \in {"start", "data", "sum", "reply"} /\ link'.client \in {"send", "ack", "reply"}
<1>1. /\ DOMAIN link = {"rx", "buf", "handled", "wire", "back", "client", "next", "replies", "corrupted"}
      /\ link.rx \in {"start", "data", "sum", "reply"} /\ link.client \in {"send", "ack", "reply"}
  BY Zenon DEF TransferInv
<1>2. CASE ClientSend
  BY ZenonT(60), <1>1, <1>2 DEF ClientSend
<1>3. CASE ClientAcked
  BY Zenon, <1>1, <1>3 DEF ClientAcked
<1>4. CASE ClientReply
  BY ZenonT(60), <1>1, <1>4 DEF ClientReply
<1>5. CASE RecvChar
  <2> DEFINE ch == Head(link.wire)
             l == [link EXCEPT !.wire = Tail(@)]
  <2>1. DOMAIN l = DOMAIN link /\ l.rx = link.rx /\ l.client = link.client
    BY Zenon, <1>1
  <2>2. link' = CASE link.rx = "start" ->
                       IF ch = "$" THEN [l EXCEPT !.rx = "data", !.buf = <<>>] ELSE l
                  [] link.rx = "data" -> InPacket(l, ch)
                  [] link.rx = "sum" -> AtChecksum(l, ch)
                  [] link.rx = "reply" -> send_packet(l, ch)
    BY Zenon, <1>5 DEF RecvChar
  <2> HIDE DEF ch, l
  <2>3. CASE link.rx = "start"
    BY Zenon, <1>1, <2>1, <2>2, <2>3
  <2>4. CASE link.rx = "data"
    BY Zenon, <1>1, <2>1, <2>2, <2>4 DEF InPacket
  <2>5. CASE link.rx = "sum"
    BY Zenon, <1>1, <2>1, <2>2, <2>5 DEF AtChecksum
  <2>6. CASE link.rx = "reply"
    BY Zenon, <1>1, <2>1, <2>2, <2>6 DEF send_packet
  <2>7. QED
    BY Zenon, <1>1, <2>3, <2>4, <2>5, <2>6
<1>6. QED
  BY Zenon, <1>2, <1>3, <1>4, <1>5 DEF LinkNext, ClientLink

\* A qXfer transfer stays in its states.
LEMMA XferOk ==
    ASSUME TransferInv, XferNext
    PROVE  DOMAIN xfer' = DOMAIN xfer /\ xfer'.state \in {"read", "done", "error"}
BY SMTT(30) DEF TransferInv, XferNext, XferRead

\* The files of vFile are descriptors of the host.
LEMMA VfileOk ==
    ASSUME TransferInv, VfileNext
    PROVE  DOMAIN vfile' = DOMAIN vfile /\ vfile'.host \subseteq HostFds
<1>1. /\ DOMAIN vfile = {"fd", "host", "fs", "file", "reads", "got", "done"}
      /\ vfile.host \subseteq HostFds
  BY Zenon DEF TransferInv
<1>2. CASE handle_vfile_setfs
  BY Zenon, <1>1, <1>2 DEF handle_vfile_setfs
<1>3. CASE handle_vfile_open
  BY ZenonT(60), <1>1, <1>3 DEF handle_vfile_open
<1>4. CASE gdb_fd_garbage_collect
  BY Zenon, <1>1, <1>4 DEF gdb_fd_garbage_collect
<1>5. ASSUME NEW i, handle_vfile_close(i) PROVE DOMAIN vfile' = DOMAIN vfile /\ vfile'.host \subseteq HostFds
  BY Zenon, <1>1, <1>5 DEF handle_vfile_close
<1>6. ASSUME NEW i, NEW count, handle_vfile_pread(i, count)
      PROVE  DOMAIN vfile' = DOMAIN vfile /\ vfile'.host \subseteq HostFds
  BY Zenon, <1>1, <1>6 DEF handle_vfile_pread
<1>7. QED
  BY Zenon, <1>2, <1>3, <1>4, <1>5, <1>6 DEF VfileNext

\* A vCont packet has one of the answers.
LEMMA VContOk ==
    ASSUME TransferInv, km_gdb_handle_vcontpacket
    PROVE  DOMAIN vcont' = DOMAIN vcont /\ vcont'.answer \in {"none", "error", "resume"}
BY Zenon DEF TransferInv, km_gdb_handle_vcontpacket

\* What the tables give back for a signal is a signal.
LEMMA SignalBack == \A s \in Signals \cup {1} : linux_signo(gdb_signo(s)) \in 0 .. 64
<1>1. \A p \in Back : p[1] \in 0 .. 64
  BY DEF Back, Renamed, GDB_SIGNAL_CANCEL
<1>2. ASSUME NEW g, g \in 0 .. 64 \/ \E p \in Back : p[2] = g PROVE linux_signo(g) \in 0 .. 64
  <2>1. CASE \E p \in Back : p[2] = g
    <3> DEFINE q == CHOOSE p \in Back : p[2] = g
    <3>1. q \in Back
      BY Zenon, <2>1
    <3>2. linux_signo(g) = q[1]
      BY Zenon, <2>1 DEF linux_signo
    <3> HIDE DEF q
    <3>3. QED
      BY Zenon, <1>1, <3>1, <3>2
  <2>2. CASE ~ \E p \in Back : p[2] = g
    BY Zenon, <1>2, <2>2 DEF linux_signo
  <2>3. QED
    BY Zenon, <2>1, <2>2
<1>3. ASSUME NEW s \in Signals \cup {1}
      PROVE  gdb_signo(s) \in 0 .. 64 \/ \E p \in Back : p[2] = gdb_signo(s)
  <2>1. CASE \E p \in Renamed : p[1] = s
    <3> DEFINE q == CHOOSE p \in Renamed : p[1] = s
    <3>1. q \in Renamed
      BY Zenon, <2>1
    <3>2. gdb_signo(s) = q[2]
      BY Zenon, <2>1 DEF gdb_signo
    <3> HIDE DEF q
    <3>3. q \in Back
      BY Zenon, <3>1 DEF Back
    <3>4. QED
      BY Zenon, <3>2, <3>3
  <2>2. CASE ~ \E p \in Renamed : p[1] = s
    <3>1. gdb_signo(s) = s
      BY Zenon, <2>2 DEF gdb_signo
    <3>2. s \in 0 .. 64
      BY SMTT(30) DEF Signals
    <3>3. QED
      BY Zenon, <3>1, <3>2
  <2>3. QED
    BY Zenon, <2>1, <2>2
<1>4. QED
  BY Zenon, <1>2, <1>3

\* A signal number and what it becomes on its way stay in their ranges.
LEMMA SigOk == ASSUME TransferInv, SigNext PROVE sig' \in [linux : Signals \cup {1}, back : 0 .. 64]
<1>1. sig \in [linux : Signals \cup {1}, back : 0 .. 64]
  BY Zenon DEF TransferInv
<1> DEFINE b == linux_signo(gdb_signo(sig.linux))
<1>2. b \in 0 .. 64 /\ sig' = [sig EXCEPT !.back = b]
  BY Zenon, <1>1, SignalBack DEF SigNext
<1> HIDE DEF b
<1>3. QED
  BY Zenon, <1>1, <1>2

-----------------------------------------------------------------------------
(* Correctness *)

\* Both invariants hold initially.
LEMMA InitInv == Init => BpInv /\ TransferInv
<1> SUFFICES ASSUME Init PROVE BpInv /\ TransferInv
  BY Zenon
<1>1. BpInv
  BY Zenon, InitBp DEF Init
<1>2. /\ DOMAIN link = {"rx", "buf", "handled", "wire", "back", "client", "next", "replies", "corrupted"}
      /\ link.rx = "start" /\ link.client = "send"
  BY Zenon DEF Init, LinkInit
<1>3. DOMAIN xfer = {"kind", "doc", "copy", "got", "state", "chunks"} /\ xfer.state = "read"
  BY SMTT(30) DEF Init, XferInit
<1>4. DOMAIN vfile = {"fd", "host", "fs", "file", "reads", "got", "done"} /\ vfile.host = {}
  BY SMTT(30) DEF Init, VfileInit
<1>5. DOMAIN vcont = {"packet", "run_state", "stepping", "delivered", "answer"} /\ vcont.answer = "none"
  BY SMTT(30) DEF Init, VContInit
<1>6. sig \in [linux : Signals \cup {1}, back : 0 .. 64]
  BY SMTT(30) DEF Init, SigInit, About
<1>7. subject \in Subjects
  BY Zenon DEF Init
<1>8. QED
  BY Zenon, <1>1, <1>2, <1>3, <1>4, <1>5, <1>6, <1>7 DEF TransferInv

\* A step that is not about breakpoints keeps the invariant of the breakpoints.
LEMMA BpStays == BpInv /\ UNCHANGED bpvars => BpInv'
<1> SUFFICES ASSUME BpInv, UNCHANGED bpvars PROVE BpInv'
  BY Zenon
<1>1. UNCHANGED <<payload, sw, hw, debug, dr_regs, hit, reply, regs, attached, crash>>
  BY Zenon DEF bpvars
<1>2. PayloadType' /\ ListsType' /\ Planted'
  BY ZenonT(30), <1>1 DEF BpInv, PayloadType, ListsType, Planted
<1>3. DebugType' /\ Watched'
  BY ZenonT(30), <1>1 DEF BpInv, DebugType, Watched
<1>4. HitType' /\ HitFresh'
  BY ZenonT(30), <1>1 DEF BpInv, HitType, HitFresh, HitNamed
<1>5. SessionType' /\ Detached'
  BY ZenonT(30), <1>1 DEF BpInv, SessionType, Detached
<1>6. QED
  BY Zenon, <1>2, <1>3, <1>4, <1>5 DEF BpInv

\* Every step keeps it.
LEMMA NextBp == BpInv /\ [Next]_vars => BpInv'
<1> SUFFICES ASSUME BpInv, [Next]_vars PROVE BpInv'
  BY Zenon
<1>1. CASE TrapNext
  BY Zenon, <1>1, BreakpointOk, SessionOk, DebugStepOk, PayloadMapOk, Hex2MemOk DEF TrapNext
<1>2. CASE WatchNext
  BY Zenon, <1>2, BreakpointOk, SessionOk, DebugStepOk, SingleStepOk DEF WatchNext
<1>3. CASE RegisterNext
  BY Zenon, <1>3, RegistersOk
<1>4. CASE UNCHANGED bpvars
  BY Zenon, <1>4, BpStays
<1>5. QED
  BY Zenon, <1>1, <1>2, <1>3, <1>4 DEF Next, vars

\* Every step keeps the invariant of the packets.
LEMMA NextTransfer == TransferInv /\ [Next]_vars => TransferInv'
<1> SUFFICES ASSUME TransferInv, [Next]_vars PROVE TransferInv'
  BY Zenon
<1>0. UNCHANGED subject
  BY Zenon DEF Next, vars
<1>1. CASE UNCHANGED trvars
  BY Zenon, <1>0, <1>1 DEF TransferInv, trvars
<1>2. CASE LinkNext /\ UNCHANGED <<xfer, vfile, vcont, sig>>
  BY Zenon, <1>0, <1>2, LinkOk DEF TransferInv
<1>3. CASE XferNext /\ UNCHANGED <<link, vfile, vcont, sig>>
  BY Zenon, <1>0, <1>3, XferOk DEF TransferInv
<1>4. CASE VfileNext /\ UNCHANGED <<link, xfer, vcont, sig>>
  BY Zenon, <1>0, <1>4, VfileOk DEF TransferInv
<1>5. CASE km_gdb_handle_vcontpacket /\ UNCHANGED <<link, xfer, vfile, sig>>
  BY Zenon, <1>0, <1>5, VContOk DEF TransferInv
<1>6. CASE SigNext /\ UNCHANGED <<link, xfer, vfile, vcont>>
  BY SMTT(30), <1>0, <1>6, SigOk DEF TransferInv
<1>7. QED
  BY Zenon, <1>1, <1>2, <1>3, <1>4, <1>5, <1>6 DEF Next, vars

\* What the invariants say is what the property says.
LEMMA ExactFollows == BpInv /\ TransferInv => BreakpointsExact
<1> SUFFICES ASSUME BpInv, TransferInv PROVE BreakpointsExact
  BY Zenon
<1>1. TypeOK
  <2>1. attached \in BOOLEAN /\ regs.vcpu.reported \in Values /\ crash \in {"none", "int3"}
    BY Zenon DEF BpInv, SessionType
  <2>2. payload.mapped \subseteq Addrs /\ payload.disturbed \subseteq Addrs
    BY Zenon DEF BpInv, PayloadType
  <2>3. \A bp \in sw : bp.type = "SW" /\ bp.addr \in Addrs /\ bp.len \in Sizes
    BY Zenon DEF BpInv, ListsType, BpRecords
  <2>4. \A bp \in Range(hw) : bp.type \in HwTypes /\ bp.addr \in Addrs /\ bp.len \in Sizes
    <3>1. \A n \in DOMAIN hw : hw[n] \in BpRecords(HwTypes)
      BY DEF BpInv, ListsType
    <3>2. \A bp \in Range(hw) : bp \in BpRecords(HwTypes)
      BY <3>1, Zenon DEF Range
    <3>3. QED
      BY Zenon, <3>2 DEF BpRecords
  <2>5. \A n \in DOMAIN debug.hw : debug.hw[n].code \in 0 .. 3
    <3>1. debug.hw \in Seq(DrRecords)
      BY Zenon DEF BpInv, DebugType
    <3>2. \A n \in DOMAIN debug.hw : debug.hw[n] \in DrRecords
      BY Zenon, <3>1, DrEntries
    <3>3. QED
      BY Zenon, <3>2 DEF DrRecords
  <2>6. sig.back \in 0 .. 64
    BY Zenon DEF TransferInv
  <2>7. QED
    BY Zenon, <2>1, <2>2, <2>3, <2>4, <2>5, <2>6 DEF TypeOK, TransferInv
<1>2. ASSUME NEW a \in payload.mapped \ payload.disturbed
      PROVE  /\ payload.mem[a] = IF bp_list_find("SW", a) = {} THEN payload.prog[a] ELSE "int3"
             /\ km_guest_mem2hex(a) = payload.prog[a]
  <2>1. CASE bp_list_find("SW", a) = {}
    <3>1. \A bp \in sw : bp.addr # a
      BY Zenon, <2>1 DEF bp_list_find, bp_list
    <3>2. payload.mem[a] = payload.prog[a]
      BY Zenon, <1>2, <3>1 DEF BpInv, Planted
    <3>3. QED
      BY Zenon, <2>1, <3>2 DEF km_guest_mem2hex
  <2>2. CASE bp_list_find("SW", a) # {}
    <3> DEFINE b == CHOOSE bp \in bp_list_find("SW", a) : TRUE
    <3>1. b \in bp_list_find("SW", a)
      BY Zenon, <2>2
    <3>2. km_guest_mem2hex(a) = b.saved
      BY Zenon, <2>2 DEF km_guest_mem2hex
    <3> HIDE DEF b
    <3>3. b \in sw /\ b.addr = a
      BY Zenon, <3>1 DEF bp_list_find, bp_list
    <3>4. payload.mem[a] = "int3" /\ b.saved = payload.prog[a]
      BY Zenon, <1>2, <3>3 DEF BpInv, Planted
    <3>5. QED
      BY Zenon, <2>2, <3>2, <3>4
  <2>3. QED
    BY Zenon, <2>1, <2>2
<1>3. PlantedExactly
  BY Zenon, <1>2 DEF PlantedExactly
<1>4. DetachedClean
  <2> SUFFICES ASSUME ~attached PROVE
         /\ \A a \in payload.mapped \ payload.disturbed : payload.mem[a] = payload.prog[a]
         /\ ~debug.step /\ debug.hw = <<>> /\ hw = <<>>
         /\ \A bp \in sw : bp.addr \in payload.disturbed
    BY Zenon DEF DetachedClean
  <2>1. ~debug.step /\ hw = <<>> /\ \A bp \in sw : bp.addr \in payload.disturbed
    BY Zenon DEF BpInv, Detached
  <2>2. \A a \in payload.mapped \ payload.disturbed : payload.mem[a] = payload.prog[a]
    BY Zenon, <2>1 DEF BpInv, Planted
  <2>3. debug.hw = <<>>
    <3>1. Len(debug.hw) = 0 /\ debug.hw \in Seq(DrRecords)
      BY Zenon, <2>1 DEF BpInv, Watched, DebugType
    <3>2. QED
      BY Zenon, <3>1, EmptyFacts
  <2>4. QED
    BY Zenon, <2>1, <2>2, <2>3
<1>5. RegistersMatchLists
  <2>1. DOMAIN hw = 1 .. Len(hw)
    BY DEF BpInv, ListsType
  <2>2. QED
    BY Zenon, <2>1 DEF BpInv, ListsType, Watched, RegistersMatchLists
<1>6. QED
  BY Zenon, <1>1, <1>3, <1>4, <1>5 DEF BreakpointsExact, BpInv, HitFresh

\* Breakpoints are exact (gdb_kvm_x86_64.c), with any number of addresses, debug
\* registers and client commands: the payload's memory and the debug registers hold
\* what the lists of breakpoints say, nothing once the client has left, and a hit is
\* reported at the address that was touched.
THEOREM BreakpointsCorrect == Spec => []BreakpointsExact
<1>1. Init => BpInv /\ TransferInv
  BY Zenon, InitInv
<1>2. BpInv /\ TransferInv /\ [Next]_vars => (BpInv /\ TransferInv)'
  BY Zenon, NextBp, NextTransfer
<1>3. BpInv /\ TransferInv => BreakpointsExact
  BY Zenon, ExactFollows
<1>4. QED
  BY <1>1, <1>2, <1>3, PTL DEF Spec

=============================================================================
