----------------------------- MODULE GdbTransfer -----------------------------
(***************************************************************************)
(* The gdb remote protocol as km_gdb_stub.c speaks it: framing and         *)
(* acknowledgement of packets, documents that the client reads piece by    *)
(* piece (qXfer), files it reads through the stub (vFile), the actions of  *)
(* vCont and the numbers of signals.                                       *)
(*                                                                         *)
(* A character is a string, a checksum one symbol, a number.  A document   *)
(* or a file is a sequence of characters; "}" stands for all characters    *)
(* that have to be escaped, which takes two characters.                    *)
(***************************************************************************)
EXTENDS Naturals, Sequences, FiniteSets, Functions, TLC

CONSTANTS Packets,        \* packets the client sends, in order
          MaxCorrupted,   \* bound: frames damaged on the way, each direction
          Documents,      \* documents and files that are read
          Chunks,         \* how much a client asks for at a time
          BUFMAX,         \* the stub's buffer, as far as files are concerned
          MAX_GDB_VFILE_OPEN_FD,
          HostFds,        \* descriptors KM may get for a client's files
          VContPackets

VARIABLES link,     \* both ends of the connection
          xfer,     \* a qXfer in progress
          vfile,    \* the stub's files, and a client that reads one
          vcont,    \* the run states that vCont sets
          sig       \* a signal that is reported and comes back
trvars == <<link, xfer, vfile, vcont, sig>>

-----------------------------------------------------------------------------
(* Packets: recv_packet and send_packet *)

\* The elements of q taken one by one, in order.
Through(op(_, _), base, q) ==
    LET upTo[n \in 0 .. Len(q)] == IF n = 0 THEN base ELSE op(upTo[n - 1], q[n]) IN upTo[Len(q)]

Value(c) == CASE c = "a" -> 1 [] c = "b" -> 2 [] c = "$" -> 3 [] c = "#" -> 4 [] OTHER -> 0
Checksum(data) == Through(LAMBDA s, c : s + Value(c), 0, data)
Frame(data) == <<"$">> \o data \o <<"#", ToString(Checksum(data))>>
Damaged(frame) == {[frame EXCEPT ![i] = c] : i \in DOMAIN frame, c \in {"$", "#", "a", "b"}}

LinkInit == link = [rx |-> "start", buf |-> <<>>, handled |-> <<>>, wire |-> <<>>, back |-> <<>>,
                    client |-> "send", next |-> 1, replies |-> 0, corrupted |-> 0]

\* The client (external) sends the next packet, or the same one again after
\* "-", or when it has waited long enough for nothing to be on its way.
Sends == \/ link.client = "send"
         \/ link.client = "ack" /\ link.back # <<>> /\ Head(link.back) = "-"
         \/ link.client = "ack" /\ link.back = <<>> /\ link.wire = <<>> /\ link.rx # "reply"
ClientSend ==
    /\ link.next <= Len(Packets) /\ Sends
    /\ LET f == Frame(Packets[link.next])
           rest == IF link.back = <<>> THEN <<>> ELSE Tail(link.back)
       IN  \/ link' = [link EXCEPT !.wire = @ \o f, !.client = "ack", !.back = rest]
           \/ /\ link.corrupted < MaxCorrupted
              /\ \E d \in Damaged(f) :
                    link' = [link EXCEPT !.wire = @ \o d, !.client = "ack", !.back = rest,
                                         !.corrupted = @ + 1]
ClientAcked ==
    /\ link.client = "ack" /\ link.back # <<>> /\ Head(link.back) = "+"
    /\ link' = [link EXCEPT !.client = "reply", !.back = Tail(@)]
\* A reply arrives whole or damaged.
ClientReply ==
    /\ link.client = "reply" /\ link.back # <<>> /\ Head(link.back) = "reply"
    /\ \/ link' = [link EXCEPT !.client = "send", !.next = @ + 1, !.replies = @ + 1,
                               !.wire = Append(@, "+"), !.back = Tail(@)]
       \/ /\ link.corrupted < MaxCorrupted
          /\ link' = [link EXCEPT !.wire = Append(@, "-"), !.back = Tail(@),
                                  !.corrupted = @ + 1]

\* recv_packet: the data of a packet, which a "$" starts again.
InPacket(l, ch) == IF ch = "$" THEN [l EXCEPT !.buf = <<>>]
                   ELSE IF ch = "#" THEN [l EXCEPT !.rx = "sum"]
                   ELSE [l EXCEPT !.buf = Append(@, ch)]

\* recv_packet: a good packet is acknowledged, handled and answered.
AtChecksum(l, ch) ==
    IF ch = ToString(Checksum(l.buf))
    THEN [l EXCEPT !.rx = "reply", !.handled = Append(@, l.buf), !.buf = <<>>,
                   !.back = @ \o <<"+", "reply">>]
    ELSE [l EXCEPT !.rx = "start", !.buf = <<>>, !.back = Append(@, "-")]

\* Mutant of send_packet: one answer, whatever the client says to it.
send_packetMutant(l, ch) == [l EXCEPT !.rx = "start"]

\* send_packet: the answer is sent again until the client says "+".
send_packet(l, ch) == IF ch = "+" THEN [l EXCEPT !.rx = "start"]
                      ELSE [l EXCEPT !.back = Append(@, "reply")]

\* recv_char, and what it is taken for.
RecvChar ==
    /\ link.wire # <<>>
    /\ LET ch == Head(link.wire)
           l == [link EXCEPT !.wire = Tail(@)]
       IN  link' = CASE link.rx = "start" ->
                          IF ch = "$" THEN [l EXCEPT !.rx = "data", !.buf = <<>>] ELSE l
                     [] link.rx = "data" -> InPacket(l, ch)
                     [] link.rx = "sum" -> AtChecksum(l, ch)
                     [] link.rx = "reply" -> send_packet(l, ch)

ClientLink == ClientSend \/ ClientAcked \/ ClientReply
LinkNext == ClientLink \/ RecvChar

-----------------------------------------------------------------------------
(* Escapes *)

Special == "}"
\* gdb_add_escapes and gdb_binary_escape_add without a limit.
gdb_add_escapes(data) ==
    Through(LAMBDA out, c : out \o (IF c = Special THEN <<"}", "]">> ELSE <<c>>), <<>>, data)
\* What the client makes of it (external); an escape that is cut off is an error.
Unescaped(data) ==
    LET step(c, s) == IF s.esc THEN [out |-> Append(s.out, Special), esc |-> FALSE]
                      ELSE IF c = "}" THEN [s EXCEPT !.esc = TRUE]
                      ELSE [s EXCEPT !.out = Append(@, c)]
    IN  Through(LAMBDA s, c : step(c, s), [out |-> <<>>, esc |-> FALSE], data)

\* Mutant of Consumed: an escaped character is counted once in the output.
ConsumedMutant(input, outputl) ==
    LET fits == {n \in 0 .. Len(input) : n <= outputl} IN CHOOSE n \in fits : \A m \in fits : m <= n

\* How much of the input gdb_binary_escape_add takes: what fits the output.
Consumed(input, outputl) ==
    LET fits == {n \in 0 .. Len(input) : Len(gdb_add_escapes(SubSeq(input, 1, n))) <= outputl}
    IN  CHOOSE n \in fits : \A m \in fits : m <= n
\* What reaches the client then.
gdb_binary_escape_add(input, outputl) ==
    LET out == gdb_add_escapes(SubSeq(input, 1, Consumed(input, outputl)))
    IN  SubSeq(out, 1, IF Len(out) < outputl THEN Len(out) ELSE outputl)

-----------------------------------------------------------------------------
(* qXfer: a document in pieces *)

Kinds == {"threads", "auxv", "exec-file", "libraries"}
XferInit(kinds, docs) == \E kind \in kinds, doc \in docs :
               xfer = [kind |-> kind, doc |-> doc, copy |-> <<>>, got |-> <<>>, state |-> "read",
                       chunks |-> 0]

\* What is kept from the first piece on: auxv and the name are escaped, the
\* name keeps its terminating null (here "0").
Copy(kind, doc) == CASE kind \in {"threads", "libraries"} -> doc
                     [] kind = "auxv" -> gdb_add_escapes(doc)
                     [] kind = "exec-file" -> Append(gdb_add_escapes(doc), "0")

\* The piece at an offset, and whether it is the last: "l" or "m".  The list of
\* threads ends with an empty piece of its own.
Piece(kind, copy, offset, length) ==
    LET left == IF offset >= Len(copy) THEN 0 ELSE Len(copy) - offset
        n == IF left > length THEN length ELSE left
    IN  [last |-> IF kind = "threads" THEN left = 0 ELSE left <= length,
         data |-> SubSeq(copy, offset + 1, offset + n)]

\* The client asks for the next piece: its offset counts what it has got.  The
\* copy is made for offset 0 and freed with the last piece.
XferRead(length) ==
    /\ xfer.state = "read"
    /\ LET offset == Len(xfer.got)
           copy == IF offset = 0 THEN Copy(xfer.kind, xfer.doc) ELSE xfer.copy
           p == Piece(xfer.kind, copy, offset, length)
           seen == SelectSeq(p.data, LAMBDA c : c # "0")   \* the null ends the packet
           u == Unescaped(seen)
       IN  xfer' = [xfer EXCEPT !.copy = IF p.last THEN <<>> ELSE copy,
                                !.got = @ \o u.out,
                                !.chunks = @ + 1,
                                !.state = IF u.esc THEN "error" ELSE IF p.last THEN "done" ELSE @]
XferNext == \E length \in Chunks : XferRead(length)

-----------------------------------------------------------------------------
(* vFile *)

FREE_SLOT == 0      \* GDB_VFILE_FD_FREE_SLOT
VfileInit(files) == \E file \in files :
    vfile = [fd |-> [i \in 1 .. MAX_GDB_VFILE_OPEN_FD |-> FREE_SLOT], host |-> {}, fs |-> FALSE,
             file |-> file, reads |-> 0, got |-> <<>>, done |-> FALSE]

\* gdb_fd_alloc: the first free slot.
gdb_fd_alloc == {i \in DOMAIN vfile.fd : /\ vfile.fd[i] = FREE_SLOT
                                         /\ \A j \in 1 .. i - 1 : vfile.fd[j] # FREE_SLOT}
gdb_fd_find(i) == vfile.fd[i] # FREE_SLOT

handle_vfile_setfs == /\ ~vfile.fs
                      /\ vfile' = [vfile EXCEPT !.fs = TRUE]

\* The slot is given back when the root of the file system is not known or the
\* open fails; with no slot left the client gets ENFILE.
handle_vfile_open ==
    \E i \in gdb_fd_alloc, ok \in BOOLEAN :
       IF vfile.fs /\ ok
       THEN \E h \in HostFds \ vfile.host :
               vfile' = [vfile EXCEPT !.fd[i] = h, !.host = @ \cup {h}]
       ELSE UNCHANGED vfile
handle_vfile_close(i) ==
    /\ gdb_fd_find(i)
    /\ vfile' = [vfile EXCEPT !.fd[i] = FREE_SLOT, !.host = @ \ {vfile.fd[i]}]
\* km_gdb_detach closes what the client has left open; the pid of setfs stays.
gdb_fd_garbage_collect ==
    vfile' = [vfile EXCEPT !.fd = [i \in DOMAIN vfile.fd |-> FREE_SLOT],
                           !.host = @ \ Range(vfile.fd)]

\* handle_vfile_pread: at most BUFMAX characters are read, and what does not
\* fit the answer once it is escaped is left for the next read.
handle_vfile_pread(i, count) ==
    /\ gdb_fd_find(i) /\ ~vfile.done
    /\ LET n == IF count > BUFMAX THEN BUFMAX ELSE count
           offset == vfile.reads
           left == IF Len(vfile.file) - offset > n THEN offset + n ELSE Len(vfile.file)
           read == SubSeq(vfile.file, offset + 1, left)
           taken == Consumed(read, BUFMAX)
           u == Unescaped(gdb_binary_escape_add(read, BUFMAX))
       IN  vfile' = [vfile EXCEPT !.reads = offset + taken, !.got = @ \o u.out,
                                  !.done = taken = 0 \/ u.esc]

VfileNext == \/ handle_vfile_setfs \/ handle_vfile_open \/ gdb_fd_garbage_collect
             \/ \E i \in DOMAIN vfile.fd :
                   handle_vfile_close(i) \/ \E count \in Chunks : handle_vfile_pread(i, count)

-----------------------------------------------------------------------------
(* vCont *)

Vcpus == {1, 2}     \* that live; another thread id is unknown
VContInit(packets) == \E p \in packets :
    vcont = [packet |-> p, run_state |-> [v \in Vcpus |-> "RUNNING"], stepping |-> FALSE,
             delivered |-> <<>>, answer |-> "none"]

NoActions == [act |-> [v \in Vcpus |-> "NONE"], sent |-> <<>>, error |-> FALSE]
Asks(cmd) == CASE cmd \in {"c", "C"} -> "RUNNING" [] cmd \in {"s", "S"} -> "STEPPING"
               [] cmd = "r" -> "RANGESTEPPING"
\* Mutant of WithThread: a later action replaces an earlier one.
WithThreadMutant(b, cmd, t) ==
    IF b.error \/ t \notin Vcpus THEN [b EXCEPT !.error = TRUE]
    ELSE [b EXCEPT !.act[t] = Asks(cmd), !.sent = IF cmd \in {"C", "S"} THEN Append(@, t) ELSE @]
\* One thread of an action: the leftmost action wins, a signal is delivered.
WithThread(b, cmd, t) ==
    IF b.error \/ t \notin Vcpus THEN [b EXCEPT !.error = TRUE]
    ELSE [b EXCEPT !.act[t] = IF @ = "NONE" THEN Asks(cmd) ELSE @,
                   !.sent = IF cmd \in {"C", "S"} THEN Append(@, t) ELSE @]
\* One action of the packet, with its threads or for all; "t" is not supported.
\* A range needs a thread.  For C and S the command has been stepped over when
\* an action without threads looks at it again.
WithAction(b, a) ==
    IF b.error \/ a.cmd = "t" \/ (a.cmd = "r" /\ a.tids = <<>>) THEN [b EXCEPT !.error = TRUE]
    ELSE IF a.tids # <<>> THEN Through(LAMBDA x, t : WithThread(x, a.cmd, t), b, a.tids)
    ELSE [b EXCEPT !.act = [v \in Vcpus |->
            IF @[v] # "NONE" THEN @[v] ELSE IF a.cmd = "c" THEN "RUNNING" ELSE "STEPPING"]]
threadactionblob == Through(WithAction, NoActions, vcont.packet)

\* km_gdb_handle_vcontpacket: threads that are not mentioned are paused; the
\* stepping flag is that of the last vcpu that is not paused.
km_gdb_handle_vcontpacket ==
    /\ vcont.answer = "none"
    /\ LET b == threadactionblob
           new == [v \in Vcpus |-> IF b.act[v] = "NONE" THEN "PAUSED" ELSE b.act[v]]
           told == {v \in Vcpus : new[v] # "PAUSED"}
       IN  vcont' = IF b.error
                    THEN [vcont EXCEPT !.answer = "error", !.delivered = b.sent]
                    ELSE [vcont EXCEPT !.answer = "resume", !.delivered = b.sent,
                                       !.run_state = new,
                                       !.stepping = IF told = {} THEN @
                                                    ELSE new[CHOOSE v \in told : \A u \in told : u <= v]
                                                         # "RUNNING"]

-----------------------------------------------------------------------------
(* Signal numbers *)

GDB_SIGNAL_CANCEL == 76
\* The tables of gdb_signo and linux_signo: linux number, gdb number.
Renamed == {<<7, 10>>, <<10, 30>>, <<12, 31>>, <<17, 20>>, <<18, 19>>, <<19, 17>>, <<20, 18>>,
            <<23, 16>>, <<29, 33>>, <<30, 32>>, <<31, 12>>, <<32, 46>>, <<33, GDB_SIGNAL_CANCEL>>,
            <<34, 45>>}
gdb_signo(s) == IF \E p \in Renamed : p[1] = s THEN (CHOOSE p \in Renamed : p[1] = s)[2] ELSE s
\* 23 is SIGIO to gdb, which gdb_signo calls SIGPOLL.
Back == Renamed \cup {<<29, 23>>}
linux_signo(g) == IF \E p \in Back : p[2] = g THEN (CHOOSE p \in Back : p[2] = g)[1] ELSE g

\* A signal is reported and the client passes it on; 35 is just past the end of
\* the table.
Signals == (1 .. 64) \ {35}
SigInit(sigs) == sig \in [linux : sigs, back : {0}]
SigNext == sig.back = 0 /\ sig' = [sig EXCEPT !.back = linux_signo(gdb_signo(sig.linux))]

-----------------------------------------------------------------------------
(* Properties *)

\* What the stub handles is what the client has sent: each packet once, in
\* order, whatever frames are damaged on the way.
HandledInOrder ==
    /\ link.handled = SubSeq(Packets, 1, Len(link.handled))
    /\ link.replies <= Len(link.handled) /\ Len(link.handled) <= link.replies + 1

Plain(doc) == Special \notin Range(doc)

\* A client that reads a document in pieces gets the document, if it holds
\* nothing that has to be escaped, or is escaped and fits one piece.
TransferExact ==
    /\ Plain(xfer.doc) /\ xfer.state # "read" => xfer.state = "done" /\ xfer.got = xfer.doc
    /\ xfer.kind \in {"auxv", "exec-file"} /\ xfer.state = "done" /\ xfer.chunks = 1
          => xfer.got = xfer.doc

\* The files that are open for the client are the ones in the table, each in
\* one slot.
VfilesAccounted ==
    /\ Range(vfile.fd) \ {FREE_SLOT} = vfile.host
    /\ \A i, j \in DOMAIN vfile.fd : vfile.fd[i] = vfile.fd[j] /\ gdb_fd_find(i) => i = j

\* Reading a file piece by piece gives the file, whatever is escaped and however
\* small the pieces.
PreadExact ==
    /\ vfile.got = SubSeq(vfile.file, 1, vfile.reads)
    /\ vfile.done => vfile.reads = Len(vfile.file)

Applies(i, v) == LET a == vcont.packet[i] IN v \in Range(a.tids) \/ a.tids = <<>>
Reference(v) ==
    LET which == {i \in DOMAIN vcont.packet : Applies(i, v)}
    IN  IF which = {} THEN "PAUSED"
        ELSE Asks(vcont.packet[CHOOSE i \in which : \A j \in which : i <= j].cmd)

\* The action a vCont packet asks of a thread is the leftmost one that names the
\* thread or all of them; who is not asked for is paused; a packet that is
\* refused changes no thread's run state.  (C and S without a thread, which the
\* code takes for a step, are left out.)
VContLeftmost ==
    /\ vcont.answer = "error" => \A v \in Vcpus : vcont.run_state[v] = "RUNNING"
    /\ /\ vcont.answer = "resume"
       /\ \A i \in DOMAIN vcont.packet : vcont.packet[i].tids = <<>> => vcont.packet[i].cmd \in {"c", "s"}
       => \A v \in Vcpus : vcont.run_state[v] = Reference(v)

\* What the comment of threadaction says: the values are applied "after the
\* entire command is validated".
VContAllOrNothing == vcont.answer = "error" => vcont.delivered = <<>>

\* A signal that the client passes on is the signal that was reported.  SIGSTKFLT
\* and the real-time signals 45 and 46 have no number of their own.
SignalReturns == sig.back # 0 /\ sig.linux \notin {16, 45, 46} => sig.back = sig.linux

=============================================================================
