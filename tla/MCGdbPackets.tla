---------------------------- MODULE MCGdbPackets ----------------------------
(* A small instance of GdbPackets. *)
EXTENDS GdbPackets

MCPackets == << <<"a">>, <<"b", "a">> >>
MCDocuments == UNION {[1 .. n -> {"x", "y", "}"}] : n \in 0 .. 3} \cup {<<"x", "y", "x", "y", "}">>}
MCAction == [cmd : {"c", "s", "C", "S", "r", "t"}, tids : {<<>>, <<1>>, <<2>>, <<1, 2>>, <<2, 3>>}]
MCVContPackets == UNION {[1 .. n -> MCAction] : n \in 1 .. 2}
MCSubjects == {"traps", "watchpoints", "registers", "packets", "transfer", "files", "vCont", "signals"}
=============================================================================
