---------------------------- MODULE MCTcpChannel ----------------------------
(***************************************************************************)
(* TcpChannel for TLC: three tasks, two numbers, all pairs of packets with *)
(* a header of two bytes: too short, only a header, one byte more (the     *)
(* size of the buffer), too long.                                          *)
(***************************************************************************)
EXTENDS TcpChannel

Packet == [seq : SeqNum \cup {Bad}, len : {1, 2, 3, 4}]
\* Numbers are interchangeable: of two good packets the first has number s1.
Pairs == {p \in Packet \X Packet : p[1].seq \in {"s1", Bad}}
AllTraffic == {[packets |-> p, bytes |-> PacketBytes(p, 1) \o PacketBytes(p, 2)] : p \in Pairs}
=============================================================================
