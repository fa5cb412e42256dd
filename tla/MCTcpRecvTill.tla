---------------------------- MODULE MCTcpRecvTill ----------------------------
(***************************************************************************)
(* TcpRecvTill for TLC: all streams of four bytes over two letters, a      *)
(* pattern of two equal letters (so that occurrences overlap and come in   *)
(* two reads), and buffers that end within, at and behind the pattern.     *)
(***************************************************************************)
EXTENDS TcpRecvTill

AllStreams == [1..4 -> {"a", "p"}]
PP == <<"p", "p">>
SomeRequests == {<<2, <<>>>>, <<3, PP>>, <<4, PP>>}
=============================================================================
