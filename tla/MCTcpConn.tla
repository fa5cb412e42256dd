----------------------------- MODULE MCTcpConn -----------------------------
(***************************************************************************)
(* TcpConn for TLC: two tasks and two connected objects, so that two       *)
(* accepts queue, two sends share a connection, and a peer connects while  *)
(* an accept is canceled.                                                  *)
(***************************************************************************)
EXTENDS TcpConn
=============================================================================
