---------------------------- MODULE MCRedisConn ----------------------------
(***************************************************************************)
(* RedisConn for TLC: three tasks, a queue of up to four cells, of which   *)
(* some may be of canceled commands, and intervals that double once before *)
(* the limit cuts them.                                                    *)
(***************************************************************************)
EXTENDS RedisConn
=============================================================================
