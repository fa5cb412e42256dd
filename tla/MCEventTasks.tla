--------------------------- MODULE MCEventTasks ---------------------------
(***************************************************************************)
(* EventTasks for TLC: two tasks and one name, so that a name passes from  *)
(* one sync to the next, and three handles or requests, so that one can    *)
(* outlive its task while the task waits for another.                      *)
(***************************************************************************)
EXTENDS EventTasks
=============================================================================
