-------------------------------- MODULE Tasks --------------------------------
(***************************************************************************)
(* The task objects and the null pointer.                                  *)
(***************************************************************************)
CONSTANTS
    Task,       \* addresses of task objects; one may be used again
    NULL

ASSUME NullAssumption == NULL \notin Task
=============================================================================
