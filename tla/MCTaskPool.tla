----------------------------- MODULE MCTaskPool -----------------------------
(***************************************************************************)
(* TLC instance of TaskPool: two template instances, three object          *)
(* addresses.                                                              *)
(***************************************************************************)
EXTENDS TaskPool, TLC

\* Addresses are interchangeable: no step compares or orders them.
Symmetry == Permutations(Task)
=============================================================================
