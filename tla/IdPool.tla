-------------------------------- MODULE IdPool --------------------------------
(***************************************************************************)
(* What the task template promises about ids, without free lists, tables,  *)
(* borrowing or the status of objects: each pool owns a set of ids that no *)
(* other pool has; an object holds at most one id, of its own pool, and no *)
(* two objects hold the same; an object is refused an id only when its     *)
(* pool has none left; an id that is given back can be taken again.        *)
(* TaskPool implements it (TaskPool!ImplementsIdPool).                     *)
(***************************************************************************)
EXTENDS Integers, FiniteSets

CONSTANTS Pool, Task

None == -1

VARIABLES
    home,       \* [Task -> Pool]
    ids,        \* [Pool -> set of ids]
    held,       \* [Task -> id, or None]
    refused     \* objects that were created without an id

vars == <<home, ids, held, refused>>

Taken == {held[t] : t \in Task} \ {None}
Left(p) == ids[p] \ Taken

Init ==
    /\ home \in [Task -> Pool]
    /\ ids = [p \in Pool |-> {}]
    /\ held = [t \in Task |-> None]
    /\ refused = {}

\* A pool gets its ids, once.
Open(p) ==
    /\ ids[p] = {}
    /\ ids'[p] # {} /\ ids'[p] \subseteq Nat
    /\ \A q \in Pool : ids'[p] \cap ids[q] = {}
    /\ ids' = [ids EXCEPT ![p] = ids'[p]]
    /\ UNCHANGED <<home, held, refused>>

\* A new object takes any id that is left, or is refused one when none is.
Take(t) ==
    /\ held[t] = None /\ t \notin refused
    /\ \E i \in Left(home[t]) : held' = [held EXCEPT ![t] = i]
    /\ UNCHANGED <<home, ids, refused>>

Refuse(t) ==
    /\ held[t] = None /\ t \notin refused
    /\ Left(home[t]) = {}
    /\ refused' = refused \cup {t}
    /\ UNCHANGED <<home, ids, held>>

\* An object gives its id back, or no longer asks for one.
Release(t) ==
    /\ held[t] # None \/ t \in refused
    /\ held' = [held EXCEPT ![t] = None]
    /\ refused' = refused \ {t}
    /\ UNCHANGED <<home, ids>>

Next ==
    \/ \E p \in Pool : Open(p)
    \/ \E t \in Task : Take(t) \/ Refuse(t) \/ Release(t)

Spec == Init /\ [][Next]_vars
================================================================================
