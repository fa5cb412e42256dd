------------------------- MODULE PoolUdpHttpProofs -------------------------
(***************************************************************************)
(* Proofs about TaskPool, in the second part about Udp, and in the third   *)
(* about Http.                                                             *)
(***************************************************************************)
EXTENDS TaskPool, Udp, Http, SharedLemmas, FiniteSetTheorems

-----------------------------------------------------------------------------
(***************************************************************************)
(* Proofs for TaskPool, for any set of template instances, any set of      *)
(* object addresses and any pool sizes.                                    *)
(*                                                                         *)
(* The argument: PoolOK is one template instance's bookkeeping, stated     *)
(* over values so that the two things code ever does to a free list, take  *)
(* from its front (TakeOK) and give back to its front (GiveOK), are lemmas *)
(* about values.  It counts the holders: without "as many holders as slots *)
(* taken" nothing stops *(--free_list_front) from leaving the array.       *)
(* ObjectsOK says which objects may have an id at all.                     *)
(***************************************************************************)

\* The free list of a template instance with n ids from f on, its front at k,
\* against the set H of objects that hold an id, u giving each its id.
PoolOK(list, k, n, f, H, u) ==
    /\ list \in [0..(n-1) -> Nat]
    /\ k \in 0..n
    /\ IsFiniteSet(H) /\ Cardinality(H) = k
    /\ \A i \in k..(n-1) : list[i] \in f..(f+n-1)
    /\ \A t \in H : u[t] \in f..(f+n-1)
    /\ \A i, j \in k..(n-1) : list[i] = list[j] => i = j
    /\ \A t, q \in H : u[t] = u[q] => t = q
    /\ \A t \in H, i \in k..(n-1) : u[t] # list[i]
    /\ \A id \in f..(f+n-1) : \/ \E i \in k..(n-1) : list[i] = id
                              \/ \E t \in H : u[t] = id

PoolsOK == \A p \in Pool :
    PoolOK(free_list[p], free_list_front[p], max_task_num[p], first_id[p], Holders(p), uid)

\* Ranges of different instances are disjoint and below g_max_task_num.
RangesOK ==
    /\ \A p \in Pool : first_id[p] + max_task_num[p] <= g_max_task_num
    /\ \A p, q \in Pool : p # q =>
          \/ max_task_num[p] = 0 \/ max_task_num[q] = 0
          \/ first_id[p] + max_task_num[p] <= first_id[q]
          \/ first_id[q] + max_task_num[q] <= first_id[p]
    /\ \A p \in Pool : ~initialized[p] => max_task_num[p] = 0

\* The tables cover every id once the first task exists.
TablesOK ==
    IF global_initialized
      THEN capacity = g_max_task_num
      ELSE capacity = 0 /\ \A t \in Task : status[t] = "none"

\* Which objects have an id: nobody without an object, no limited one; an
\* awaited one has its parent's, while both run.
ObjectsOK ==
    /\ \A t \in Task : status[t] \in {"none", "limited"} => uid[t] = EVENT_LOOP_ID
    /\ \A t \in Task : status[t] \in {"ready", "running"} => uid[t] # EVENT_LOOP_ID
    /\ \A t \in Task : status[t] # "running" => reuse[t] = NULL
    /\ \A t, q \in Task : reuse[q] = t => status[t] = "running" /\ uid[t] = uid[q]
    /\ \A t, q, r \in Task : reuse[q] = t /\ reuse[r] = t => q = r

IndInv == /\ TypeOK
          /\ PoolsOK
          /\ RangesOK
          /\ TablesOK
          /\ ObjectsOK
          /\ IdsHaveCoroutine
          /\ ManagerNamesHolder

-----------------------------------------------------------------------------
\* Taking the id at the front of the free list keeps the bookkeeping right.
LEMMA TakeOK ==
    ASSUME NEW list, NEW k, NEW n \in Nat, NEW f \in Nat, NEW H, NEW u, NEW v, NEW t,
           PoolOK(list, k, n, f, H, u), k # n, t \notin H,
           \A q \in H : v[q] = u[q], v[t] = list[k]
    PROVE  PoolOK(list, k + 1, n, f, H \cup {t}, v)
<1>1. /\ IsFiniteSet(H \cup {t})
      /\ Cardinality(H \cup {t}) = k + 1
  BY FS_AddElement DEF PoolOK
<1>2. k \in Nat /\ k + 1 \in 0..n /\ k \in k..(n-1)
  BY DEF PoolOK
<1>3. \A id \in f..(f+n-1) : \/ \E i \in (k+1)..(n-1) : list[i] = id
                             \/ \E q \in H \cup {t} : v[q] = id
  <2> SUFFICES ASSUME NEW id \in f..(f+n-1)
               PROVE  \/ \E i \in (k+1)..(n-1) : list[i] = id
                      \/ \E q \in H \cup {t} : v[q] = id
    OBVIOUS
  <2>1. CASE \E i \in k..(n-1) : list[i] = id
    <3>1. PICK i \in k..(n-1) : list[i] = id
      BY <2>1
    <3>2. i = k \/ i \in (k+1)..(n-1)
      BY <1>2, <3>1
    <3> QED
      BY <3>1, <3>2
  <2>2. CASE \E q \in H : u[q] = id
    BY <2>2
  <2> QED
    BY <2>1, <2>2 DEF PoolOK
<1>4. \A i \in (k+1)..(n-1) : i \in k..(n-1) /\ i # k
  BY <1>2
<1>5. /\ \A i \in (k+1)..(n-1) : list[i] \in f..(f+n-1)
      /\ \A i, j \in (k+1)..(n-1) : list[i] = list[j] => i = j
  BY <1>4 DEF PoolOK
<1>6. \A q \in H \cup {t} : v[q] \in f..(f+n-1)
  BY <1>2 DEF PoolOK
<1>7. \A q, r \in H \cup {t} : v[q] = v[r] => q = r
  BY <1>2 DEF PoolOK
<1>8. \A q \in H \cup {t}, i \in (k+1)..(n-1) : v[q] # list[i]
  BY <1>2, <1>4 DEF PoolOK
<1>9. list \in [0..(n-1) -> Nat]
  BY DEF PoolOK
<1> QED
  BY <1>1, <1>2, <1>3, <1>5, <1>6, <1>7, <1>8, <1>9 DEF PoolOK

\* Giving the id of a holder back to the front keeps it right, and the
\* front is not at the start of the array then.
LEMMA GiveOK ==
    ASSUME NEW list, NEW k, NEW n \in Nat, NEW f \in Nat, NEW H, NEW u, NEW v, NEW t,
           PoolOK(list, k, n, f, H, u), t \in H,
           \A q \in H \ {t} : v[q] = u[q]
    PROVE  PoolOK([list EXCEPT ![k-1] = u[t]], k - 1, n, f, H \ {t}, v)
<1> DEFINE new == [list EXCEPT ![k-1] = u[t]]
<1>1. /\ IsFiniteSet(H \ {t})
      /\ Cardinality(H \ {t}) = k - 1
      /\ Cardinality(H \ {t}) \in Nat
  BY FS_RemoveElement, FS_CardinalityType DEF PoolOK
<1>2. k \in Nat /\ k - 1 \in 0..n /\ k - 1 \in 0..(n-1)
  BY <1>1 DEF PoolOK
<1>3. /\ new \in [0..(n-1) -> Nat]
      /\ new[k-1] = u[t]
      /\ \A i \in k..(n-1) : new[i] = list[i]
  BY <1>2 DEF PoolOK
<1>4. \A i \in (k-1)..(n-1) : i = k-1 \/ i \in k..(n-1)
  BY <1>2
<1>5. \A id \in f..(f+n-1) : \/ \E i \in (k-1)..(n-1) : new[i] = id
                             \/ \E q \in H \ {t} : v[q] = id
  <2> SUFFICES ASSUME NEW id \in f..(f+n-1)
               PROVE  \/ \E i \in (k-1)..(n-1) : new[i] = id
                      \/ \E q \in H \ {t} : v[q] = id
    OBVIOUS
  <2>1. CASE \E i \in k..(n-1) : list[i] = id
    <3>1. PICK i \in k..(n-1) : list[i] = id
      BY <2>1
    <3>2. i \in (k-1)..(n-1) /\ new[i] = id
      BY <1>2, <1>3, <3>1
    <3> QED
      BY <3>2
  <2>2. CASE \E q \in H : u[q] = id
    <3>1. PICK q \in H : u[q] = id
      BY <2>2
    <3>2. CASE q = t
      BY <1>2, <1>3, <3>1, <3>2
    <3>3. CASE q # t
      BY <3>1, <3>3
    <3> QED
      BY <3>2, <3>3
  <2> QED
    BY <2>1, <2>2 DEF PoolOK
<1>6. \A i \in (k-1)..(n-1) : new[i] \in f..(f+n-1)
  BY <1>3, <1>4 DEF PoolOK
<1>7. \A i, j \in (k-1)..(n-1) : new[i] = new[j] => i = j
  BY <1>3, <1>4 DEF PoolOK
<1>8. \A q \in H \ {t}, i \in (k-1)..(n-1) : v[q] # new[i]
  BY <1>3, <1>4 DEF PoolOK
<1>9. /\ \A q \in H \ {t} : v[q] \in f..(f+n-1)
      /\ \A q, r \in H \ {t} : v[q] = v[r] => q = r
  BY DEF PoolOK
<1> HIDE DEF new
<1>10. PoolOK(new, k - 1, n, f, H \ {t}, v)
  BY <1>1, <1>2, <1>3, <1>5, <1>6, <1>7, <1>8, <1>9 DEF PoolOK
<1> QED
  BY <1>10 DEF new

\* The bookkeeping only looks at the ids of holders.
LEMMA SameOK ==
    ASSUME NEW list, NEW k, NEW n, NEW f, NEW H, NEW u, NEW v,
           PoolOK(list, k, n, f, H, u), \A q \in H : v[q] = u[q]
    PROVE  PoolOK(list, k, n, f, H, v)
BY DEF PoolOK

\* A step that touches no free list, no holder and no holder's id.
LEMMA SamePools ==
    ASSUME PoolsOK, UNCHANGED poolVars,
           \A p \in Pool : Holders(p)' = Holders(p),
           \A p \in Pool : \A q \in Holders(p) : uid'[q] = uid[q]
    PROVE  PoolsOK'
<1> SUFFICES ASSUME NEW p \in Pool
             PROVE  PoolOK(free_list[p], free_list_front[p], max_task_num[p],
                           first_id[p], Holders(p), uid')
  BY DEF PoolsOK, poolVars
<1> QED
  BY SameOK DEF PoolsOK

\* A step in which holder t gives its id back.
LEMMA GivePools ==
    ASSUME TypeOK, PoolsOK, NEW t \in Task, Holds(t), GiveBack(t),
           UNCHANGED <<first_id, max_task_num>>,
           \A p \in Pool : Holders(p)' = Holders(p) \ {t},
           \A q \in Task : q # t => uid'[q] = uid[q]
    PROVE  PoolsOK'
<1> DEFINE P == tpl[t]
<1>1. P \in Pool /\ t \in Holders(P) /\ uid[t] # EVENT_LOOP_ID
  BY DEF TypeOK, Holders, Holds
<1>2. /\ \A p \in Pool : p # P => free_list'[p] = free_list[p]
      /\ \A p \in Pool : p # P => free_list_front'[p] = free_list_front[p]
      /\ free_list'[P] = [free_list[P] EXCEPT ![free_list_front[P] - 1] = uid[t]]
      /\ free_list_front'[P] = free_list_front[P] - 1
  BY <1>1 DEF GiveBack, PushId, TypeOK
<1>3. ASSUME NEW p \in Pool
      PROVE  PoolOK(free_list'[p], free_list_front'[p], max_task_num[p],
                    first_id[p], Holders(p) \ {t}, uid')
  <2>0. /\ max_task_num[p] \in Nat /\ first_id[p] \in Nat
        /\ Holders(p) \subseteq Task
        /\ PoolOK(free_list[p], free_list_front[p], max_task_num[p], first_id[p], Holders(p), uid)
    BY DEF TypeOK, PoolsOK, Holders
  <2>1. CASE p = P
    <3>1. \A q \in Holders(p) \ {t} : uid'[q] = uid[q]
      BY <2>0
    <3>2. PoolOK([free_list[p] EXCEPT ![free_list_front[p] - 1] = uid[t]],
                 free_list_front[p] - 1, max_task_num[p], first_id[p],
                 Holders(p) \ {t}, uid')
      BY <1>1, <2>0, <2>1, <3>1, GiveOK
    <3> QED
      BY <1>2, <2>1, <3>2
  <2>2. CASE p # P
    <3>1. t \notin Holders(p)
      BY <2>2 DEF Holders
    <3>2. Holders(p) \ {t} = Holders(p) /\ \A q \in Holders(p) : uid'[q] = uid[q]
      BY <2>0, <3>1
    <3>3. PoolOK(free_list[p], free_list_front[p], max_task_num[p], first_id[p],
                 Holders(p), uid')
      BY <2>0, <3>2, SameOK
    <3> QED
      BY <1>2, <2>2, <3>2, <3>3
  <2> QED
    BY <2>1, <2>2
<1> QED
  BY <1>3 DEF PoolsOK

\* Two holders never have the same id, whatever instances they belong to.
LEMMA DistinctIds ==
    ASSUME TypeOK, PoolsOK, RangesOK, NEW t \in Task, NEW q \in Task,
           Holds(t), Holds(q), uid[t] = uid[q]
    PROVE  t = q
<1>1. /\ tpl[t] \in Pool /\ t \in Holders(tpl[t])
      /\ tpl[q] \in Pool /\ q \in Holders(tpl[q])
  BY DEF TypeOK, Holders
<1>2. /\ uid[t] \in first_id[tpl[t]]..(first_id[tpl[t]] + max_task_num[tpl[t]] - 1)
      /\ uid[q] \in first_id[tpl[q]]..(first_id[tpl[q]] + max_task_num[tpl[q]] - 1)
      /\ tpl[t] = tpl[q] => t = q
  BY <1>1 DEF PoolsOK, PoolOK
<1>3. first_id \in [Pool -> Nat] /\ max_task_num \in [Pool -> Nat]
  BY DEF TypeOK
<1>4. tpl[t] = tpl[q]
  BY <1>1, <1>2, <1>3 DEF RangesOK
<1> QED
  BY <1>2, <1>4

-----------------------------------------------------------------------------
\* Each lemma below is one operation (or a group that treats ids alike)
\* preserving the inductive invariant.

\* No template instance is initialised and no task object exists.
LEMMA InitOK == Init => IndInv
<1> SUFFICES ASSUME Init PROVE IndInv
  OBVIOUS
<1>0. 0..(0-1) = {}
  OBVIOUS
<1>1. TypeOK
  <2>1. /\ free_list = [p \in Pool |-> free_list[p]]
        /\ \A p \in Pool : free_list[p] \in [0..(max_task_num[p]-1) -> Nat]
    BY <1>0 DEF Init
  <2>2. global_task_manager \in [0..(capacity-1) -> Task \cup {NULL}]
    BY <1>0 DEF Init
  <2>3. /\ {uid, finish_to} \subseteq [Task -> Nat \cup {EVENT_LOOP_ID}]
        /\ status \in [Task -> Status]
        /\ reuse \in [Task -> Task \cup {NULL}]
    BY DEF Init, Status
  <2>4. /\ initialized \in [Pool -> BOOLEAN] /\ first_id \in [Pool -> Nat]
        /\ max_task_num \in [Pool -> Nat] /\ free_list_front \in [Pool -> Int]
    BY DEF Init
  <2> QED
    BY <2>1, <2>2, <2>3, <2>4 DEF Init, TypeOK
<1>2. \A p \in Pool : Holders(p) = {}
  BY DEF Init, Holders, Holds
<1>3. PoolsOK
  <2> SUFFICES ASSUME NEW p \in Pool
               PROVE  PoolOK(free_list[p], 0, 0, 0, {}, uid)
    BY <1>2 DEF Init, PoolsOK
  <2>1. free_list[p] \in [0..(0-1) -> Nat]
    BY <1>1 DEF Init, TypeOK
  <2> QED
    BY <1>0, <2>1, FS_EmptySet DEF PoolOK
<1>4. RangesOK /\ TablesOK
  BY DEF Init, RangesOK, TablesOK
<1>5. ObjectsOK
  BY NullAssumption DEF Init, ObjectsOK
<1>6. IdsHaveCoroutine /\ ManagerNamesHolder
  BY DEF Init, IdsHaveCoroutine, ManagerNamesHolder, Holds
<1> QED
  BY <1>1, <1>3, <1>4, <1>5, <1>6 DEF IndInv

\* init() before the first task gives an instance ids nobody else has.
LEMMA EarlyInitOK == IndInv /\ EarlyInit => IndInv'
<1> SUFFICES ASSUME IndInv, NEW p \in Pool, NEW n \in 1..MaxTaskNum,
                    ~global_initialized, init(p, n)
             PROVE  IndInv'
  BY DEF EarlyInit
<1> USE DEF IndInv
<1>0. /\ \A q \in Pool : Holders(q) = {} /\ Holders(q)' = {}
      /\ n \in Nat /\ n > 0 /\ g_max_task_num \in Nat /\ max_task_num[p] = 0
  <2>1. \A t \in Task : status[t] = "none" /\ status'[t] = "none"
    BY DEF TablesOK, init, taskVars
  <2>2. \A q \in Pool : Holders(q) = {} /\ Holders(q)' = {}
    BY <2>1 DEF Holders, Holds
  <2>3. n \in Nat /\ n > 0
    BY MaxAssumption
  <2>4. g_max_task_num \in Nat /\ max_task_num[p] = 0
    BY DEF init, RangesOK, TypeOK
  <2> QED
    BY <2>2, <2>3, <2>4
<1>1. TypeOK'
  <2>1. [i \in 0..(n-1) |-> g_max_task_num + i] \in [0..(n-1) -> Nat]
    BY <1>0
  <2>2. /\ free_list' = [q \in Pool |-> free_list'[q]]
        /\ \A q \in Pool : free_list'[q] \in [0..(max_task_num'[q]-1) -> Nat]
    BY <1>0, <2>1 DEF TypeOK, init, FreshList
  <2>3. /\ first_id' \in [Pool -> Nat] /\ max_task_num' \in [Pool -> Nat]
        /\ initialized' \in [Pool -> BOOLEAN] /\ free_list_front' \in [Pool -> Int]
        /\ g_max_task_num' \in Nat
    BY <1>0 DEF TypeOK, init
  <2> QED
    BY <2>2, <2>3 DEF TypeOK, init, taskVars
<1>2. PoolsOK'
  <2> SUFFICES ASSUME NEW q \in Pool
               PROVE  PoolOK(free_list'[q], free_list_front'[q], max_task_num'[q],
                             first_id'[q], {}, uid')
    BY <1>0 DEF PoolsOK
  <2>1. CASE q = p
    <3>1. /\ free_list'[q] = [i \in 0..(n-1) |-> g_max_task_num + i]
          /\ free_list_front'[q] = 0 /\ max_task_num'[q] = n
          /\ first_id'[q] = g_max_task_num
      BY <2>1 DEF init, FreshList, TypeOK
    <3>2. \A id \in g_max_task_num..(g_max_task_num + n - 1) :
             /\ id - g_max_task_num \in 0..(n-1)
             /\ g_max_task_num + (id - g_max_task_num) = id
      BY <1>0
    <3> QED
      BY <1>0, <3>1, <3>2, FS_EmptySet DEF PoolOK
  <2>2. CASE q # p
    <3>1. PoolOK(free_list[q], free_list_front[q], max_task_num[q], first_id[q], {}, uid)
      BY <1>0 DEF PoolsOK
    <3> QED
      BY <2>2, <3>1 DEF init, TypeOK, taskVars
  <2> QED
    BY <2>1, <2>2
<1>3. RangesOK'
  <2>1. /\ first_id'[p] = g_max_task_num /\ max_task_num'[p] = n
        /\ g_max_task_num' = g_max_task_num + n
        /\ \A q \in Pool : q # p => /\ first_id'[q] = first_id[q]
                                    /\ max_task_num'[q] = max_task_num[q]
                                    /\ initialized'[q] = initialized[q]
        /\ initialized'[p] = TRUE
    BY DEF init, TypeOK
  <2>2. \A q \in Pool : first_id[q] \in Nat /\ max_task_num[q] \in Nat
    BY DEF TypeOK
  <2> QED
    BY <1>0, <2>1, <2>2 DEF RangesOK
<1>4. TablesOK' /\ ObjectsOK'
  BY DEF TablesOK, ObjectsOK, init, taskVars
<1>5. IdsHaveCoroutine' /\ ManagerNamesHolder'
  BY DEF IdsHaveCoroutine, ManagerNamesHolder, init, taskVars, Holds, Awaited
<1> QED
  BY <1>1, <1>2, <1>3, <1>4, <1>5

\* task::task() with a free id, with __init in it if this is the first task.
LEMMA ConstructOK == ASSUME NEW t \in Task, IndInv, Construct(t) PROVE IndInv'
<1> DEFINE P == tpl[t]
           id == free_list[P][free_list_front[P]]
<1> USE DEF IndInv
<1>0. /\ P \in Pool /\ max_task_num[P] \in Nat /\ first_id[P] \in Nat
      /\ uid[t] = EVENT_LOOP_ID /\ status[t] = "none" /\ reuse[t] = NULL
      /\ ~Awaited(t) /\ reuse' = reuse /\ tpl' = tpl
      /\ free_list_front[P] # max_task_num[P]
      /\ uid' = [uid EXCEPT ![t] = id]
      /\ status' = [status EXCEPT ![t] = "ready"]
  BY DEF Construct, Exhausted, TypeOK, ObjectsOK, Awaited
<1>1. PoolOK(free_list[P], free_list_front[P], max_task_num[P], first_id[P], Holders(P), uid)
  BY <1>0 DEF PoolsOK
<1>2. /\ free_list_front[P] \in 0..(max_task_num[P] - 1)
      /\ id \in first_id[P]..(first_id[P] + max_task_num[P] - 1)
      /\ id \in Nat
      /\ \A q \in Holders(P) : uid[q] # id
  BY <1>0, <1>1 DEF PoolOK
<1>3. /\ id < g_max_task_num /\ capacity' = g_max_task_num
      /\ g_max_task_num' = g_max_task_num /\ global_initialized' = TRUE
      /\ capacity' \in Nat /\ id \in 0..(capacity' - 1)
  BY <1>0, <1>2 DEF RangesOK, TablesOK, Construct, RunInit, TypeOK
<1>4. /\ \A q \in Task : Holds(q)' <=> Holds(q) \/ q = t
      /\ ~Holds(t)
  <2>1. /\ uid'[t] = id /\ status'[t] = "ready"
        /\ \A q \in Task : q # t => uid'[q] = uid[q] /\ status'[q] = status[q]
    BY <1>0 DEF TypeOK
  <2>2. \A q \in Task : Awaited(q)' <=> Awaited(q)
    BY <1>0 DEF Awaited
  <2>3. \A q \in Task : q # t => (Holds(q)' <=> Holds(q))
    BY <2>1, <2>2 DEF Holds
  <2>4. id # EVENT_LOOP_ID
    BY <1>2 DEF EVENT_LOOP_ID
  <2>5. Holds(t)'
    BY <1>0, <2>1, <2>2, <2>4 DEF Holds
  <2>6. ~Holds(t)
    BY <1>0 DEF Holds
  <2> QED
    BY <2>3, <2>5, <2>6
<1>5. /\ Holders(P)' = Holders(P) \cup {t}
      /\ \A p \in Pool : p # P => Holders(p)' = Holders(p)
      /\ \A p \in Pool : t \notin Holders(p) /\ Holders(p) \subseteq Task
  BY <1>0, <1>4 DEF Holders
<1>6. /\ uid'[t] = id /\ \A q \in Task : q # t => uid'[q] = uid[q]
  BY <1>0 DEF TypeOK
<1>7. global_task_manager' = [i \in 0..(capacity' - 1) |->
                                IF i = id THEN t
                                ELSE IF global_initialized THEN global_task_manager[i] ELSE NULL]
  BY DEF Construct, Manager
<1>8. TypeOK'
  <2>1. global_task_manager' \in [0..(capacity' - 1) -> Task \cup {NULL}]
    BY <1>3, <1>7 DEF TypeOK, TablesOK
  <2>2. /\ uid' \in [Task -> Nat \cup {EVENT_LOOP_ID}]
        /\ status' \in [Task -> Status]
        /\ free_list_front' \in [Pool -> Int]
    BY <1>0, <1>2 DEF TypeOK, Construct, Status
  <2>3. /\ free_list' = [p \in Pool |-> free_list'[p]]
        /\ \A p \in Pool : free_list'[p] \in [0..(max_task_num'[p]-1) -> Nat]
    BY DEF TypeOK, Construct
  <2>4. /\ UNCHANGED <<initialized, first_id, max_task_num, g_max_task_num, top_task,
                       tpl, finish_to, reuse>>
        /\ global_initialized' \in BOOLEAN
    BY <1>0, <1>3 DEF Construct
  <2> QED
    BY <1>3, <2>1, <2>2, <2>3, <2>4 DEF TypeOK
<1>9. PoolsOK'
  <2> SUFFICES ASSUME NEW p \in Pool
               PROVE  PoolOK(free_list'[p], free_list_front'[p], max_task_num'[p],
                             first_id'[p], Holders(p)', uid')
    BY DEF PoolsOK
  <2>1. CASE p = P
    <3>0. (\A q \in Holders(P) : uid'[q] = uid[q]) /\ t \notin Holders(P)
      BY <1>0, <1>5, <1>6
    <3>1. PoolOK(free_list[P], free_list_front[P] + 1, max_task_num[P], first_id[P],
                 Holders(P) \cup {t}, uid')
      <4>1. /\ max_task_num[P] \in Nat /\ first_id[P] \in Nat
            /\ free_list_front[P] # max_task_num[P]
            /\ uid'[t] = free_list[P][free_list_front[P]]
        BY <1>0, <1>6
      <4> HIDE DEF P, IndInv
      <4> QED
        BY <1>1, <3>0, <4>1, TakeOK
    <3> QED
      BY <1>5, <2>1, <3>1 DEF Construct, TypeOK
  <2>2. CASE p # P
    <3>1. PoolOK(free_list[p], free_list_front[p], max_task_num[p], first_id[p],
                 Holders(p), uid')
      BY <1>5, <1>6, SameOK DEF PoolsOK
    <3> QED
      BY <1>5, <2>2, <3>1 DEF Construct, TypeOK
  <2> QED
    BY <2>1, <2>2
<1>10. RangesOK' /\ TablesOK'
  BY <1>3 DEF RangesOK, TablesOK, Construct
<1>11. ObjectsOK'
  BY <1>0, <1>2, NullAssumption DEF ObjectsOK, Awaited, TypeOK, EVENT_LOOP_ID
<1>12. IdsHaveCoroutine'
  BY <1>0, <1>3, <1>6 DEF IdsHaveCoroutine, TablesOK, TypeOK
<1>13. ManagerNamesHolder'
  <2> SUFFICES ASSUME NEW q \in Task, Holds(q)'
               PROVE  global_task_manager'[uid'[q]] = q
    BY DEF ManagerNamesHolder
  <2>1. CASE q = t
    BY <1>3, <1>6, <1>7, <2>1
  <2>2. CASE q # t
    <3>1. Holds(q) /\ uid'[q] = uid[q] /\ global_initialized
      BY <1>4, <1>6, <2>2 DEF TablesOK, Holds
    <3>2. uid[q] # id
      <4>1. CASE tpl[q] = P
        BY <1>2, <3>1, <4>1 DEF Holders
      <4>2. CASE tpl[q] # P
        <5>1. tpl[q] \in Pool /\ q \in Holders(tpl[q])
          BY <3>1 DEF TypeOK, Holders
        <5>2. uid[q] \in first_id[tpl[q]]..(first_id[tpl[q]] + max_task_num[tpl[q]] - 1)
          BY <5>1 DEF PoolsOK, PoolOK
        <5>3. first_id[tpl[q]] \in Nat /\ max_task_num[tpl[q]] \in Nat
          BY <5>1 DEF TypeOK
        <5> QED
          BY <1>0, <1>2, <4>2, <5>1, <5>2, <5>3 DEF RangesOK
      <4> QED
        BY <4>1, <4>2
    <3>3. uid[q] \in 0..(capacity' - 1)
      BY <1>3, <3>1 DEF IdsHaveCoroutine, Holds, TypeOK, TablesOK, EVENT_LOOP_ID
    <3> QED
      BY <1>7, <3>1, <3>2, <3>3 DEF ManagerNamesHolder
  <2> QED
    BY <2>1, <2>2
<1> QED
  BY <1>8, <1>9, <1>10, <1>11, <1>12, <1>13

\* task::task() without a free id.
LEMMA ConstructLimitedOK ==
    ASSUME NEW t \in Task, IndInv, ConstructLimited(t) PROVE IndInv'
<1> USE DEF IndInv
<1>0. /\ status[t] = "none" /\ uid[t] = EVENT_LOOP_ID /\ reuse[t] = NULL
      /\ uid' = uid /\ reuse' = reuse /\ tpl' = tpl
      /\ status' = [status EXCEPT ![t] = "limited"]
  BY DEF ConstructLimited, TypeOK, ObjectsOK
<1>1. \A q \in Task : Holds(q)' <=> Holds(q)
  BY <1>0 DEF Holds, Awaited, TypeOK
<1>2. /\ capacity' = g_max_task_num /\ g_max_task_num' = g_max_task_num
      /\ global_initialized' = TRUE /\ capacity' \in Nat
  BY DEF TablesOK, ConstructLimited, RunInit, TypeOK
<1>3. global_task_manager' = [i \in 0..(capacity' - 1) |->
                                IF global_initialized THEN global_task_manager[i] ELSE NULL]
  BY DEF ConstructLimited, Manager
<1>4. TypeOK'
  <2>1. global_task_manager' \in [0..(capacity' - 1) -> Task \cup {NULL}]
    BY <1>2, <1>3 DEF TypeOK, TablesOK
  <2>2. status' \in [Task -> Status]
    BY <1>0 DEF TypeOK, Status
  <2> QED
    BY <1>0, <1>2, <2>1, <2>2 DEF TypeOK, ConstructLimited, poolVars
<1>5. PoolsOK'
  <2>1. \A p \in Pool : Holders(p)' = Holders(p)
    BY <1>0, <1>1 DEF Holders
  <2> QED
    BY <1>0, <2>1, SamePools DEF ConstructLimited
<1>6. RangesOK' /\ TablesOK'
  BY <1>2 DEF RangesOK, TablesOK, ConstructLimited, poolVars
<1>7. ObjectsOK'
  BY <1>0, NullAssumption DEF ObjectsOK, TypeOK
<1>8. IdsHaveCoroutine'
  BY <1>0, <1>2 DEF IdsHaveCoroutine, TablesOK, TypeOK
<1>9. ManagerNamesHolder'
  <2> SUFFICES ASSUME NEW q \in Task, Holds(q)
               PROVE  global_task_manager'[uid[q]] = q
    BY <1>0, <1>1 DEF ManagerNamesHolder
  <2>1. global_initialized
    BY DEF TablesOK, Holds
  <2>2. uid[q] \in 0..(capacity' - 1)
    BY <1>2, <2>1 DEF IdsHaveCoroutine, Holds, TypeOK, TablesOK, EVENT_LOOP_ID
  <2> QED
    BY <1>3, <2>1, <2>2 DEF ManagerNamesHolder
<1> QED
  BY <1>4, <1>5, <1>6, <1>7, <1>8, <1>9

\* Start, StartChild and Cocoflow: a ready task begins to run on its own id.
LEMMA BeginOK ==
    ASSUME NEW t \in Task, IndInv, status[t] = "ready",
           NEW x \in Nat \cup {EVENT_LOOP_ID}, top_task' \in Task \cup {NULL},
           finish_to' = [finish_to EXCEPT ![t] = x],
           status' = [status EXCEPT ![t] = "running"],
           UNCHANGED <<poolVars, global_initialized, g_max_task_num, capacity,
                       global_task_manager, tpl, uid, reuse>>
    PROVE  IndInv'
<1> USE DEF IndInv
<1>0. UNCHANGED poolVars /\ uid' = uid /\ reuse' = reuse /\ tpl' = tpl
  OBVIOUS
<1>1. \A q \in Task : Holds(q)' <=> Holds(q)
  BY DEF Holds, Awaited, TypeOK
<1>2. TypeOK'
  <2>1. status' \in [Task -> Status] /\ finish_to' \in [Task -> Nat \cup {EVENT_LOOP_ID}]
    BY DEF TypeOK, Status
  <2> QED
    BY <2>1 DEF TypeOK, poolVars
<1>3. PoolsOK'
  <2>1. \A p \in Pool : Holders(p)' = Holders(p)
    BY <1>0, <1>1 DEF Holders
  <2> QED
    BY <1>0, <2>1, SamePools
<1>4. RangesOK' /\ TablesOK'
  BY DEF RangesOK, TablesOK, poolVars, TypeOK
<1>5. ObjectsOK'
  BY DEF ObjectsOK, TypeOK
<1>6. IdsHaveCoroutine' /\ ManagerNamesHolder'
  BY <1>0, <1>1 DEF IdsHaveCoroutine, ManagerNamesHolder, TypeOK
<1> QED
  BY <1>2, <1>3, <1>4, <1>5, <1>6

\* The free lists keep their type when a task that may have an id gives it back.
LEMMA GiveTypes ==
    ASSUME NEW t \in Task, IndInv, GiveBack(t), uid[t] # EVENT_LOOP_ID => Holds(t),
           UNCHANGED max_task_num
    PROVE  /\ free_list_front' \in [Pool -> Int]
           /\ free_list' = [p \in Pool |-> free_list'[p]]
           /\ \A p \in Pool : free_list'[p] \in [0..(max_task_num'[p]-1) -> Nat]
<1> USE DEF IndInv
<1>1. CASE uid[t] = EVENT_LOOP_ID
  BY <1>1 DEF GiveBack, PushId, TypeOK
<1>2. CASE uid[t] # EVENT_LOOP_ID
  <2> DEFINE P == tpl[t]
             i == free_list_front[P] - 1
  <2>1. /\ free_list_front' = [free_list_front EXCEPT ![P] = i]
        /\ free_list' = [free_list EXCEPT ![P] = [@ EXCEPT ![i] = uid[t]]]
    BY <1>2 DEF GiveBack, PushId
  <2>2. P \in Pool /\ i \in Int /\ uid[t] \in Nat
    BY <1>2 DEF TypeOK
  <2>3. [free_list[P] EXCEPT ![i] = uid[t]] \in [0..(max_task_num[P]-1) -> Nat]
    BY <2>2 DEF TypeOK
  <2> QED
    BY <2>1, <2>2, <2>3 DEF TypeOK
<1> QED
  BY <1>1, <1>2

\* ~task() of an object that nobody awaits and that awaits nobody: Destroy,
\* StartReject and the deletion at the end of __task_runtime.
LEMMA DestructorOK ==
    ASSUME NEW t \in Task, IndInv, status[t] # "none", reuse[t] = NULL, ~Awaited(t),
           Destructor(t),
           UNCHANGED <<initialized, first_id, max_task_num, global_initialized,
                       g_max_task_num, capacity, top_task, tpl, reuse>>,
           \/ UNCHANGED global_task_manager
           \/ global_task_manager' = [global_task_manager EXCEPT ![uid[t]] = NULL]
    PROVE  IndInv'
<1> USE DEF IndInv
<1>0. /\ GiveBack(t) /\ max_task_num' = max_task_num /\ reuse' = reuse /\ tpl' = tpl
      /\ status' = [status EXCEPT ![t] = "none"]
      /\ uid' = [uid EXCEPT ![t] = EVENT_LOOP_ID]
      /\ finish_to' = [finish_to EXCEPT ![t] = EVENT_LOOP_ID]
      /\ uid[t] # EVENT_LOOP_ID => Holds(t)
  BY DEF Destructor, Holds
<1>1. \A q \in Task : Holds(q)' <=> Holds(q) /\ q # t
  BY <1>0 DEF Holds, Awaited, TypeOK
<1>2. \A q \in Task : q # t => uid'[q] = uid[q]
  BY <1>0 DEF TypeOK
<1>3. TypeOK'
  <2>1. /\ {uid', finish_to'} \subseteq [Task -> Nat \cup {EVENT_LOOP_ID}]
        /\ status' \in [Task -> Status]
    BY <1>0 DEF TypeOK, Status
  <2>2. global_task_manager' \in [0..(capacity-1) -> Task \cup {NULL}]
    BY DEF TypeOK
  <2>3. /\ free_list_front' \in [Pool -> Int]
        /\ free_list' = [p \in Pool |-> free_list'[p]]
        /\ \A p \in Pool : free_list'[p] \in [0..(max_task_num'[p]-1) -> Nat]
    BY <1>0, GiveTypes
  <2> QED
    BY <2>1, <2>2, <2>3 DEF TypeOK
<1>4. PoolsOK'
  <2>1. \A p \in Pool : Holders(p)' = Holders(p) \ {t}
    BY <1>0, <1>1 DEF Holders
  <2>2. CASE uid[t] # EVENT_LOOP_ID
    BY <1>0, <1>2, <2>1, <2>2, GivePools
  <2>3. CASE uid[t] = EVENT_LOOP_ID
    <3>1. \A p \in Pool : Holders(p)' = Holders(p) /\ t \notin Holders(p)
      BY <2>1, <2>3 DEF Holders, Holds
    <3>2. \A p \in Pool : \A q \in Holders(p) : uid'[q] = uid[q]
      BY <1>2, <3>1 DEF Holders
    <3>3. UNCHANGED poolVars
      BY <1>0, <2>3 DEF GiveBack, PushId, poolVars
    <3> QED
      BY <3>1, <3>2, <3>3, SamePools
  <2> QED
    BY <2>2, <2>3
<1>5. RangesOK' /\ TablesOK'
  BY <1>0 DEF RangesOK, TablesOK, TypeOK
<1>6. ObjectsOK'
  BY <1>0, NullAssumption DEF ObjectsOK, TypeOK, Awaited
<1>7. IdsHaveCoroutine'
  BY <1>0 DEF IdsHaveCoroutine, TypeOK
<1>8. ManagerNamesHolder'
  <2> SUFFICES ASSUME NEW q \in Task, Holds(q), q # t
               PROVE  global_task_manager'[uid[q]] = q
    BY <1>1, <1>2 DEF ManagerNamesHolder
  <2>1. uid[q] # uid[t]
    BY <1>0, DistinctIds DEF Holds
  <2>2. uid[q] \in 0..(capacity - 1)
    BY DEF IdsHaveCoroutine, Holds, TypeOK, EVENT_LOOP_ID
  <2> QED
    BY <2>1, <2>2 DEF ManagerNamesHolder, TypeOK
<1> QED
  BY <1>3, <1>4, <1>5, <1>6, <1>7, <1>8

\* await(): the target gives back its id, if it has one, and borrows its parent's.
LEMMA AwaitOK ==
    ASSUME NEW parent \in Task, NEW t \in Task, IndInv, Await(parent, t) PROVE IndInv'
<1> USE DEF IndInv
<1>0. /\ status[parent] = "running" /\ reuse[parent] = NULL
      /\ status[t] \in {"ready", "limited"} /\ reuse[t] = NULL /\ parent # t
      /\ ~Awaited(t) /\ uid[parent] # EVENT_LOOP_ID
      /\ GiveBack(t) /\ tpl' = tpl /\ max_task_num' = max_task_num
      /\ uid' = [uid EXCEPT ![t] = uid[parent]]
      /\ finish_to' = [finish_to EXCEPT ![t] = uid[parent]]
      /\ status' = [status EXCEPT ![t] = "running"]
      /\ reuse' = [reuse EXCEPT ![parent] = t]
      /\ uid[t] # EVENT_LOOP_ID => Holds(t)
  BY DEF Await, Remember, ObjectsOK, Awaited, Holds
<1>1. \A q \in Task : q # t => uid'[q] = uid[q] /\ status'[q] = status[q]
  BY <1>0 DEF TypeOK
<1>2. /\ \A q, r \in Task : reuse'[q] = r <=> (reuse[q] = r \/ (q = parent /\ r = t))
      /\ reuse'[parent] = t
  BY <1>0, NullAssumption DEF TypeOK
<1>3. \A q \in Task : Holds(q)' <=> Holds(q) /\ q # t
  BY <1>0, <1>1, <1>2 DEF Holds, Awaited
<1>4. TypeOK'
  <2>1. /\ {uid', finish_to'} \subseteq [Task -> Nat \cup {EVENT_LOOP_ID}]
        /\ status' \in [Task -> Status]
        /\ reuse' \in [Task -> Task \cup {NULL}]
    BY <1>0 DEF TypeOK, Status
  <2>2. /\ free_list_front' \in [Pool -> Int]
        /\ free_list' = [p \in Pool |-> free_list'[p]]
        /\ \A p \in Pool : free_list'[p] \in [0..(max_task_num'[p]-1) -> Nat]
    BY <1>0, GiveTypes
  <2> QED
    BY <2>1, <2>2 DEF TypeOK, Await, globalVars
<1>5. PoolsOK'
  <2>1. \A p \in Pool : Holders(p)' = Holders(p) \ {t}
    BY <1>0, <1>3 DEF Holders
  <2>2. first_id' = first_id
    BY DEF Await
  <2>3. CASE uid[t] # EVENT_LOOP_ID
    BY <1>0, <1>1, <2>1, <2>2, <2>3, GivePools
  <2>4. CASE uid[t] = EVENT_LOOP_ID
    <3>1. \A p \in Pool : Holders(p)' = Holders(p) /\ t \notin Holders(p)
      BY <2>1, <2>4 DEF Holders, Holds
    <3>2. \A p \in Pool : \A q \in Holders(p) : uid'[q] = uid[q]
      BY <1>1, <3>1 DEF Holders
    <3>3. UNCHANGED poolVars
      BY <2>4 DEF Await, GiveBack, PushId, poolVars
    <3> QED
      BY <3>1, <3>2, <3>3, SamePools
  <2> QED
    BY <2>3, <2>4
<1>6. RangesOK' /\ TablesOK'
  BY <1>0 DEF RangesOK, TablesOK, Await, globalVars
<1>7. ObjectsOK'
  <2>0. status'[t] = "running" /\ uid'[t] = uid[parent] /\ uid'[parent] = uid[parent]
    BY <1>0, <1>1 DEF TypeOK
  <2>1. \A q \in Task : status'[q] \in {"none", "limited"} => uid'[q] = EVENT_LOOP_ID
    BY <1>1, <2>0 DEF ObjectsOK
  <2>2. \A q \in Task : status'[q] \in {"ready", "running"} => uid'[q] # EVENT_LOOP_ID
    BY <1>0, <1>1, <2>0 DEF ObjectsOK
  <2>3. \A q \in Task : status'[q] # "running" => reuse'[q] = NULL
    BY <1>0, <1>1, <2>0 DEF ObjectsOK, TypeOK
  <2>4. ASSUME NEW r \in Task, NEW q \in Task, reuse'[q] = r
        PROVE  status'[r] = "running" /\ uid'[r] = uid'[q]
    <3>1. CASE q = parent /\ r = t
      BY <2>0, <3>1
    <3>2. CASE reuse[q] = r
      <4>1. q # t /\ r # t
        BY <1>0, <3>2, NullAssumption DEF Awaited
      <4> QED
        BY <1>1, <3>2, <4>1 DEF ObjectsOK
    <3> QED
      BY <1>2, <2>4, <3>1, <3>2
  <2>5. \A r, q, w \in Task : reuse'[q] = r /\ reuse'[w] = r => q = w
    BY <1>0, <1>2 DEF ObjectsOK, Awaited
  <2> QED
    BY <2>1, <2>2, <2>3, <2>4, <2>5 DEF ObjectsOK
<1>8. IdsHaveCoroutine'
  BY <1>0, <1>1 DEF IdsHaveCoroutine, TypeOK, Await, globalVars
<1>9. ManagerNamesHolder'
  BY <1>1, <1>3 DEF ManagerNamesHolder, Await, globalVars
<1> QED
  BY <1>4, <1>5, <1>6, <1>7, <1>8, <1>9

\* The end of __await: the target has no id any more.
LEMMA AwaitReturnOK ==
    ASSUME NEW parent \in Task, NEW t \in Task, NEW s \in Ended, IndInv,
           AwaitReturn(parent, t, s)
    PROVE  IndInv'
<1> USE DEF IndInv
<1>0. /\ reuse[parent] = t /\ reuse[t] = NULL /\ status[t] = "running"
      /\ tpl' = tpl /\ t # NULL
      /\ reuse' = [reuse EXCEPT ![parent] = NULL]
      /\ uid' = [uid EXCEPT ![t] = EVENT_LOOP_ID]
      /\ status' = [status EXCEPT ![t] = s]
      /\ s \notin {"none", "ready", "running", "limited"} /\ s \in Status
  BY NullAssumption DEF AwaitReturn, ObjectsOK, Ended, Status
<1>1. \A q \in Task : q # t => uid'[q] = uid[q] /\ status'[q] = status[q]
  BY <1>0 DEF TypeOK
<1>2. \A q, r \in Task : reuse'[q] = r <=> (reuse[q] = r /\ q # parent)
  BY <1>0, NullAssumption DEF TypeOK
<1>3. \A q \in Task : Holds(q)' <=> Holds(q)
  <2>1. ~Holds(t) /\ ~Holds(t)'
    BY <1>0 DEF Holds, Awaited, TypeOK
  <2>2. ASSUME NEW q \in Task, q # t PROVE Holds(q)' <=> Holds(q)
    BY <1>0, <1>1, <1>2, <2>2 DEF Holds, Awaited
  <2> QED
    BY <2>1, <2>2
<1>4. TypeOK'
  BY <1>0 DEF TypeOK, AwaitReturn, poolVars, globalVars
<1>5. PoolsOK'
  <2>1. \A p \in Pool : Holders(p)' = Holders(p) /\ t \notin Holders(p)
    BY <1>0, <1>3 DEF Holders, Holds, Awaited
  <2>2. \A p \in Pool : \A q \in Holders(p) : uid'[q] = uid[q]
    BY <1>1, <2>1 DEF Holders
  <2> QED
    BY <2>1, <2>2, SamePools DEF AwaitReturn
<1>6. RangesOK' /\ TablesOK'
  BY <1>0 DEF RangesOK, TablesOK, AwaitReturn, globalVars, poolVars
<1>7. ObjectsOK'
  <2>1. \A q \in Task : status'[q] \in {"none", "limited"} => uid'[q] = EVENT_LOOP_ID
    BY <1>0, <1>1 DEF ObjectsOK, TypeOK
  <2>2. \A q \in Task : status'[q] \in {"ready", "running"} => uid'[q] # EVENT_LOOP_ID
    BY <1>0, <1>1 DEF ObjectsOK, TypeOK
  <2>3. \A q \in Task : status'[q] # "running" => reuse'[q] = NULL
    BY <1>0, <1>1 DEF ObjectsOK, TypeOK
  <2>4. ASSUME NEW r \in Task, NEW q \in Task, reuse'[q] = r
        PROVE  status'[r] = "running" /\ uid'[r] = uid'[q]
    <3>1. reuse[q] = r /\ q # parent /\ r # t /\ q # t
      BY <1>0, <1>2, <2>4 DEF ObjectsOK
    <3> QED
      BY <1>1, <3>1 DEF ObjectsOK
  <2>5. \A r, q, w \in Task : reuse'[q] = r /\ reuse'[w] = r => q = w
    BY <1>2 DEF ObjectsOK
  <2> QED
    BY <2>1, <2>2, <2>3, <2>4, <2>5 DEF ObjectsOK
<1>8. IdsHaveCoroutine'
  BY <1>0, <1>1 DEF IdsHaveCoroutine, TypeOK, AwaitReturn, globalVars
<1>9. ManagerNamesHolder'
  BY <1>0, <1>1, <1>3 DEF ManagerNamesHolder, AwaitReturn, globalVars, Holds, Awaited
<1> QED
  BY <1>4, <1>5, <1>6, <1>7, <1>8, <1>9

\* The end of a task on its own coroutine: deleted, or kept with its end status.
LEMMA FinishOK ==
    ASSUME NEW t \in Task, NEW s \in Ended, IndInv, Finish(t, s) PROVE IndInv'
<1> USE DEF IndInv
<1>1. CASE finish_to[t] = EVENT_LOOP_ID /\ t # top_task
  BY <1>1, DestructorOK DEF Finish
<1>2. CASE ~(finish_to[t] = EVENT_LOOP_ID /\ t # top_task)
  <2>0. /\ status[t] = "running" /\ reuse[t] = NULL /\ ~Awaited(t)
        /\ status' = [status EXCEPT ![t] = s]
        /\ s \notin {"none", "ready", "running", "limited"} /\ s \in Status
        /\ UNCHANGED <<poolVars, globalVars, tpl, uid, finish_to, reuse>>
    BY <1>2 DEF Finish, poolVars, globalVars, Ended, Status
  <2>1. \A q \in Task : Holds(q)' <=> Holds(q)
    BY <2>0 DEF Holds, Awaited, TypeOK
  <2>2. TypeOK'
    BY <2>0 DEF TypeOK, poolVars, globalVars
  <2>3. PoolsOK'
    <3>1. \A p \in Pool : Holders(p)' = Holders(p)
      BY <2>0, <2>1 DEF Holders
    <3> QED
      BY <2>0, <3>1, SamePools
  <2>4. RangesOK' /\ TablesOK'
    BY <2>0 DEF RangesOK, TablesOK, poolVars, globalVars
  <2>5. ObjectsOK'
    BY <2>0 DEF ObjectsOK, TypeOK, Awaited
  <2>6. IdsHaveCoroutine' /\ ManagerNamesHolder'
    BY <2>0, <2>1 DEF IdsHaveCoroutine, ManagerNamesHolder, TypeOK, globalVars
  <2> QED
    BY <2>2, <2>3, <2>4, <2>5, <2>6
<1> QED
  BY <1>1, <1>2

-----------------------------------------------------------------------------
\* A step that changes nothing.
LEMMA StutterOK == ASSUME IndInv, UNCHANGED vars PROVE IndInv'
<1> USE DEF IndInv
<1>0. UNCHANGED <<poolVars, globalVars, taskVars>>
  BY DEF vars
<1>1. \A q \in Task : Holds(q)' <=> Holds(q)
  BY <1>0 DEF Holds, Awaited, taskVars
<1>2. \A p \in Pool : Holders(p)' = Holders(p)
  BY <1>0, <1>1 DEF Holders, taskVars
<1>3. PoolsOK'
  BY <1>0, <1>2, SamePools DEF taskVars
<1>4. TypeOK'
  BY <1>0 DEF TypeOK, poolVars, globalVars, taskVars
<1>5. RangesOK' /\ TablesOK' /\ ObjectsOK'
  BY <1>0 DEF RangesOK, TablesOK, ObjectsOK, poolVars, globalVars, taskVars
<1>6. IdsHaveCoroutine' /\ ManagerNamesHolder'
  BY <1>0, <1>1 DEF IdsHaveCoroutine, ManagerNamesHolder, globalVars, taskVars
<1> QED
  BY <1>3, <1>4, <1>5, <1>6

\* Every step preserves the inductive invariant.
LEMMA NextOK == ASSUME IndInv, [Next]_vars PROVE IndInv'
<1>1. CASE EarlyInit
  BY <1>1, EarlyInitOK
<1>2. ASSUME NEW t \in Task, Construct(t) PROVE IndInv'
  BY <1>2, ConstructOK
<1>3. ASSUME NEW t \in Task, ConstructLimited(t) PROVE IndInv'
  BY <1>3, ConstructLimitedOK
<1>4. ASSUME NEW t \in Task, Destroy(t) \/ StartReject(t) PROVE IndInv'
  <2>1. status[t] # "none" /\ status[t] # "running" /\ Destructor(t)
    BY <1>4 DEF Destroy, StartReject, Ended
  <2>2. reuse[t] = NULL /\ ~Awaited(t)
    BY <2>1 DEF IndInv, ObjectsOK, Awaited
  <2> QED
    BY <1>4, <2>1, <2>2, DestructorOK DEF Destroy, StartReject, globalVars
<1>5. ASSUME NEW t \in Task, Start(t) \/ Cocoflow(t) PROVE IndInv'
  BY <1>5, BeginOK DEF Start, Cocoflow, globalVars, IndInv, TypeOK
<1>6. ASSUME NEW parent \in Task, NEW t \in Task, StartChild(parent, t) PROVE IndInv'
  BY <1>6, BeginOK DEF StartChild, globalVars, IndInv, TypeOK
<1>7. ASSUME NEW parent \in Task, NEW t \in Task, Await(parent, t) PROVE IndInv'
  BY <1>7, AwaitOK
<1>8. ASSUME NEW parent \in Task, NEW t \in Task, NEW s \in Ended, AwaitReturn(parent, t, s)
      PROVE  IndInv'
  BY <1>8, AwaitReturnOK
<1>9. ASSUME NEW t \in Task, NEW s \in Ended, Finish(t, s) PROVE IndInv'
  BY <1>9, FinishOK
<1>10. CASE UNCHANGED vars
  BY <1>10, StutterOK
<1> QED
  BY <1>1, <1>2, <1>3, <1>4, <1>5, <1>6, <1>7, <1>8, <1>9, <1>10 DEF Next, UseTasks

\* The bookkeeping of ids in task(), await(), ~task(), __init_setting and
\* __init keeps the inductive invariant in every reachable state.
THEOREM Invariance == Spec => []IndInv
<1>1. Init => IndInv
  BY InitOK
<1>2. IndInv /\ [Next]_vars => IndInv'
  BY NextOK
<1> QED
  BY <1>1, <1>2, PTL DEF Spec

\* Type correctness of the free lists, tables and task objects.
THEOREM TypeCorrect == Spec => []TypeOK
<1>1. IndInv => TypeOK
  BY DEF IndInv
<1> QED
  BY <1>1, Invariance, PTL

\* free_list_front never leaves the array, for any number of tasks, template
\* instances and pool sizes.
THEOREM FreeListSafe == Spec => []FreeListInBounds
<1>1. IndInv => FreeListInBounds
  BY DEF IndInv, PoolsOK, PoolOK, FreeListInBounds, TypeOK
<1> QED
  BY <1>1, Invariance, PTL

\* No coroutine id is lost and none is owned twice.
THEOREM IdsSafe == Spec => []IdsPartitioned
<1>1. ASSUME IndInv PROVE IdsPartitioned
  <2> SUFFICES ASSUME NEW p \in Pool
               PROVE  /\ \A i, j \in Slots(p) : free_list[p][i] = free_list[p][j] => i = j
                      /\ \A t, q \in Holders(p) : uid[t] = uid[q] => t = q
                      /\ Free(p) \cap {uid[t] : t \in Holders(p)} = {}
                      /\ Free(p) \cup {uid[t] : t \in Holders(p)} = IdRange(p)
    BY DEF IdsPartitioned
  <2>1. PoolOK(free_list[p], free_list_front[p], max_task_num[p], first_id[p],
               Holders(p), uid)
    BY <1>1 DEF IndInv, PoolsOK
  <2> QED
    BY <2>1 DEF PoolOK, Slots, Free, IdRange
<1> QED
  BY <1>1, Invariance, PTL

\* Both together: at any time the free list of an instance is an exact account
\* of the ids that await(), ~task() and task() may give and take.
THEOREM FreeListExact == Spec => []FreeListSound
<1>1. FreeListInBounds /\ IdsPartitioned => FreeListSound
  BY DEF FreeListSound
<1> QED
  BY <1>1, FreeListSafe, IdsSafe, PTL

\* Every id in use indexes the tables that __init allocated, and the manager
\* entry of a held id is its holder.
THEOREM TablesSafe == Spec => []TablesSound
<1>1. IndInv => TablesSound
  BY DEF IndInv, TablesSound
<1> QED
  BY <1>1, Invariance, PTL

\* A constructor reports "limited" only if as many objects as the instance has
\* ids hold one.
THEOREM LimitedSound == Spec => LimitedOnlyWhenFull
<1> DEFINE A == \A t \in Task : status[t] = "none" /\ status'[t] = "limited"
                  => Cardinality(Holders(tpl[t])) = max_task_num[tpl[t]]
<1>1. ASSUME IndInv, [Next]_vars PROVE A
  <2> SUFFICES ASSUME NEW t \in Task, status[t] = "none", status'[t] = "limited"
               PROVE  Cardinality(Holders(tpl[t])) = max_task_num[tpl[t]]
    OBVIOUS
  <2>1. tpl[t] \in Pool /\ status \in [Task -> Status]
    BY <1>1 DEF IndInv, TypeOK
  <2>2. ConstructLimited(t)
    BY <1>1, <2>1 DEF Next, EarlyInit, init, UseTasks, Construct, ConstructLimited, Destroy,
          Destructor, Start, Cocoflow, StartReject, Await, Remember, StartChild, AwaitReturn,
          Finish, Ended, vars, taskVars
  <2> QED
    BY <1>1, <2>1, <2>2 DEF IndInv, PoolsOK, PoolOK, ConstructLimited, Exhausted
<1>2. IndInv /\ [Next]_vars => [A]_vars
  BY <1>1
<1> QED
  BY <1>2, Invariance, PTL DEF Spec, LimitedOnlyWhenFull

-----------------------------------------------------------------------------
(***************************************************************************)
(* One line of execution per coroutine.  reuse links the tasks that share  *)
(* a coroutine into chains, the holder of the id first.  That there is one *)
(* chain per id, and that it ends, does not follow from the links alone: a *)
(* ring of tasks that await each other would satisfy ObjectsOK.  It cannot *)
(* arise, because await() links only a task that does not run yet: Nested  *)
(* says that every task has a depth in the nesting of awaits.              *)
(***************************************************************************)

Depths(d) ==
    /\ \A t \in Task : reuse[t] \in Task => d[reuse[t]] = d[t] + 1
    /\ \A t \in Task : status[t] = "running" /\ ~Awaited(t) => d[t] = 0

Nested == \E d \in [Task -> Nat] : Depths(d)

LEMMA NestedInit == Init => Nested
<1> SUFFICES ASSUME Init PROVE Nested
  OBVIOUS
<1>1. [t \in Task |-> 0] \in [Task -> Nat]
  OBVIOUS
<1>2. Depths([t \in Task |-> 0])
  BY NullAssumption DEF Init, Depths
<1> QED
  BY <1>1, <1>2 DEF Nested

\* await() puts t one deeper than its parent; a task that is started is not
\* nested; every other step only removes links or running tasks.
LEMMA NestedStep == ASSUME IndInv, [Next]_vars, Nested PROVE Nested'
<1>1. PICK d \in [Task -> Nat] : Depths(d)
  BY DEF Nested
<1>2. ASSUME NEW e \in [Task -> Nat], Depths(e)' PROVE Nested'
  BY <1>2 DEF Nested
<1>3. status \in [Task -> Status] /\ reuse \in [Task -> Task \cup {NULL}]
  BY DEF IndInv, TypeOK
<1>4. \A t \in Task : status[t] # "running" => reuse[t] = NULL /\ ~Awaited(t)
  BY NullAssumption DEF IndInv, ObjectsOK, Awaited
\* Steps that link nobody and let nobody run who did not.
<1>5. ASSUME \A t \in Task : reuse'[t] \in Task => reuse'[t] = reuse[t],
             \A t \in Task : status'[t] = "running" =>
                 status[t] = "running" /\ (Awaited(t) => Awaited(t)')
      PROVE  Nested'
  <2>1. Depths(d)'
    BY <1>1, <1>5 DEF Depths
  <2> QED
    BY <1>2, <2>1
<1>6. ASSUME UNCHANGED reuse, \A t \in Task : status'[t] = "running" => status[t] = "running"
      PROVE  Nested'
  BY <1>5, <1>6 DEF Awaited
<1>7. ASSUME NEW t \in Task, status[t] # "running", UNCHANGED reuse,
             status' = [status EXCEPT ![t] = "running"]
      PROVE  Nested'
  <2> DEFINE e == [d EXCEPT ![t] = 0]
  <2>1. e \in [Task -> Nat] /\ e[t] = 0 /\ \A q \in Task : q # t => e[q] = d[q]
    BY <1>1
  <2> HIDE DEF e
  <2>2. reuse[t] = NULL /\ \A q \in Task : reuse[q] # t
    BY <1>4, <1>7 DEF Awaited
  <2>3. \A q \in Task : q # t => status'[q] = status[q]
    BY <1>3, <1>7
  <2>4. Depths(e)'
    BY <1>1, <1>7, <2>1, <2>2, <2>3, NullAssumption DEF Depths, Awaited
  <2> QED
    BY <1>2, <2>1, <2>4
<1>8. ASSUME NEW p \in Task, NEW t \in Task, Await(p, t) PROVE Nested'
  <2>1. /\ status[p] = "running" /\ reuse[p] = NULL /\ status[t] # "running" /\ p # t
        /\ status' = [status EXCEPT ![t] = "running"] /\ reuse' = [reuse EXCEPT ![p] = t]
    BY <1>8 DEF Await, Remember
  <2> DEFINE e == [d EXCEPT ![t] = d[p] + 1]
  <2>2. e \in [Task -> Nat] /\ e[t] = e[p] + 1 /\ \A q \in Task : q # t => e[q] = d[q]
    BY <1>1, <2>1
  <2> HIDE DEF e
  <2>3. reuse[t] = NULL /\ \A q \in Task : reuse[q] # t
    BY <1>4, <2>1 DEF Awaited
  <2>4. /\ reuse'[p] = t /\ \A q \in Task : q # p => reuse'[q] = reuse[q]
        /\ \A q \in Task : q # t => status'[q] = status[q]
    BY <1>3, <2>1
  <2>5. \A q \in Task : reuse'[q] \in Task => e[reuse'[q]] = e[q] + 1
    BY <1>1, <2>1, <2>2, <2>3, <2>4, NullAssumption DEF Depths
  <2>6. ASSUME NEW q \in Task, status'[q] = "running", ~Awaited(q)' PROVE e[q] = 0
    <3>1. q # t
      BY <2>4, <2>6 DEF Awaited
    <3>2. ASSUME NEW r \in Task, reuse[r] = q PROVE FALSE
      <4>1. r # p
        BY <2>1, <3>2, NullAssumption
      <4> QED
        BY <2>4, <2>6, <3>2, <4>1 DEF Awaited
    <3> QED
      BY <1>1, <2>2, <2>4, <2>6, <3>1, <3>2 DEF Depths, Awaited
  <2>7. Depths(e)'
    BY <2>5, <2>6 DEF Depths
  <2> QED
    BY <1>2, <2>2, <2>7
<1>9. ASSUME NEW p \in Task, NEW t \in Task, NEW s \in Ended, AwaitReturn(p, t, s) PROVE Nested'
  <2>1. /\ reuse[p] = t /\ reuse' = [reuse EXCEPT ![p] = NULL]
        /\ status' = [status EXCEPT ![t] = s] /\ s # "running"
    BY <1>9 DEF AwaitReturn, Ended
  <2>2. /\ reuse'[p] = NULL /\ \A q \in Task : q # p => reuse'[q] = reuse[q]
        /\ status'[t] = s /\ \A q \in Task : q # t => status'[q] = status[q]
    BY <1>3, <2>1
  <2> QED
    BY <1>5, <2>1, <2>2, NullAssumption DEF Awaited
<1>10. CASE EarlyInit
  BY <1>6, <1>10 DEF EarlyInit, init, taskVars
<1>11. ASSUME NEW t \in Task, Construct(t) \/ ConstructLimited(t) PROVE Nested'
  <2>1. status[t] = "none" /\ reuse' = [reuse EXCEPT ![t] = NULL]
    BY <1>11 DEF Construct, ConstructLimited
  <2>2. \E s \in {"ready", "limited"} : status' = [status EXCEPT ![t] = s]
    BY <1>11 DEF Construct, ConstructLimited
  <2>3. reuse' = reuse
    BY <1>3, <1>4, <2>1
  <2> QED
    BY <1>3, <1>6, <2>2, <2>3
<1>12. ASSUME NEW t \in Task, Destroy(t) \/ StartReject(t) PROVE Nested'
  BY <1>3, <1>6, <1>12 DEF Destroy, StartReject, Destructor
<1>13. ASSUME NEW t \in Task, NEW s \in Ended, Finish(t, s) PROVE Nested'
  BY <1>3, <1>6, <1>13 DEF Finish, Destructor, Ended
<1>14. ASSUME NEW t \in Task, Start(t) \/ Cocoflow(t) PROVE Nested'
  BY <1>7, <1>14 DEF Start, Cocoflow
<1>15. ASSUME NEW p \in Task, NEW t \in Task, StartChild(p, t) PROVE Nested'
  BY <1>7, <1>15 DEF StartChild
<1>16. CASE UNCHANGED vars
  BY <1>6, <1>16 DEF vars, taskVars
<1>17. CASE UseTasks
  BY <1>8, <1>9, <1>11, <1>12, <1>13, <1>14, <1>15, <1>17 DEF UseTasks
<1> QED
  BY <1>10, <1>16, <1>17 DEF Next

\* Of the tasks that run on an id, those at the same depth are one, ...
LEMMA OnePerDepth ==
    ASSUME IndInv, NEW d \in [Task -> Nat], Depths(d), NEW u,
           NEW x \in Task, NEW y \in Task, status[x] = "running", status[y] = "running",
           uid[x] = u, uid[y] = u, d[x] = d[y]
    PROVE  x = y
<1> DEFINE Clash(n) == \E t, q \in Task : /\ status[t] = "running" /\ status[q] = "running"
                                          /\ uid[t] = u /\ uid[q] = u
                                          /\ d[t] = n /\ d[q] = n /\ t # q
           T == {n \in Nat : Clash(n)}
<1> SUFFICES ASSUME x # y PROVE FALSE
  OBVIOUS
<1>1. T # {} /\ T \in SUBSET Nat
  <2>1. d[x] \in T
    OBVIOUS
  <2> QED
    BY <2>1
<1>2. PICK n \in T : \A m \in T : n <= m
  <2> HIDE DEF T
  <2> QED
    BY <1>1, Least
<1>3. PICK t \in Task, q \in Task : /\ status[t] = "running" /\ status[q] = "running"
                                    /\ uid[t] = u /\ uid[q] = u
                                    /\ d[t] = n /\ d[q] = n /\ t # q
  BY <1>2
<1>4. ASSUME NEW r \in Task, status[r] = "running", d[r] = n
      PROVE  (n = 0 <=> ~Awaited(r)) /\ (Awaited(r) => \E s \in Task : reuse[s] = r)
  BY <1>4 DEF Depths, Awaited
<1>5. CASE n = 0
  <2>1. Holds(t) /\ Holds(q)
    BY <1>3, <1>4, <1>5 DEF IndInv, ObjectsOK, Holds
  <2> QED
    BY <1>3, <2>1, DistinctIds DEF IndInv
<1>6. CASE n # 0
  <2>1. PICK a \in Task, b \in Task : reuse[a] = t /\ reuse[b] = q
    BY <1>3, <1>4, <1>6
  <2>2. /\ status[a] = "running" /\ status[b] = "running"
        /\ uid[a] = u /\ uid[b] = u /\ d[a] = n - 1 /\ d[b] = n - 1 /\ a # b
    BY <1>2, <1>3, <2>1, NullAssumption DEF IndInv, ObjectsOK, Depths
  <2>3. n - 1 \in T
    BY <1>2, <1>6, <2>2
  <2> QED
    BY <1>2, <2>3
<1> QED
  BY <1>5, <1>6

\* ... and nobody is deeper than the innermost.
LEMMA InnermostDeepest ==
    ASSUME IndInv, NEW d \in [Task -> Nat], Depths(d), NEW u,
           NEW x \in Task, NEW y \in Task, status[x] = "running", status[y] = "running",
           uid[x] = u, uid[y] = u, reuse[x] = NULL
    PROVE  d[y] <= d[x]
<1> DEFINE Deeper(n) == n > d[x] /\ \E t \in Task : status[t] = "running" /\ uid[t] = u /\ d[t] = n
           T == {n \in Nat : Deeper(n)}
<1> SUFFICES ASSUME ~(d[y] <= d[x]) PROVE FALSE
  OBVIOUS
<1>1. T # {} /\ T \in SUBSET Nat
  <2>1. d[y] \in T
    OBVIOUS
  <2> QED
    BY <2>1
<1>2. PICK n \in T : \A m \in T : n <= m
  <2> HIDE DEF T
  <2> QED
    BY <1>1, Least
<1>3. PICK t \in Task : status[t] = "running" /\ uid[t] = u /\ d[t] = n
  BY <1>2
<1>4. n \in Nat /\ n > d[x] /\ n # 0 /\ n - 1 \in Nat /\ n - 1 >= d[x]
  BY <1>2
<1>5. PICK a \in Task : reuse[a] = t
  BY <1>3, <1>4 DEF Depths, Awaited
<1>6. status[a] = "running" /\ uid[a] = u /\ d[a] = n - 1
  BY <1>3, <1>4, <1>5, NullAssumption DEF IndInv, ObjectsOK, Depths
<1>7. CASE n - 1 > d[x]
  <2>1. n - 1 \in T
    BY <1>4, <1>6, <1>7
  <2> QED
    BY <1>2, <1>4, <2>1
<1>8. CASE n - 1 = d[x]
  <2>1. a = x
    BY <1>6, <1>8, OnePerDepth
  <2> QED
    BY <1>5, <2>1, NullAssumption
<1> QED
  BY <1>4, <1>7, <1>8

\* One coroutine never carries two lines of execution.
THEOREM InnermostUnique == Spec => []OneInnermostPerCoroutine
<1>1. ASSUME IndInv, Nested PROVE OneInnermostPerCoroutine
  <2> SUFFICES ASSUME NEW t \in Task, NEW q \in Task, status[t] = "running", status[q] = "running",
                      reuse[t] = NULL, reuse[q] = NULL, uid[t] = uid[q]
               PROVE  t = q
    BY DEF OneInnermostPerCoroutine
  <2>1. PICK d \in [Task -> Nat] : Depths(d)
    BY <1>1 DEF Nested
  <2>2. d[t] <= d[q] /\ d[q] <= d[t]
    BY <1>1, <2>1, InnermostDeepest
  <2>3. d[t] = d[q]
    BY <2>1, <2>2
  <2> QED
    BY <1>1, <2>1, <2>3, OnePerDepth
<1>2. Nested /\ IndInv /\ [Next]_vars => Nested'
  BY NestedStep
<1> QED
  BY <1>1, <1>2, NestedInit, Invariance, PTL DEF Spec

-----------------------------------------------------------------------------
(***************************************************************************)
(* TaskPool implements IdPool.  Under the refinement mapping (Ranges, Held,*)
(* Refused) an operation that takes the front of a free list is IdPool's   *)
(* Take, one that finds it empty Refuse, one that pushes an id, or gets    *)
(* rid of a limited object, Release, init() is Open, and every other one   *)
(* changes nothing.  That the id taken is free, and that none is left when *)
(* the list is empty, is the inductive invariant.                          *)
(***************************************************************************)


\* The owners of ids as IdPool sees them.
LEMMA HeldIs ==
    ASSUME IndInv, NEW t \in Task
    PROVE  /\ Holds(t) => Held[t] = uid[t] /\ uid[t] \in IdRange(tpl[t]) /\ uid[t] \in Nat
           /\ ~Holds(t) => Held[t] = Ids!None
<1>1. ~Holds(t) => Held[t] = Ids!None
  BY DEF Held, Ids!None, EVENT_LOOP_ID
<1>2. ASSUME Holds(t) PROVE Held[t] = uid[t] /\ uid[t] \in IdRange(tpl[t]) /\ uid[t] \in Nat
  <2>1. tpl[t] \in Pool /\ t \in Holders(tpl[t])
    BY <1>2 DEF IndInv, TypeOK, Holders
  <2>2. uid[t] \in IdRange(tpl[t])
    BY <2>1 DEF IndInv, PoolsOK, PoolOK, IdRange
  <2>3. first_id[tpl[t]] \in Nat /\ max_task_num[tpl[t]] \in Nat
    BY <2>1 DEF IndInv, TypeOK
  <2> QED
    BY <1>2, <2>2, <2>3 DEF Held, IdRange
<1> QED
  BY <1>1, <1>2

\* An id is taken exactly if some object holds it.
LEMMA TakenIs ==
    ASSUME IndInv
    PROVE  Ids!Taken = {uid[t] : t \in {q \in Task : Holds(q)}}
<1>1. \A t \in Task : Holds(t) => Held[t] = uid[t] /\ uid[t] # -1
  BY HeldIs
<1>2. \A t \in Task : ~Holds(t) => Held[t] = -1
  BY HeldIs DEF Ids!None
<1> QED
  BY <1>1, <1>2 DEF Ids!Taken, Ids!None

\* Which ids are left in a pool.
LEMMA LeftIs ==
    ASSUME IndInv, NEW p \in Pool
    PROVE  Ids!Left(p) = {free_list[p][i] : i \in Slots(p)}
<1>1. Ids!Left(p) = IdRange(p) \ {uid[t] : t \in {q \in Task : Holds(q)}}
  BY TakenIs DEF Ids!Left, Ranges
<1>2. PoolOK(free_list[p], free_list_front[p], max_task_num[p], first_id[p], Holders(p), uid)
  BY DEF IndInv, PoolsOK
<1>3. ASSUME NEW t \in Task, Holds(t), uid[t] \in IdRange(p) PROVE tpl[t] = p
  <2>1. tpl[t] \in Pool /\ uid[t] \in IdRange(tpl[t])
    BY <1>3, HeldIs DEF IndInv, TypeOK
  <2>2. first_id \in [Pool -> Nat] /\ max_task_num \in [Pool -> Nat]
    BY DEF IndInv, TypeOK
  <2> QED
    BY <1>3, <2>1, <2>2 DEF IndInv, RangesOK, IdRange
<1>4. IdRange(p) \ {uid[t] : t \in {q \in Task : Holds(q)}} = IdRange(p) \ {uid[t] : t \in Holders(p)}
  BY <1>3 DEF Holders
<1> QED
  BY <1>1, <1>2, <1>4 DEF PoolOK, IdRange, Slots

-----------------------------------------------------------------------------
\* A step that leaves ranges, holders, their ids and limited objects alone is
\* none for IdPool.
LEMMA SameIds ==
    ASSUME UNCHANGED <<tpl, first_id, max_task_num>>,
           \A q \in Task : Holds(q)' <=> Holds(q),
           \A q \in Task : Holds(q) => uid'[q] = uid[q],
           \A q \in Task : status'[q] = "limited" <=> status[q] = "limited"
    PROVE  UNCHANGED Ids!vars
<1>1. Ranges' = Ranges
  BY DEF Ranges, IdRange
<1>2. Held' = Held
  <2>1. Held' = [q \in Task |-> IF Holds(q)' THEN uid'[q] ELSE EVENT_LOOP_ID]
    BY DEF Held, EVENT_LOOP_ID
  <2> QED
    BY <2>1 DEF Held
<1>3. Refused' = Refused
  BY DEF Refused
<1> QED
  BY <1>1, <1>2, <1>3 DEF Ids!vars

\* A step in which one object gives its id back, or one that was refused an id
\* goes away or runs on its parent's.
LEMMA ReleaseIds ==
    ASSUME IndInv, NEW t \in Task, Holds(t) \/ status[t] = "limited",
           UNCHANGED <<tpl, first_id, max_task_num>>,
           \A q \in Task : Holds(q)' <=> Holds(q) /\ q # t,
           \A q \in Task : q # t => uid'[q] = uid[q],
           \A q \in Task : status'[q] = "limited" <=> status[q] = "limited" /\ q # t
    PROVE  Ids!Release(t)
<1>1. Ranges' = Ranges
  BY DEF Ranges, IdRange
<1>2. Held' = [Held EXCEPT ![t] = Ids!None]
  <2>1. Held' = [q \in Task |-> IF Holds(q)' THEN uid'[q] ELSE -1]
    BY DEF Held, EVENT_LOOP_ID
  <2>2. Held = [q \in Task |-> IF Holds(q) THEN uid[q] ELSE -1]
    BY DEF Held, EVENT_LOOP_ID
  <2> QED
    BY <2>1, <2>2 DEF Ids!None
<1>3. Refused' = Refused \ {t}
  BY DEF Refused
<1>4. Held[t] # Ids!None \/ t \in Refused
  BY HeldIs DEF Refused, Ids!None
<1> QED
  BY <1>1, <1>2, <1>3, <1>4 DEF Ids!Release

\* init() before the first task: the ids from g_max_task_num on are nobody's.
LEMMA OpenSim ==
    ASSUME IndInv, NEW p \in Pool, NEW n \in 1..MaxTaskNum, init(p, n) PROVE Ids!Open(p)
<1> USE DEF IndInv
<1>0. /\ n \in Nat /\ n >= 1 /\ g_max_task_num \in Nat
      /\ first_id \in [Pool -> Nat] /\ max_task_num \in [Pool -> Nat]
      /\ max_task_num[p] = 0
  BY MaxAssumption DEF TypeOK, init, RangesOK
<1>1. /\ first_id' = [first_id EXCEPT ![p] = g_max_task_num]
      /\ max_task_num' = [max_task_num EXCEPT ![p] = n]
  BY DEF init
<1>2. Ranges[p] = {}
  BY <1>0 DEF Ranges, IdRange
<1>3. Ranges' = [q \in Pool |-> first_id'[q]..(first_id'[q] + max_task_num'[q] - 1)]
  BY DEF Ranges, IdRange
<1>4. Ranges'[p] = g_max_task_num..(g_max_task_num + n - 1)
  BY <1>0, <1>1, <1>3
<1>5. Ranges'[p] # {} /\ Ranges'[p] \subseteq Nat
  <2>1. g_max_task_num \in Ranges'[p]
    BY <1>0, <1>4
  <2>2. Ranges'[p] \subseteq Nat
    BY <1>0, <1>4
  <2> QED
    BY <2>1, <2>2
<1>6. ASSUME NEW q \in Pool PROVE Ranges'[p] \cap Ranges[q] = {}
  <2>1. /\ Ranges[q] = first_id[q]..(first_id[q] + max_task_num[q] - 1)
        /\ first_id[q] + max_task_num[q] <= g_max_task_num
        /\ first_id[q] \in Nat /\ max_task_num[q] \in Nat
    BY <1>0, <1>6 DEF Ranges, IdRange, RangesOK
  <2>2. \A i \in Ranges[q] : i < g_max_task_num
    BY <1>0, <2>1
  <2>3. \A i \in Ranges'[p] : i \in Int /\ g_max_task_num <= i
    BY <1>0, <1>4
  <2> QED
    BY <1>0, <2>2, <2>3
<1>7. Ranges' = [Ranges EXCEPT ![p] = Ranges'[p]]
  <2>1. \A q \in Pool : q # p => Ranges'[q] = Ranges[q]
    BY <1>0, <1>1, <1>3 DEF Ranges, IdRange
  <2> QED
    BY <1>3, <2>1 DEF Ranges
<1>8. UNCHANGED <<tpl, Held, Refused>>
  BY DEF init, taskVars, Held, Refused, Holds, Awaited
<1> QED
  BY <1>2, <1>5, <1>6, <1>7, <1>8 DEF Ids!Open

\* task() takes the id at the front of the free list, which is one that is left.
LEMMA TakeSim == ASSUME IndInv, NEW t \in Task, Construct(t) PROVE Ids!Take(t)
<1> DEFINE P == tpl[t]
           id == free_list[P][free_list_front[P]]
<1> USE DEF IndInv
<1>0. /\ P \in Pool /\ status[t] = "none" /\ uid[t] = EVENT_LOOP_ID /\ reuse[t] = NULL
      /\ ~Awaited(t) /\ reuse' = reuse /\ tpl' = tpl
      /\ first_id' = first_id /\ max_task_num' = max_task_num
      /\ free_list_front[P] # max_task_num[P]
      /\ uid' = [uid EXCEPT ![t] = id]
      /\ status' = [status EXCEPT ![t] = "ready"]
  BY DEF Construct, Exhausted, TypeOK, ObjectsOK, Awaited
<1>1. free_list_front[P] \in Slots(P) /\ id \in Nat
  <2>1. PoolOK(free_list[P], free_list_front[P], max_task_num[P], first_id[P], Holders(P), uid)
    BY <1>0 DEF PoolsOK
  <2>2. max_task_num[P] \in Nat
    BY <1>0 DEF TypeOK
  <2> QED
    BY <1>0, <2>1, <2>2 DEF PoolOK, Slots
<1>2. id \in Ids!Left(P)
  BY <1>0, <1>1, LeftIs
<1>3. /\ uid'[t] = id /\ status'[t] = "ready"
      /\ \A q \in Task : q # t => uid'[q] = uid[q] /\ status'[q] = status[q]
  BY <1>0 DEF TypeOK
<1>4. /\ \A q \in Task : Holds(q)' <=> Holds(q) \/ q = t
      /\ ~Holds(t)
  BY <1>0, <1>1, <1>3 DEF Holds, Awaited, EVENT_LOOP_ID
<1>5. Held' = [Held EXCEPT ![t] = id]
  <2>1. Held' = [q \in Task |-> IF Holds(q)' THEN uid'[q] ELSE -1]
    BY DEF Held, EVENT_LOOP_ID
  <2>2. Held = [q \in Task |-> IF Holds(q) THEN uid[q] ELSE -1]
    BY DEF Held, EVENT_LOOP_ID
  <2> HIDE DEF id
  <2> QED
    BY <1>3, <1>4, <2>1, <2>2
<1>6. UNCHANGED <<tpl, Ranges, Refused>>
  BY <1>0, <1>3 DEF Ranges, IdRange, Refused
<1>7. Held[t] = Ids!None /\ t \notin Refused
  BY <1>0, <1>4, HeldIs DEF Refused
<1> QED
  BY <1>2, <1>5, <1>6, <1>7 DEF Ids!Take

\* task() makes a limited object only when every id of its pool is held.
LEMMA RefuseSim == ASSUME IndInv, NEW t \in Task, ConstructLimited(t) PROVE Ids!Refuse(t)
<1> DEFINE P == tpl[t]
<1> USE DEF IndInv
<1>0. /\ P \in Pool /\ status[t] = "none" /\ uid[t] = EVENT_LOOP_ID /\ reuse[t] = NULL
      /\ ~Awaited(t) /\ reuse' = reuse /\ UNCHANGED <<tpl, first_id, max_task_num>>
      /\ free_list_front[P] = max_task_num[P] /\ initialized[P]
      /\ uid' = uid
      /\ status' = [status EXCEPT ![t] = "limited"]
  BY DEF ConstructLimited, Exhausted, TypeOK, ObjectsOK, Awaited, poolVars
<1>1. max_task_num[P] \in Nat /\ first_id[P] \in Nat
  BY <1>0 DEF TypeOK
<1>2. Ids!Left(P) = {}
  <2>1. Slots(P) = {}
    BY <1>0, <1>1 DEF Slots
  <2> QED
    BY <1>0, <2>1, LeftIs
<1>3. \A q \in Task : Holds(q)' <=> Holds(q)
  BY <1>0 DEF Holds, Awaited, TypeOK
<1>4. Held' = Held
  <2>1. Held' = [q \in Task |-> IF Holds(q)' THEN uid'[q] ELSE -1]
    BY DEF Held, EVENT_LOOP_ID
  <2> QED
    BY <1>0, <1>3, <2>1 DEF Held, EVENT_LOOP_ID
<1>5. Ranges' = Ranges /\ Refused' = Refused \cup {t}
  BY <1>0 DEF Ranges, IdRange, Refused, TypeOK
<1>6. Held[t] = Ids!None /\ t \notin Refused
  BY <1>0, HeldIs DEF Refused, Holds
<1> QED
  BY <1>0, <1>2, <1>4, <1>5, <1>6 DEF Ids!Refuse

\* ~task(), reached from Destroy, StartReject and the end of __task_runtime.
LEMMA DestructorSim ==
    ASSUME IndInv, NEW t \in Task, status[t] # "none", reuse[t] = NULL, ~Awaited(t),
           Destructor(t), UNCHANGED <<first_id, max_task_num, tpl, reuse>>
    PROVE  Ids!Release(t) \/ UNCHANGED Ids!vars
<1> USE DEF IndInv
<1>0. /\ status' = [status EXCEPT ![t] = "none"]
      /\ uid' = [uid EXCEPT ![t] = EVENT_LOOP_ID]
  BY DEF Destructor
<1>1. /\ status'[t] = "none"
      /\ \A q \in Task : q # t => uid'[q] = uid[q] /\ status'[q] = status[q]
  BY <1>0 DEF TypeOK
<1>2. \A q \in Task : Holds(q)' <=> Holds(q) /\ q # t
  BY <1>1 DEF Holds, Awaited
<1>3. CASE Holds(t) \/ status[t] = "limited"
  BY <1>1, <1>2, <1>3, ReleaseIds
<1>4. CASE ~Holds(t) /\ status[t] # "limited"
  BY <1>1, <1>2, <1>4, SameIds
<1> QED
  BY <1>3, <1>4

\* await() gives the id of its target back; a limited target no longer needs one.
LEMMA AwaitSim ==
    ASSUME IndInv, NEW parent \in Task, NEW t \in Task, Await(parent, t) PROVE Ids!Release(t)
<1> USE DEF IndInv
<1>0. /\ status[t] \in {"ready", "limited"} /\ reuse[parent] = NULL /\ ~Awaited(t)
      /\ UNCHANGED <<tpl, first_id, max_task_num>>
      /\ uid' = [uid EXCEPT ![t] = uid[parent]]
      /\ status' = [status EXCEPT ![t] = "running"]
      /\ reuse' = [reuse EXCEPT ![parent] = t]
      /\ status[t] = "ready" => Holds(t)
  BY DEF Await, Remember, ObjectsOK, Awaited, Holds
<1>1. /\ status'[t] = "running"
      /\ \A q \in Task : q # t => uid'[q] = uid[q] /\ status'[q] = status[q]
  BY <1>0 DEF TypeOK
<1>2. /\ \A q, r \in Task : reuse'[q] = r <=> (reuse[q] = r \/ (q = parent /\ r = t))
      /\ reuse'[parent] = t
  BY <1>0, NullAssumption DEF TypeOK
<1>3. \A q \in Task : Holds(q)' <=> Holds(q) /\ q # t
  BY <1>0, <1>1, <1>2 DEF Holds, Awaited
<1>4. Holds(t) \/ status[t] = "limited"
  BY <1>0
<1> QED
  BY <1>0, <1>1, <1>3, <1>4, ReleaseIds

\* The end of __await: the target had borrowed its parent's id.
LEMMA AwaitReturnSim ==
    ASSUME IndInv, NEW parent \in Task, NEW t \in Task, NEW s \in Ended,
           AwaitReturn(parent, t, s)
    PROVE  UNCHANGED Ids!vars
<1> USE DEF IndInv
<1>0. /\ reuse[parent] = t /\ t # NULL /\ status[t] = "running" /\ s # "limited" /\ s # "none"
      /\ UNCHANGED <<tpl, first_id, max_task_num>>
      /\ reuse' = [reuse EXCEPT ![parent] = NULL]
      /\ uid' = [uid EXCEPT ![t] = EVENT_LOOP_ID]
      /\ status' = [status EXCEPT ![t] = s]
  BY NullAssumption DEF AwaitReturn, ObjectsOK, Ended, poolVars
<1>1. /\ uid'[t] = EVENT_LOOP_ID /\ status'[t] = s
      /\ \A q \in Task : q # t => uid'[q] = uid[q] /\ status'[q] = status[q]
  BY <1>0 DEF TypeOK
<1>2. \A q, r \in Task : reuse'[q] = r <=> (reuse[q] = r /\ q # parent)
  BY <1>0, NullAssumption DEF TypeOK
<1>3. ~Holds(t) /\ ~Holds(t)'
  BY <1>0, <1>1 DEF Holds, Awaited
<1>4. ASSUME NEW q \in Task, q # t PROVE Holds(q)' <=> Holds(q)
  BY <1>0, <1>1, <1>2, <1>4 DEF Holds, Awaited
<1> QED
  BY <1>0, <1>1, <1>3, <1>4, SameIds

\* start(), a child's start, cocoflow(), and an end that keeps the object: only
\* the status changes, from one that is not "none" or "limited" to another.
LEMMA StatusSim ==
    ASSUME IndInv, NEW t \in Task, NEW s \in Status, status[t] \in {"ready", "running"},
           s \notin {"none", "limited"},
           status' = [status EXCEPT ![t] = s],
           UNCHANGED <<tpl, first_id, max_task_num, uid, reuse>>
    PROVE  UNCHANGED Ids!vars
<1>1. /\ status'[t] = s /\ \A q \in Task : q # t => status'[q] = status[q]
  BY DEF IndInv, TypeOK
<1>2. \A q \in Task : Holds(q)' <=> Holds(q)
  BY <1>1 DEF Holds, Awaited
<1> QED
  BY <1>1, <1>2, SameIds

\* Every step of TaskPool is a step of IdPool or none.
LEMMA StepSim == ASSUME IndInv, [Next]_vars PROVE [Ids!Next]_Ids!vars
<1>1. CASE EarlyInit
  <2>1. PICK p \in Pool, n \in 1..MaxTaskNum : init(p, n)
    BY <1>1 DEF EarlyInit
  <2> QED
    BY <2>1, OpenSim DEF Ids!Next
<1>2. ASSUME NEW t \in Task, Construct(t) PROVE [Ids!Next]_Ids!vars
  BY <1>2, TakeSim DEF Ids!Next
<1>3. ASSUME NEW t \in Task, ConstructLimited(t) PROVE [Ids!Next]_Ids!vars
  BY <1>3, RefuseSim DEF Ids!Next
<1>4. ASSUME NEW t \in Task, Destroy(t) \/ StartReject(t) PROVE [Ids!Next]_Ids!vars
  <2>1. /\ status[t] # "none" /\ status[t] # "running" /\ Destructor(t)
        /\ UNCHANGED <<first_id, max_task_num, tpl, reuse>>
    BY <1>4 DEF Destroy, StartReject, Ended
  <2>2. reuse[t] = NULL /\ ~Awaited(t)
    BY <2>1 DEF IndInv, ObjectsOK, Awaited
  <2> QED
    BY <2>1, <2>2, DestructorSim DEF Ids!Next
<1>5. ASSUME NEW t \in Task, Start(t) \/ Cocoflow(t) PROVE [Ids!Next]_Ids!vars
  BY <1>5, StatusSim DEF Start, Cocoflow, poolVars, Status
<1>6. ASSUME NEW parent \in Task, NEW t \in Task, StartChild(parent, t)
      PROVE  [Ids!Next]_Ids!vars
  BY <1>6, StatusSim DEF StartChild, poolVars, Status
<1>7. ASSUME NEW parent \in Task, NEW t \in Task, Await(parent, t) PROVE [Ids!Next]_Ids!vars
  BY <1>7, AwaitSim DEF Ids!Next
<1>8. ASSUME NEW parent \in Task, NEW t \in Task, NEW s \in Ended, AwaitReturn(parent, t, s)
      PROVE  [Ids!Next]_Ids!vars
  BY <1>8, AwaitReturnSim
<1>9. ASSUME NEW t \in Task, NEW s \in Ended, Finish(t, s) PROVE [Ids!Next]_Ids!vars
  <2>1. /\ status[t] = "running" /\ reuse[t] = NULL /\ ~Awaited(t)
        /\ UNCHANGED <<first_id, max_task_num, tpl, reuse>>
        /\ s \notin {"none", "limited"}
    BY <1>9 DEF Finish, Ended
  <2>2. CASE finish_to[t] = EVENT_LOOP_ID /\ t # top_task
    <3>1. Destructor(t)
      BY <1>9, <2>2 DEF Finish
    <3> QED
      BY <2>1, <3>1, DestructorSim DEF Ids!Next
  <2>3. CASE ~(finish_to[t] = EVENT_LOOP_ID /\ t # top_task)
    <3>1. status' = [status EXCEPT ![t] = s] /\ uid' = uid
      BY <1>9, <2>3 DEF Finish
    <3>2. s \in Status /\ status[t] \in {"ready", "running"}
      BY <2>1 DEF Status
    <3>3. UNCHANGED Ids!vars
      BY <2>1, <3>1, <3>2, StatusSim
    <3> QED
      BY <3>3
  <2> QED
    BY <2>2, <2>3
<1>10. CASE UNCHANGED vars
  <2>1. UNCHANGED <<tpl, first_id, max_task_num, uid, reuse, status>>
    BY <1>10 DEF vars, poolVars, taskVars
  <2>2. \A q \in Task : Holds(q)' <=> Holds(q)
    BY <2>1 DEF Holds, Awaited
  <2> QED
    BY <2>1, <2>2, SameIds
<1> QED
  BY <1>1, <1>2, <1>3, <1>4, <1>5, <1>6, <1>7, <1>8, <1>9, <1>10 DEF Next, UseTasks

\* The bookkeeping of task(), ~task(), await(), start() and init() implements
\* IdPool: to whoever looks only at who owns which id, free lists, borrowed ids
\* and the life of objects cannot be seen.
THEOREM Refinement == Spec => ImplementsIdPool
<1>1. Init => Ids!Init
  <2> SUFFICES ASSUME Init PROVE Ids!Init
    OBVIOUS
  <2>1. \A t \in Task : ~Holds(t)
    BY DEF Init, Holds
  <2>2. Held = [t \in Task |-> Ids!None]
    BY <2>1 DEF Held, Ids!None, EVENT_LOOP_ID
  <2>3. Ranges = [p \in Pool |-> {}]
    BY DEF Init, Ranges, IdRange
  <2>4. Refused = {}
    BY DEF Init, Refused
  <2> QED
    BY <2>2, <2>3, <2>4 DEF Init, Ids!Init
<1>2. IndInv /\ [Next]_vars => [Ids!Next]_Ids!vars
  BY StepSim
<1> QED
  BY <1>1, <1>2, Invariance, PTL DEF Spec, ImplementsIdPool, Ids!Spec

-----------------------------------------------------------------------------
(***************************************************************************)
(* Proofs about Udp, for any sets of tasks and sequence numbers and any    *)
(* number of datagrams.                                                    *)
(*                                                                         *)
(* That a task waits exactly where the callbacks look for it, and that the *)
(* socket is read for it, is inductive together with the control state of  *)
(* the object (ModesAgree): which callbacks go with which mode, that the   *)
(* callbacks of plain recv run on an object without a seqer only, and that *)
(* the destructor finds nobody waiting.  Without it the end of             *)
(* udp_recv_cb0, which stops whatever is being read when it finds the      *)
(* queue empty, could stop the reading for a task in recv_by_seq.          *)
(***************************************************************************)

\* recv_queue holds the tasks in recv, each once, but for the one that the alloc
\* callback has taken.
QueueInv ==
    /\ IsInjective(recv_queue)
    /\ ToSet(recv_queue) = {t \in Task : waits[t] = "recv" /\ t # cur_alloc}
    /\ cur_alloc # NULL => waits[cur_alloc] = "recv"

\* The multimap holds the tasks in recv_by_seq, and a number has one of them.
MappingInv ==
    /\ \A s \in SeqNum, t \in Task : <<s, t>> \in seq_mapping <=> waits[t] = s
    /\ \A t, u \in Task : waits[t] \in SeqNum /\ waits[t] = waits[u] => t = u

CbOf == [ready |-> Stopped, recv |-> 0, recv_by_seq |-> 1, ignore |-> 2]

ModesAgree ==
    /\ alive => cb = CbOf[receiving]
    /\ ~alive => cb = Stopped /\ \A t \in Task : ~Waiting(t)
    /\ cb = 0 => ~seqer
    /\ cb = 1 => seqer
    /\ phase = "alloc" <=> cur_alloc # NULL
    /\ phase = "alloc" => alive /\ cb = 0
    /\ phase = "stand" => ~seqer

\* The socket is read for whoever waits.
ReadInv ==
    /\ \A t \in Task : waits[t] = "recv" => cb \in {0, 1}
    /\ \A t \in Task : waits[t] \in SeqNum => cb = 1
    /\ phase = "loop" /\ cb = 0 => recv_queue # <<>>

UdpIndInv == UdpTypeOK /\ QueueInv /\ MappingInv /\ ModesAgree /\ ReadInv

LEMMA UdpInitOK == UdpInit => UdpIndInv
<1> SUFFICES ASSUME UdpInit PROVE UdpIndInv
  OBVIOUS
<1>1. UdpTypeOK
  <2>1. <<>> \in Seq(Task) /\ <<>> \in Seq(SeqNum \cup {Bad})
    BY EmptySeq
  <2>2. waits \in [Task -> {"no", "recv", "send"} \cup SeqNum] /\ cb \in 0..3
    BY DEF UdpInit, Stopped
  <2> QED
    BY <2>1, <2>2 DEF UdpInit, UdpTypeOK
<1>2. QueueInv
  BY EmptyQueue DEF UdpInit, QueueInv
<1>3. MappingInv
  BY NullAssumption, ValuesDistinct DEF UdpInit, MappingInv
<1>4. ModesAgree /\ ReadInv
  BY NullAssumption, ValuesDistinct DEF UdpInit, ModesAgree, ReadInv, CbOf, Stopped
<1> QED
  BY <1>1, <1>2, <1>3, <1>4 DEF UdpIndInv

\* Steps that leave the queue, or the multimap, alone.
LEMMA QueueFrame ==
    ASSUME QueueInv, UNCHANGED <<recv_queue, cur_alloc>>,
           cur_alloc # NULL => cur_alloc \in Task,
           \A t \in Task : waits'[t] = "recv" <=> waits[t] = "recv"
    PROVE  QueueInv'
BY DEF QueueInv

LEMMA MappingFrame ==
    ASSUME MappingInv, UNCHANGED seq_mapping,
           \A t \in Task : waits'[t] \in SeqNum \/ waits[t] \in SeqNum => waits'[t] = waits[t]
    PROVE  MappingInv'
BY DEF MappingInv

\* A task in recv is in the queue while no callback holds it.
LEMMA Queued ==
    ASSUME UdpIndInv, NEW t \in Task, waits[t] = "recv", phase # "alloc"
    PROVE  t \in ToSet(recv_queue)
BY NullAssumption, ValuesDistinct DEF UdpIndInv, QueueInv, ModesAgree

-----------------------------------------------------------------------------
LEMMA ArriveOK ==
    ASSUME UdpIndInv, NEW d \in SeqNum \cup {Bad}, Arrive(d)
    PROVE  UdpIndInv'
<1>1. UNCHANGED <<alive, receiving, seqer, cb, recv_queue, cur_alloc, seq_mapping, c_unrecv, c_failed,
                  c_ignored, phase, waits>>
  BY DEF Arrive, modeVars, countVars
<1>2. kernel' \in Seq(SeqNum \cup {Bad}) /\ arrived' \in Nat
  <2>1. kernel \in Seq(SeqNum \cup {Bad}) /\ kernel' = Append(kernel, d)
    BY DEF Arrive, UdpIndInv, UdpTypeOK
  <2>2. arrived' = arrived + 1 /\ arrived \in Nat
    BY DEF Arrive, UdpIndInv, UdpTypeOK
  <2> QED
    BY <2>1, <2>2, AppendProperties
<1> QED
  BY <1>1, <1>2 DEF UdpIndInv, UdpTypeOK, QueueInv, MappingInv, ModesAgree, ReadInv, Waiting

LEMMA BindOK ==
    ASSUME UdpIndInv, EarlyBind
    PROVE  UdpIndInv'
<1>1. UNCHANGED <<alive, receiving, cb, recv_queue, cur_alloc, seq_mapping, c_unrecv, c_failed,
                  c_ignored, kernel, arrived, phase, waits>>
  BY DEF EarlyBind, Bind, countVars
<1>2. alive /\ phase = "loop" /\ cb = Stopped /\ seqer'
  BY DEF EarlyBind, Bind, UserCode, UdpIndInv, ModesAgree, CbOf
<1> QED
  BY <1>1, <1>2 DEF UdpIndInv, UdpTypeOK, QueueInv, MappingInv, ModesAgree, ReadInv, Waiting, Stopped

LEMMA IgnoreRecvOK ==
    ASSUME UdpIndInv, IgnoreRecv
    PROVE  UdpIndInv'
<1>1. UNCHANGED <<alive, seqer, recv_queue, cur_alloc, seq_mapping, c_unrecv, c_failed,
                  c_ignored, kernel, arrived, phase, waits>>
  BY DEF IgnoreRecv, countVars
<1>2. alive /\ phase # "alloc" /\ receiving = "ready" /\ receiving' = "ignore" /\ cb' = 2 /\ cb = Stopped
  BY DEF IgnoreRecv, UserCode, StartCb, UdpIndInv, ModesAgree, CbOf
<1>3. UdpTypeOK' /\ QueueInv' /\ MappingInv'
  BY <1>1, <1>2 DEF UdpIndInv, UdpTypeOK, QueueInv, MappingInv
<1>4. ModesAgree' /\ ReadInv'
  BY <1>1, <1>2 DEF UdpIndInv, ModesAgree, ReadInv, Waiting, Stopped, CbOf
<1> QED
  BY <1>3, <1>4 DEF UdpIndInv

LEMMA RecvOK ==
    ASSUME UdpIndInv, NEW t \in Task, Recv(t)
    PROVE  UdpIndInv'
<1>1. /\ UNCHANGED <<alive, seqer, cur_alloc, seq_mapping, c_unrecv, c_failed, c_ignored, kernel,
                     arrived, phase>>
      /\ alive /\ phase # "alloc" /\ waits[t] = "no" /\ cur_alloc = NULL
      /\ recv_queue' = Append(recv_queue, t)
      /\ waits' = [waits EXCEPT ![t] = "recv"]
  BY DEF Recv, UserCode, Waiting, countVars, UdpIndInv, ModesAgree
<1>2. waits'[t] = "recv" /\ \A u \in Task : u # t => waits'[u] = waits[u]
  BY <1>1 DEF UdpIndInv, UdpTypeOK
<1>3. /\ receiving' \in {"recv", "recv_by_seq"} /\ cb' = CbOf[receiving']
      /\ cb' \in {0, 1} /\ (cb' = 0 => ~seqer) /\ (cb' = 1 => seqer)
      /\ cb = 1 => cb' = 1
  BY <1>1 DEF Recv, KeepCb, StartCb, UdpIndInv, UdpTypeOK, ModesAgree, CbOf, Stopped
<1>4. /\ recv_queue' \in Seq(Task) /\ IsInjective(recv_queue')
      /\ ToSet(recv_queue') = ToSet(recv_queue) \cup {t}
      /\ recv_queue' # <<>>
  <2>1. recv_queue \in Seq(Task) /\ IsInjective(recv_queue) /\ t \notin ToSet(recv_queue)
    BY <1>1 DEF UdpIndInv, UdpTypeOK, QueueInv
  <2>2. /\ recv_queue' \in Seq(Task) /\ IsInjective(recv_queue')
        /\ ToSet(recv_queue') = ToSet(recv_queue) \cup {t}
    BY <1>1, <2>1, Enqueue
  <2> QED
    BY <2>2, SeqBasics
<1>5. UdpTypeOK'
  BY <1>1, <1>3, <1>4 DEF UdpIndInv, UdpTypeOK
<1>6. QueueInv'
  BY <1>1, <1>2, <1>4, NullAssumption, ValuesDistinct DEF UdpIndInv, QueueInv
<1>7. MappingInv'
  BY <1>1, <1>2, MappingFrame, NullAssumption, ValuesDistinct DEF UdpIndInv
<1>8. ModesAgree'
  BY <1>1, <1>3, <1>2 DEF UdpIndInv, ModesAgree, Waiting, CbOf, Stopped
<1>9. ReadInv'
  BY <1>1, <1>2, <1>3, <1>4, NullAssumption, ValuesDistinct DEF UdpIndInv, ReadInv
<1> QED
  BY <1>5, <1>6, <1>7, <1>8, <1>9 DEF UdpIndInv

LEMMA CancelRecvOK ==
    ASSUME UdpIndInv, NEW t \in Task, CancelRecv(t)
    PROVE  UdpIndInv'
<1>1. /\ UNCHANGED <<alive, seqer, cur_alloc, seq_mapping, c_unrecv, c_failed, c_ignored, kernel,
                     arrived, phase>>
      /\ alive /\ phase # "alloc" /\ waits[t] = "recv" /\ cur_alloc = NULL
      /\ recv_queue' = RemoveAt(recv_queue, PosOf(t))
      /\ waits' = [waits EXCEPT ![t] = "no"]
  BY DEF CancelRecv, UserCode, countVars, UdpIndInv, ModesAgree
<1>2. waits'[t] = "no" /\ \A u \in Task : u # t => waits'[u] = waits[u]
  BY <1>1 DEF UdpIndInv, UdpTypeOK
<1>3. /\ recv_queue' \in Seq(Task) /\ IsInjective(recv_queue')
      /\ ToSet(recv_queue') = ToSet(recv_queue) \ {t}
  <2>1. recv_queue \in Seq(Task) /\ IsInjective(recv_queue) /\ t \in ToSet(recv_queue)
    BY <1>1, Queued DEF UdpIndInv, UdpTypeOK, QueueInv
  <2>2. PosOf(t) \in 1..Len(recv_queue) /\ recv_queue[PosOf(t)] = t
    BY <2>1, PositionOf DEF PosOf
  <2> QED
    BY <1>1, <2>1, <2>2, EraseAt
<1>4. QueueInv'
  BY <1>1, <1>2, <1>3 DEF UdpIndInv, QueueInv
<1>5. recv_queue' = <<>> <=> \A u \in Task : waits'[u] # "recv"
  <2>1. recv_queue' = <<>> <=> ToSet(recv_queue') = {}
    BY <1>3, SeqBasics
  <2> QED
    BY <1>1, <2>1, <1>4, NullAssumption, ValuesDistinct DEF QueueInv
<1>6. /\ receiving = "recv" /\ recv_queue' = <<>> => receiving' = "ready" /\ cb' = Stopped /\ cb = 0
      /\ ~(receiving = "recv" /\ recv_queue' = <<>>) => UNCHANGED <<receiving, cb>>
  BY <1>1 DEF CancelRecv, StopIfLast, StopCb, KeepCb, UdpIndInv, ModesAgree, CbOf
<1>7. UdpTypeOK'
  BY <1>1, <1>3, <1>6 DEF UdpIndInv, UdpTypeOK, Stopped
<1>8. MappingInv'
  BY <1>1, <1>2, MappingFrame, NullAssumption, ValuesDistinct DEF UdpIndInv
<1>9. ModesAgree'
  BY <1>1, <1>2, <1>6 DEF UdpIndInv, ModesAgree, Waiting, CbOf, Stopped
<1>10. ReadInv'
  <2>1. CASE receiving = "recv" /\ recv_queue' = <<>>
    BY <1>1, <1>2, <1>5, <1>6, <2>1, NullAssumption, ValuesDistinct DEF UdpIndInv, ReadInv, Stopped
  <2>2. CASE ~(receiving = "recv" /\ recv_queue' = <<>>)
    <3>1. cb = 0 => receiving = "recv"
      BY <1>1 DEF UdpIndInv, ModesAgree, UdpTypeOK, CbOf, Stopped
    <3> QED
      BY <1>1, <1>2, <1>6, <2>2, <3>1, NullAssumption, ValuesDistinct DEF UdpIndInv, ReadInv
  <2> QED
    BY <2>1, <2>2
<1> QED
  BY <1>4, <1>7, <1>8, <1>9, <1>10 DEF UdpIndInv

LEMMA RecvBySeqOK ==
    ASSUME UdpIndInv, NEW t \in Task, NEW s \in SeqNum, \A q \in Task : waits[q] # s, RecvBySeq(t, s)
    PROVE  UdpIndInv'
<1>1. /\ UNCHANGED <<alive, seqer, recv_queue, cur_alloc, c_unrecv, c_failed, c_ignored, kernel,
                     arrived, phase>>
      /\ alive /\ phase # "alloc" /\ waits[t] = "no" /\ cur_alloc = NULL /\ seqer
      /\ seq_mapping' = seq_mapping \cup {<<s, t>>}
      /\ waits' = [waits EXCEPT ![t] = s]
  BY DEF RecvBySeq, RunPart0, Insert, UserCode, Waiting, countVars, UdpIndInv, ModesAgree
<1>2. waits'[t] = s /\ \A u \in Task : u # t => waits'[u] = waits[u]
  BY <1>1 DEF UdpIndInv, UdpTypeOK
<1>3. receiving' = "recv_by_seq" /\ cb' = 1
  BY <1>1 DEF RecvBySeq, RunPart0, KeepCb, StartCb, UdpIndInv, UdpTypeOK, ModesAgree, CbOf, Stopped
<1>4. UdpTypeOK'
  BY <1>1, <1>3 DEF UdpIndInv, UdpTypeOK
<1>5. QueueInv'
  BY <1>1, <1>2, QueueFrame, NullAssumption, ValuesDistinct DEF UdpIndInv
<1>6. MappingInv'
  BY <1>1, <1>2, NullAssumption, ValuesDistinct DEF UdpIndInv, MappingInv
<1>7. ModesAgree' /\ ReadInv'
  BY <1>1, <1>2, <1>3 DEF UdpIndInv, ModesAgree, ReadInv, Waiting, CbOf
<1> QED
  BY <1>4, <1>5, <1>6, <1>7 DEF UdpIndInv

LEMMA CancelRecvBySeqOK ==
    ASSUME UdpIndInv, NEW t \in Task, CancelRecvBySeq(t)
    PROVE  UdpIndInv'
<1>1. /\ UNCHANGED <<alive, receiving, seqer, cb, recv_queue, cur_alloc, c_unrecv, c_failed,
                     c_ignored, kernel, arrived, phase>>
      /\ alive /\ waits[t] \in SeqNum
      /\ seq_mapping' = {e \in seq_mapping : e[1] # waits[t]}
      /\ waits' = [waits EXCEPT ![t] = "no"]
  BY DEF CancelRecvBySeq, Erase, UserCode, modeVars, countVars
<1>2. waits'[t] = "no" /\ \A u \in Task : u # t => waits'[u] = waits[u]
  BY <1>1 DEF UdpIndInv, UdpTypeOK
<1>3. UdpTypeOK'
  BY <1>1 DEF UdpIndInv, UdpTypeOK
<1>4. QueueInv'
  BY <1>1, <1>2, QueueFrame, NullAssumption, ValuesDistinct DEF UdpIndInv, UdpTypeOK
<1>5. MappingInv'
  <2>1. ASSUME NEW s \in SeqNum, NEW u \in Task PROVE <<s, u>> \in seq_mapping' <=> waits'[u] = s
    <3>1. <<s, u>> \in seq_mapping <=> waits[u] = s
      BY DEF UdpIndInv, MappingInv
    <3>2. <<s, u>> \in seq_mapping' <=> <<s, u>> \in seq_mapping /\ s # waits[t]
      BY <1>1
    <3> QED
      BY <1>1, <1>2, <3>1, <3>2, NullAssumption, ValuesDistinct DEF UdpIndInv, MappingInv
  <2> QED
    BY <1>1, <1>2, <2>1, NullAssumption, ValuesDistinct DEF UdpIndInv, MappingInv
<1>6. ModesAgree' /\ ReadInv'
  BY <1>1, <1>2, NullAssumption, ValuesDistinct DEF UdpIndInv, ModesAgree, ReadInv, Waiting
<1> QED
  BY <1>3, <1>4, <1>5, <1>6 DEF UdpIndInv

LEMMA SendOK ==
    ASSUME UdpIndInv, NEW t \in Task, Send(t) \/ SendCb(t)
    PROVE  UdpIndInv'
<1>1. /\ UNCHANGED <<alive, receiving, seqer, cb, recv_queue, cur_alloc, seq_mapping, c_unrecv,
                     c_failed, c_ignored, kernel, arrived, phase>>
      /\ waits[t] \in {"no", "send"} /\ (waits[t] = "no" => alive)
      /\ \E w \in {"no", "send"} : waits' = [waits EXCEPT ![t] = w]
  BY DEF Send, SendCb, UserCode, Waiting, modeVars, countVars
<1>2. waits'[t] \in {"no", "send"} /\ \A u \in Task : u # t => waits'[u] = waits[u]
  BY <1>1 DEF UdpIndInv, UdpTypeOK
<1>3. UdpTypeOK'
  BY <1>1 DEF UdpIndInv, UdpTypeOK
<1>4. QueueInv' /\ MappingInv'
  BY <1>1, <1>2, QueueFrame, MappingFrame, NullAssumption, ValuesDistinct DEF UdpIndInv, UdpTypeOK
<1>5. ModesAgree' /\ ReadInv'
  BY <1>1, <1>2, NullAssumption, ValuesDistinct DEF UdpIndInv, ModesAgree, ReadInv, Waiting
<1> QED
  BY <1>3, <1>4, <1>5 DEF UdpIndInv

LEMMA DestroyOK ==
    ASSUME UdpIndInv, DestroyUdp
    PROVE  UdpIndInv'
<1>1. /\ UNCHANGED <<receiving, recv_queue, cur_alloc, c_unrecv, c_failed, c_ignored, kernel,
                     arrived, phase, waits>>
      /\ alive /\ phase # "alloc" /\ ~alive' /\ cb' = Stopped /\ ~seqer' /\ seq_mapping' = {}
      /\ \A t \in Task : waits[t] = "no"
      /\ alive' \in BOOLEAN /\ seqer' \in BOOLEAN
  BY DEF DestroyUdp, UserCode, Waiting, countVars
<1>2. UdpTypeOK' /\ QueueInv'
  BY <1>1 DEF UdpIndInv, UdpTypeOK, QueueInv, Stopped
<1>3. MappingInv' /\ ModesAgree' /\ ReadInv'
  BY <1>1, NullAssumption, ValuesDistinct DEF UdpIndInv, MappingInv, ModesAgree, ReadInv, Waiting, Stopped
<1> QED
  BY <1>2, <1>3 DEF UdpIndInv

-----------------------------------------------------------------------------
LEMMA AllocCb0OK ==
    ASSUME UdpIndInv, AllocCb0
    PROVE  UdpIndInv'
<1>1. /\ UNCHANGED <<alive, receiving, seqer, cb, seq_mapping, c_unrecv, c_failed, c_ignored, kernel,
                     arrived, waits>>
      /\ phase = "loop" /\ phase' = "alloc" /\ cb = 0 /\ cur_alloc = NULL /\ recv_queue # <<>>
      /\ cur_alloc' = Head(recv_queue) /\ recv_queue' = Tail(recv_queue)
  BY DEF AllocCb0, AllocChecks, modeVars, countVars
<1>2. /\ recv_queue' \in Seq(Task) /\ IsInjective(recv_queue')
      /\ cur_alloc' \in Task /\ cur_alloc' \in ToSet(recv_queue)
      /\ ToSet(recv_queue') = ToSet(recv_queue) \ {cur_alloc'}
  <2>1. recv_queue \in Seq(Task) /\ IsInjective(recv_queue)
    BY DEF UdpIndInv, UdpTypeOK, QueueInv
  <2> QED
    BY <1>1, <2>1, Dequeue
<1>3. UdpTypeOK' /\ MappingInv'
  BY <1>1, <1>2 DEF UdpIndInv, UdpTypeOK, MappingInv
<1>4. QueueInv'
  BY <1>1, <1>2, NullAssumption, ValuesDistinct DEF UdpIndInv, QueueInv
<1>5. ModesAgree' /\ ReadInv'
  BY <1>1, <1>2, NullAssumption, ValuesDistinct DEF UdpIndInv, ModesAgree, ReadInv, Waiting, Stopped
<1> QED
  BY <1>3, <1>4, <1>5 DEF UdpIndInv

LEMMA RecvCb0NothingOK ==
    ASSUME UdpIndInv, RecvCb0Nothing
    PROVE  UdpIndInv'
<1>1. /\ UNCHANGED <<alive, receiving, seqer, cb, seq_mapping, c_unrecv, c_failed, c_ignored, kernel,
                     arrived, waits>>
      /\ phase = "alloc" /\ phase' = "loop" /\ cur_alloc' = NULL
      /\ recv_queue' = <<cur_alloc>> \o recv_queue
  BY DEF RecvCb0Nothing, modeVars, countVars
<1>2. cur_alloc \in Task /\ cur_alloc \notin ToSet(recv_queue) /\ waits[cur_alloc] = "recv"
  BY <1>1 DEF UdpIndInv, UdpTypeOK, QueueInv, ModesAgree
<1>3. /\ recv_queue' \in Seq(Task) /\ IsInjective(recv_queue') /\ recv_queue' # <<>>
      /\ ToSet(recv_queue') = ToSet(recv_queue) \cup {cur_alloc}
  <2>1. recv_queue \in Seq(Task) /\ IsInjective(recv_queue)
    BY DEF UdpIndInv, UdpTypeOK, QueueInv
  <2> QED
    BY <1>1, <1>2, <2>1, PutBackQueue
<1>4. UdpTypeOK' /\ MappingInv'
  BY <1>1, <1>3 DEF UdpIndInv, UdpTypeOK, MappingInv
<1>5. QueueInv'
  BY <1>1, <1>2, <1>3, NullAssumption, ValuesDistinct DEF UdpIndInv, QueueInv
<1>6. ModesAgree' /\ ReadInv'
  BY <1>1, <1>3 DEF UdpIndInv, ModesAgree, ReadInv, Waiting
<1> QED
  BY <1>4, <1>5, <1>6 DEF UdpIndInv

LEMMA RecvCb0OK ==
    ASSUME UdpIndInv, RecvCb0
    PROVE  UdpIndInv'
<1>1. /\ UNCHANGED <<alive, receiving, seqer, cb, recv_queue, seq_mapping, c_unrecv, c_failed,
                     c_ignored, arrived>>
      /\ phase = "alloc" /\ phase' = "stand" /\ cur_alloc' = NULL
      /\ kernel # <<>> /\ kernel' = Tail(kernel)
      /\ waits' = [waits EXCEPT ![cur_alloc] = "no"]
  BY DEF RecvCb0, modeVars, countVars
<1>2. cur_alloc \in Task /\ cur_alloc # NULL /\ waits[cur_alloc] = "recv" /\ cb = 0 /\ alive /\ ~seqer
  BY <1>1 DEF UdpIndInv, UdpTypeOK, QueueInv, ModesAgree
<1>3. waits'[cur_alloc] = "no" /\ \A u \in Task : u # cur_alloc => waits'[u] = waits[u]
  BY <1>1, <1>2 DEF UdpIndInv, UdpTypeOK
<1>4. UdpTypeOK'
  <2>1. kernel' \in Seq(SeqNum \cup {Bad})
    BY <1>1, HeadTailProperties DEF UdpIndInv, UdpTypeOK
  <2> QED
    BY <1>1, <1>2, <2>1 DEF UdpIndInv, UdpTypeOK
<1>5. QueueInv'
  BY <1>1, <1>2, <1>3, NullAssumption, ValuesDistinct DEF UdpIndInv, QueueInv
<1>6. MappingInv'
  BY <1>1, <1>2, <1>3, MappingFrame, NullAssumption, ValuesDistinct DEF UdpIndInv
<1>7. ModesAgree' /\ ReadInv'
  BY <1>1, <1>2, <1>3, NullAssumption, ValuesDistinct DEF UdpIndInv, ModesAgree, ReadInv, Waiting
<1> QED
  BY <1>4, <1>5, <1>6, <1>7 DEF UdpIndInv

LEMMA RecvCb0EndOK ==
    ASSUME UdpIndInv, RecvCb0End
    PROVE  UdpIndInv'
<1>1. /\ UNCHANGED <<alive, seqer, recv_queue, cur_alloc, seq_mapping, c_unrecv, c_failed, c_ignored,
                     kernel, arrived, waits>>
      /\ phase = "stand" /\ phase' = "loop" /\ ~seqer /\ cur_alloc = NULL
      /\ alive /\ recv_queue = <<>> => receiving' = "ready" /\ cb' = Stopped
      /\ ~(alive /\ recv_queue = <<>>) => UNCHANGED <<receiving, cb>>
  BY DEF RecvCb0End, StopIfValid, StopCb, KeepCb, countVars, UdpIndInv, ModesAgree
<1>2. recv_queue = <<>> => \A t \in Task : waits[t] # "recv"
  <2>1. recv_queue = <<>> => ToSet(recv_queue) = {}
    BY EmptyQueue
  <2> QED
    BY <1>1, <2>1, NullAssumption, ValuesDistinct DEF UdpIndInv, QueueInv
<1>3. \A t \in Task : waits[t] \notin SeqNum
  BY <1>1 DEF UdpIndInv, ModesAgree, ReadInv
<1>4. UdpTypeOK' /\ QueueInv' /\ MappingInv'
  BY <1>1 DEF UdpIndInv, UdpTypeOK, QueueInv, MappingInv, Stopped
<1>5. ModesAgree'
  BY <1>1 DEF UdpIndInv, ModesAgree, Waiting, CbOf, Stopped
<1>6. ReadInv'
  BY <1>1, <1>2, <1>3 DEF UdpIndInv, ReadInv, ModesAgree, Stopped
<1> QED
  BY <1>4, <1>5, <1>6 DEF UdpIndInv

LEMMA RecvCb1OK ==
    ASSUME UdpIndInv, RecvCb1
    PROVE  UdpIndInv'
<1> DEFINE d == Head(kernel)
<1>1. /\ UNCHANGED <<alive, receiving, seqer, cb, cur_alloc, arrived, phase>>
      /\ phase = "loop" /\ cb = 1 /\ kernel # <<>> /\ kernel' = Tail(kernel)
  BY DEF RecvCb1, modeVars
<1>2. kernel' \in Seq(SeqNum \cup {Bad}) /\ alive /\ cur_alloc = NULL
  BY <1>1, HeadTailProperties DEF UdpIndInv, UdpTypeOK, ModesAgree, Stopped
<1>3. ASSUME NEW e \in Unwrap(d), ToSeqWaiter(e)
      PROVE  UdpIndInv'
  <2>1. PICK s \in SeqNum, t \in Task : e = <<s, t>> /\ e \in seq_mapping
    BY <1>3 DEF Unwrap, UdpIndInv, UdpTypeOK
  <2>2. waits[t] = s /\ waits' = [waits EXCEPT ![t] = "no"] /\ seq_mapping' = seq_mapping \ {<<s, t>>}
    BY <1>3, <2>1 DEF ToSeqWaiter, UdpIndInv, MappingInv
  <2>3. UNCHANGED <<recv_queue, c_unrecv, c_failed, c_ignored>>
    BY <1>3 DEF ToSeqWaiter, countVars
  <2>4. waits'[t] = "no" /\ \A u \in Task : u # t => waits'[u] = waits[u]
    BY <2>2 DEF UdpIndInv, UdpTypeOK
  <2>5. UdpTypeOK'
    BY <1>1, <1>2, <2>2, <2>3 DEF UdpIndInv, UdpTypeOK
  <2>6. QueueInv'
    BY <1>1, <1>2, <2>2, <2>3, <2>4, QueueFrame, NullAssumption, ValuesDistinct DEF UdpIndInv
  <2>7. MappingInv'
    BY <2>2, <2>4, NullAssumption, ValuesDistinct DEF UdpIndInv, MappingInv
  <2>8. ModesAgree' /\ ReadInv'
    BY <1>1, <1>2, <2>3, <2>4, NullAssumption, ValuesDistinct DEF UdpIndInv, ModesAgree, ReadInv, Waiting
  <2> QED
    BY <2>5, <2>6, <2>7, <2>8 DEF UdpIndInv
<1>4. ASSUME recv_queue # <<>>, ToQueue
      PROVE  UdpIndInv'
  <2> DEFINE t == Head(recv_queue)
  <2>1. /\ UNCHANGED <<seq_mapping, c_unrecv, c_failed, c_ignored>>
        /\ recv_queue' = Tail(recv_queue) /\ waits' = [waits EXCEPT ![t] = "no"]
    BY <1>4 DEF ToQueue, countVars
  <2>2. /\ recv_queue' \in Seq(Task) /\ IsInjective(recv_queue')
        /\ t \in Task /\ t \in ToSet(recv_queue)
        /\ ToSet(recv_queue') = ToSet(recv_queue) \ {t}
    <3>1. recv_queue \in Seq(Task) /\ IsInjective(recv_queue)
      BY DEF UdpIndInv, UdpTypeOK, QueueInv
    <3> QED
      BY <1>4, <2>1, <3>1, Dequeue
  <2> HIDE DEF t
  <2>3. waits[t] = "recv" /\ waits'[t] = "no" /\ \A u \in Task : u # t => waits'[u] = waits[u]
    BY <2>1, <2>2 DEF UdpIndInv, UdpTypeOK, QueueInv
  <2>4. UdpTypeOK'
    BY <1>1, <1>2, <2>1, <2>2 DEF UdpIndInv, UdpTypeOK
  <2>5. QueueInv'
    BY <1>1, <1>2, <2>2, <2>3 DEF UdpIndInv, QueueInv
  <2>6. MappingInv'
    BY <2>1, <2>3, MappingFrame, NullAssumption, ValuesDistinct DEF UdpIndInv
  <2>7. ModesAgree' /\ ReadInv'
    BY <1>1, <1>2, <2>3, NullAssumption, ValuesDistinct DEF UdpIndInv, ModesAgree, ReadInv, Waiting
  <2> QED
    BY <2>4, <2>5, <2>6, <2>7 DEF UdpIndInv
<1>5. ASSUME CountMissed(d)
      PROVE  UdpIndInv'
  <2>1. /\ UNCHANGED <<c_ignored, recv_queue, seq_mapping, waits>>
        /\ c_unrecv' \in Nat /\ c_failed' \in Nat
    BY <1>5 DEF CountMissed, UdpIndInv, UdpTypeOK
  <2> QED
    BY <1>1, <1>2, <2>1 DEF UdpIndInv, UdpTypeOK, QueueInv, MappingInv, ModesAgree, ReadInv, Waiting
<1> QED
  BY <1>3, <1>4, <1>5 DEF RecvCb1

LEMMA RecvCb2OK ==
    ASSUME UdpIndInv, RecvCb2
    PROVE  UdpIndInv'
<1>1. /\ UNCHANGED <<alive, receiving, seqer, cb, recv_queue, cur_alloc, seq_mapping, c_unrecv,
                     c_failed, arrived, phase, waits>>
      /\ kernel # <<>> /\ kernel' = Tail(kernel) /\ c_ignored' = c_ignored + 1
  BY DEF RecvCb2, modeVars
<1>2. kernel' \in Seq(SeqNum \cup {Bad}) /\ c_ignored' \in Nat
  BY <1>1, HeadTailProperties DEF UdpIndInv, UdpTypeOK
<1> QED
  BY <1>1, <1>2 DEF UdpIndInv, UdpTypeOK, QueueInv, MappingInv, ModesAgree, ReadInv, Waiting

LEMMA StepOK == UdpIndInv /\ [UdpNext]_udpVars => UdpIndInv'
<1> SUFFICES ASSUME UdpIndInv, [UdpNext]_udpVars PROVE UdpIndInv'
  OBVIOUS
<1>1. CASE External
  BY <1>1, ArriveOK, SendOK DEF External
<1>2. CASE Use
  BY <1>2, IgnoreRecvOK, DestroyOK, RecvOK, CancelRecvOK, CancelRecvBySeqOK, SendOK DEF Use
<1>3. CASE EarlyBind
  BY <1>3, BindOK
<1>4. CASE DistinctRecvBySeq
  BY <1>4, RecvBySeqOK DEF DistinctRecvBySeq
<1>5. CASE Callback
  BY <1>5, AllocCb0OK, RecvCb0NothingOK, RecvCb0OK, RecvCb0EndOK, RecvCb1OK, RecvCb2OK DEF Callback
<1>6. CASE UNCHANGED udpVars
  BY <1>6 DEF udpVars, modeVars, countVars, UdpIndInv, UdpTypeOK, QueueInv, MappingInv, ModesAgree, ReadInv, Waiting
<1> QED
  BY <1>1, <1>2, <1>3, <1>4, <1>5, <1>6 DEF UdpNext

LEMMA InvHolds == UdpSpec => []UdpIndInv
BY UdpInitOK, StepOK, PTL DEF UdpSpec

-----------------------------------------------------------------------------
LEMMA InvMeans == UdpIndInv => RegisteredAndRead
<1> SUFFICES ASSUME UdpIndInv PROVE RegisteredAndRead
  OBVIOUS
<1>1. WaitersRegistered
  <2> DEFINE queued == recv_queue \o (IF cur_alloc = NULL THEN <<>> ELSE <<cur_alloc>>)
  <2>1. IsInjective(queued) /\ ToSet(queued) = {t \in Task : waits[t] = "recv"}
    <3>1. recv_queue \in Seq(Task) /\ IsInjective(recv_queue)
      BY DEF UdpIndInv, UdpTypeOK, QueueInv
    <3>2. CASE cur_alloc = NULL
      <4>1. queued = recv_queue
        BY <3>1, <3>2, ConcatEmptySeq
      <4> QED
        BY <3>1, <3>2, <4>1, NullAssumption, ValuesDistinct DEF UdpIndInv, QueueInv
    <3>3. CASE cur_alloc # NULL
      <4>1. cur_alloc \in Task /\ cur_alloc \notin ToSet(recv_queue) /\ waits[cur_alloc] = "recv"
        BY <3>3 DEF UdpIndInv, UdpTypeOK, QueueInv
      <4>2. queued = recv_queue \o <<cur_alloc>>
        BY <3>3
      <4> HIDE DEF queued
      <4>3. IsInjective(queued) /\ ToSet(queued) = ToSet(recv_queue) \cup {cur_alloc}
        BY <3>1, <4>1, <4>2, WithTaken
      <4> QED
        BY <4>1, <4>3 DEF UdpIndInv, QueueInv
    <3> QED
      BY <3>2, <3>3
  <2>2. seq_mapping = {<<waits[t], t>> : t \in {q \in Task : waits[q] \in SeqNum}}
    <3> DEFINE W == {<<waits[t], t>> : t \in {q \in Task : waits[q] \in SeqNum}}
    <3>1. ASSUME NEW e \in seq_mapping PROVE e \in W
      <4>1. PICK s \in SeqNum, t \in Task : e = <<s, t>>
        BY DEF UdpIndInv, UdpTypeOK
      <4>2. waits[t] = s
        BY <4>1 DEF UdpIndInv, MappingInv
      <4> QED
        BY <4>1, <4>2
    <3>2. ASSUME NEW e \in W PROVE e \in seq_mapping
      <4>1. PICK t \in Task : waits[t] \in SeqNum /\ e = <<waits[t], t>>
        OBVIOUS
      <4> QED
        BY <4>1 DEF UdpIndInv, MappingInv
    <3> QED
      BY <3>1, <3>2
  <2> QED
    BY <2>1, <2>2 DEF WaitersRegistered
<1>2. SocketIsRead
  BY DEF UdpIndInv, ReadInv, ModesAgree, SocketIsRead, AllocChecks
<1> QED
  BY <1>1, <1>2 DEF UdpIndInv, RegisteredAndRead

\* However tasks come, go and are canceled, also inside the __task_stand of
\* udp_recv_cb0: whoever waits is registered once where the callbacks look, nobody
\* else is, and the socket is read by callbacks that can complete it.
THEOREM RegisteredSafe == UdpSpec => []RegisteredAndRead
BY InvHolds, InvMeans, PTL

\* A callback that is on its way when the object is destroyed leaves it alone.
THEOREM DeletedSafe == UdpSpec => DeletedUntouched
<1>1. UdpIndInv /\ [UdpNext]_udpVars =>
          [~alive => UNCHANGED <<modeVars, recv_queue, cur_alloc, seq_mapping, countVars>>]_udpVars
  <2> SUFFICES ASSUME UdpIndInv, UdpNext, ~alive
               PROVE  UNCHANGED <<modeVars, recv_queue, cur_alloc, seq_mapping, countVars>>
    OBVIOUS
  <2>1. cb = 3 /\ phase # "alloc" /\ \A t \in Task : waits[t] = "no"
    BY DEF UdpIndInv, ModesAgree, Stopped, Waiting
  <2>2. ~Use /\ ~EarlyBind /\ ~DistinctRecvBySeq /\ ~External
    BY <2>1 DEF Use, IgnoreRecv, DestroyUdp, Recv, CancelRecv, CancelRecvBySeq, Send, EarlyBind, Bind,
                DistinctRecvBySeq, RecvBySeq, UserCode, External, Arrive, SendCb
  <2>3. RecvCb0End
    BY <2>1, <2>2 DEF UdpNext, Callback, AllocCb0, RecvCb0Nothing, RecvCb0, RecvCb1, RecvCb2
  <2> QED
    BY <2>3 DEF RecvCb0End, StopIfValid, KeepCb, modeVars
<1> QED
  BY <1>1, InvHolds, PTL DEF UdpSpec, DeletedUntouched

-----------------------------------------------------------------------------
\* Steps that do not take a datagram from the socket.
LEMMA OnlyCallbacksRead ==
    ASSUME UdpIndInv, UdpNext, Len(kernel') < Len(kernel)
    PROVE  RecvCb0 \/ RecvCb1 \/ RecvCb2
<1>1. kernel \in Seq(SeqNum \cup {Bad}) /\ Len(kernel) \in Nat
  BY LenProperties DEF UdpIndInv, UdpTypeOK
<1>2. ASSUME NEW d \in SeqNum \cup {Bad}, Arrive(d) PROVE FALSE
  <2>1. Len(kernel') = Len(kernel) + 1
    BY <1>1, <1>2, AppendProperties DEF Arrive
  <2> QED
    BY <1>1, <2>1
<1>3. ASSUME UNCHANGED kernel PROVE FALSE
  BY <1>1, <1>3
<1>4. CASE External
  BY <1>2, <1>3, <1>4 DEF External, SendCb
<1>5. CASE Use \/ EarlyBind \/ DistinctRecvBySeq
  BY <1>3, <1>5 DEF Use, IgnoreRecv, DestroyUdp, Recv, CancelRecv, CancelRecvBySeq, Send, EarlyBind, Bind,
                    DistinctRecvBySeq, RecvBySeq
<1>6. CASE Callback
  BY <1>3, <1>6 DEF Callback, AllocCb0, RecvCb0Nothing, RecvCb0End
<1> QED
  BY <1>4, <1>5, <1>6 DEF UdpNext

\* Each datagram taken from the socket resumes one task or is counted once, and
\* a task in recv_by_seq comes before those in recv, these before the counters.
THEOREM OneFateSafe == UdpSpec => OneFate
<1> DEFINE resumed == {t \in Task : Waiting(t) /\ waits'[t] = "no"}
           missed == (c_unrecv' - c_unrecv) + (c_failed' - c_failed)
           wanted == cb = 1 /\ \E t \in Task : waits[t] = Head(kernel)
           Fate == /\ Cardinality(resumed) + missed + (c_ignored' - c_ignored) = 1
                   /\ wanted => \E t \in resumed : waits[t] = Head(kernel)
                   /\ (\E t \in Task : waits[t] = "recv") => missed = 0
<1>1. ASSUME UdpIndInv, UdpNext, Len(kernel') < Len(kernel)
      PROVE  Fate
  <2>1. c_unrecv \in Nat /\ c_failed \in Nat /\ c_ignored \in Nat
    BY <1>1 DEF UdpIndInv, UdpTypeOK
  <2>2. ASSUME NEW t \in Task, Waiting(t), waits' = [waits EXCEPT ![t] = "no"],
               UNCHANGED <<c_unrecv, c_failed, c_ignored>>,
               wanted => waits[t] = Head(kernel)
        PROVE  Fate
    <3>1. resumed = {t}
      BY <1>1, <2>2 DEF UdpIndInv, UdpTypeOK, Waiting
    <3>2. Cardinality(resumed) = 1
      BY <3>1, FS_Singleton
    <3>3. missed = 0 /\ c_ignored' - c_ignored = 0
      BY <2>1, <2>2
    <3>4. wanted => \E u \in resumed : waits[u] = Head(kernel)
      BY <2>2, <3>1
    <3> HIDE DEF resumed, missed, wanted
    <3> QED
      BY <3>2, <3>3, <3>4
  <2>3. ASSUME UNCHANGED waits, ~wanted
        PROVE  /\ Cardinality(resumed) = 0
               /\ ~wanted
    <3>1. resumed = {}
      BY <2>3 DEF Waiting
    <3> QED
      BY <2>3, <3>1, FS_EmptySet
  <2>4. CASE RecvCb0
    <3>1. cur_alloc \in Task /\ waits[cur_alloc] = "recv" /\ cb = 0
      BY <1>1, <2>4 DEF RecvCb0, UdpIndInv, UdpTypeOK, QueueInv, ModesAgree
    <3>2. /\ waits' = [waits EXCEPT ![cur_alloc] = "no"]
          /\ UNCHANGED <<c_unrecv, c_failed, c_ignored>>
      BY <2>4 DEF RecvCb0, countVars
    <3>3. Waiting(cur_alloc) /\ ~wanted
      BY <3>1 DEF Waiting
    <3> HIDE DEF Fate, wanted
    <3> QED
      BY <2>2, <3>1, <3>2, <3>3
  <2>5. CASE RecvCb1
    <3> DEFINE d == Head(kernel)
    <3>1. d \in SeqNum \cup {Bad} /\ phase = "loop" /\ cb = 1
      BY <1>1, <2>5, HeadTailProperties DEF RecvCb1, UdpIndInv, UdpTypeOK
    <3>2. ASSUME NEW t \in Task, waits[t] = d PROVE d \in SeqNum /\ <<d, t>> \in Unwrap(d)
      <4>1. d \in SeqNum
        BY <1>1, <3>1, <3>2, NullAssumption, ValuesDistinct DEF UdpIndInv, UdpTypeOK
      <4>2. d # Bad /\ <<d, t>> \in seq_mapping
        BY <1>1, <3>2, <4>1, NullAssumption, ValuesDistinct DEF UdpIndInv, MappingInv
      <4> QED
        BY <4>1, <4>2 DEF Unwrap
    <3>3. ASSUME NEW e \in Unwrap(d), ToSeqWaiter(e) PROVE Fate
      <4>1. PICK s \in SeqNum, t \in Task : e = <<s, t>> /\ e \in seq_mapping /\ s = d
        BY <1>1, <3>3 DEF Unwrap, UdpIndInv, UdpTypeOK
      <4>2. waits[t] = s
        BY <1>1, <4>1 DEF UdpIndInv, MappingInv
      <4> QED
        BY <2>2, <3>3, <4>1, <4>2, NullAssumption, ValuesDistinct DEF ToSeqWaiter, countVars, Waiting
    <3>4. ASSUME Unwrap(d) = {}, recv_queue # <<>>, ToQueue PROVE Fate
      <4>1. recv_queue \in Seq(Task) /\ IsInjective(recv_queue)
        BY <1>1 DEF UdpIndInv, UdpTypeOK, QueueInv
      <4>2. Head(recv_queue) \in Task /\ Head(recv_queue) \in ToSet(recv_queue)
        BY <3>4, <4>1, Dequeue
      <4>3. waits[Head(recv_queue)] = "recv"
        BY <1>1, <4>2 DEF UdpIndInv, QueueInv
      <4> QED
        BY <2>2, <3>2, <3>4, <4>2, <4>3 DEF ToQueue, countVars, Waiting
    <3>5. ASSUME Unwrap(d) = {}, recv_queue = <<>>, CountMissed(d) PROVE Fate
      <4>1. Cardinality(resumed) = 0 /\ ~wanted
        BY <2>3, <3>2, <3>5 DEF CountMissed
      <4>2. missed = 1 /\ c_ignored' - c_ignored = 0
        BY <2>1, <3>5 DEF CountMissed
      <4>3. \A t \in Task : waits[t] # "recv"
        <5>1. ToSet(recv_queue) = {} /\ cur_alloc = NULL
          BY <1>1, <3>1, <3>5, EmptyQueue DEF UdpIndInv, ModesAgree
        <5> QED
          BY <1>1, <5>1, NullAssumption, ValuesDistinct DEF UdpIndInv, QueueInv
      <4> HIDE DEF resumed, missed, wanted
      <4> QED
        BY <4>1, <4>2, <4>3
    <3> QED
      BY <2>5, <3>3, <3>4, <3>5 DEF RecvCb1
  <2>6. CASE RecvCb2
    <3>1. cb = 2 /\ UNCHANGED <<waits, c_unrecv, c_failed>> /\ c_ignored' = c_ignored + 1
      BY <2>6 DEF RecvCb2
    <3>2. Cardinality(resumed) = 0 /\ ~wanted
      BY <2>3, <3>1
    <3>3. missed = 0 /\ c_ignored' - c_ignored = 1
      BY <2>1, <3>1
    <3> HIDE DEF resumed, missed, wanted
    <3> QED
      BY <3>2, <3>3
  <2> QED
    BY <1>1, <2>4, <2>5, <2>6, OnlyCallbacksRead
<1>2. UdpIndInv /\ [UdpNext]_udpVars => [Len(kernel') < Len(kernel) => Fate]_udpVars
  BY <1>1
<1> QED
  BY <1>2, InvHolds, PTL DEF UdpSpec, OneFate

-----------------------------------------------------------------------------
(***************************************************************************)
(* Proofs about Http, for any urls, responses, buffer sizes and any        *)
(* greatest port.                                                          *)
(*                                                                         *)
(* HeaderInv says what is known of the fields parsed so far, BodyInv what  *)
(* is in the buffer: the bytes received are the first of the body, and     *)
(* they are as many as the chunks copied so far announced.  Without that   *)
(* sum, "the whole body" at the end is out of reach.  The sums, and the    *)
(* loop of url_parse, are recursive functions: that they exist, and what   *)
(* holds after each of their steps, is shown by taking a least             *)
(* counterexample.                                                         *)
(***************************************************************************)

\* Before the body, and while one is read.
Asking == {"url", "dns", "connect", "send", "send_body", "head"}
Chunking == {"chunk_size", "chunk_data", "chunk_end"}
Reading == {"body", "finish"} \cup Chunking

HttpTypes ==
    /\ url.authority \in Seq(STRING) /\ rsp \in Response /\ size \in Nat /\ size <= SizeMax
    /\ ret \in Values /\ pc \in Places
    /\ len \in 0..size /\ recved \in 0..size /\ cur \in 1..(size + 1)
    /\ next_field \in 0..Len(rsp.fields) /\ next_chunk \in 0..Len(rsp.chunks)
    /\ buf \in [1..size -> Nat]

\* The header so far: each field was legal, and those that matter are there once.
HeaderInv ==
    /\ pc \in Asking => next_field = 0
    /\ pc \in {"fields"} \cup Reading => StatusLineLegal
    /\ \A i \in 1..next_field : rsp.fields[i].key # "illegal" /\ GoodValue(rsp.fields[i])
    /\ \A i, j \in 1..next_field :
        rsp.fields[i].key = rsp.fields[j].key /\ Needed(rsp.fields[i]) => i = j
    /\ header_fields = {rsp.fields[i] : i \in {j \in 1..next_field : Needed(rsp.fields[j])}}
    /\ pc \in Reading =>
        next_field = Len(rsp.fields) /\ rsp.whole /\ (size = 0 \/ header_fields # {})
    /\ HeaderJudged

\* The chunks whose data is in the buffer.
Copied == IF pc = "chunk_data" THEN next_chunk - 1 ELSE next_chunk
BodyInv ==
    /\ pc \in Asking \cup {"fields", "trimming"} =>
        next_chunk = 0 /\ cur = 1 /\ recved = 0 /\ len = size
    /\ pc \in Reading \cup Asking \cup {"fields"} => ret = "unfinished"
    /\ pc = "body" =>
        /\ ~Has("transfer-encoding") /\ Has("content-length")
        /\ len = IF BodyLen < size THEN BodyLen ELSE size
    /\ pc \in Chunking =>
        /\ Has("transfer-encoding") /\ len = size /\ cur = recved + 1
        /\ \A i \in 1..recved : buf[i] = i
        /\ \A i \in 1..next_chunk : rsp.chunks[i].length > 0
        /\ recved = Sums(rsp.chunks)[Copied]
        /\ pc # "chunk_size" => next_chunk >= 1
    /\ pc = "finish" => \/ size = 0 /\ len = 0
                        \/ len = Announced /\ \A i \in 1..len : buf[i] = i
    /\ ResultTruthful

HttpIndInv == HttpTypes /\ HeaderInv /\ BodyInv

-----------------------------------------------------------------------------
\* The sums of the lengths of the first chunks are what they should be.
IsSums(f, chunks, n) ==
    f = [i \in 0..n |-> IF i = 0 THEN 0 ELSE f[i - 1] + chunks[i].length]

LEMMA SumsExist ==
    ASSUME NEW chunks
    PROVE  \A n \in Nat : \E f : IsSums(f, chunks, n)
<1> DEFINE Wrong == {n \in Nat : ~\E f : IsSums(f, chunks, n)}
<1> SUFFICES ASSUME Wrong # {} PROVE FALSE
  OBVIOUS
<1>1. PICK n \in Wrong : \A m \in Wrong : n <= m
  BY Least
<1>2. n # 0
  <2>1. IsSums([i \in 0..0 |-> 0], chunks, 0)
    BY DEF IsSums
  <2> QED
    BY <1>1, <2>1
<1>3. n - 1 \in Nat /\ n - 1 \notin Wrong
  BY <1>1, <1>2
<1>4. PICK f : IsSums(f, chunks, n - 1)
  BY <1>3
<1> DEFINE g == [i \in 0..n |-> IF i = n THEN f[n - 1] + chunks[n].length ELSE f[i]]
<1>5. ASSUME NEW i \in 0..n PROVE g[i] = IF i = 0 THEN 0 ELSE g[i - 1] + chunks[i].length
  <2>1. \A k \in 0..(n - 1) : f[k] = IF k = 0 THEN 0 ELSE f[k - 1] + chunks[k].length
    BY <1>4 DEF IsSums
  <2>2. CASE i = 0
    BY <1>2, <1>3, <2>1, <2>2
  <2>3. CASE i # 0 /\ i # n
    <3>1. i \in 0..(n - 1) /\ i - 1 \in 0..n /\ i - 1 # n
      BY <1>1, <2>3
    <3>2. g[i] = f[i] /\ g[i - 1] = f[i - 1]
      BY <2>3, <3>1
    <3> QED
      BY <2>1, <2>3, <3>1, <3>2
  <2>4. CASE i = n
    <3>1. n - 1 \in 0..n /\ n - 1 # n
      BY <1>1, <1>2
    <3>2. g[n - 1] = f[n - 1] /\ g[n] = f[n - 1] + chunks[n].length
      BY <1>1, <3>1
    <3> QED
      BY <1>2, <2>4, <3>2
  <2> QED
    BY <2>2, <2>3, <2>4
<1>6. IsSums(g, chunks, n)
  <2>1. g = [i \in 0..n |-> g[i]]
    OBVIOUS
  <2> HIDE DEF g
  <2> QED
    BY <1>5, <2>1 DEF IsSums
<1> QED
  BY <1>1, <1>6

Chunks == Seq([length : (0..SizeMax) \cup {-1}, crlf : BOOLEAN])

LEMMA SumsAre ==
    ASSUME NEW chunks \in Chunks
    PROVE  /\ Len(chunks) \in Nat /\ Sums(chunks)[0] = 0
           /\ \A i \in 1..Len(chunks) :
                /\ chunks[i].length \in Nat \cup {-1} /\ chunks[i].length <= SizeMax
                /\ Sums(chunks)[i] = Sums(chunks)[i - 1] + chunks[i].length
<1> DEFINE n == Len(chunks)
           f == CHOOSE g : IsSums(g, chunks, n)
<1>1. n \in Nat /\ \A i \in 1..n : chunks[i] \in [length : (0..SizeMax) \cup {-1}, crlf : BOOLEAN]
  BY LenProperties, ElementOfSeq DEF Chunks
<1>2. IsSums(f, chunks, n)
  BY <1>1, SumsExist
<1>3. Sums(chunks) = f
  BY DEF Sums, IsSums
<1> HIDE DEF f
<1>4. \A i \in 0..n : f[i] = IF i = 0 THEN 0 ELSE f[i - 1] + chunks[i].length
  BY <1>2 DEF IsSums
<1>5. f[0] = 0
  BY <1>1, <1>4
<1>6. ASSUME NEW i \in 1..n
      PROVE  /\ chunks[i].length \in Nat \cup {-1} /\ chunks[i].length <= SizeMax
             /\ f[i] = f[i - 1] + chunks[i].length
  BY <1>1, <1>4, SizeAssumption
<1> QED
  BY <1>1, <1>3, <1>5, <1>6

LEMMA SumsTypes ==
    ASSUME NEW chunks \in Chunks
    PROVE  \A i \in 0..Len(chunks) : Sums(chunks)[i] \in Int
<1> DEFINE Wrong == {i \in 0..Len(chunks) : Sums(chunks)[i] \notin Int}
<1> SUFFICES ASSUME Wrong # {} PROVE FALSE
  OBVIOUS
<1>0. Len(chunks) \in Nat
  BY SumsAre
<1>1. PICK i \in Wrong : \A k \in Wrong : i <= k
  <2>1. Wrong \in SUBSET Nat
    BY <1>0
  <2> QED
    BY <2>1, Least
<1>2. i # 0
  BY <1>1, SumsAre
<1>3. i \in 1..Len(chunks) /\ i - 1 \in 0..Len(chunks) /\ i - 1 \notin Wrong
  BY <1>0, <1>1, <1>2
<1>4. Sums(chunks)[i - 1] \in Int
  BY <1>3
<1>5. chunks[i].length \in Int /\ Sums(chunks)[i] = Sums(chunks)[i - 1] + chunks[i].length
  BY <1>3, SumsAre
<1>6. Sums(chunks)[i] \in Int
  BY <1>4, <1>5
<1> QED
  BY <1>1, <1>6

\* Up to the first chunk that is empty or illegal the sums grow.
LEMMA SumsGrow ==
    ASSUME NEW chunks \in Chunks, NEW m \in 0..Len(chunks), NEW n \in m..Len(chunks),
           \A i \in (m + 1)..n : chunks[i].length > 0
    PROVE  Sums(chunks)[m] <= Sums(chunks)[n]
<1> DEFINE Wrong == {i \in m..n : ~(Sums(chunks)[m] <= Sums(chunks)[i])}
<1> SUFFICES ASSUME Wrong # {} PROVE FALSE
  BY SumsAre
<1>0. Len(chunks) \in Nat /\ m \in Nat /\ n \in Nat /\ m <= n
  BY SumsAre
<1>1. PICK i \in Wrong : \A k \in Wrong : i <= k
  <2>1. Wrong \in SUBSET Nat
    BY <1>0
  <2> QED
    BY <2>1, Least
<1>2. i # m
  BY <1>0, <1>1, SumsTypes
<1>3. i \in (m + 1)..n /\ i \in 1..Len(chunks) /\ i - 1 \in m..n /\ i - 1 \notin Wrong
  BY <1>0, <1>1, <1>2
<1>4. Sums(chunks)[i] = Sums(chunks)[i - 1] + chunks[i].length /\ chunks[i].length > 0
  BY <1>3, SumsAre
<1>5. Sums(chunks)[i] \in Int /\ Sums(chunks)[i - 1] \in Int /\ Sums(chunks)[m] \in Int
  BY <1>0, <1>3, SumsTypes
<1>6. chunks[i].length \in Int
  BY <1>3, SumsAre
<1> QED
  BY <1>1, <1>3, <1>4, <1>5, <1>6

\* What is announced is at least what has been read of chunks that are not empty,
\* and exactly that when the next one is.
LEMMA AnnouncedIs ==
    ASSUME rsp.chunks \in Chunks, Has("transfer-encoding"), NEW n \in 0..Len(rsp.chunks),
           \A i \in 1..n : rsp.chunks[i].length > 0
    PROVE  /\ Announced \in Int /\ Announced >= Sums(rsp.chunks)[n]
           /\ n < Len(rsp.chunks) /\ rsp.chunks[n + 1].length <= 0 => Announced = Sums(rsp.chunks)[n]
<1> DEFINE chunks == rsp.chunks
           Ends == {i \in 1..Len(chunks) : chunks[i].length <= 0}
           k == IF Ends = {} THEN Len(chunks) ELSE Min(Ends) - 1
<1>0. Len(chunks) \in Nat /\ Ends \subseteq Nat
  BY SumsAre
<1>1. Announced = Sums(chunks)[k]
  <2>1. Ends # {} => Min(Ends) \in Ends
    BY <1>0, MinIsLeast
  <2>2. Ends # {} => Min(Ends) # 0
    BY <1>0, <2>1
  <2>3. SelectInSeq(chunks, LAMBDA c : c.length <= 0) = IF Ends # {} THEN Min(Ends) ELSE 0
    BY DEF SelectInSeq
  <2> QED
    BY <2>2, <2>3 DEF Announced, ChunkedLength
<1>2. /\ k \in n..Len(chunks) /\ \A i \in 1..k : ~(chunks[i].length <= 0)
      /\ n < Len(chunks) /\ chunks[n + 1].length <= 0 => k = n
  <2>1. CASE Ends = {}
    BY <1>0, <2>1
  <2>2. CASE Ends # {}
    <3>1. Min(Ends) \in Ends /\ \A i \in Ends : Min(Ends) <= i
      BY <1>0, <2>2, MinIsLeast
    <3>2. \A i \in 1..n : i \notin Ends
      BY <1>0, SumsAre
    <3> HIDE DEF Ends
    <3>3. PICK l \in 1..Len(chunks) : l = Min(Ends) /\ l \in Ends /\ k = l - 1
      BY <2>2, <3>1 DEF Ends
    <3>4. l > n
      BY <1>0, <3>2, <3>3
    <3>5. \A i \in 1..(l - 1) : i \notin Ends
      BY <1>0, <3>1, <3>3
    <3>6. n < Len(chunks) /\ chunks[n + 1].length <= 0 => n + 1 \in Ends
      BY <1>0 DEF Ends
    <3>7. \A i \in 1..(l - 1) : ~(chunks[i].length <= 0)
      BY <1>0, <3>3, <3>5 DEF Ends
    <3> QED
      BY <1>0, <3>1, <3>3, <3>4, <3>6, <3>7
  <2> QED
    BY <2>1, <2>2
<1> HIDE DEF k, Ends
<1>3. ASSUME NEW i \in (n + 1)..k PROVE chunks[i].length > 0
  <2>1. i \in 1..k /\ i \in 1..Len(chunks)
    BY <1>0, <1>2
  <2>2. chunks[i].length \in Nat \cup {-1}
    BY <2>1, SumsAre
  <2> QED
    BY <1>2, <2>1, <2>2
<1>4. Sums(chunks)[n] <= Sums(chunks)[k]
  BY <1>0, <1>2, <1>3, SumsGrow
<1>5. Sums(chunks)[n] \in Int /\ Sums(chunks)[k] \in Int
  BY <1>0, <1>2, SumsTypes
<1> QED
  BY <1>1, <1>2, <1>4, <1>5

-----------------------------------------------------------------------------
LEMMA HttpInitOK == HttpInit => HttpIndInv
<1> SUFFICES ASSUME HttpInit PROVE HttpIndInv
  OBVIOUS
<1>1. HttpTypes
  <2>1. url.authority \in Seq(STRING) /\ rsp \in Response /\ size \in Nat /\ size <= SizeMax
    BY InputsAssumption, SizeAssumption DEF HttpInit
  <2>2. Len(rsp.fields) \in Nat /\ Len(rsp.chunks) \in Nat
    BY <2>1, LenProperties DEF Response
  <2>3. buf \in [1..size -> Nat]
    BY DEF HttpInit
  <2>4. ret \in Values /\ pc \in Places
    BY DEF HttpInit, Values, Places
  <2> QED
    BY <2>1, <2>2, <2>3, <2>4 DEF HttpInit, HttpTypes
<1>2. HeaderInv
  BY DEF HttpInit, HeaderInv, HeaderJudged, Asking, Reading, Chunking
<1>3. BodyInv
  BY DEF HttpInit, BodyInv, ResultTruthful, Asking, Reading, Chunking
<1> QED
  BY <1>1, <1>2, <1>3 DEF HttpIndInv

\* What the fields say does not change while they do not.
LEMMA SameHeader ==
    ASSUME UNCHANGED <<rsp, header_fields>>
    PROVE  /\ \A k : Has(k)' <=> Has(k)
           /\ BodyLen' = BodyLen /\ Announced' = Announced
           /\ GoodHeader' <=> GoodHeader
           /\ LengthGiven' <=> LengthGiven
<1>1. \A k : Has(k)' <=> Has(k)
  BY DEF Has
<1>2. BodyLen' = BodyLen
  BY DEF BodyLen
<1>3. Announced' = Announced
  BY <1>1, <1>2 DEF Announced
<1>4. GoodHeader' <=> GoodHeader
  BY DEF GoodHeader, StatusLineLegal
<1>5. LengthGiven' <=> LengthGiven
  BY DEF LengthGiven
<1> QED
  BY <1>1, <1>2, <1>3, <1>4, <1>5

\* A header that was read to its end is good.
LEMMA WholeHeader ==
    ASSUME HttpIndInv, next_field = Len(rsp.fields), StatusLineLegal, rsp.whole
    PROVE  GoodHeader /\ (LengthGiven <=> header_fields # {})
<1>1. Len(rsp.fields) \in Nat /\ DOMAIN rsp.fields = 1..Len(rsp.fields)
  BY LenProperties DEF HttpIndInv, HttpTypes, Response
<1>2. Range(rsp.fields) = {rsp.fields[i] : i \in 1..Len(rsp.fields)}
  BY <1>1 DEF Range
<1>3. GoodHeader
  BY <1>1, <1>2 DEF GoodHeader, HttpIndInv, HeaderInv
<1>4. LengthGiven <=> header_fields # {}
  BY <1>2 DEF LengthGiven, HttpIndInv, HeaderInv
<1> QED
  BY <1>3, <1>4

LEMMA FailOK ==
    ASSUME HttpIndInv, NEW err, Fail(err),
           err \in {"err_url_parse", "err_dns_resolve", "err_tcp_connect", "err_send_request",
                   "err_recv_response", "err_response_header_parse", "err_response_body_parse"},
           err = "err_response_header_parse" => ~(GoodHeader /\ (size = 0 \/ LengthGiven))
    PROVE  HttpIndInv'
<1>1. HttpTypes'
  <2>1. ret' \in Values /\ pc' \in Places
    BY DEF Fail, Values, Places, Over
  <2> QED
    BY <2>1 DEF Fail, HttpIndInv, HttpTypes, inputs, body
<1>2. HeaderInv'
  BY SameHeader DEF Fail, HttpIndInv, HeaderInv, HeaderJudged, inputs, body, Asking, Reading, Chunking
<1>3. BodyInv'
  BY DEF Fail, BodyInv, ResultTruthful, inputs, body, Asking, Reading, Chunking
<1> QED
  BY <1>1, <1>2, <1>3 DEF HttpIndInv

LEMMA NoneUpTo0 == 1..0 = {} /\ 1 = 0 + 1
OBVIOUS

\* Steps that only go on.
LEMMA GotoOK ==
    ASSUME HttpIndInv, NEW l, Goto(l),
           \/ pc \in Asking /\ l \in Asking
           \/ pc = "head" /\ l = "fields" /\ StatusLineLegal
           \/ pc = "fields" /\ l = "trimming"
           \/ /\ pc = "fields" /\ l \in {"finish", "chunk_size"}
              /\ next_field = Len(rsp.fields) /\ rsp.whole /\ (size = 0 <=> l = "finish")
              /\ l = "chunk_size" => Has("transfer-encoding")
           \/ pc = "chunk_end" /\ l = "chunk_size"
           \/ pc = "chunk_data" /\ l = "aborted" /\ recved = size /\ Announced > size
           \/ pc = "chunk_data" /\ l = "overrun" /\ Announced > SizeMax
    PROVE  HttpIndInv'
<1>1. HttpTypes'
  <2>1. pc' \in Places
    BY DEF Goto, Places, Over, Asking
  <2> QED
    BY <2>1 DEF Goto, HttpIndInv, HttpTypes, inputs, body
<1>2. HeaderInv'
  <2>1. l = "chunk_size" => header_fields # {}
    BY DEF HttpIndInv, BodyInv, Asking, Chunking, Has
  <2>2. l \in Reading => GoodHeader /\ (size = 0 \/ LengthGiven)
    BY <2>1, WholeHeader DEF HttpIndInv, HeaderInv, Asking, Reading, Chunking
  <2>3. ret # "err_response_header_parse"
    BY DEF HttpIndInv, BodyInv, Asking, Reading, Chunking
  <2>4. HeaderJudged'
    BY <2>2, <2>3, SameHeader DEF Goto, HeaderJudged, inputs, body, Reading, Chunking
  <2> QED
    BY <2>1, <2>4 DEF Goto, HttpIndInv, HeaderInv, StatusLineLegal, inputs, body, Asking, Reading, Chunking
<1>3. BodyInv'
  <2>1. ret = "unfinished" /\ UNCHANGED <<rsp, size, ret, len, buf, next_chunk, cur, recved>> /\ pc' = l
    BY DEF Goto, inputs, body, HttpIndInv, BodyInv, Asking, Reading, Chunking
  <2>2. l = "chunk_size" => recved = Sums(rsp.chunks)[next_chunk] /\ Len(rsp.chunks) \in Nat
    <3>1. rsp.chunks \in Chunks
      BY DEF HttpIndInv, HttpTypes, Response, Chunks
    <3> QED
      BY <3>1, SumsAre DEF HttpIndInv, BodyInv, Copied, Asking, Chunking
  <2>3. ResultTruthful'
    BY <2>1, SameHeader DEF Goto, ResultTruthful, Asking
  <2>4. l = "finish" => size = 0 /\ len = 0
    BY DEF HttpIndInv, BodyInv, Asking
  <2>5. l = "chunk_size" =>
          /\ Has("transfer-encoding") /\ len = size /\ cur = recved + 1
          /\ \A i \in 1..recved : buf[i] = i
          /\ \A i \in 1..next_chunk : rsp.chunks[i].length > 0
    <3>1. CASE pc = "chunk_end"
      BY <3>1 DEF HttpIndInv, BodyInv, Chunking
    <3>2. CASE pc = "fields" /\ l = "chunk_size"
      <4>1. next_chunk = 0 /\ cur = 1 /\ recved = 0 /\ len = size /\ Has("transfer-encoding")
        BY <3>2 DEF HttpIndInv, BodyInv, Asking
      <4> QED
        BY <4>1, NoneUpTo0
    <3> QED
      BY <3>1, <3>2 DEF Asking
  <2>6. l \in Asking \cup {"fields", "trimming"} =>
          next_chunk = 0 /\ cur = 1 /\ recved = 0 /\ len = size
    BY DEF HttpIndInv, BodyInv, Asking
  <2>7. Has("transfer-encoding")' <=> Has("transfer-encoding")
    BY SameHeader DEF Goto, inputs
  <2> QED
    BY <2>1, <2>2, <2>3, <2>4, <2>5, <2>6, <2>7 DEF BodyInv, Copied, Asking, Reading, Chunking
<1> QED
  BY <1>1, <1>2, <1>3 DEF HttpIndInv

LEMMA UrlParseOK == HttpIndInv /\ UrlParse => HttpIndInv'
<1> SUFFICES ASSUME HttpIndInv, UrlParse PROVE HttpIndInv'
  OBVIOUS
<1>1. Fail("err_url_parse") \/ Goto("dns")
  BY DEF UrlParse
<1>2. pc \in Asking /\ "dns" \in Asking
  BY DEF UrlParse, Asking
<1> QED
  BY <1>1, <1>2, FailOK, GotoOK

\* The awaits before the header is there.
LEMMA AskingOK ==
    ASSUME HttpIndInv, NEW ok \in BOOLEAN,
           DnsResolve(ok) \/ Connect(ok) \/ SendHeader(ok) \/ SendBody(ok) \/ RecvHeader(ok)
    PROVE  HttpIndInv'
<1>1. CASE DnsResolve(ok)
  BY <1>1, FailOK, GotoOK DEF DnsResolve, Asking
<1>2. CASE Connect(ok)
  BY <1>2, FailOK, GotoOK DEF Connect, Asking
<1>3. CASE SendHeader(ok)
  <2>1. Goto("send_body") \/ Goto("head") \/ Fail("err_send_request")
    BY <1>3 DEF SendHeader
  <2> QED
    BY <1>3, <2>1, FailOK, GotoOK DEF SendHeader, Asking
<1>4. CASE SendBody(ok)
  BY <1>4, FailOK, GotoOK DEF SendBody, Asking
<1>5. CASE RecvHeader(ok)
  <2>1. ~StatusLineLegal => ~GoodHeader
    BY DEF GoodHeader
  <2> QED
    BY <1>5, <2>1, FailOK, GotoOK DEF RecvHeader
<1> QED
  BY <1>1, <1>2, <1>3, <1>4, <1>5

LEMMA ParseFieldOK == HttpIndInv /\ ParseField => HttpIndInv'
<1> SUFFICES ASSUME HttpIndInv, ParseField PROVE HttpIndInv'
  OBVIOUS
<1> DEFINE k == next_field + 1
           f == rsp.fields[k]
<1>0. /\ Len(rsp.fields) \in Nat /\ DOMAIN rsp.fields = 1..Len(rsp.fields)
      /\ next_field \in Nat /\ k \in 1..Len(rsp.fields)
  BY LenProperties DEF HttpIndInv, HttpTypes, Response, ParseField
<1>1. f \in Range(rsp.fields)
  BY <1>0 DEF Range
<1>2. CASE Goto("trimming")
  BY <1>2, GotoOK DEF ParseField
<1>3. CASE Fail("err_response_header_parse") /\ (f.key = "illegal" \/ ~GoodValue(f) \/ Duplicate(f))
  <2>1. Duplicate(f) => ~GoodHeader
    <3>1. SUFFICES ASSUME Duplicate(f) PROVE ~GoodHeader
      OBVIOUS
    <3>2. PICK i \in 1..next_field : rsp.fields[i].key = f.key /\ Needed(rsp.fields[i])
      BY <3>1 DEF Duplicate, HttpIndInv, HeaderInv
    <3>3. i \in DOMAIN rsp.fields /\ k \in DOMAIN rsp.fields /\ i # k
      BY <1>0
    <3> QED
      BY <3>2, <3>3 DEF GoodHeader
  <2>2. ~GoodHeader
    BY <1>1, <1>3, <2>1 DEF GoodHeader
  <2> QED
    BY <1>3, <2>2, FailOK
<1>4. CASE /\ f.key # "illegal" /\ GoodValue(f) /\ ~Duplicate(f)
           /\ next_field' = k
           /\ header_fields' = header_fields \cup (IF Needed(f) THEN {f} ELSE {})
           /\ UNCHANGED <<inputs, ret, len, pc, body>>
  <2>0. pc = "fields" /\ UNCHANGED <<rsp, size, ret, len, pc, buf, next_chunk, cur, recved>>
    BY <1>4 DEF ParseField, inputs, body
  <2>1. HttpTypes'
    BY <1>0, <1>4, <2>0 DEF HttpIndInv, HttpTypes, inputs
  <2>2. HeaderInv'
    <3>1. \A i \in 1..k : i \in 1..next_field \/ i = k
      BY <1>0
    <3>2. \A i \in 1..k : rsp.fields[i].key # "illegal" /\ GoodValue(rsp.fields[i])
      BY <1>4, <3>1 DEF HttpIndInv, HeaderInv
    <3>3. \A i \in 1..next_field : ~(rsp.fields[i].key = f.key /\ Needed(f))
      BY <1>4 DEF Duplicate, Needed, HttpIndInv, HeaderInv
    <3>4. \A i, j \in 1..k : rsp.fields[i].key = rsp.fields[j].key /\ Needed(rsp.fields[i]) => i = j
      BY <3>1, <3>3 DEF HttpIndInv, HeaderInv, Needed
    <3>5. header_fields' = {rsp.fields[i] : i \in {j \in 1..k : Needed(rsp.fields[j])}}
      <4>1. header_fields = {rsp.fields[i] : i \in {j \in 1..next_field : Needed(rsp.fields[j])}}
        BY DEF HttpIndInv, HeaderInv
      <4>2. {j \in 1..k : Needed(rsp.fields[j])} =
              {j \in 1..next_field : Needed(rsp.fields[j])} \cup (IF Needed(f) THEN {k} ELSE {})
        BY <1>0, <3>1
      <4> QED
        BY <1>4, <4>1, <4>2
    <3>6. StatusLineLegal' /\ HeaderJudged'
      BY <2>0 DEF HttpIndInv, HeaderInv, HeaderJudged, BodyInv, StatusLineLegal, Reading, Chunking
    <3> QED
      BY <1>4, <2>0, <3>2, <3>4, <3>5, <3>6 DEF HeaderInv, Asking, Reading, Chunking
  <2>3. BodyInv'
    BY <2>0 DEF HttpIndInv, BodyInv, ResultTruthful, Asking, Reading, Chunking
  <2> QED
    BY <2>1, <2>2, <2>3 DEF HttpIndInv
<1> QED
  BY <1>2, <1>3, <1>4 DEF ParseField, NextField

\* The content-length that was found.
LEMMA LengthKnown ==
    ASSUME HttpIndInv, Has("content-length")
    PROVE  BodyLen \in Nat
<1>1. PICK f \in header_fields : f.key = "content-length" /\ BodyLen = f.value
  BY DEF Has, BodyLen
<1>2. PICK i \in 1..next_field : f = rsp.fields[i]
  BY DEF HttpIndInv, HeaderInv
<1>3. i \in 1..Len(rsp.fields)
  BY LenProperties DEF HttpIndInv, HttpTypes, Response
<1>4. f.value \in Int
  <2>1. rsp.fields \in Seq([key : STRING, value : Int, space : BOOLEAN])
    BY DEF HttpIndInv, HttpTypes, Response
  <2>2. f \in [key : STRING, value : Int, space : BOOLEAN]
    BY <1>2, <1>3, <2>1, ElementOfSeq
  <2> QED
    BY <2>2
<1>5. f.value >= 0
  BY <1>1, <1>2 DEF HttpIndInv, HeaderInv, GoodValue, Needed
<1> QED
  BY <1>1, <1>4, <1>5

LEMMA HeaderParsedOK == HttpIndInv /\ HeaderParsed => HttpIndInv'
<1> SUFFICES ASSUME HttpIndInv, HeaderParsed PROVE HttpIndInv'
  OBVIOUS
<1>0. pc = "fields" /\ next_field = Len(rsp.fields) /\ StatusLineLegal /\ len = size
  BY DEF HeaderParsed, HttpIndInv, HeaderInv, BodyInv
<1>1. CASE ~rsp.whole
  BY <1>1, FailOK DEF HeaderParsed, GoodHeader
<1>2. CASE rsp.whole /\ (len = 0 \/ Has("transfer-encoding"))
  <2>1. CASE len = 0 /\ Goto("finish")
    BY <1>0, <1>2, <2>1, GotoOK
  <2>2. CASE len # 0 /\ Goto("chunk_size") /\ Has("transfer-encoding")
    BY <1>0, <1>2, <2>2, GotoOK
  <2> QED
    BY <1>2, <2>1, <2>2 DEF HeaderParsed
<1>3. CASE rsp.whole /\ len # 0 /\ ~Has("transfer-encoding") /\ ~Has("content-length")
  <2>1. header_fields = {}
    BY <1>3 DEF Has, Needed, HttpIndInv, HeaderInv
  <2>2. ~LengthGiven
    BY <1>0, <1>3, <2>1, WholeHeader
  <2> QED
    BY <1>0, <1>3, <2>2, FailOK DEF HeaderParsed
<1>4. CASE rsp.whole /\ len # 0 /\ ~Has("transfer-encoding") /\ Has("content-length")
  <2>0. /\ len' = IF BodyLen < len THEN BodyLen ELSE len
        /\ pc' = IF BodyLen = 0 THEN "finish" ELSE "body"
        /\ UNCHANGED <<rsp, size, ret, next_field, header_fields, next_chunk, cur, recved, buf, url>>
    BY <1>4 DEF HeaderParsed, inputs, body
  <2>1. BodyLen \in Nat
    BY <1>4, LengthKnown
  <2>2. HttpTypes'
    <3>1. pc' \in Places
      BY <2>0 DEF Places
    <3>2. len \in 0..size /\ size \in Nat
      BY DEF HttpIndInv, HttpTypes
    <3>3. len' \in 0..size
      BY <2>0, <2>1, <3>2
    <3> QED
      BY <2>0, <3>1, <3>3 DEF HttpIndInv, HttpTypes
  <2>3. HeaderInv'
    <3>1. header_fields # {} /\ GoodHeader /\ LengthGiven
      BY <1>0, <1>4, WholeHeader DEF Has
    <3>2. HeaderJudged'
      BY <1>0, <2>0, <3>1, SameHeader DEF HeaderJudged, HttpIndInv, BodyInv
    <3> QED
      BY <1>0, <1>4, <2>0, <3>1, <3>2 DEF HttpIndInv, HeaderInv, StatusLineLegal, Asking, Reading, Chunking
  <2>4. BodyInv'
    <3>1. ret = "unfinished"
      BY <1>0 DEF HttpIndInv, BodyInv
    <3>2. /\ (Has("transfer-encoding")' <=> Has("transfer-encoding")) /\ BodyLen' = BodyLen
          /\ (Has("content-length")' <=> Has("content-length")) /\ Announced' = Announced
      BY <2>0, SameHeader
    <3>3. Announced = BodyLen
      BY <1>4 DEF Announced
    <3>4. BodyLen = 0 => len' = 0
      BY <1>0, <2>0, <2>1 DEF HttpIndInv, HttpTypes
    <3>5. ResultTruthful'
      BY <2>0, <3>1 DEF ResultTruthful
    <3>6. 1..0 = {}
      OBVIOUS
    <3> QED
      BY <1>0, <1>4, <2>0, <3>1, <3>2, <3>3, <3>4, <3>5, <3>6 DEF BodyInv, Asking, Reading, Chunking
  <2> QED
    BY <2>2, <2>3, <2>4 DEF HttpIndInv
<1> QED
  BY <1>1, <1>2, <1>3, <1>4

\* What goes into the buffer.
LEMMA StoredIs ==
    ASSUME HttpIndInv, NEW n \in Nat, NEW count \in Nat, n + count <= size,
           \A i \in 1..n : buf[i] = i
    PROVE  /\ Stored(n + 1, n, count) \in [1..size -> Nat]
           /\ \A i \in 1..(n + count) : Stored(n + 1, n, count)[i] = i
<1>1. size \in Nat /\ buf \in [1..size -> Nat]
  BY DEF HttpIndInv, HttpTypes
<1>2. ASSUME NEW i \in 1..size
      PROVE  /\ Stored(n + 1, n, count)[i] \in Nat
             /\ i <= n + count => Stored(n + 1, n, count)[i] = i
  <2>1. CASE i \in (n + 1)..((n + 1) + count - 1)
    BY <1>1, <2>1 DEF Stored
  <2>2. CASE i \notin (n + 1)..((n + 1) + count - 1)
    <3>1. Stored(n + 1, n, count)[i] = buf[i] /\ (i <= n + count => i \in 1..n)
      BY <1>1, <2>2 DEF Stored
    <3> QED
      BY <1>1, <3>1
  <2> QED
    BY <2>1, <2>2
<1>3. Stored(n + 1, n, count) \in [1..size -> Nat]
  BY <1>2 DEF Stored
<1>4. \A i \in 1..(n + count) : i \in 1..size
  BY <1>1
<1> QED
  BY <1>2, <1>3, <1>4

LEMMA RecvBodyOK == ASSUME HttpIndInv, NEW ok \in BOOLEAN, RecvBody(ok) PROVE HttpIndInv'
<1>0. pc = "body" /\ ret = "unfinished" /\ len \in Nat /\ size \in Nat /\ len <= size
  BY DEF RecvBody, HttpIndInv, HttpTypes, BodyInv, Reading
<1>1. CASE ~ok
  BY <1>1, FailOK DEF RecvBody
<1>2. CASE ok
  <2>0. /\ buf' = Stored(1, 0, len)
        /\ IF len < BodyLen THEN ret' = "err_response_body_too_long" /\ pc' = "done"
                            ELSE pc' = "finish" /\ UNCHANGED ret
        /\ UNCHANGED <<rsp, size, len, next_field, header_fields, next_chunk, cur, recved, url>>
    BY <1>2 DEF RecvBody, inputs
  <2>1. /\ ~Has("transfer-encoding") /\ BodyLen \in Nat
        /\ len = IF BodyLen < size THEN BodyLen ELSE size
    BY <1>0, LengthKnown DEF HttpIndInv, BodyInv
  <2>2. buf' \in [1..size -> Nat] /\ \A i \in 1..len : buf'[i] = i
    <3>1. 1..0 = {} /\ 0 \in Nat /\ 0 + len = len /\ 0 + 1 = 1
      BY <1>0
    <3> QED
      BY <1>0, <2>0, <3>1, StoredIs
  <2>3. HttpTypes'
    <3>1. ret' \in Values /\ pc' \in Places
      BY <1>0, <2>0 DEF Values, Places, Over
    <3> QED
      BY <2>0, <2>2, <3>1 DEF HttpIndInv, HttpTypes
  <2>4. HeaderInv'
    <3>1. GoodHeader /\ (size = 0 \/ LengthGiven)
      BY <1>0 DEF HttpIndInv, HeaderInv, HeaderJudged
    <3>2. HeaderJudged'
      BY <1>0, <2>0, <3>1, SameHeader DEF HeaderJudged
    <3> QED
      BY <1>0, <2>0, <3>2 DEF HttpIndInv, HeaderInv, StatusLineLegal, Asking, Reading, Chunking
  <2>5. BodyInv'
    <3>1. Announced' = Announced /\ Announced = BodyLen
      BY <2>0, <2>1, SameHeader DEF Announced
    <3>2. ResultTruthful'
      BY <1>0, <2>0, <2>1, <2>2, <3>1 DEF ResultTruthful
    <3>3. pc' = "finish" => len = BodyLen
      BY <1>0, <2>0, <2>1
    <3> QED
      BY <1>0, <2>0, <2>2, <3>1, <3>2, <3>3 DEF BodyInv, Asking, Reading, Chunking
  <2> QED
    BY <2>3, <2>4, <2>5 DEF HttpIndInv
<1> QED
  BY <1>1, <1>2

LEMMA RecvChunkSizeOK ==
    ASSUME HttpIndInv, NEW ok \in BOOLEAN, RecvChunkSize(ok) PROVE HttpIndInv'
<1> DEFINE k == next_chunk + 1
           c == rsp.chunks[k]
<1>0. /\ pc = "chunk_size" /\ ret = "unfinished" /\ rsp.chunks \in Chunks
      /\ next_chunk \in Nat /\ Len(rsp.chunks) \in Nat /\ next_chunk <= Len(rsp.chunks)
  BY LenProperties DEF RecvChunkSize, HttpIndInv, HttpTypes, BodyInv, Reading, Chunking, Response, Chunks
<1>1. CASE ~ok \/ next_chunk = Len(rsp.chunks)
  BY <1>1, FailOK DEF RecvChunkSize
<1>2. CASE ok /\ next_chunk # Len(rsp.chunks) /\ c.length = -1
  BY <1>2, FailOK DEF RecvChunkSize
<1>3. CASE ok /\ next_chunk # Len(rsp.chunks) /\ c.length # -1
  <2>0. /\ next_chunk' = k
        /\ IF c.length = 0 THEN len' = recved /\ pc' = "finish"
                           ELSE pc' = "chunk_data" /\ UNCHANGED len
        /\ UNCHANGED <<rsp, size, ret, next_field, header_fields, cur, recved, buf, url>>
    BY <1>3 DEF RecvChunkSize, inputs
  <2>1. k \in 1..Len(rsp.chunks) /\ c.length \in Nat
    <3>1. k \in 1..Len(rsp.chunks)
      BY <1>0, <1>3
    <3> QED
      BY <1>0, <1>3, <3>1, SumsAre
  <2>2. /\ Has("transfer-encoding") /\ len = size /\ cur = recved + 1
        /\ \A i \in 1..recved : buf[i] = i
        /\ \A i \in 1..next_chunk : rsp.chunks[i].length > 0
        /\ recved = Sums(rsp.chunks)[next_chunk]
    BY <1>0 DEF HttpIndInv, BodyInv, Copied, Chunking
  <2>3. HttpTypes'
    <3>1. pc' \in Places
      BY <2>0 DEF Places
    <3>2. len' \in 0..size
      BY <2>0, <2>1 DEF HttpIndInv, HttpTypes
    <3>3. k \in 0..Len(rsp.chunks)
      BY <1>0, <2>1
    <3> QED
      BY <2>0, <3>1, <3>2, <3>3 DEF HttpIndInv, HttpTypes
  <2>4. HeaderInv'
    <3>1. GoodHeader /\ (size = 0 \/ LengthGiven)
      BY <1>0 DEF HttpIndInv, HeaderInv, HeaderJudged
    <3>2. HeaderJudged'
      BY <1>0, <2>0, <3>1, SameHeader DEF HeaderJudged
    <3> QED
      BY <1>0, <2>0, <3>2 DEF HttpIndInv, HeaderInv, StatusLineLegal, Asking, Reading, Chunking
  <2>5. BodyInv'
    <3>1. Announced' = Announced /\ (Has("transfer-encoding")' <=> Has("transfer-encoding"))
      BY <2>0, SameHeader
    <3>2. c.length = 0 => Announced = recved
      <4>1. next_chunk \in 0..Len(rsp.chunks) /\ next_chunk < Len(rsp.chunks)
        BY <1>0, <1>3
      <4>2. rsp.chunks[next_chunk + 1].length = c.length
        OBVIOUS
      <4>3. c.length = 0 => rsp.chunks[next_chunk + 1].length <= 0
        BY <4>2
      <4> QED
        BY <1>0, <2>2, <4>1, <4>3, AnnouncedIs
    <3>3. ResultTruthful'
      BY <1>0, <2>0 DEF ResultTruthful
    <3>4. c.length # 0 => c.length > 0 /\ \A i \in 1..k : i \in 1..next_chunk \/ i = k
      BY <1>0, <2>1
    <3>5. c.length # 0 => \A i \in 1..k : rsp.chunks[i].length > 0
      BY <2>2, <3>4
    <3>6. k - 1 = next_chunk /\ k >= 1
      BY <1>0
    <3>7. CASE c.length = 0
      BY <1>0, <2>0, <2>2, <3>1, <3>2, <3>3, <3>7 DEF BodyInv, Asking, Reading, Chunking
    <3>8. CASE c.length # 0
      BY <1>0, <2>0, <2>2, <3>1, <3>3, <3>5, <3>6, <3>8 DEF BodyInv, Copied, Asking, Reading, Chunking
    <3> QED
      BY <3>7, <3>8
  <2> QED
    BY <2>3, <2>4, <2>5 DEF HttpIndInv
<1> QED
  BY <1>1, <1>2, <1>3

\* A sum of two sizes, when it is one and when it is not.
LEMMA SizeSumIs ==
    ASSUME NEW a \in 0..SizeMax, NEW b \in 0..SizeMax
    PROVE  SizeSum(a, b) = IF a + b <= SizeMax THEN a + b ELSE (a + b) - (SizeMax + 1)
<1> DEFINE m == SizeMax + 1
<1>0. m \in Nat \ {0} /\ a + b \in 0..(2 * m - 1)
  BY SizeAssumption
<1> HIDE DEF m
<1>1. CASE a + b <= m - 1
  <2>1. (a + b) % m = a + b
    BY <1>0, <1>1
  <2> QED
    BY <1>1, <2>1, SizeAssumption DEF SizeSum, m
<1>2. CASE a + b > m - 1
  <2>1. (a + b) % m = (a + b) - m
    BY <1>0, <1>2
  <2> QED
    BY <1>2, <2>1, SizeAssumption DEF SizeSum, m
<1> QED
  BY <1>0, <1>1, <1>2

\* The chunk that is next, and the room for it.
LEMMA RoomIs ==
    ASSUME HttpIndInv, pc = "chunk_data"
    PROVE  LET n == RoomForChunk
               k == next_chunk
           IN  /\ ret = "unfinished" /\ rsp.chunks \in Chunks /\ size \in Nat
               /\ k \in Nat /\ Len(rsp.chunks) \in Nat /\ k \in 1..Len(rsp.chunks)
               /\ recved \in 0..size /\ SizeMax \in Nat
               /\ Has("transfer-encoding") /\ len = size /\ cur = recved + 1
               /\ \A i \in 1..recved : buf[i] = i
               /\ \A i \in 1..k : rsp.chunks[i].length > 0
               /\ recved = Sums(rsp.chunks)[k - 1]
               /\ Chunk.length \in Nat /\ Chunk.length > 0 /\ Sums(rsp.chunks)[k] = recved + Chunk.length
               /\ n \in Nat /\ n <= Chunk.length
               /\ recved + n <= size <=> recved + Chunk.length <= SizeMax
               /\ Announced \in Int /\ Announced >= recved + Chunk.length
               /\ n < Chunk.length => recved + n = size /\ Announced > size
<1> DEFINE n == RoomForChunk
           k == next_chunk
<1>0. /\ ret = "unfinished" /\ rsp.chunks \in Chunks /\ size \in Nat
      /\ k \in Nat /\ Len(rsp.chunks) \in Nat /\ k \in 1..Len(rsp.chunks)
      /\ recved \in 0..size /\ size <= SizeMax /\ SizeMax \in Nat
  BY LenProperties, SizeAssumption DEF HttpIndInv, HttpTypes, BodyInv, Reading, Chunking, Response, Chunks
<1>1. /\ Has("transfer-encoding") /\ len = size /\ cur = recved + 1
      /\ \A i \in 1..recved : buf[i] = i
      /\ \A i \in 1..k : rsp.chunks[i].length > 0
      /\ recved = Sums(rsp.chunks)[k - 1]
  BY <1>0 DEF HttpIndInv, BodyInv, Copied, Chunking
<1>2. /\ Chunk.length \in Nat /\ Chunk.length > 0 /\ Chunk.length <= SizeMax
      /\ Sums(rsp.chunks)[k] = recved + Chunk.length
  BY <1>0, <1>1, SumsAre DEF Chunk
<1>3. Announced \in Int /\ Announced >= recved + Chunk.length
  <2>1. k \in 0..Len(rsp.chunks)
    BY <1>0
  <2> QED
    BY <1>0, <1>1, <1>2, <2>1, AnnouncedIs
<1>4. SizeSum(recved, Chunk.length) = IF recved + Chunk.length <= SizeMax THEN recved + Chunk.length
                                      ELSE (recved + Chunk.length) - (SizeMax + 1)
  <2>1. recved \in 0..SizeMax /\ Chunk.length \in 0..SizeMax
    BY <1>0, <1>2
  <2> HIDE DEF n, k
  <2> QED
    BY <2>1, SizeSumIs
<1>5. /\ n \in Nat /\ n <= Chunk.length
      /\ recved + n <= size <=> recved + Chunk.length <= SizeMax
      /\ n < Chunk.length => recved + n = size /\ Announced > size
  BY <1>0, <1>1, <1>2, <1>3, <1>4 DEF RoomForChunk
<1> QED
  BY <1>0, <1>1, <1>2, <1>3, <1>5

LEMMA RecvChunkDataOK ==
    ASSUME HttpIndInv, NEW ok \in BOOLEAN, RecvChunkData(ok) PROVE HttpIndInv'
<1> DEFINE n == RoomForChunk
           k == next_chunk
<1>0. /\ pc = "chunk_data" /\ ret = "unfinished" /\ rsp.chunks \in Chunks /\ size \in Nat
      /\ k \in Nat /\ Len(rsp.chunks) \in Nat /\ k \in 1..Len(rsp.chunks)
      /\ recved \in 0..size /\ SizeMax \in Nat
  BY RoomIs DEF RecvChunkData
<1>1. /\ Has("transfer-encoding") /\ len = size /\ cur = recved + 1
      /\ \A i \in 1..recved : buf[i] = i
      /\ \A i \in 1..k : rsp.chunks[i].length > 0
      /\ recved = Sums(rsp.chunks)[k - 1]
  BY <1>0, RoomIs
<1>2. Chunk.length \in Nat /\ Chunk.length > 0 /\ Sums(rsp.chunks)[k] = recved + Chunk.length
  BY <1>0, RoomIs
<1>3. n \in Nat /\ n <= Chunk.length /\ (recved + n <= size <=> recved + Chunk.length <= SizeMax)
  BY <1>0, RoomIs
<1>4. /\ n < Chunk.length => recved + n = size /\ Announced > size
      /\ Announced \in Int /\ Announced >= recved + Chunk.length
  BY <1>0, RoomIs
<1>5. CASE n = 0
  <2>1. recved = size /\ Announced > size
    BY <1>0, <1>2, <1>4, <1>5
  <2> QED
    BY <1>0, <1>5, <2>1, GotoOK DEF RecvChunkData
<1>6. CASE n # 0 /\ ~ok
  BY <1>6, FailOK DEF RecvChunkData
<1>7. CASE n # 0 /\ ok /\ n > len - recved
  <2>1. Announced > SizeMax
    BY <1>0, <1>1, <1>2, <1>3, <1>4, <1>7
  <2> QED
    BY <1>0, <1>7, <2>1, GotoOK DEF RecvChunkData
<1>8. CASE n # 0 /\ ok /\ ~(n > len - recved)
  <2>a. recved + n <= size
    BY <1>0, <1>1, <1>3, <1>8
  <2>0. /\ buf' = Stored(cur, recved, n)
        /\ cur' = cur + n
        /\ recved' = recved + n
        /\ IF n < Chunk.length
             THEN len' = recved' /\ ret' = "err_response_body_too_long" /\ pc' = "done"
             ELSE pc' = "chunk_end" /\ UNCHANGED <<len, ret>>
        /\ UNCHANGED <<rsp, size, next_field, header_fields, next_chunk, url>>
    BY <1>8 DEF RecvChunkData, Advanced, inputs
  <2> HIDE DEF n
  <2>2. buf' \in [1..size -> Nat] /\ \A i \in 1..(recved + n) : buf'[i] = i
    <3>1. recved \in Nat /\ buf' = Stored(recved + 1, recved, n)
      BY <1>0, <1>1, <2>0
    <3> QED
      BY <1>1, <1>3, <2>a, <3>1, StoredIs
  <2>3. HttpTypes'
    <3>1. ret' \in Values /\ pc' \in Places
      BY <1>0, <2>0 DEF Values, Places, Over
    <3>2. len' \in 0..size /\ recved' \in 0..size /\ cur' \in 1..(size + 1)
      BY <1>0, <1>1, <1>3, <2>a, <2>0
    <3> QED
      BY <2>0, <2>2, <3>1, <3>2 DEF HttpIndInv, HttpTypes
  <2>4. HeaderInv'
    <3>1. GoodHeader /\ (size = 0 \/ LengthGiven)
      BY <1>0 DEF HttpIndInv, HeaderInv, HeaderJudged
    <3>2. HeaderJudged'
      BY <1>0, <2>0, <3>1, SameHeader DEF HeaderJudged
    <3> QED
      BY <1>0, <2>0, <3>2 DEF HttpIndInv, HeaderInv, StatusLineLegal, Asking, Reading, Chunking
  <2>5. BodyInv'
    <3>1. Announced' = Announced /\ (Has("transfer-encoding")' <=> Has("transfer-encoding"))
      BY <2>0, SameHeader
    <3>2. ResultTruthful'
      BY <1>0, <1>4, <2>0, <2>2, <3>1 DEF ResultTruthful
    <3>3. CASE n < Chunk.length
      BY <2>0, <3>2, <3>3 DEF BodyInv, Asking, Reading, Chunking
    <3>4. CASE ~(n < Chunk.length)
      <4>1. n = Chunk.length
        BY <1>2, <1>3, <3>4
      <4>2. recved' = Sums(rsp.chunks)[k] /\ cur' = recved' + 1 /\ k >= 1
        BY <1>0, <1>1, <1>2, <1>3, <2>0, <4>1
      <4> QED
        BY <1>0, <1>1, <2>0, <2>2, <3>1, <3>2, <3>4, <4>2
           DEF BodyInv, Copied, Asking, Reading, Chunking
    <3> QED
      BY <3>3, <3>4
  <2> QED
    BY <2>3, <2>4, <2>5 DEF HttpIndInv
<1> QED
  BY <1>5, <1>6, <1>7, <1>8

LEMMA RecvChunkEndOK ==
    ASSUME HttpIndInv, NEW ok \in BOOLEAN, RecvChunkEnd(ok) PROVE HttpIndInv'
BY FailOK, GotoOK DEF RecvChunkEnd

LEMMA ReturnStatusOK == HttpIndInv /\ ReturnStatus => HttpIndInv'
<1> SUFFICES ASSUME HttpIndInv, ReturnStatus PROVE HttpIndInv'
  OBVIOUS
<1>0. /\ pc = "finish" /\ pc' = "done" /\ ret' = "status"
      /\ UNCHANGED <<url, rsp, size, len, next_field, header_fields, next_chunk, cur, recved, buf>>
  BY DEF ReturnStatus, inputs, body
<1>1. HttpTypes'
  <2>1. ret' \in Values /\ pc' \in Places
    BY <1>0 DEF Values, Places, Over
  <2> QED
    BY <1>0, <2>1 DEF HttpIndInv, HttpTypes
<1>2. HeaderInv'
  <2>1. HeaderJudged'
    BY <1>0 DEF HeaderJudged
  <2> QED
    BY <1>0, <2>1 DEF HttpIndInv, HeaderInv, Asking, Reading, Chunking
<1>3. BodyInv'
  <2>1. Announced' = Announced
    BY <1>0, SameHeader
  <2>2. (size = 0 /\ len = 0) \/ (len = Announced /\ \A i \in 1..len : buf[i] = i)
    BY <1>0 DEF HttpIndInv, BodyInv
  <2>3. ResultTruthful'
    BY <1>0, <2>1, <2>2 DEF ResultTruthful
  <2> QED
    BY <1>0, <2>3 DEF BodyInv, Asking, Reading, Chunking
<1> QED
  BY <1>1, <1>2, <1>3 DEF HttpIndInv

LEMMA CancelHttpOK == HttpIndInv /\ Cancel => HttpIndInv'
<1> SUFFICES ASSUME HttpIndInv, Cancel PROVE HttpIndInv'
  OBVIOUS
<1>0. /\ ret = "unfinished" /\ pc' = "canceled" /\ len' = 0
      /\ UNCHANGED <<url, rsp, size, ret, next_field, header_fields, next_chunk, cur, recved, buf>>
  BY DEF Cancel, inputs, body, HttpIndInv, BodyInv, Asking, Reading, Chunking
<1>1. HttpTypes'
  <2>1. pc' \in Places
    BY <1>0 DEF Places, Over
  <2> QED
    BY <1>0, <2>1 DEF HttpIndInv, HttpTypes
<1>2. HeaderInv'
  <2>1. HeaderJudged'
    BY <1>0 DEF HeaderJudged
  <2> QED
    BY <1>0, <2>1 DEF HttpIndInv, HeaderInv, Asking, Reading, Chunking
<1>3. BodyInv'
  <2>3. ResultTruthful'
    BY <1>0 DEF ResultTruthful
  <2> QED
    BY <1>0, <2>3 DEF BodyInv, Asking, Reading, Chunking
<1> QED
  BY <1>1, <1>2, <1>3 DEF HttpIndInv

LEMMA SameHttp == HttpIndInv /\ UNCHANGED httpVars => HttpIndInv'
<1> SUFFICES ASSUME HttpIndInv, UNCHANGED httpVars PROVE HttpIndInv'
  OBVIOUS
<1>0. /\ UNCHANGED <<url, rsp, size, len, ret, pc, next_field, header_fields>>
      /\ UNCHANGED <<next_chunk, cur, recved, buf>>
  BY DEF httpVars, inputs, body
<1>1. HttpTypes'
  BY <1>0 DEF HttpIndInv, HttpTypes
<1>2. HeaderInv'
  <2>1. HeaderJudged'
    BY <1>0, SameHeader DEF HttpIndInv, HeaderInv, HeaderJudged
  <2> QED
    BY <1>0, <2>1 DEF HttpIndInv, HeaderInv, StatusLineLegal
<1>3. BodyInv'
  <2>1. (\A k : Has(k)' <=> Has(k)) /\ BodyLen' = BodyLen /\ Announced' = Announced
    BY <1>0, SameHeader
  <2>2. ResultTruthful'
    BY <1>0, <2>1 DEF HttpIndInv, BodyInv, ResultTruthful
  <2> QED
    BY <1>0, <2>1, <2>2 DEF HttpIndInv, BodyInv, Copied
<1> QED
  BY <1>1, <1>2, <1>3 DEF HttpIndInv

\* What is known of the header and of the buffer holds throughout a request.
THEOREM HttpInvariance == HttpSpec => []HttpIndInv
<1>1. HttpIndInv /\ [HttpNext]_httpVars => HttpIndInv'
  BY UrlParseOK, AskingOK, ParseFieldOK, HeaderParsedOK, RecvBodyOK, RecvChunkSizeOK,
     RecvChunkDataOK, RecvChunkEndOK, ReturnStatusOK, CancelHttpOK, SameHttp DEF HttpNext, Step
<1> QED
  BY <1>1, HttpInitOK, PTL DEF HttpSpec

\* Every variable keeps its type.
THEOREM HttpTypeSafe == HttpSpec => []HttpTypeOK
<1>1. HttpIndInv => HttpTypeOK
  <2> SUFFICES ASSUME HttpIndInv PROVE HttpTypeOK
    OBVIOUS
  <2>1. DOMAIN buf = 1..size /\ Range(buf) \subseteq Nat
    BY DEF HttpIndInv, HttpTypes, Range
  <2>2. header_fields \subseteq Range(rsp.fields)
    <3>1. Len(rsp.fields) \in Nat /\ DOMAIN rsp.fields = 1..Len(rsp.fields)
      BY LenProperties DEF HttpIndInv, HttpTypes, Response
    <3>2. \A i \in 1..next_field : i \in DOMAIN rsp.fields
      BY <3>1 DEF HttpIndInv, HttpTypes
    <3> QED
      BY <3>2 DEF HttpIndInv, HeaderInv, Range
  <2> QED
    BY <2>1, <2>2 DEF HttpIndInv, HttpTypes, HttpTypeOK
<1> QED
  BY <1>1, HttpInvariance, PTL

\* For any chunks, lengths and buffer sizes, the room a recv_till is given for a
\* chunk lies in the caller's buffer exactly when the sum that is compared with the
\* size of the buffer does not wrap around.
THEOREM HttpRoomSafe == HttpSpec => []RoomInBuffer
<1>1. HttpIndInv => RoomInBuffer
  BY RoomIs DEF RoomInBuffer
<1> QED
  BY <1>1, HttpInvariance, PTL

\* What the caller is told about the body is true, for any chunks, lengths and buffer
\* sizes: a status means the buffer holds the whole body, err_response_body_too_long
\* that it is filled with the beginning of a longer one, and nothing is claimed after
\* any other error or a cancellation.
THEOREM HttpTruthful == HttpSpec => []ResultTruthful
<1>1. HttpIndInv => ResultTruthful
  BY DEF HttpIndInv, BodyInv
<1> QED
  BY <1>1, HttpInvariance, PTL

-----------------------------------------------------------------------------
\* The loop of url_parse up to position n.
IsScan(f, a, n) ==
    f = [i \in 0..n |-> IF i = 0 THEN NoPointers ELSE ScanChar(f[i - 1], a[i])]

LEMMA ScanExists ==
    ASSUME NEW a
    PROVE  \A n \in Nat : \E f : IsScan(f, a, n)
<1> DEFINE Wrong == {n \in Nat : ~\E f : IsScan(f, a, n)}
<1> SUFFICES ASSUME Wrong # {} PROVE FALSE
  OBVIOUS
<1>1. PICK n \in Wrong : \A m \in Wrong : n <= m
  BY Least
<1>2. n # 0
  <2>1. IsScan([i \in 0..0 |-> NoPointers], a, 0)
    BY DEF IsScan
  <2> QED
    BY <1>1, <2>1
<1>3. n - 1 \in Nat /\ n - 1 \notin Wrong
  BY <1>1, <1>2
<1>4. PICK f : IsScan(f, a, n - 1)
  BY <1>3
<1> DEFINE g == [i \in 0..n |-> IF i = n THEN ScanChar(f[n - 1], a[n]) ELSE f[i]]
<1>5. ASSUME NEW i \in 0..n PROVE g[i] = IF i = 0 THEN NoPointers ELSE ScanChar(g[i - 1], a[i])
  <2>1. \A k \in 0..(n - 1) : f[k] = IF k = 0 THEN NoPointers ELSE ScanChar(f[k - 1], a[k])
    BY <1>4 DEF IsScan
  <2>2. CASE i = 0
    BY <1>2, <1>3, <2>1, <2>2
  <2>3. CASE i # 0 /\ i # n
    <3>1. i \in 0..(n - 1) /\ i - 1 \in 0..n /\ i - 1 # n
      BY <1>1, <2>3
    <3>2. g[i] = f[i] /\ g[i - 1] = f[i - 1]
      BY <2>3, <3>1
    <3> QED
      BY <2>1, <2>3, <3>1, <3>2
  <2>4. CASE i = n
    <3>1. n - 1 \in 0..n /\ n - 1 # n
      BY <1>1, <1>2
    <3>2. g[n - 1] = f[n - 1] /\ g[n] = ScanChar(f[n - 1], a[n])
      BY <1>1, <3>1
    <3> QED
      BY <1>2, <2>4, <3>2
  <2> QED
    BY <2>2, <2>3, <2>4
<1>6. IsScan(g, a, n)
  <2>1. g = [i \in 0..n |-> g[i]]
    OBVIOUS
  <2> HIDE DEF g
  <2> QED
    BY <1>5, <2>1 DEF IsScan
<1> QED
  BY <1>1, <1>6

LEMMA ScanIs ==
    ASSUME NEW a \in Seq(STRING)
    PROVE  /\ Len(a) \in Nat /\ Scan(a)[0] = NoPointers
           /\ \A i \in 1..Len(a) : Scan(a)[i] = ScanChar(Scan(a)[i - 1], a[i])
<1> DEFINE n == Len(a)
           f == CHOOSE g : IsScan(g, a, n)
<1>1. n \in Nat
  BY LenProperties
<1>2. IsScan(f, a, n)
  BY <1>1, ScanExists
<1>3. Scan(a) = f
  BY DEF Scan, IsScan
<1> HIDE DEF f
<1>4. \A i \in 0..n : f[i] = IF i = 0 THEN NoPointers ELSE ScanChar(f[i - 1], a[i])
  BY <1>2 DEF IsScan
<1>5. f[0] = NoPointers
  BY <1>1, <1>4
<1>6. ASSUME NEW i \in 1..n PROVE f[i] = ScanChar(f[i - 1], a[i])
  BY <1>1, <1>4
<1> QED
  BY <1>1, <1>3, <1>5, <1>6

-----------------------------------------------------------------------------
\* Where a character c is among the positions i..j: nowhere, only at k, or twice.
NoneAt(a, c, i, j) == \A x \in i..j : a[x] # c
OnlyAt(a, c, i, j, k) == k \in i..j /\ a[k] = c /\ \A x \in i..j : a[x] = c => x = k
TwiceAt(a, c, i, j) == \E x, y \in i..j : x # y /\ a[x] = c /\ a[y] = c

Pointers(p, user_end, pass_bgn, pass_end, host_bgn, host_end, port_bgn) ==
    [p |-> p, err |-> 0, user_bgn |-> 1, user_end |-> user_end, pass_bgn |-> pass_bgn,
     pass_end |-> pass_end, host_bgn |-> host_bgn, host_end |-> host_end, port_bgn |-> port_bgn,
     port_end |-> 0]

\* The first n characters: no delimiter yet; one ":", which may begin a password or
\* a port; a user part that ends at m, with or without a password; a text that is no
\* authority whatever follows.
Plain(a, n, s) ==
    NoneAt(a, ":", 1, n) /\ NoneAt(a, "@", 1, n) /\ s = Pointers(n + 1, 0, 0, 0, 0, 0, 0)
OneColon(a, n, s) ==
    \E u \in 1..n : /\ OnlyAt(a, ":", 1, n, u) /\ NoneAt(a, "@", 1, n)
                    /\ s = Pointers(n + 1, u, u + 1, 0, 0, 0, 0)
UserAt(a, m, user_end, pass_bgn, pass_end) ==
    \/ NoneAt(a, ":", 1, m - 1) /\ user_end = m /\ pass_bgn = 0 /\ pass_end = 0
    \/ /\ user_end \in 1..(m - 1) /\ OnlyAt(a, ":", 1, m - 1, user_end)
       /\ pass_bgn = user_end + 1 /\ pass_end = m
HostAt(a, m, n, host_end, port_bgn) ==
    \/ NoneAt(a, ":", m + 1, n) /\ host_end = 0 /\ port_bgn = 0
    \/ host_end \in (m + 1)..n /\ OnlyAt(a, ":", m + 1, n, host_end) /\ port_bgn = host_end + 1
UserAndHost(a, n, s) ==
    \E m \in 1..n : \E user_end, pass_bgn, pass_end, host_end, port_bgn \in 0..(n + 1) :
        /\ OnlyAt(a, "@", 1, n, m)
        /\ UserAt(a, m, user_end, pass_bgn, pass_end) /\ HostAt(a, m, n, host_end, port_bgn)
        /\ s = Pointers(n + 1, user_end, pass_bgn, pass_end, m + 1, host_end, port_bgn)
Malformed(a, n) ==
    \/ TwiceAt(a, "@", 1, n)
    \/ \E j \in 1..n : TwiceAt(a, ":", 1, j) /\ NoneAt(a, "@", 1, j)
    \/ \E m \in 1..n : OnlyAt(a, "@", 1, n, m) /\ TwiceAt(a, ":", m + 1, n)

ScanOK(a, n, s) ==
    \/ s.err = 0 /\ (Plain(a, n, s) \/ OneColon(a, n, s) \/ UserAndHost(a, n, s))
    \/ s.err \in {-4, -5, -6} /\ \E j \in 1..n : Malformed(a, j)

LEMMA AfterPlain ==
    ASSUME NEW a, NEW n \in Nat, NEW s, Plain(a, n, s)
    PROVE  ScanOK(a, n + 1, ScanChar(s, a[n + 1]))
<1> DEFINE t == ScanChar(s, a[n + 1])
<1>1. s = Pointers(n + 1, 0, 0, 0, 0, 0, 0)
  BY DEF Plain
<1>2. \A x \in 1..(n + 1) : x \in 1..n \/ x = n + 1
  OBVIOUS
<1>3. CASE a[n + 1] = ":"
  <2>1. t = Pointers((n + 1) + 1, n + 1, (n + 1) + 1, 0, 0, 0, 0)
    BY <1>1, <1>3 DEF ScanChar, Pointers
  <2>2. OnlyAt(a, ":", 1, n + 1, n + 1) /\ NoneAt(a, "@", 1, n + 1) /\ n + 1 \in 1..(n + 1)
    BY <1>2, <1>3 DEF Plain, NoneAt, OnlyAt
  <2>3. OneColon(a, n + 1, t)
    BY <2>1, <2>2 DEF OneColon
  <2> QED
    BY <2>1, <2>3 DEF ScanOK, Pointers
<1>4. CASE a[n + 1] = "@"
  <2>1. t = Pointers((n + 1) + 1, n + 1, 0, 0, (n + 1) + 1, 0, 0)
    BY <1>1, <1>4 DEF ScanChar, Pointers
  <2>2. OnlyAt(a, "@", 1, n + 1, n + 1) /\ n + 1 \in 1..(n + 1) /\ (n + 1) - 1 = n
    BY <1>2, <1>4 DEF Plain, NoneAt, OnlyAt
  <2>3. UserAt(a, n + 1, n + 1, 0, 0) /\ HostAt(a, n + 1, n + 1, 0, 0)
    BY <2>2 DEF Plain, UserAt, HostAt, NoneAt
  <2>4. n + 1 \in 0..((n + 1) + 1) /\ 0 \in 0..((n + 1) + 1)
    OBVIOUS
  <2>5. UserAndHost(a, n + 1, t)
    BY <2>1, <2>2, <2>3, <2>4 DEF UserAndHost
  <2> QED
    BY <2>1, <2>5 DEF ScanOK, Pointers
<1>5. CASE a[n + 1] # ":" /\ a[n + 1] # "@"
  <2>1. t = Pointers((n + 1) + 1, 0, 0, 0, 0, 0, 0)
    BY <1>1, <1>5 DEF ScanChar, Pointers
  <2>2. Plain(a, n + 1, t)
    BY <1>2, <1>5, <2>1 DEF Plain, NoneAt
  <2> QED
    BY <2>1, <2>2 DEF ScanOK, Pointers
<1> QED
  BY <1>3, <1>4, <1>5

LEMMA AfterColon ==
    ASSUME NEW a, NEW n \in Nat, NEW s, OneColon(a, n, s)
    PROVE  ScanOK(a, n + 1, ScanChar(s, a[n + 1]))
<1> DEFINE t == ScanChar(s, a[n + 1])
<1>1. PICK u \in 1..n : /\ OnlyAt(a, ":", 1, n, u) /\ NoneAt(a, "@", 1, n)
                        /\ s = Pointers(n + 1, u, u + 1, 0, 0, 0, 0)
  BY DEF OneColon
<1>2. \A x \in 1..(n + 1) : x \in 1..n \/ x = n + 1
  OBVIOUS
<1>3. CASE a[n + 1] = ":"
  <2>1. t.err = -4
    BY <1>1, <1>3 DEF ScanChar, Pointers
  <2>2. TwiceAt(a, ":", 1, n + 1) /\ NoneAt(a, "@", 1, n + 1) /\ n + 1 \in 1..(n + 1)
    <3>1. u \in 1..(n + 1) /\ n + 1 \in 1..(n + 1) /\ u # n + 1 /\ a[u] = ":"
      BY <1>1 DEF OnlyAt
    <3>2. TwiceAt(a, ":", 1, n + 1)
      BY <1>3, <3>1 DEF TwiceAt
    <3>3. NoneAt(a, "@", 1, n + 1)
      BY <1>1, <1>2, <1>3 DEF NoneAt
    <3> QED
      BY <3>1, <3>2, <3>3
  <2>3. Malformed(a, n + 1)
    BY <2>2 DEF Malformed
  <2> QED
    BY <2>1, <2>2, <2>3 DEF ScanOK
<1>4. CASE a[n + 1] = "@"
  <2>1. t = Pointers((n + 1) + 1, u, u + 1, n + 1, (n + 1) + 1, 0, 0)
    <3>1. u # 0 /\ u + 1 # 0 /\ s = Pointers(n + 1, u, u + 1, 0, 0, 0, 0)
      BY <1>1
    <3>2. t = [[s EXCEPT !.p = s.p + 1] EXCEPT !.pass_end = s.p, !.host_bgn = s.p + 1]
      BY <1>4, <3>1 DEF ScanChar, Pointers
    <3> QED
      BY <3>1, <3>2 DEF Pointers
  <2>2. OnlyAt(a, "@", 1, n + 1, n + 1) /\ n + 1 \in 1..(n + 1) /\ (n + 1) - 1 = n
    BY <1>1, <1>2, <1>4 DEF NoneAt, OnlyAt
  <2>3. UserAt(a, n + 1, u, u + 1, n + 1) /\ HostAt(a, n + 1, n + 1, 0, 0)
    BY <1>1, <2>2 DEF UserAt, HostAt, NoneAt
  <2>4. /\ n + 1 \in 0..((n + 1) + 1) /\ 0 \in 0..((n + 1) + 1) /\ u \in 0..((n + 1) + 1)
        /\ u + 1 \in 0..((n + 1) + 1)
    OBVIOUS
  <2>5. UserAndHost(a, n + 1, t)
    BY <2>1, <2>2, <2>3, <2>4 DEF UserAndHost
  <2> QED
    BY <2>1, <2>5 DEF ScanOK, Pointers
<1>5. CASE a[n + 1] # ":" /\ a[n + 1] # "@"
  <2>1. t = Pointers((n + 1) + 1, u, u + 1, 0, 0, 0, 0)
    BY <1>1, <1>5 DEF ScanChar, Pointers
  <2>2. OnlyAt(a, ":", 1, n + 1, u) /\ NoneAt(a, "@", 1, n + 1) /\ u \in 1..(n + 1)
    BY <1>1, <1>2, <1>5 DEF OnlyAt, NoneAt
  <2>3. OneColon(a, n + 1, t)
    BY <2>1, <2>2 DEF OneColon
  <2> QED
    BY <2>1, <2>3 DEF ScanOK, Pointers
<1> QED
  BY <1>3, <1>4, <1>5

LEMMA AfterUser ==
    ASSUME NEW a, NEW n \in Nat, NEW s, UserAndHost(a, n, s)
    PROVE  ScanOK(a, n + 1, ScanChar(s, a[n + 1]))
<1> DEFINE t == ScanChar(s, a[n + 1])
<1>1. PICK m \in 1..n, user_end \in 0..(n + 1), pass_bgn \in 0..(n + 1), pass_end \in 0..(n + 1),
           host_end \in 0..(n + 1), port_bgn \in 0..(n + 1) :
        /\ OnlyAt(a, "@", 1, n, m)
        /\ UserAt(a, m, user_end, pass_bgn, pass_end) /\ HostAt(a, m, n, host_end, port_bgn)
        /\ s = Pointers(n + 1, user_end, pass_bgn, pass_end, m + 1, host_end, port_bgn)
  BY DEF UserAndHost
<1>2. \A x \in 1..(n + 1) : x \in 1..n \/ x = n + 1
  OBVIOUS
<1>3. \A x \in (m + 1)..(n + 1) : x \in (m + 1)..n \/ x = n + 1
  OBVIOUS
<1>4. n + 1 \in 1..(n + 1) /\ n + 1 \in (m + 1)..(n + 1) /\ m \in 1..(n + 1) /\ m # n + 1
  OBVIOUS
<1>5. \A x \in 0..(n + 1) : x \in 0..((n + 1) + 1)
  OBVIOUS
<1>6. CASE a[n + 1] = ":"
  <2>0. OnlyAt(a, "@", 1, n + 1, m)
    BY <1>1, <1>2, <1>4, <1>6 DEF OnlyAt
  <2>1. CASE NoneAt(a, ":", m + 1, n) /\ host_end = 0 /\ port_bgn = 0
    <3>1. t = Pointers((n + 1) + 1, user_end, pass_bgn, pass_end, m + 1, n + 1, (n + 1) + 1)
      <4>1. m + 1 # 0 /\ s = Pointers(n + 1, user_end, pass_bgn, pass_end, m + 1, 0, 0)
        BY <1>1, <2>1
      <4>2. t = [[s EXCEPT !.p = s.p + 1] EXCEPT !.host_end = s.p, !.port_bgn = s.p + 1]
        BY <1>6, <4>1 DEF ScanChar, Pointers
      <4> QED
        BY <4>1, <4>2 DEF Pointers
    <3>2. HostAt(a, m, n + 1, n + 1, (n + 1) + 1)
      BY <1>3, <1>4, <1>6, <2>1 DEF HostAt, OnlyAt, NoneAt
    <3>3. n + 1 \in 0..((n + 1) + 1) /\ (n + 1) + 1 \in 0..((n + 1) + 1)
      OBVIOUS
    <3>4. UserAndHost(a, n + 1, t)
      BY <1>1, <1>4, <1>5, <2>0, <3>1, <3>2, <3>3 DEF UserAndHost
    <3> QED
      BY <3>1, <3>4 DEF ScanOK, Pointers
  <2>2. CASE host_end \in (m + 1)..n /\ OnlyAt(a, ":", m + 1, n, host_end)
    <3>1. t.err = -5
      BY <1>1, <1>6, <2>2 DEF ScanChar, Pointers
    <3>2. TwiceAt(a, ":", m + 1, n + 1)
      <4>1. host_end \in (m + 1)..(n + 1) /\ host_end # n + 1 /\ a[host_end] = ":"
        BY <2>2 DEF OnlyAt
      <4> QED
        BY <1>4, <1>6, <4>1 DEF TwiceAt
    <3>3. Malformed(a, n + 1)
      BY <1>4, <2>0, <3>2 DEF Malformed
    <3> QED
      BY <1>4, <3>1, <3>3 DEF ScanOK
  <2> QED
    BY <1>1, <2>1, <2>2 DEF HostAt
<1>7. CASE a[n + 1] = "@"
  <2>1. user_end # 0 /\ (pass_bgn = 0 \/ pass_end # 0)
    BY <1>1 DEF UserAt
  <2>2. t.err = -6
    BY <1>1, <1>7, <2>1 DEF ScanChar, Pointers
  <2>3. TwiceAt(a, "@", 1, n + 1)
    BY <1>1, <1>4, <1>7 DEF TwiceAt, OnlyAt
  <2>4. Malformed(a, n + 1)
    BY <2>3 DEF Malformed
  <2> QED
    BY <1>4, <2>2, <2>4 DEF ScanOK
<1>8. CASE a[n + 1] # ":" /\ a[n + 1] # "@"
  <2>1. t = Pointers((n + 1) + 1, user_end, pass_bgn, pass_end, m + 1, host_end, port_bgn)
    BY <1>1, <1>8 DEF ScanChar, Pointers
  <2>2. OnlyAt(a, "@", 1, n + 1, m)
    BY <1>1, <1>2, <1>4, <1>8 DEF OnlyAt
  <2>3. HostAt(a, m, n + 1, host_end, port_bgn)
    <3>1. CASE NoneAt(a, ":", m + 1, n) /\ host_end = 0 /\ port_bgn = 0
      BY <1>3, <1>8, <3>1 DEF HostAt, NoneAt
    <3>2. CASE /\ host_end \in (m + 1)..n /\ OnlyAt(a, ":", m + 1, n, host_end)
               /\ port_bgn = host_end + 1
      <4>1. host_end \in (m + 1)..(n + 1)
        BY <3>2
      <4> QED
        BY <1>3, <1>8, <3>2, <4>1 DEF HostAt, OnlyAt
    <3> QED
      BY <1>1, <3>1, <3>2 DEF HostAt
  <2>4. UserAndHost(a, n + 1, t)
    BY <1>1, <1>4, <1>5, <2>1, <2>2, <2>3 DEF UserAndHost
  <2> QED
    BY <2>1, <2>4 DEF ScanOK, Pointers
<1> QED
  BY <1>6, <1>7, <1>8

LEMMA AfterError ==
    ASSUME NEW a, NEW n \in Nat, NEW s, s.err \in {-4, -5, -6}, \E j \in 1..n : Malformed(a, j)
    PROVE  ScanOK(a, n + 1, ScanChar(s, a[n + 1]))
<1>1. s.err # 0
  OBVIOUS
<1>2. ScanChar(s, a[n + 1]) = s
  BY <1>1 DEF ScanChar
<1>3. \A j \in 1..n : j \in 1..(n + 1)
  OBVIOUS
<1> QED
  BY <1>2, <1>3 DEF ScanOK

\* The loop, whatever the text.
LEMMA ScanRight ==
    ASSUME NEW a \in Seq(STRING)
    PROVE  \A n \in 0..Len(a) : ScanOK(a, n, Scan(a)[n])
<1> DEFINE Wrong == {n \in 0..Len(a) : ~ScanOK(a, n, Scan(a)[n])}
<1> SUFFICES ASSUME Wrong # {} PROVE FALSE
  OBVIOUS
<1>0. Len(a) \in Nat
  BY ScanIs
<1>1. PICK n \in Wrong : \A k \in Wrong : n <= k
  <2>1. Wrong \in SUBSET Nat
    BY <1>0
  <2> QED
    BY <2>1, Least
<1>2. n # 0
  <2>1. Plain(a, 0, NoPointers)
    BY DEF Plain, NoneAt, Pointers, NoPointers
  <2>2. ScanOK(a, 0, Scan(a)[0])
    BY <2>1, ScanIs DEF ScanOK, NoPointers
  <2> QED
    BY <1>1, <2>2
<1> DEFINE k == n - 1
<1>3. n \in 1..Len(a) /\ k \in 0..Len(a) /\ k \in Nat /\ k + 1 = n /\ k \notin Wrong
  BY <1>0, <1>1, <1>2
<1>4. ScanOK(a, k, Scan(a)[k]) /\ Scan(a)[k + 1] = ScanChar(Scan(a)[k], a[k + 1])
  BY <1>3, ScanIs
<1> HIDE DEF k
<1>5. ScanOK(a, k + 1, Scan(a)[k + 1])
  BY <1>3, <1>4, AfterPlain, AfterColon, AfterUser, AfterError DEF ScanOK
<1> QED
  BY <1>1, <1>3, <1>5

-----------------------------------------------------------------------------
\* Parts of a text.
LEMMA SliceAt ==
    ASSUME NEW a \in Seq(STRING), NEW i \in Nat, NEW j \in Nat, i >= 1, i <= j + 1, j <= Len(a)
    PROVE  /\ SubSeq(a, i, j) \in Seq(STRING) /\ Len(SubSeq(a, i, j)) = j - i + 1
           /\ j - i + 1 \in Nat
           /\ \A x \in 1..(j - i + 1) : SubSeq(a, i, j)[x] = a[i + x - 1]
<1>1. Len(a) \in Nat /\ \A x \in 1..Len(a) : a[x] \in STRING
  BY LenProperties, ElementOfSeq
<1>2. \A x \in i..j : a[x] \in STRING
  <2>1. \A x \in i..j : x \in 1..Len(a)
    BY <1>1
  <2> QED
    BY <1>1, <2>1
<1>3. /\ SubSeq(a, i, j) \in Seq(STRING)
      /\ Len(SubSeq(a, i, j)) = IF i <= j THEN j - i + 1 ELSE 0
      /\ \A x \in 1..(j - i + 1) : SubSeq(a, i, j)[x] = a[i + x - 1]
  BY <1>2, SubSeqProperties
<1> QED
  BY <1>3

LEMMA WholeSlice ==
    ASSUME NEW a \in Seq(STRING)
    PROVE  Len(a) \in Nat /\ SubSeq(a, 1, Len(a)) = a
<1>1. Len(a) \in Nat
  BY LenProperties
<1>2. /\ SubSeq(a, 1, Len(a)) \in Seq(STRING) /\ Len(SubSeq(a, 1, Len(a))) = Len(a) - 1 + 1
      /\ \A x \in 1..(Len(a) - 1 + 1) : SubSeq(a, 1, Len(a))[x] = a[1 + x - 1]
  BY <1>1, SliceAt
<1>3. Len(a) - 1 + 1 = Len(a)
  BY <1>1
<1>4. \A x \in 1..Len(a) : SubSeq(a, 1, Len(a))[x] = a[x]
  <2>1. \A x \in 1..Len(a) : 1 + x - 1 = x
    OBVIOUS
  <2> QED
    BY <1>2, <1>3, <2>1
<1> QED
  BY <1>1, <1>2, <1>3, <1>4, SeqEqual

LEMMA SliceOfSlice ==
    ASSUME NEW a \in Seq(STRING), NEW i \in Nat, NEW j \in Nat, i >= 1, i <= j + 1, j <= Len(a),
           NEW x \in Nat, NEW y \in Nat, x >= 1, x <= y + 1, y <= j - i + 1
    PROVE  SubSeq(SubSeq(a, i, j), x, y) = SubSeq(a, i + x - 1, i + y - 1)
<1> DEFINE b == SubSeq(a, i, j)
           c == SubSeq(b, x, y)
           d == SubSeq(a, i + x - 1, i + y - 1)
           n == y - x + 1
<1>1. /\ b \in Seq(STRING) /\ Len(b) = j - i + 1
      /\ \A k \in 1..(j - i + 1) : b[k] = a[i + k - 1]
  BY SliceAt
<1>2. y <= Len(b)
  BY <1>1
<1> HIDE DEF b
<1>3. c \in Seq(STRING) /\ Len(c) = n /\ \A k \in 1..n : c[k] = b[x + k - 1]
  BY <1>1, <1>2, SliceAt
<1>4. /\ i + x - 1 \in Nat /\ i + y - 1 \in Nat /\ i + x - 1 >= 1
      /\ i + x - 1 <= (i + y - 1) + 1 /\ i + y - 1 <= Len(a)
  <2>1. Len(a) \in Nat
    BY LenProperties
  <2> QED
    BY <2>1
<1>5. /\ d \in Seq(STRING) /\ Len(d) = (i + y - 1) - (i + x - 1) + 1
      /\ \A k \in 1..((i + y - 1) - (i + x - 1) + 1) : d[k] = a[(i + x - 1) + k - 1]
  BY <1>4, SliceAt
<1> HIDE DEF c, d
<1>6. (i + y - 1) - (i + x - 1) + 1 = n
  OBVIOUS
<1>7. ASSUME NEW k \in 1..n PROVE c[k] = d[k]
  <2>1. x + k - 1 \in 1..(j - i + 1) /\ i + (x + k - 1) - 1 = (i + x - 1) + k - 1
    OBVIOUS
  <2>2. c[k] = a[i + (x + k - 1) - 1]
    BY <1>1, <1>3, <2>1
  <2>3. d[k] = a[(i + x - 1) + k - 1]
    BY <1>5, <1>6
  <2> QED
    BY <2>1, <2>2, <2>3
<1> HIDE DEF n
<1>8. c = d
  BY <1>3, <1>5, <1>6, <1>7, SeqEqual
<1> QED
  BY <1>8 DEF b, c, d

\* Count and First by positions.
LEMMA CountSet ==
    ASSUME NEW b \in Seq(STRING), NEW c
    PROVE  /\ Len(b) \in Nat /\ DOMAIN b = 1..Len(b)
           /\ IsFiniteSet({i \in DOMAIN b : b[i] = c}) /\ Count(b, c) \in Nat
           /\ Count(b, c) = 0 <=> {i \in DOMAIN b : b[i] = c} = {}
           /\ Count(b, c) = 1 <=> \E x : {i \in DOMAIN b : b[i] = c} = {x}
<1> DEFINE T == {i \in DOMAIN b : b[i] = c}
<1>1. Len(b) \in Nat /\ DOMAIN b = 1..Len(b)
  BY LenProperties
<1>2. IsFiniteSet(1..Len(b))
  BY <1>1, FS_Interval
<1>3. T \in SUBSET (1..Len(b))
  BY <1>1
<1>4. IsFiniteSet(T)
  BY <1>2, <1>3, FS_Subset
<1>5. Count(b, c) = Cardinality(T)
  BY DEF Count
<1> HIDE DEF T
<1>6. Cardinality(T) \in Nat /\ (Cardinality(T) = 0 <=> T = {})
  BY <1>4, FS_EmptySet, FS_CardinalityType
<1>7. Cardinality(T) = 1 <=> \E x : T = {x}
  BY <1>4, FS_Singleton
<1> QED
  BY <1>1, <1>4, <1>5, <1>6, <1>7 DEF T

LEMMA CountNone ==
    ASSUME NEW b \in Seq(STRING), NEW c, NoneAt(b, c, 1, Len(b))
    PROVE  Count(b, c) = 0 /\ First(b, c) = 0 /\ Before(b, c) = b /\ After(b, c) = <<>>
<1>1. {i \in DOMAIN b : b[i] = c} = {}
  BY CountSet DEF NoneAt
<1>2. Count(b, c) = 0
  BY <1>1, CountSet
<1>3. First(b, c) = 0
  BY <1>2 DEF First
<1> QED
  BY <1>2, <1>3 DEF Before, After

LEMMA CountOnly ==
    ASSUME NEW b \in Seq(STRING), NEW c, NEW k, OnlyAt(b, c, 1, Len(b), k)
    PROVE  /\ Count(b, c) = 1 /\ First(b, c) = k /\ Before(b, c) = SubSeq(b, 1, k - 1)
           /\ After(b, c) = SubSeq(b, k + 1, Len(b))
<1>0. Len(b) \in Nat /\ DOMAIN b = 1..Len(b)
  BY CountSet
<1>1. {i \in DOMAIN b : b[i] = c} = {k}
  BY <1>0 DEF OnlyAt
<1>2. Count(b, c) = 1
  BY <1>1, CountSet
<1>3. First(b, c) = k
  <2>1. First(b, c) = CHOOSE i \in DOMAIN b : b[i] = c /\ \A j \in DOMAIN b : b[j] = c => i <= j
    BY <1>2 DEF First
  <2>2. k \in DOMAIN b /\ b[k] = c /\ \A j \in DOMAIN b : b[j] = c => k <= j
    BY <1>0 DEF OnlyAt
  <2>3. \A i \in DOMAIN b : b[i] = c => i = k
    BY <1>0 DEF OnlyAt
  <2> QED
    BY <2>1, <2>2, <2>3
<1>4. k # 0
  BY <1>0 DEF OnlyAt
<1> QED
  BY <1>2, <1>3, <1>4 DEF Before, After

LEMMA CountTwice ==
    ASSUME NEW b \in Seq(STRING), NEW c, TwiceAt(b, c, 1, Len(b))
    PROVE  ~(Count(b, c) <= 1)
<1>1. PICK x \in 1..Len(b), y \in 1..Len(b) : x # y /\ b[x] = c /\ b[y] = c
  BY DEF TwiceAt
<1> DEFINE T == {i \in DOMAIN b : b[i] = c}
<1>2. x \in T /\ y \in T
  BY <1>1, CountSet
<1>3. T # {} /\ ~\E z : T = {z}
  <2>1. ASSUME NEW z, T = {z} PROVE FALSE
    <3>1. x \in {z} /\ y \in {z}
      BY <1>2, <2>1
    <3> QED
      BY <1>1, <3>1
  <2> QED
    BY <1>2, <2>1
<1>4. Count(b, c) # 0 /\ Count(b, c) # 1 /\ Count(b, c) \in Nat
  BY <1>3, CountSet
<1> QED
  BY <1>4

\* The same for the part of a text from i to j.
LEMMA PartNone ==
    ASSUME NEW a \in Seq(STRING), NEW i \in Nat, NEW j \in Nat, i >= 1, i <= j + 1, j <= Len(a),
           NEW c, NoneAt(a, c, i, j)
    PROVE  LET b == SubSeq(a, i, j)
           IN  Count(b, c) = 0 /\ Before(b, c) = b /\ After(b, c) = <<>>
<1> DEFINE b == SubSeq(a, i, j)
<1>1. b \in Seq(STRING) /\ Len(b) = j - i + 1 /\ \A x \in 1..(j - i + 1) : b[x] = a[i + x - 1]
  BY SliceAt
<1> HIDE DEF b
<1>2. NoneAt(b, c, 1, Len(b))
  <2>1. ASSUME NEW x \in 1..(j - i + 1) PROVE b[x] # c
    <3>1. i + x - 1 \in i..j
      OBVIOUS
    <3> QED
      BY <1>1, <3>1 DEF NoneAt
  <2> QED
    BY <1>1, <2>1 DEF NoneAt
<1>3. Count(b, c) = 0 /\ Before(b, c) = b /\ After(b, c) = <<>>
  BY <1>1, <1>2, CountNone
<1> QED
  BY <1>3 DEF b

LEMMA PartOnly ==
    ASSUME NEW a \in Seq(STRING), NEW i \in Nat, NEW j \in Nat, i >= 1, i <= j + 1, j <= Len(a),
           NEW c, NEW k \in i..j, OnlyAt(a, c, i, j, k)
    PROVE  LET b == SubSeq(a, i, j)
           IN  /\ Count(b, c) = 1 /\ Before(b, c) = SubSeq(a, i, k - 1)
               /\ After(b, c) = SubSeq(a, k + 1, j)
<1> DEFINE b == SubSeq(a, i, j)
           m == k - i + 1
<1>1. b \in Seq(STRING) /\ Len(b) = j - i + 1 /\ \A x \in 1..(j - i + 1) : b[x] = a[i + x - 1]
  BY SliceAt
<1>2. m \in 1..(j - i + 1) /\ i + m - 1 = k /\ m - 1 \in Nat /\ m + 1 \in Nat
  OBVIOUS
<1>3. SubSeq(b, 1, m - 1) = SubSeq(a, i + 1 - 1, i + (m - 1) - 1)
  BY <1>2, SliceOfSlice
<1>4. SubSeq(b, m + 1, j - i + 1) = SubSeq(a, i + (m + 1) - 1, i + (j - i + 1) - 1)
  <2>1. j - i + 1 \in Nat /\ m + 1 >= 1 /\ m + 1 <= (j - i + 1) + 1 /\ j - i + 1 <= j - i + 1
    BY <1>2
  <2> QED
    BY <1>2, <2>1, SliceOfSlice
<1> HIDE DEF b
<1>5. OnlyAt(b, c, 1, Len(b), m)
  <2>1. ASSUME NEW x \in 1..(j - i + 1), b[x] = c PROVE x = m
    <3>1. i + x - 1 \in i..j
      OBVIOUS
    <3>2. i + x - 1 = k
      BY <1>1, <2>1, <3>1 DEF OnlyAt
    <3> QED
      BY <3>2
  <2>2. b[m] = c
    BY <1>1, <1>2 DEF OnlyAt
  <2> QED
    BY <1>1, <1>2, <2>1, <2>2 DEF OnlyAt
<1>6. /\ Count(b, c) = 1 /\ Before(b, c) = SubSeq(b, 1, m - 1)
      /\ After(b, c) = SubSeq(b, m + 1, j - i + 1)
  BY <1>1, <1>5, CountOnly
<1>7. /\ i + 1 - 1 = i /\ i + (m - 1) - 1 = k - 1 /\ i + (m + 1) - 1 = k + 1
      /\ i + (j - i + 1) - 1 = j
  OBVIOUS
<1> HIDE DEF m
<1>8. Count(b, c) = 1 /\ Before(b, c) = SubSeq(a, i, k - 1) /\ After(b, c) = SubSeq(a, k + 1, j)
  BY <1>3, <1>4, <1>6, <1>7
<1> QED
  BY <1>8 DEF b

LEMMA PartTwice ==
    ASSUME NEW a \in Seq(STRING), NEW i \in Nat, NEW j \in Nat, i >= 1, i <= j + 1, j <= Len(a),
           NEW c, TwiceAt(a, c, i, j)
    PROVE  ~(Count(SubSeq(a, i, j), c) <= 1)
<1> DEFINE b == SubSeq(a, i, j)
<1>1. b \in Seq(STRING) /\ Len(b) = j - i + 1 /\ \A x \in 1..(j - i + 1) : b[x] = a[i + x - 1]
  BY SliceAt
<1> HIDE DEF b
<1>2. PICK x \in i..j, y \in i..j : x # y /\ a[x] = c /\ a[y] = c
  BY DEF TwiceAt
<1>3. /\ x - i + 1 \in 1..(j - i + 1) /\ y - i + 1 \in 1..(j - i + 1) /\ x - i + 1 # y - i + 1
      /\ i + (x - i + 1) - 1 = x /\ i + (y - i + 1) - 1 = y
  BY <1>2
<1>4. b[x - i + 1] = c /\ b[y - i + 1] = c
  BY <1>1, <1>2, <1>3
<1>5. TwiceAt(b, c, 1, Len(b))
  BY <1>1, <1>3, <1>4 DEF TwiceAt
<1> QED
  BY <1>1, <1>5, CountTwice DEF b

-----------------------------------------------------------------------------
\* The parts of an authority without a user and with one.
LEMMA NoUser ==
    ASSUME NEW a \in Seq(STRING), NoneAt(a, "@", 1, Len(a))
    PROVE  /\ Count(a, "@") = 0 /\ UserPart(a) = <<>> /\ HostPart(a) = a
           /\ Count(<<>>, ":") = 0 /\ Before(<<>>, ":") = <<>> /\ After(<<>>, ":") = <<>>
<1>1. Count(a, "@") = 0
  BY CountNone
<1>2. <<>> \in Seq(STRING) /\ Len(<<>>) = 0
  BY EmptySeq
<1>3. NoneAt(<<>>, ":", 1, Len(<<>>))
  BY <1>2 DEF NoneAt
<1>4. Count(<<>>, ":") = 0 /\ Before(<<>>, ":") = <<>> /\ After(<<>>, ":") = <<>>
  BY <1>2, <1>3, CountNone
<1> QED
  BY <1>1, <1>4 DEF UserPart, HostPart

LEMMA WithUser ==
    ASSUME NEW a \in Seq(STRING), NEW m, OnlyAt(a, "@", 1, Len(a), m)
    PROVE  /\ Count(a, "@") = 1
           /\ UserPart(a) = SubSeq(a, 1, m - 1) /\ HostPart(a) = SubSeq(a, m + 1, Len(a))
<1>1. /\ Count(a, "@") = 1 /\ Before(a, "@") = SubSeq(a, 1, m - 1)
      /\ After(a, "@") = SubSeq(a, m + 1, Len(a))
  BY CountOnly
<1> QED
  BY <1>1 DEF UserPart, HostPart

\* What stops the loop makes the text no authority.
LEMMA MalformedIsNot ==
    ASSUME NEW a \in Seq(STRING), NEW j \in 1..Len(a), Malformed(a, j)
    PROVE  ~WellFormed(a)
<1> DEFINE n == Len(a)
<1>0. n \in Nat /\ SubSeq(a, 1, n) = a
  BY WholeSlice
<1>1. \A x \in 1..j : x \in 1..n
  BY <1>0
<1>2. CASE TwiceAt(a, "@", 1, n)
  BY <1>2, CountTwice DEF WellFormed
<1>3. CASE NoneAt(a, "@", 1, n)
  <2>1. ~TwiceAt(a, "@", 1, j) /\ ~\E m \in 1..j : OnlyAt(a, "@", 1, j, m)
    BY <1>1, <1>3 DEF NoneAt, TwiceAt, OnlyAt
  <2>2. PICK i \in 1..j : TwiceAt(a, ":", 1, i)
    BY <2>1 DEF Malformed
  <2>3. \A x \in 1..i : x \in 1..n
    BY <1>0
  <2>4. TwiceAt(a, ":", 1, n)
    BY <2>2, <2>3 DEF TwiceAt
  <2>5. ~(Count(a, ":") <= 1)
    BY <2>4, CountTwice
  <2> QED
    BY <1>3, <2>5, NoUser DEF WellFormed
<1>4. ASSUME NEW k \in 1..n, OnlyAt(a, "@", 1, n, k) PROVE ~WellFormed(a)
  <2>1. ~TwiceAt(a, "@", 1, j)
    BY <1>1, <1>4 DEF TwiceAt, OnlyAt
  <2>2. ASSUME NEW i \in 1..j, TwiceAt(a, ":", 1, i), NoneAt(a, "@", 1, i) PROVE ~WellFormed(a)
    <3>1. ~(k <= i)
      <4>1. a[k] = "@"
        BY <1>4 DEF OnlyAt
      <4>2. k <= i => k \in 1..i
        BY <1>0
      <4> QED
        BY <2>2, <4>1, <4>2 DEF NoneAt
    <3>2. \A x \in 1..i : x \in 1..(k - 1)
      BY <1>0, <3>1
    <3>3. TwiceAt(a, ":", 1, k - 1)
      BY <2>2, <3>2 DEF TwiceAt
    <3>4. k - 1 \in Nat /\ 1 <= (k - 1) + 1 /\ k - 1 <= Len(a)
      BY <1>0
    <3>5. ~(Count(SubSeq(a, 1, k - 1), ":") <= 1)
      BY <3>3, <3>4, PartTwice
    <3> QED
      BY <1>4, <3>5, WithUser DEF WellFormed
  <2>3. ASSUME NEW m \in 1..j, OnlyAt(a, "@", 1, j, m), TwiceAt(a, ":", m + 1, j)
        PROVE  ~WellFormed(a)
    <3>1. m = k
      BY <1>1, <1>4, <2>3 DEF OnlyAt
    <3>2. \A x \in (m + 1)..j : x \in (k + 1)..n
      BY <1>0, <3>1
    <3>3. TwiceAt(a, ":", k + 1, n)
      BY <2>3, <3>2 DEF TwiceAt
    <3>4. k + 1 \in Nat /\ k + 1 >= 1 /\ k + 1 <= n + 1 /\ n <= Len(a)
      BY <1>0
    <3>5. ~(Count(SubSeq(a, k + 1, n), ":") <= 1)
      BY <1>0, <3>3, <3>4, PartTwice
    <3> QED
      BY <1>4, <3>5, WithUser DEF WellFormed
  <2> QED
    BY <2>1, <2>2, <2>3 DEF Malformed
<1>5. TwiceAt(a, "@", 1, n) \/ NoneAt(a, "@", 1, n) \/ \E k \in 1..n : OnlyAt(a, "@", 1, n, k)
  BY DEF TwiceAt, NoneAt, OnlyAt
<1> QED
  BY <1>2, <1>3, <1>4, <1>5

\* Any other text is taken apart where the reference takes it apart.
PartsRight(a, e) ==
    /\ e.err = 0
    /\ Count(a, "@") <= 1 /\ Count(UserPart(a), ":") <= 1 /\ Count(HostPart(a), ":") <= 1
    /\ Text(a, e.user_bgn, e.user_end) = Before(UserPart(a), ":")
    /\ Text(a, e.pass_bgn, e.pass_end) = After(UserPart(a), ":")
    /\ Text(a, e.host_bgn, e.host_end) = Before(HostPart(a), ":")
    /\ Text(a, e.port_bgn, e.port_end) = After(HostPart(a), ":")

LEMMA PlainParts ==
    ASSUME NEW a \in Seq(STRING), NEW s, Plain(a, Len(a), s)
    PROVE  PartsRight(a, ScanEnd(s))
<1> DEFINE n == Len(a)
           e == ScanEnd(s)
<1>0. n \in Nat /\ SubSeq(a, 1, n) = a /\ (n + 1) - 1 = n
  BY WholeSlice
<1>1. /\ Count(a, "@") = 0 /\ UserPart(a) = <<>> /\ HostPart(a) = a
      /\ Count(<<>>, ":") = 0 /\ Before(<<>>, ":") = <<>> /\ After(<<>>, ":") = <<>>
  BY NoUser DEF Plain
<1>2. Count(a, ":") = 0 /\ Before(a, ":") = a /\ After(a, ":") = <<>>
  BY CountNone DEF Plain
<1>3. Count(a, "@") <= 1 /\ Count(UserPart(a), ":") <= 1 /\ Count(HostPart(a), ":") <= 1
  BY <1>1, <1>2
<1>4. CASE n = 0
  <2>1. a = <<>>
    BY <1>4, EmptySeq
  <2>2. /\ e.err = 0 /\ e.user_bgn = 0 /\ e.pass_bgn = 0 /\ e.host_bgn = 0 /\ e.port_bgn = 0
    BY <1>4 DEF Plain, Pointers, ScanEnd
  <2> HIDE DEF e
  <2>3. /\ Text(a, e.user_bgn, e.user_end) = <<>> /\ Text(a, e.pass_bgn, e.pass_end) = <<>>
        /\ Text(a, e.host_bgn, e.host_end) = <<>> /\ Text(a, e.port_bgn, e.port_end) = <<>>
    BY <2>2 DEF Text
  <2> QED
    BY <1>1, <1>2, <1>3, <2>1, <2>2, <2>3, Zenon DEF PartsRight, e
<1>5. CASE n # 0
  <2>1. n + 1 # 1 /\ s = Pointers(n + 1, 0, 0, 0, 0, 0, 0)
    BY <1>0, <1>5 DEF Plain
  <2>2. /\ e.err = 0 /\ e.user_bgn = 0 /\ e.pass_bgn = 0 /\ e.host_bgn = 1 /\ e.port_bgn = 0
        /\ e.host_end = n + 1
    BY <2>1 DEF Pointers, ScanEnd
  <2> HIDE DEF e
  <2>3. Text(a, e.host_bgn, e.host_end) = a
    BY <1>0, <2>2 DEF Text
  <2>4. /\ Text(a, e.user_bgn, e.user_end) = <<>> /\ Text(a, e.pass_bgn, e.pass_end) = <<>>
        /\ Text(a, e.port_bgn, e.port_end) = <<>>
    BY <2>2 DEF Text
  <2> QED
    BY <1>1, <1>2, <1>3, <2>2, <2>3, <2>4, Zenon DEF PartsRight, e
<1> QED
  BY <1>4, <1>5

LEMMA ColonParts ==
    ASSUME NEW a \in Seq(STRING), NEW s, OneColon(a, Len(a), s)
    PROVE  PartsRight(a, ScanEnd(s))
<1> DEFINE n == Len(a)
           e == ScanEnd(s)
<1>0. n \in Nat /\ (n + 1) - 1 = n
  BY WholeSlice
<1>1. PICK u \in 1..n : /\ OnlyAt(a, ":", 1, n, u) /\ NoneAt(a, "@", 1, n)
                        /\ s = Pointers(n + 1, u, u + 1, 0, 0, 0, 0)
  BY DEF OneColon
<1>2. /\ Count(a, "@") = 0 /\ UserPart(a) = <<>> /\ HostPart(a) = a
      /\ Count(<<>>, ":") = 0 /\ Before(<<>>, ":") = <<>> /\ After(<<>>, ":") = <<>>
  BY <1>1, NoUser
<1>3. /\ Count(a, ":") = 1 /\ Before(a, ":") = SubSeq(a, 1, u - 1)
      /\ After(a, ":") = SubSeq(a, u + 1, n)
  BY <1>1, CountOnly
<1>4. n + 1 # 1 /\ u # 0 /\ u + 1 # 0
  BY <1>0
<1>5. /\ e.err = 0 /\ e.user_bgn = 0 /\ e.pass_bgn = 0 /\ e.host_bgn = 1 /\ e.host_end = u
      /\ e.port_bgn = u + 1 /\ e.port_end = n + 1
  BY <1>1, <1>4 DEF Pointers, ScanEnd
<1> HIDE DEF e
<1>6. Text(a, e.host_bgn, e.host_end) = SubSeq(a, 1, u - 1)
  BY <1>5 DEF Text
<1>7. Text(a, e.port_bgn, e.port_end) = SubSeq(a, u + 1, n)
  BY <1>0, <1>4, <1>5 DEF Text
<1>8. Text(a, e.user_bgn, e.user_end) = <<>> /\ Text(a, e.pass_bgn, e.pass_end) = <<>>
  BY <1>5 DEF Text
<1>9. Count(a, "@") <= 1 /\ Count(UserPart(a), ":") <= 1 /\ Count(HostPart(a), ":") <= 1
  BY <1>2, <1>3
<1> QED
  BY <1>2, <1>3, <1>5, <1>6, <1>7, <1>8, <1>9, Zenon DEF PartsRight, e

LEMMA UserParts ==
    ASSUME NEW a \in Seq(STRING), NEW s, UserAndHost(a, Len(a), s)
    PROVE  PartsRight(a, ScanEnd(s))
<1> DEFINE n == Len(a)
           e == ScanEnd(s)
<1>0. n \in Nat /\ (n + 1) - 1 = n
  BY WholeSlice
<1>1. PICK m \in 1..n, user_end \in 0..(n + 1), pass_bgn \in 0..(n + 1), pass_end \in 0..(n + 1),
           host_end \in 0..(n + 1), port_bgn \in 0..(n + 1) :
        /\ OnlyAt(a, "@", 1, n, m)
        /\ UserAt(a, m, user_end, pass_bgn, pass_end) /\ HostAt(a, m, n, host_end, port_bgn)
        /\ s = Pointers(n + 1, user_end, pass_bgn, pass_end, m + 1, host_end, port_bgn)
  BY DEF UserAndHost
<1>2. /\ Count(a, "@") = 1
      /\ UserPart(a) = SubSeq(a, 1, m - 1) /\ HostPart(a) = SubSeq(a, m + 1, n)
  BY <1>1, WithUser
<1>3. /\ m - 1 \in Nat /\ 1 <= (m - 1) + 1 /\ m - 1 <= n
      /\ m + 1 \in Nat /\ m + 1 >= 1 /\ m + 1 <= n + 1 /\ n + 1 # 1 /\ m + 1 # 0
  BY <1>0
<1>4. /\ e.err = 0 /\ e.user_bgn = 1 /\ e.user_end = user_end /\ e.pass_bgn = pass_bgn
      /\ e.pass_end = pass_end /\ e.host_bgn = m + 1 /\ e.port_bgn = port_bgn
      /\ e.host_end = IF host_end = 0 THEN n + 1 ELSE host_end
      /\ host_end # 0 => e.port_end = n + 1
  <2>1. user_end # 0 /\ (pass_bgn = 0 \/ pass_end # 0)
    BY <1>1 DEF UserAt
  <2>2. e = IF host_end = 0 THEN [s EXCEPT !.host_end = n + 1] ELSE [s EXCEPT !.port_end = n + 1]
    BY <1>1, <1>3, <2>1 DEF Pointers, ScanEnd
  <2> HIDE DEF e
  <2> QED
    BY <1>1, <2>2 DEF Pointers
<1> HIDE DEF e
<1>5. /\ Count(UserPart(a), ":") <= 1
      /\ Text(a, e.user_bgn, e.user_end) = Before(UserPart(a), ":")
      /\ Text(a, e.pass_bgn, e.pass_end) = After(UserPart(a), ":")
  <2> DEFINE b == SubSeq(a, 1, m - 1)
  <2>1. CASE NoneAt(a, ":", 1, m - 1) /\ user_end = m /\ pass_bgn = 0
    <3>1. Count(b, ":") = 0 /\ Before(b, ":") = b /\ After(b, ":") = <<>>
      BY <1>0, <1>3, <2>1, PartNone
    <3>2. Text(a, e.user_bgn, e.user_end) = b
      BY <1>4, <2>1 DEF Text
    <3>3. Text(a, e.pass_bgn, e.pass_end) = <<>>
      BY <1>4, <2>1 DEF Text
    <3> QED
      BY <1>2, <3>1, <3>2, <3>3
  <2>2. CASE /\ user_end \in 1..(m - 1) /\ OnlyAt(a, ":", 1, m - 1, user_end)
             /\ pass_bgn = user_end + 1 /\ pass_end = m
    <3>1. /\ Count(b, ":") = 1 /\ Before(b, ":") = SubSeq(a, 1, user_end - 1)
          /\ After(b, ":") = SubSeq(a, user_end + 1, m - 1)
      BY <1>0, <1>3, <2>2, PartOnly
    <3>2. Text(a, e.user_bgn, e.user_end) = SubSeq(a, 1, user_end - 1)
      BY <1>4 DEF Text
    <3>3. user_end + 1 # 0
      BY <2>2
    <3>4. Text(a, e.pass_bgn, e.pass_end) = SubSeq(a, user_end + 1, m - 1)
      BY <1>4, <2>2, <3>3 DEF Text
    <3> QED
      BY <1>2, <3>1, <3>2, <3>4
  <2> QED
    BY <1>1, <2>1, <2>2 DEF UserAt
<1>6. /\ Count(HostPart(a), ":") <= 1
      /\ Text(a, e.host_bgn, e.host_end) = Before(HostPart(a), ":")
      /\ Text(a, e.port_bgn, e.port_end) = After(HostPart(a), ":")
  <2> DEFINE b == SubSeq(a, m + 1, n)
  <2>1. CASE NoneAt(a, ":", m + 1, n) /\ host_end = 0 /\ port_bgn = 0
    <3>1. Count(b, ":") = 0 /\ Before(b, ":") = b /\ After(b, ":") = <<>>
      BY <1>0, <1>3, <2>1, PartNone
    <3>2. Text(a, e.host_bgn, e.host_end) = b
      BY <1>0, <1>3, <1>4, <2>1 DEF Text
    <3>3. Text(a, e.port_bgn, e.port_end) = <<>>
      BY <1>4, <2>1 DEF Text
    <3> QED
      BY <1>2, <3>1, <3>2, <3>3
  <2>2. CASE /\ host_end \in (m + 1)..n /\ OnlyAt(a, ":", m + 1, n, host_end)
             /\ port_bgn = host_end + 1
    <3>1. /\ Count(b, ":") = 1 /\ Before(b, ":") = SubSeq(a, m + 1, host_end - 1)
          /\ After(b, ":") = SubSeq(a, host_end + 1, n)
      BY <1>0, <1>3, <2>2, PartOnly
    <3>2. host_end # 0 /\ host_end + 1 # 0
      BY <1>0, <2>2
    <3>3. Text(a, e.host_bgn, e.host_end) = SubSeq(a, m + 1, host_end - 1)
      BY <1>3, <1>4, <3>2 DEF Text
    <3>4. Text(a, e.port_bgn, e.port_end) = SubSeq(a, host_end + 1, n)
      BY <1>0, <1>4, <2>2, <3>2 DEF Text
    <3> QED
      BY <1>2, <3>1, <3>3, <3>4
  <2> QED
    BY <1>1, <2>1, <2>2 DEF HostAt
<1>7. Count(a, "@") <= 1
  BY <1>2
<1> QED
  BY <1>4, <1>5, <1>6, <1>7, Zenon DEF PartsRight, e

\* The value of the first n digits of a text.
IsValue(f, d, n) ==
    f = [i \in 0..n |-> IF i = 0 THEN 0 ELSE 10 * f[i - 1] + DigitValue[d[i]]]

LEMMA ValueExists ==
    ASSUME NEW d
    PROVE  \A n \in Nat : \E f : IsValue(f, d, n)
<1> DEFINE Wrong == {n \in Nat : ~\E f : IsValue(f, d, n)}
<1> SUFFICES ASSUME Wrong # {} PROVE FALSE
  OBVIOUS
<1>1. PICK n \in Wrong : \A m \in Wrong : n <= m
  BY Least
<1>2. n # 0
  <2>1. IsValue([i \in 0..0 |-> 0], d, 0)
    BY DEF IsValue
  <2> QED
    BY <1>1, <2>1
<1>3. n - 1 \in Nat /\ n - 1 \notin Wrong
  BY <1>1, <1>2
<1>4. PICK f : IsValue(f, d, n - 1)
  BY <1>3
<1> DEFINE g == [i \in 0..n |-> IF i = n THEN 10 * f[n - 1] + DigitValue[d[n]] ELSE f[i]]
<1>5. ASSUME NEW i \in 0..n PROVE g[i] = IF i = 0 THEN 0 ELSE 10 * g[i - 1] + DigitValue[d[i]]
  <2>1. \A k \in 0..(n - 1) : f[k] = IF k = 0 THEN 0 ELSE 10 * f[k - 1] + DigitValue[d[k]]
    BY <1>4 DEF IsValue
  <2>2. CASE i = 0
    BY <1>2, <1>3, <2>1, <2>2
  <2>3. CASE i # 0 /\ i # n
    <3>1. i \in 0..(n - 1) /\ i - 1 \in 0..n /\ i - 1 # n
      BY <1>1, <2>3
    <3>2. g[i] = f[i] /\ g[i - 1] = f[i - 1]
      BY <2>3, <3>1
    <3> QED
      BY <2>1, <2>3, <3>1, <3>2
  <2>4. CASE i = n
    <3>1. n - 1 \in 0..n /\ n - 1 # n
      BY <1>1, <1>2
    <3>2. g[n - 1] = f[n - 1] /\ g[n] = 10 * f[n - 1] + DigitValue[d[n]]
      BY <1>1, <3>1
    <3> QED
      BY <1>2, <2>4, <3>2
  <2> QED
    BY <2>2, <2>3, <2>4
<1>6. IsValue(g, d, n)
  <2>1. g = [i \in 0..n |-> g[i]]
    OBVIOUS
  <2> HIDE DEF g
  <2> QED
    BY <1>5, <2>1 DEF IsValue
<1> QED
  BY <1>1, <1>6

\* Digits write a number.
LEMMA NumberIsNat ==
    ASSUME NEW d \in Seq(STRING), Range(d) \subseteq {"0", "1"}
    PROVE  Number(d) \in Nat
<1> DEFINE n == Len(d)
           f == CHOOSE g : IsValue(g, d, n)
<1>1. n \in Nat /\ DOMAIN d = 1..n
  BY LenProperties
<1>2. IsValue(f, d, n)
  BY <1>1, ValueExists
<1>3. Number(d) = f[n]
  BY DEF Number, IsValue
<1> HIDE DEF f
<1>4. \A i \in 0..n : f[i] = IF i = 0 THEN 0 ELSE 10 * f[i - 1] + DigitValue[d[i]]
  BY <1>2 DEF IsValue
<1>5. \A i \in 1..n : DigitValue[d[i]] \in Nat
  <2>1. \A i \in 1..n : d[i] \in {"0", "1"}
    BY <1>1 DEF Range
  <2> QED
    BY <2>1 DEF DigitValue
<1> DEFINE Wrong == {i \in 0..n : f[i] \notin Nat}
<1>6. ASSUME Wrong # {} PROVE FALSE
  <2>1. PICK i \in Wrong : \A k \in Wrong : i <= k
    <3>1. Wrong \in SUBSET Nat
      BY <1>1
    <3> QED
      BY <1>6, <3>1, Least
  <2>2. i # 0
    BY <1>1, <1>4, <2>1
  <2>3. i \in 1..n /\ i - 1 \in 0..n /\ i - 1 \notin Wrong
    BY <1>1, <2>1, <2>2
  <2>4. f[i - 1] \in Nat /\ f[i] = 10 * f[i - 1] + DigitValue[d[i]] /\ DigitValue[d[i]] \in Nat
    BY <1>4, <1>5, <2>2, <2>3
  <2>5. f[i] \in Nat
    BY <2>4
  <2> QED
    BY <2>1, <2>5
<1> QED
  BY <1>1, <1>3, <1>6

\* atoi is exact on what an int holds.
LEMMA AtoiIs ==
    ASSUME NEW d, Number(d) \in 0..IntMax
    PROVE  Atoi(d) = Number(d)
<1> DEFINE m == 2 * (IntMax + 1)
           x == Number(d) + IntMax + 1
<1>1. m \in Nat \ {0} /\ x \in 0..(m - 1)
  BY PortAssumption
<1>2. Atoi(d) = (x % m) - (IntMax + 1)
  BY PortAssumption DEF Atoi, ToInt
<1> HIDE DEF m, x
<1>3. x % m = x
  BY <1>1
<1> QED
  BY <1>2, <1>3, PortAssumption DEF x

\* What comes after a character is part of the text.
LEMMA AfterIsSeq ==
    ASSUME NEW a \in Seq(STRING), NEW c
    PROVE  After(a, c) \in Seq(STRING)
<1>1. CASE First(a, c) = 0
  <2>1. <<>> \in Seq(STRING)
    BY EmptySeq
  <2> QED
    BY <1>1, <2>1 DEF After
<1>2. CASE First(a, c) # 0
  <2> DEFINE S == {i \in DOMAIN a : a[i] = c}
  <2>1. DOMAIN a = 1..Len(a) /\ Len(a) \in Nat
    BY LenProperties
  <2>2. S # {}
    BY <1>2, FS_EmptySet DEF First, Count
  <2>3. PICK i \in S : \A j \in S : i <= j
    <3>1. S \in SUBSET Nat
      BY <2>1
    <3> HIDE DEF S
    <3> QED
      BY <2>2, <3>1, Least
  <2>4. First(a, c) \in DOMAIN a
    <3>1. Count(a, c) # 0
      BY <1>2 DEF First
    <3>2. First(a, c) = CHOOSE x \in DOMAIN a : a[x] = c /\ \A y \in DOMAIN a : a[y] = c => x <= y
      BY <3>1 DEF First
    <3>3. i \in DOMAIN a /\ a[i] = c /\ \A y \in DOMAIN a : a[y] = c => i <= y
      BY <2>3
    <3> QED
      BY <3>2, <3>3
  <2>5. First(a, c) + 1 \in 1..(Len(a) + 1)
    BY <2>1, <2>4
  <2>6. \A k \in (First(a, c) + 1)..Len(a) : a[k] \in STRING
    BY <2>1, <2>5, ElementOfSeq
  <2>7. SubSeq(a, First(a, c) + 1, Len(a)) \in Seq(STRING)
    BY <2>1, <2>5, <2>6, SubSeqProperties
  <2> QED
    BY <1>2, <2>7 DEF After
<1> QED
  BY <1>1, <1>2

\* url_parse against the reference, for any text and any greatest port.
LEMMA UrlParseRight ==
    ASSUME url.authority \in Seq(STRING)
    PROVE  UrlTakenApart
<1> DEFINE a == url.authority
           s == Scan(a)[Len(a)]
           e == IF s.err = 0 THEN ScanEnd(s) ELSE s
           host == Before(HostPart(a), ":")
           port == PortPart(a)
<1> SUFFICES ASSUME url.scheme = "http"
             PROVE  /\ WellFormed(a) /\ GoodPort(port) => url_parse(url).err = 0
                    /\ url_parse(url).err = 0 =>
                        /\ WellFormed(a) /\ (GoodPort(port) \/ Number(port) > IntMax)
                        /\ url_parse(url).user = Before(UserPart(a), ":")
                        /\ url_parse(url).password = After(UserPart(a), ":")
                        /\ url_parse(url).host = host
                        /\ url_parse(url).port = Number(port) \/ Number(port) > IntMax
  BY DEF UrlTakenApart
<1>1. url_parse(url) = Fields(a, e)
  BY DEF url_parse
<1>2. ScanOK(a, Len(a), s)
  BY ScanIs, ScanRight
<1> HIDE DEF s
<1>3. CASE s.err # 0
  <2>1. s.err \in {-4, -5, -6} /\ \E j \in 1..Len(a) : Malformed(a, j)
    BY <1>2, <1>3 DEF ScanOK
  <2>2. ~WellFormed(a)
    BY <2>1, MalformedIsNot
  <2>3. Fields(a, e).err # 0
    BY <1>3 DEF Fields
  <2> QED
    BY <1>1, <2>2, <2>3
<1>4. CASE s.err = 0
  <2>1. PartsRight(a, e)
    BY <1>2, <1>4, PlainParts, ColonParts, UserParts DEF ScanOK
  <2> DEFINE digits == "!" \notin Range(host) /\ Range(port) \subseteq {"0", "1"}
             legal == digits /\ (port = <<>> \/ Atoi(port) \in 1..MaxPort)
  <2> HIDE DEF e
  <2>2. WellFormed(a) <=> digits
    BY <2>1 DEF PartsRight, WellFormed
  <2>3. e.err = 0 /\ Text(a, e.host_bgn, e.host_end) = host /\ Text(a, e.port_bgn, e.port_end) = port
    BY <2>1 DEF PartsRight, PortPart
  <2>4. port \in Seq(STRING)
    <3>1. HostPart(a) \in Seq(STRING)
      BY AfterIsSeq DEF HostPart
    <3> QED
      BY <3>1, AfterIsSeq DEF PortPart
  <2> HIDE DEF host, port
  <2>5. ASSUME digits PROVE Number(port) \in Nat /\ (Number(port) <= IntMax => Atoi(port) = Number(port))
    <3>1. Number(port) \in Nat
      BY <2>4, <2>5, NumberIsNat
    <3> QED
      BY <3>1, AtoiIs, PortAssumption
  <2>6. CASE legal
    <3>1. Fields(a, e) = [err |-> 0, host |-> host, port |-> Atoi(port),
                          user |-> Text(a, e.user_bgn, e.user_end),
                          password |-> Text(a, e.pass_bgn, e.pass_end)]
      BY <2>3, <2>6 DEF Fields
    <3>2. GoodPort(port) \/ Number(port) > IntMax
      BY <2>5, <2>6, PortAssumption DEF GoodPort
    <3>3. Atoi(port) = Number(port) \/ Number(port) > IntMax
      BY <2>5, <2>6, PortAssumption
    <3> QED
      BY <1>1, <2>1, <2>2, <2>6, <3>1, <3>2, <3>3 DEF PartsRight, host
  <2>7. CASE ~legal
    <3>1. Fields(a, e).err # 0
      BY <2>3, <2>7 DEF Fields
    <3>2. ~(WellFormed(a) /\ GoodPort(port))
      BY <2>2, <2>5, <2>7, PortAssumption DEF GoodPort
    <3> QED
      BY <1>1, <3>1, <3>2
  <2> QED
    BY <2>6, <2>7
<1> QED
  BY <1>3, <1>4

\* What the program and the server give the client is read right, for any text of a
\* url, any greatest port, any size of an int and any header: url_parse accepts every
\* well-formed authority with a good port, no other but those whose port no int holds,
\* and takes each apart where it should; a body is read after a good header only.
THEOREM HttpInputsJudged == HttpSpec => []InputsJudged
<1>1. HttpIndInv => InputsJudged
  BY UrlParseRight DEF HttpIndInv, HttpTypes, HeaderInv, InputsJudged
<1> QED
  BY <1>1, HttpInvariance, PTL
=============================================================================
