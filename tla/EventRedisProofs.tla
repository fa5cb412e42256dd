-------------------------- MODULE EventRedisProofs --------------------------
(***************************************************************************)
(* Proofs about the two components whose tasks each wait for a handle or a *)
(* request of their own, EventTasks and RedisConn.                         *)
(***************************************************************************)
EXTENDS EventTasks, RedisConn, FiniteSetTheorems, SequenceTheorems, TLAPS

-----------------------------------------------------------------------------
(***************************************************************************)
(* Proofs about EventTasks, for any sets of tasks and names and any number *)
(* of handles and requests.                                                *)
(*                                                                         *)
(* A callback goes from a handle to a task, cancel() and notify() go from  *)
(* a task to a handle.  That the two ways agree (WaitsSound) is inductive  *)
(* once it is known that no two open handles have the same number, so that *)
(* closing the one a task points to closes no other, and that only a       *)
(* lookup can be without its task.                                         *)
(***************************************************************************)

\* Open handles and requests are numbered apart.
Numbering ==
    \A o, p \in objs : o.id = p.id => o = p

\* Numbers given so far.
Given == \A o \in objs : o.id <= made

\* Only getaddrinfo::cancel takes the task from a request.
Owned == \A o \in objs : o.kind # "dns" => o.data # NULL

\* The handles' part of the invariant.
HandlesInv == /\ objs \subseteq Objects
              /\ Numbering /\ Given /\ Owned /\ CallbackFindsItsWait

EventIndInv == EventTypeOK /\ HandlesInv /\ NotifyReachesWaiter

LEMMA EventInitOK == EventInit => EventIndInv
<1> SUFFICES ASSUME EventInit PROVE EventIndInv
  OBVIOUS
<1> USE NullAssumption, NameAssumption, OpsAssumption DEF EventInit
<1>1. EventTypeOK
  BY DEF EventTypeOK
<1>2. HandlesInv
  BY DEF HandlesInv, Numbering, Given, Owned, CallbackFindsItsWait
<1>3. NotifyReachesWaiter
  BY DEF NotifyReachesWaiter
<1> QED
  BY <1>1, <1>2, <1>3 DEF EventIndInv

-----------------------------------------------------------------------------
\* Facts about the handle of a waiting task.

\* An open handle with a task is the one that task waits for.
LEMMA HandleOfTask ==
    ASSUME EventIndInv, NEW o \in objs, o.data # NULL
    PROVE  /\ o.data \in Task /\ o.kind \in Kind /\ o.id \in 1..MaxOps
           /\ waiting[o.data] = o.kind
           /\ o.kind = "sync" => o.id = async[o.data] 
           /\ o.kind # "sync" => o.id = req[o.data]
BY DEF EventIndInv, HandlesInv, Objects, CallbackFindsItsWait

\* A waiting task has a handle, and finds it by its number.
LEMMA TaskHasHandle ==
    ASSUME EventIndInv, NEW t \in Task, waiting[t] # "no"
    PROVE  \E o \in objs : /\ o.data = t
                           /\ waiting[t] = "sync" => Numbered(async[t]) = {o}
                           /\ waiting[t] # "sync" => Numbered(req[t]) = {o}
<1>1. PICK o \in objs : o.data = t
  BY DEF EventIndInv, HandlesInv, CallbackFindsItsWait
<1>2. o.data # NULL
  BY <1>1, NullAssumption, NameAssumption
<1>3. /\ waiting[t] = "sync" => o.id = async[t]
      /\ waiting[t] # "sync" => o.id = req[t]
  BY <1>1, <1>2, HandleOfTask
<1>4. \A p \in objs : p.id = o.id => p = o
  BY DEF EventIndInv, HandlesInv, Numbering
<1> QED
  BY <1>1, <1>3, <1>4 DEF Numbered

\* No two handles have one task.
LEMMA OneHandleEach ==
    ASSUME EventIndInv, NEW o \in objs, NEW p \in objs, o.data # NULL, o.data = p.data
    PROVE  o = p
<1>1. o.id = p.id
  BY HandleOfTask
<1> QED
  BY <1>1 DEF EventIndInv, HandlesInv, Numbering

-----------------------------------------------------------------------------
\* run() of any of the three, up to its yield: the new handle is the only one
\* that names the task.
LEMMA BeginOK ==
    ASSUME EventIndInv, NEW t \in Task, NEW k \in Kind, Begin(t, k),
           k = "sync" => async' = [async EXCEPT ![t] = made + 1] /\ UNCHANGED req,
           k # "sync" => req' = [req EXCEPT ![t] = made + 1] /\ UNCHANGED async
    PROVE  /\ HandlesInv'
           /\ waiting' \in [Task -> Kind \cup {"no"}]
           /\ async' \in [Task -> 0..MaxOps] /\ req' \in [Task -> 0..MaxOps]
           /\ made' \in 0..MaxOps
           /\ results' \in [1..MaxOps -> {"none", "pending", "given", "freed"}]
           /\ told' \in [Task -> {"none", "notified", "slept", "result", "error", "canceled"}]
<1> USE NullAssumption, NameAssumption, OpsAssumption
<1> DEFINE n == Object(k, t)
<1>1. /\ waiting[t] = "no" /\ made < MaxOps /\ made \in Nat
      /\ waiting' = [waiting EXCEPT ![t] = k]
      /\ objs' = objs \cup {n}
      /\ made' = made + 1
      /\ told' = [told EXCEPT ![t] = "none"]
      /\ results' = results
      /\ n.id = made + 1 /\ n.kind = k /\ n.data = t
      /\ n \in Objects
  BY DEF Begin, Object, Objects, EventIndInv, EventTypeOK
<1>2. /\ waiting' \in [Task -> Kind \cup {"no"}]
      /\ made' \in 0..MaxOps
      /\ results' \in [1..MaxOps -> {"none", "pending", "given", "freed"}]
      /\ told' \in [Task -> {"none", "notified", "slept", "result", "error", "canceled"}]
  BY <1>1 DEF EventIndInv, EventTypeOK
<1>3. async' \in [Task -> 0..MaxOps] /\ req' \in [Task -> 0..MaxOps]
  <2>1. made + 1 \in 0..MaxOps
    BY <1>1
  <2>2. async \in [Task -> 0..MaxOps] /\ req \in [Task -> 0..MaxOps]
    BY DEF EventIndInv, EventTypeOK
  <2>3. CASE k = "sync"
    BY <2>1, <2>2, <2>3
  <2>4. CASE k # "sync"
    BY <2>1, <2>2, <2>4
  <2> QED
    BY <2>3, <2>4
<1>4. \A o \in objs : o.id \in Nat /\ o.id <= made
  BY DEF EventIndInv, HandlesInv, Objects, Given
<1>5. \A o \in objs : o.data # t
  BY <1>1, HandleOfTask DEF Kind
<1> HIDE DEF n
<1>6. objs' \subseteq Objects
  BY <1>1 DEF EventIndInv, EventTypeOK
<1>7. Numbering' /\ Given'
  BY <1>1, <1>4 DEF Numbering, Given, EventIndInv, HandlesInv
<1>8. Owned'
  BY <1>1 DEF Owned, EventIndInv, HandlesInv
<1>9. CallbackFindsItsWait'
  <2>1. ASSUME NEW o \in objs', o.data # NULL
        PROVE  waiting'[o.data] = o.kind /\ o.id = IF o.kind = "sync" THEN async'[o.data] ELSE req'[o.data]
    <3>1. CASE o = n
      BY <1>1, <3>1 DEF EventIndInv, EventTypeOK
    <3>2. CASE o \in objs
      BY <1>1, <1>5, <3>2, <2>1, HandleOfTask DEF EventIndInv, EventTypeOK
    <3> QED
      BY <1>1, <2>1, <3>1, <3>2
  <2>2. ASSUME NEW q \in Task, waiting'[q] # "no" PROVE \E o \in objs' : o.data = q
    BY <1>1, <2>2 DEF EventIndInv, HandlesInv, EventTypeOK, CallbackFindsItsWait
  <2> QED
    BY <2>1, <2>2 DEF CallbackFindsItsWait
<1> QED
  BY <1>2, <1>3, <1>6, <1>7, <1>8, <1>9 DEF HandlesInv

\* The task goes on or is canceled: its handle is closed, or kept without it.
LEMMA EndOK ==
    ASSUME EventIndInv, NEW o \in objs, o.data # NULL, NEW how,
           how \in {"none", "notified", "slept", "result", "error", "canceled"},
           End(o.data, how), UNCHANGED req,
           async' = async \/ async' = ClearedPointer(o.data),
           \A p \in objs : p # o => p \in objs',
           \A p \in objs' : \/ p \in objs /\ p # o
                            \/ p \in Objects /\ p.id = o.id /\ p.kind = "dns" /\ p.data = NULL,
           \A p, q \in objs' : p.id = o.id /\ q.id = o.id => p = q
    PROVE  /\ HandlesInv'
           /\ waiting' \in [Task -> Kind \cup {"no"}]
           /\ async' \in [Task -> 0..MaxOps] /\ req' \in [Task -> 0..MaxOps]
           /\ made' \in 0..MaxOps
           /\ told' \in [Task -> {"none", "notified", "slept", "result", "error", "canceled"}]
<1> USE NullAssumption, NameAssumption, OpsAssumption
<1> DEFINE t == o.data
<1>1. /\ t \in Task
      /\ waiting' = [waiting EXCEPT ![t] = "no"]
      /\ told' = [told EXCEPT ![t] = how]
      /\ made' = made
  BY HandleOfTask DEF End
<1>2. /\ waiting' \in [Task -> Kind \cup {"no"}]
      /\ async' \in [Task -> 0..MaxOps] /\ req' \in [Task -> 0..MaxOps]
      /\ made' \in 0..MaxOps
      /\ told' \in [Task -> {"none", "notified", "slept", "result", "error", "canceled"}]
  <2>1. async' \in [Task -> 0..MaxOps]
    <3>1. CASE async' = async
      BY <3>1 DEF EventIndInv, EventTypeOK
    <3>2. CASE async' = ClearedPointer(t)
      BY <1>1, <3>2 DEF EventIndInv, EventTypeOK, ClearedPointer
    <3> QED
      BY <3>1, <3>2
  <2> QED
    BY <1>1, <2>1 DEF EventIndInv, EventTypeOK
<1>3. \A p \in objs : p.data # NULL => p = o \/ (p.data \in Task /\ p.data # t)
  BY HandleOfTask, OneHandleEach
<1>4. objs' \subseteq Objects
  BY DEF EventIndInv, HandlesInv
<1>5. \A p \in objs : p.id = o.id => p = o
  BY DEF EventIndInv, HandlesInv, Numbering
<1>6. Numbering'
  <2> SUFFICES ASSUME NEW p \in objs', NEW q \in objs', p.id = q.id PROVE p = q
    BY DEF Numbering
  <2>1. CASE p.id = o.id
    BY <2>1
  <2>2. CASE p.id # o.id
    BY <2>2 DEF EventIndInv, HandlesInv, Numbering
  <2> QED
    BY <2>1, <2>2
<1>7. Given' /\ Owned'
  BY <1>1 DEF EventIndInv, HandlesInv, Given, Owned
<1>8. CallbackFindsItsWait'
  <2>1. ASSUME NEW p \in objs', p.data # NULL
        PROVE  waiting'[p.data] = p.kind /\ p.id = IF p.kind = "sync" THEN async'[p.data] ELSE req'[p.data]
    <3>1. p \in objs /\ p # o
      BY <2>1
    <3>2. p.data \in Task /\ p.data # t
      BY <1>3, <2>1, <3>1
    <3>3. waiting'[p.data] = waiting[p.data] /\ async'[p.data] = async[p.data] /\ req' = req
      BY <1>1, <3>2 DEF EventIndInv, EventTypeOK, ClearedPointer
    <3> QED
      BY <2>1, <3>1, <3>3, HandleOfTask
  <2>2. ASSUME NEW q \in Task, waiting'[q] # "no" PROVE \E p \in objs' : p.data = q
    <3>1. q # t /\ waiting[q] # "no"
      BY <1>1, <2>2 DEF EventIndInv, EventTypeOK
    <3> QED
      BY <3>1 DEF EventIndInv, HandlesInv, CallbackFindsItsWait
  <2> QED
    BY <2>1, <2>2 DEF CallbackFindsItsWait
<1> QED
  BY <1>2, <1>4, <1>6, <1>7, <1>8 DEF HandlesInv

\* A handle changes its state only.
LEMMA StateOK ==
    ASSUME EventIndInv, UNCHANGED <<waiting, async, req, made>>,
           NEW D \in SUBSET objs, NEW s \in {"armed", "due", "answered", "failed"},
           objs' = (objs \ D) \cup {[o EXCEPT !.state = s] : o \in D}
    PROVE  HandlesInv'
<1> DEFINE M(o) == [o EXCEPT !.state = s]
<1>b. \A o \in Objects : /\ M(o) \in Objects
                         /\ M(o).id = o.id /\ M(o).kind = o.kind /\ M(o).data = o.data
  BY DEF Objects
<1>a. objs \subseteq Objects /\ D \subseteq objs /\ objs' = (objs \ D) \cup {M(o) : o \in D}
  BY DEF EventIndInv, EventTypeOK
<1> HIDE DEF M
<1>1. \A p \in objs' : \E o \in objs : p.id = o.id /\ p.kind = o.kind /\ p.data = o.data
  BY <1>b, <1>a
<1>2. \A o \in objs : \E p \in objs' : p.id = o.id /\ p.kind = o.kind /\ p.data = o.data
  <2> SUFFICES ASSUME NEW o \in objs
               PROVE  \E p \in objs' : p.id = o.id /\ p.kind = o.kind /\ p.data = o.data
    OBVIOUS
  <2>1. CASE o \in D
    <3>1. M(o) \in objs'
      BY <1>a, <2>1
    <3> QED
      BY <1>b, <1>a, <3>1
  <2>2. CASE o \notin D
    BY <1>a, <2>2
  <2> QED
    BY <2>1, <2>2
<1>3. objs' \subseteq Objects
  BY <1>b, <1>a
<1>4. Numbering'
  <2> SUFFICES ASSUME NEW p \in objs', NEW q \in objs', p.id = q.id PROVE p = q
    BY DEF Numbering
  <2>2. PICK o \in objs : (p = o /\ o \notin D) \/ (p = M(o) /\ o \in D)
    BY <1>a
  <2>3. PICK u \in objs : (q = u /\ u \notin D) \/ (q = M(u) /\ u \in D)
    BY <1>a
  <2>4. o.id = u.id
    BY <1>b, <1>a, <2>2, <2>3
  <2>5. o = u
    BY <2>4 DEF EventIndInv, HandlesInv, Numbering
  <2> QED
    BY <2>2, <2>3, <2>5
<1>5. Given' /\ Owned'
  BY <1>1 DEF EventIndInv, HandlesInv, Given, Owned
<1>6. CallbackFindsItsWait'
  <2>1. ASSUME NEW p \in objs', p.data # NULL
        PROVE  waiting'[p.data] = p.kind /\ p.id = IF p.kind = "sync" THEN async'[p.data] ELSE req'[p.data]
    BY <1>1, <2>1, HandleOfTask
  <2>2. ASSUME NEW q \in Task, waiting'[q] # "no" PROVE \E p \in objs' : p.data = q
    <3>1. waiting[q] # "no"
      BY <2>2
    <3>2. PICK o \in objs : o.data = q
      BY <3>1 DEF EventIndInv, HandlesInv, CallbackFindsItsWait
    <3> QED
      BY <1>2, <3>2
  <2> QED
    BY <2>1, <2>2 DEF CallbackFindsItsWait
<1> QED
  BY <1>3, <1>4, <1>5, <1>6 DEF HandlesInv

-----------------------------------------------------------------------------
\* The operations.

LEMMA RunSyncOK ==
    ASSUME EventIndInv, NEW t \in Task, NEW n \in Name \cup {NULL}, RunSync(t, n)
    PROVE  EventIndInv'
<1> USE NullAssumption, NameAssumption, OpsAssumption
<1>1. /\ Begin(t, "sync")
      /\ n # NULL => ids[n] = NULL
      /\ name' = [name EXCEPT ![t] = n]
      /\ async' = [async EXCEPT ![t] = made + 1] /\ req' = req
      /\ ids' = [m \in Name |-> IF m = n THEN t ELSE ids[m]]
      /\ owed' = [owed EXCEPT ![t] = FALSE]
      /\ waiting[t] = "no" /\ waiting' = [waiting EXCEPT ![t] = "sync"]
      /\ made + 1 # 0
  BY DEF RunSync, Begin, EventIndInv, EventTypeOK
<1>2. "sync" \in Kind
  BY DEF Kind
<1>3. HandlesInv' /\ EventTypeOK'
  <2>1. /\ name' \in [Task -> Name \cup {NULL}]
        /\ ids' \in [Name -> Task \cup {NULL}]
        /\ owed' \in [Task -> BOOLEAN]
    BY <1>1 DEF EventIndInv, EventTypeOK
  <2>2. /\ HandlesInv'
        /\ waiting' \in [Task -> Kind \cup {"no"}]
        /\ async' \in [Task -> 0..MaxOps] /\ req' \in [Task -> 0..MaxOps]
        /\ made' \in 0..MaxOps
        /\ results' \in [1..MaxOps -> {"none", "pending", "given", "freed"}]
        /\ told' \in [Task -> {"none", "notified", "slept", "result", "error", "canceled"}]
    BY <1>1, <1>2, BeginOK
  <2>3. objs' \subseteq Objects
    BY <2>2 DEF HandlesInv
  <2> QED
    BY <2>1, <2>2, <2>3 DEF EventTypeOK
<1>4. NotifyReachesWaiter'
  <2>1. ASSUME NEW m \in Name, NEW q \in Task
        PROVE  ids'[m] = q <=> waiting'[q] = "sync" /\ name'[q] = m
    <3>1. q # t => waiting'[q] = waiting[q] /\ name'[q] = name[q]
      BY <1>1 DEF EventIndInv, EventTypeOK
    <3>2. waiting'[t] = "sync" /\ name'[t] = n
      BY <1>1 DEF EventIndInv, EventTypeOK
    <3>3. ids'[m] = IF m = n THEN t ELSE ids[m]
      BY <1>1
    <3>4. /\ ids[m] = q <=> waiting[q] = "sync" /\ name[q] = m
          /\ ids[m] # t
          /\ m = n => ids[m] = NULL
      BY <1>1 DEF EventIndInv, NotifyReachesWaiter
    <3>5. CASE m = n /\ q # t
      <4>1. ids[m] = NULL /\ ids'[m] = t
        BY <3>3, <3>4, <3>5
      <4> QED
        BY <3>1, <3>4, <3>5, <4>1
    <3>6. CASE m # n /\ q # t
      BY <3>1, <3>3, <3>4, <3>6
    <3>7. CASE q = t
      BY <3>2, <3>3, <3>4, <3>7
    <3> QED
      BY <3>5, <3>6, <3>7
  <2>2. ASSUME NEW q \in Task PROVE async'[q] # 0 <=> waiting'[q] = "sync"
    BY <1>1 DEF EventIndInv, EventTypeOK, NotifyReachesWaiter
  <2> QED
    BY <2>1, <2>2 DEF NotifyReachesWaiter
<1> QED
  BY <1>3, <1>4 DEF EventIndInv

LEMMA BeginOtherOK ==
    ASSUME EventIndInv, NEW t \in Task, NEW k \in {"sleep", "dns"}, BeginOther(t, k)
    PROVE  EventIndInv'
<1> USE NullAssumption, NameAssumption, OpsAssumption
<1>1. /\ Begin(t, k) /\ k \in Kind /\ k # "sync"
      /\ req' = [req EXCEPT ![t] = made + 1] /\ async' = async
      /\ UNCHANGED <<name, ids, owed>>
      /\ waiting[t] = "no" /\ waiting' = [waiting EXCEPT ![t] = k]
  BY DEF BeginOther, Begin, syncVars, Kind
<1>2. HandlesInv' /\ EventTypeOK'
  <2>1. /\ name' \in [Task -> Name \cup {NULL}]
        /\ ids' \in [Name -> Task \cup {NULL}]
        /\ owed' \in [Task -> BOOLEAN]
    BY <1>1 DEF EventIndInv, EventTypeOK
  <2> QED
    BY <1>1, <2>1, BeginOK DEF EventTypeOK, HandlesInv
<1>3. \A q \in Task : waiting'[q] = "sync" <=> waiting[q] = "sync"
  BY <1>1 DEF EventIndInv, EventTypeOK
<1>4. NotifyReachesWaiter'
  BY <1>1, <1>3 DEF EventIndInv, NotifyReachesWaiter
<1> QED
  BY <1>2, <1>4 DEF EventIndInv

LEMMA EndSyncOK ==
    ASSUME EventIndInv, NEW t \in Task, waiting[t] = "sync", NEW how \in {"notified", "canceled"},
           EndSync(t, how)
    PROVE  EventIndInv'
<1> USE NullAssumption, NameAssumption, OpsAssumption
<1>1. PICK o \in objs : o.data = t /\ Numbered(async[t]) = {o}
  BY TaskHasHandle
<1>2. /\ ids' = [n \in Name |-> IF n = name[t] THEN NULL ELSE ids[n]]
      /\ objs' = objs \ {o}
      /\ async' = [async EXCEPT ![t] = 0]
      /\ owed' = [owed EXCEPT ![t] = FALSE]
      /\ End(t, how) /\ waiting' = [waiting EXCEPT ![t] = "no"]
      /\ name' = name /\ req' = req /\ results' = results
  BY <1>1 DEF EndSync, ErasedName, ClearedPointer, End
<1>3. HandlesInv' /\ EventTypeOK'
  <2>1. /\ ids' \in [Name -> Task \cup {NULL}]
        /\ owed' \in [Task -> BOOLEAN]
        /\ name' \in [Task -> Name \cup {NULL}]
        /\ results' \in [1..MaxOps -> {"none", "pending", "given", "freed"}]
    BY <1>2 DEF EventIndInv, EventTypeOK
  <2>2. async' = ClearedPointer(t) /\ t # NULL
    BY <1>2 DEF ClearedPointer
  <2>3. /\ HandlesInv'
        /\ waiting' \in [Task -> Kind \cup {"no"}]
        /\ async' \in [Task -> 0..MaxOps] /\ req' \in [Task -> 0..MaxOps]
        /\ made' \in 0..MaxOps
        /\ told' \in [Task -> {"none", "notified", "slept", "result", "error", "canceled"}]
    <3>1. \A p \in objs' : p \in objs /\ p # o /\ p.id # o.id
      BY <1>1, <1>2 DEF EventIndInv, HandlesInv, Numbering
    <3> QED
      BY <1>1, <1>2, <2>2, <3>1, EndOK
  <2> QED
    BY <2>1, <2>3 DEF EventTypeOK, HandlesInv
<1>4. NotifyReachesWaiter'
  <2>1. ASSUME NEW m \in Name, NEW q \in Task
        PROVE  ids'[m] = q <=> waiting'[q] = "sync" /\ name'[q] = m
    BY <1>2 DEF EventIndInv, EventTypeOK, NotifyReachesWaiter
  <2>2. ASSUME NEW q \in Task PROVE async'[q] # 0 <=> waiting'[q] = "sync"
    BY <1>2 DEF EventIndInv, EventTypeOK, NotifyReachesWaiter
  <2> QED
    BY <2>1, <2>2 DEF NotifyReachesWaiter
<1> QED
  BY <1>3, <1>4 DEF EventIndInv

LEMMA NotifyObjOK ==
    ASSUME EventIndInv, NEW t \in Task, NotifyObj(t)
    PROVE  EventIndInv'
<1>1. /\ UNCHANGED <<waiting, name, async, req, ids, made, results, told>>
      /\ owed' = [owed EXCEPT ![t] = TRUE]
      /\ objs' = (objs \ Numbered(async[t])) \cup {[o EXCEPT !.state = "due"] : o \in Numbered(async[t])}
  <2>1. Numbered(async[t]) \subseteq objs
    BY DEF Numbered
  <2> QED
    BY <2>1 DEF NotifyObj, Signal
<1>2. HandlesInv'
  BY <1>1, StateOK DEF Numbered
<1>3. EventTypeOK'
  BY <1>1, <1>2 DEF EventIndInv, HandlesInv, EventTypeOK
<1>4. NotifyReachesWaiter'
  BY <1>1 DEF EventIndInv, NotifyReachesWaiter
<1> QED
  BY <1>2, <1>3, <1>4 DEF EventIndInv

\* What a sleep or a lookup does to the rest, when it ends or is canceled.
LEMMA EndOtherOK ==
    ASSUME EventIndInv, NEW o \in objs, o.data # NULL, o.kind # "sync",
           NEW how \in {"slept", "result", "error", "canceled"},
           End(o.data, how), UNCHANGED <<req, name, ids, async, owed>>,
           results' \in [1..MaxOps -> {"none", "pending", "given", "freed"}],
           \A p \in objs : p # o => p \in objs',
           \A p \in objs' : \/ p \in objs /\ p # o
                            \/ p \in Objects /\ p.id = o.id /\ p.kind = "dns" /\ p.data = NULL,
           \A p, q \in objs' : p.id = o.id /\ q.id = o.id => p = q
    PROVE  EventIndInv'
<1> USE NullAssumption, NameAssumption, OpsAssumption
<1>1. UNCHANGED <<name, ids, async, owed, req>>
  OBVIOUS
<1>2. /\ HandlesInv'
      /\ waiting' \in [Task -> Kind \cup {"no"}]
      /\ async' \in [Task -> 0..MaxOps] /\ req' \in [Task -> 0..MaxOps]
      /\ made' \in 0..MaxOps
      /\ told' \in [Task -> {"none", "notified", "slept", "result", "error", "canceled"}]
  BY <1>1, EndOK
<1>3. EventTypeOK'
  BY <1>1, <1>2 DEF EventTypeOK, EventIndInv, HandlesInv
<1>4. \A q \in Task : waiting'[q] = "sync" <=> waiting[q] = "sync"
  BY HandleOfTask DEF End, EventIndInv, EventTypeOK
<1>5. NotifyReachesWaiter'
  BY <1>1, <1>4 DEF EventIndInv, NotifyReachesWaiter
<1> QED
  BY <1>2, <1>3, <1>5 DEF EventIndInv

LEMMA EndSleepOK ==
    ASSUME EventIndInv, NEW t \in Task, waiting[t] = "sleep", NEW how \in {"slept", "canceled"},
           EndSleep(t, how)
    PROVE  EventIndInv'
<1>1. PICK o \in objs : o.data = t /\ Numbered(req[t]) = {o}
  BY TaskHasHandle
<1>2. o.kind = "sleep" /\ o.data # NULL
  BY <1>1, HandleOfTask, NullAssumption, NameAssumption
<1>3. /\ objs' = objs \ {o}
      /\ End(t, how) /\ UNCHANGED <<req, results, name, ids, async, owed>>
  BY <1>1 DEF EndSleep, ClosedTimer, syncVars
<1>4. results' \in [1..MaxOps -> {"none", "pending", "given", "freed"}]
  BY <1>3 DEF EventIndInv, EventTypeOK
<1>5. \A p \in objs' : p \in objs /\ p # o /\ p.id # o.id
  BY <1>1, <1>3 DEF EventIndInv, HandlesInv, Numbering
<1> QED
  BY <1>1, <1>2, <1>3, <1>4, <1>5, EndOtherOK

\* A timer runs out, a thread finishes a lookup.
LEMMA BackgroundOK ==
    ASSUME EventIndInv, NEW o \in objs, NEW s \in {"due", "answered", "failed"},
           objs' = With(o, "state", s), UNCHANGED <<waiting, req, made, told, syncVars>>,
           results' \in [1..MaxOps -> {"none", "pending", "given", "freed"}]
    PROVE  EventIndInv'
<1>1. UNCHANGED <<waiting, req, made, told, name, ids, async, owed>>
  BY DEF syncVars
<1> DEFINE D == {o}
<1>2. D \in SUBSET objs /\ objs' = (objs \ D) \cup {[p EXCEPT !.state = s] : p \in D}
  BY DEF With
<1> HIDE DEF D
<1>3. HandlesInv'
  BY <1>1, <1>2, StateOK
<1>4. EventTypeOK'
  BY <1>1, <1>3 DEF EventIndInv, HandlesInv, EventTypeOK
<1>5. NotifyReachesWaiter'
  BY <1>1 DEF EventIndInv, NotifyReachesWaiter
<1> QED
  BY <1>3, <1>4, <1>5 DEF EventIndInv

LEMMA ResolveOK ==
    ASSUME EventIndInv, NEW o \in objs, NEW ok \in BOOLEAN, Resolve(o, ok)
    PROVE  EventIndInv'
<1>1. results' \in [1..MaxOps -> {"none", "pending", "given", "freed"}]
  BY DEF Resolve, EventIndInv, EventTypeOK
<1>2. CASE ok
  BY <1>1, <1>2, BackgroundOK DEF Resolve
<1>3. CASE ~ok
  BY <1>1, <1>3, BackgroundOK DEF Resolve
<1> QED
  BY <1>2, <1>3

LEMMA getaddrinfo_cbOK ==
    ASSUME EventIndInv, NEW o \in objs, NEW wanted \in BOOLEAN, getaddrinfo_cb(o, wanted)
    PROVE  EventIndInv'
<1> USE NullAssumption, NameAssumption, OpsAssumption
<1>1. /\ o.kind = "dns" /\ objs' = objs \ {o}
      /\ UNCHANGED <<req, name, ids, async, owed>>
      /\ \A p \in objs' : p \in objs /\ p # o /\ p.id # o.id
  BY DEF getaddrinfo_cb, syncVars, EventIndInv, HandlesInv, Numbering
<1>2. results' \in [1..MaxOps -> {"none", "pending", "given", "freed"}]
  BY DEF getaddrinfo_cb, Dispose, EventIndInv, EventTypeOK
<1>3. CASE o.data # NULL
  <2>1. CASE o.state = "answered"
    <3>1. End(o.data, "result")
      BY <1>3, <2>1 DEF getaddrinfo_cb
    <3> QED
      BY <1>1, <1>2, <1>3, <3>1, EndOtherOK
  <2>2. CASE o.state # "answered"
    <3>1. End(o.data, "error")
      BY <1>3, <2>2 DEF getaddrinfo_cb
    <3> QED
      BY <1>1, <1>2, <1>3, <3>1, EndOtherOK
  <2> QED
    BY <2>1, <2>2
<1>4. CASE o.data = NULL
  <2>1. /\ UNCHANGED <<waiting, req, made, told, name, ids, async, owed>>
        /\ objs' \subseteq objs /\ \A p \in objs : p.data # NULL => p \in objs'
    BY <1>4 DEF getaddrinfo_cb, syncVars
  <2>2. objs' \subseteq Objects /\ Numbering' /\ Given' /\ Owned'
    BY <2>1 DEF EventIndInv, HandlesInv, Numbering, Given, Owned
  <2>3. CallbackFindsItsWait'
    <3>1. ASSUME NEW p \in objs', p.data # NULL
          PROVE  waiting'[p.data] = p.kind /\ p.id = IF p.kind = "sync" THEN async'[p.data] ELSE req'[p.data]
      BY <2>1, <3>1, HandleOfTask
    <3>2. ASSUME NEW q \in Task, waiting'[q] # "no" PROVE \E p \in objs' : p.data = q
      BY <2>1, <3>2 DEF EventIndInv, HandlesInv, CallbackFindsItsWait
    <3> QED
      BY <3>1, <3>2 DEF CallbackFindsItsWait
  <2>4. EventTypeOK'
    BY <1>2, <2>1, <2>2 DEF EventIndInv, EventTypeOK
  <2>5. NotifyReachesWaiter'
    BY <2>1 DEF EventIndInv, NotifyReachesWaiter
  <2> QED
    BY <2>2, <2>3, <2>4, <2>5 DEF EventIndInv, HandlesInv
<1> QED
  BY <1>3, <1>4

LEMMA CancelDnsOK ==
    ASSUME EventIndInv, NEW t \in Task, NEW stops \in BOOLEAN, CancelDns(t, stops)
    PROVE  EventIndInv'
<1>1. PICK o \in Numbered(req[t]) :
        /\ waiting[t] = "dns"
        /\ objs' = (objs \ {o}) \cup {DropData(o, stops)}
        /\ End(t, "canceled")
        /\ UNCHANGED <<req, results, name, ids, async, owed>>
  BY DEF CancelDns, syncVars
<1>2. o \in objs /\ o.data = t
  BY <1>1, TaskHasHandle DEF Numbered
<1>3. o.kind = "dns" /\ o.data # NULL
  BY <1>1, <1>2, HandleOfTask, NullAssumption, NameAssumption
<1>4. results' \in [1..MaxOps -> {"none", "pending", "given", "freed"}]
  BY <1>1 DEF EventIndInv, EventTypeOK
<1>5. /\ DropData(o, stops) \in Objects /\ DropData(o, stops).id = o.id
      /\ DropData(o, stops).kind = "dns" /\ DropData(o, stops).data = NULL
  BY <1>2, <1>3 DEF DropData, EventIndInv, EventTypeOK, Objects
<1>6. /\ \A p \in objs : p # o => p \in objs'
      /\ \A p \in objs' : (p \in objs /\ p # o /\ p.id # o.id) \/ p = DropData(o, stops)
  BY <1>1, <1>2 DEF EventIndInv, HandlesInv, Numbering
<1> QED
  BY <1>1, <1>2, <1>3, <1>4, <1>5, <1>6, EndOtherOK

LEMMA EventNextOK == EventIndInv /\ [EventNext]_eventVars => EventIndInv'
<1> SUFFICES ASSUME EventIndInv, [EventNext]_eventVars PROVE EventIndInv'
  OBVIOUS
<1>1. ASSUME NEW t \in Task, NEW n \in Name \cup {NULL}, RunSync(t, n) PROVE EventIndInv'
  BY <1>1, RunSyncOK
<1>2. ASSUME NEW t \in Task, RunSleep(t) \/ RunDns(t) PROVE EventIndInv'
  BY <1>2, BeginOtherOK DEF RunSleep, RunDns
<1>3. ASSUME NEW t \in Task, RefusedDns(t) PROVE EventIndInv'
  BY <1>3 DEF RefusedDns, syncVars, EventIndInv, HandlesInv, EventTypeOK, Numbering, Given, Owned,
              CallbackFindsItsWait, NotifyReachesWaiter
<1>4. ASSUME NEW t \in Task, CancelSync(t) PROVE EventIndInv'
  BY <1>4, EndSyncOK DEF CancelSync
<1>5. ASSUME NEW t \in Task, CancelSleep(t) PROVE EventIndInv'
  BY <1>5, EndSleepOK DEF CancelSleep
<1>6. ASSUME NEW t \in Task, NEW stops \in BOOLEAN, CancelDns(t, stops) PROVE EventIndInv'
  BY <1>6, CancelDnsOK
<1>7. ASSUME NEW t \in Task, NotifyObj(t) PROVE EventIndInv'
  BY <1>7, NotifyObjOK
<1>8. ASSUME NEW n \in Name, NotifyId(n) PROVE EventIndInv'
  <2>1. ids[n] \in Task
    BY <1>8 DEF NotifyId, EventIndInv, EventTypeOK
  <2> QED
    BY <1>8, <2>1, NotifyObjOK DEF NotifyId
<1>9. ASSUME NEW o \in objs, TimerDue(o) PROVE EventIndInv'
  <2>1. results' \in [1..MaxOps -> {"none", "pending", "given", "freed"}]
    BY <1>9 DEF TimerDue, EventIndInv, EventTypeOK
  <2> QED
    BY <1>9, <2>1, BackgroundOK DEF TimerDue
<1>10. ASSUME NEW o \in objs, NEW ok \in BOOLEAN, Resolve(o, ok) PROVE EventIndInv'
  BY <1>10, ResolveOK
<1>11. ASSUME NEW o \in objs, sync_cb(o) PROVE EventIndInv'
  <2>1. o.data # NULL
    BY <1>11 DEF sync_cb, EventIndInv, HandlesInv, Owned
  <2>2. o.data \in Task /\ waiting[o.data] = "sync"
    BY <1>11, <2>1, HandleOfTask DEF sync_cb
  <2> QED
    BY <1>11, <2>2, EndSyncOK DEF sync_cb
<1>12. ASSUME NEW o \in objs, sleep_cb(o) PROVE EventIndInv'
  <2>1. o.data # NULL
    BY <1>12 DEF sleep_cb, EventIndInv, HandlesInv, Owned
  <2>2. o.data \in Task /\ waiting[o.data] = "sleep"
    BY <1>12, <2>1, HandleOfTask DEF sleep_cb
  <2> QED
    BY <1>12, <2>2, EndSleepOK DEF sleep_cb
<1>13. ASSUME NEW o \in objs, NEW wanted \in BOOLEAN, getaddrinfo_cb(o, wanted) PROVE EventIndInv'
  BY <1>13, getaddrinfo_cbOK
<1>14. CASE UNCHANGED eventVars
  BY <1>14 DEF eventVars, EventIndInv, HandlesInv, EventTypeOK, Numbering, Given, Owned,
              CallbackFindsItsWait, NotifyReachesWaiter
<1> QED
  BY <1>1, <1>2, <1>3, <1>4, <1>5, <1>6, <1>7, <1>8, <1>9, <1>10, <1>11, <1>12, <1>13, <1>14
  DEF EventNext, UserCalls, Pool, Callbacks

LEMMA EventInvariance == EventSpec => []EventIndInv
<1>1. EventInit => EventIndInv
  BY EventInitOK
<1>2. EventIndInv /\ [EventNext]_eventVars => EventIndInv'
  BY EventNextOK
<1> QED
  BY <1>1, <1>2, PTL DEF EventSpec

\* However runs, cancels, notifies, timers and lookups interleave, a callback
\* only resumes the task that waits for it, every waiting task has its handle,
\* and notify() finds a handle exactly while the sync waits.
THEOREM WaitsSafe == EventSpec => []WaitsSound
<1>1. EventIndInv => WaitsSound
  BY DEF EventIndInv, HandlesInv, WaitsSound
<1> QED
  BY <1>1, EventInvariance, PTL

-----------------------------------------------------------------------------
(***************************************************************************)
(* The safety halves of NotifiedThenWoken and ResultsReleased.  A signal   *)
(* is on its way only if its notify() was of this wait; a request whose    *)
(* result was handed over or freed is closed, and its number is not used   *)
(* again.                                                                  *)
(***************************************************************************)
DueOwed == \A o \in objs : o.kind = "sync" /\ o.state = "due" => owed[o.data]

ReleasedClosed ==
    \A i \in 1..MaxOps : results[i] \in {"given", "freed"} =>
        i <= made /\ \A o \in objs : o.id # i

\* A step that opens a handle.
LEMMA BeginHistory ==
    ASSUME EventIndInv, DueOwed, ReleasedClosed, NEW t \in Task, NEW k \in Kind, Begin(t, k),
           owed' = owed \/ owed' = [owed EXCEPT ![t] = FALSE]
    PROVE  DueOwed' /\ ReleasedClosed' /\ results' = results
           /\ \A q \in Task : told'[q] = "notified" => waiting'[q] = waiting[q]
<1>1. /\ objs' = objs \cup {Object(k, t)} /\ waiting[t] = "no"
      /\ waiting' = [waiting EXCEPT ![t] = k] /\ told' = [told EXCEPT ![t] = "none"]
      /\ made' = made + 1 /\ made \in Nat /\ results' = results
      /\ Object(k, t).state = "armed" /\ Object(k, t).id = made + 1
  BY DEF Begin, Object, EventIndInv, EventTypeOK
<1>2. \A o \in objs : o.kind = "sync" => o.data # t /\ o.data \in Task
  BY <1>1, HandleOfTask DEF EventIndInv, HandlesInv, Owned
<1>3. \A o \in objs : o.kind = "sync" => owed'[o.data] = owed[o.data]
  BY <1>2 DEF EventIndInv, EventTypeOK
<1>4. DueOwed'
  BY <1>1, <1>3 DEF DueOwed
<1>5. ReleasedClosed'
  BY <1>1 DEF ReleasedClosed
<1>6. \A q \in Task : told'[q] = "notified" => waiting'[q] = waiting[q]
  BY <1>1 DEF EventIndInv, EventTypeOK
<1> QED
  BY <1>1, <1>4, <1>5, <1>6

LEMMA EndSyncHistory ==
    ASSUME EventIndInv, DueOwed, ReleasedClosed, NEW t \in Task, waiting[t] = "sync", NEW how, EndSync(t, how)
    PROVE  DueOwed' /\ ReleasedClosed' /\ results' = results
           /\ \A q \in Task : q # t => waiting'[q] = waiting[q]
<1>1. PICK o \in objs : o.data = t /\ Numbered(async[t]) = {o}
  BY TaskHasHandle
<1>2. /\ objs' = objs \ {o} /\ owed' = [owed EXCEPT ![t] = FALSE]
      /\ waiting' = [waiting EXCEPT ![t] = "no"] /\ made' = made /\ results' = results
  BY <1>1 DEF EndSync, End
<1>3. \A p \in objs' : p.kind = "sync" => p.data # t /\ p.data \in Task
  BY <1>1, <1>2, HandleOfTask, OneHandleEach, NullAssumption, NameAssumption DEF EventIndInv, HandlesInv, Owned
<1>4. DueOwed'
  BY <1>2, <1>3 DEF DueOwed, EventIndInv, EventTypeOK
<1>5. ReleasedClosed'
  BY <1>2 DEF ReleasedClosed
<1> QED
  BY <1>2, <1>4, <1>5 DEF EventIndInv, EventTypeOK

LEMMA NotifyHistory ==
    ASSUME EventIndInv, DueOwed, ReleasedClosed, NEW t \in Task, NotifyObj(t)
    PROVE  DueOwed' /\ ReleasedClosed' /\ results' = results /\ waiting' = waiting
<1>1. /\ UNCHANGED <<waiting, async, made, results>>
      /\ owed' = [owed EXCEPT ![t] = TRUE]
      /\ objs' = {IF o \in Numbered(async[t]) THEN [o EXCEPT !.state = "due"] ELSE o : o \in objs}
      /\ async[t] # 0
  BY DEF NotifyObj, Signal
<1>2. waiting[t] = "sync"
  BY <1>1 DEF EventIndInv, NotifyReachesWaiter
<1>3. PICK h \in objs : h.data = t /\ Numbered(async[t]) = {h}
  BY <1>2, TaskHasHandle
<1>4. h \in Objects
  BY DEF EventIndInv, EventTypeOK
<1>5. ASSUME NEW p \in objs'
      PROVE  \E o \in objs : p.id = o.id /\ (p = o \/ p.data = t)
  BY <1>1, <1>3, <1>4, <1>5 DEF Objects
<1>6. DueOwed'
  <2> SUFFICES ASSUME NEW p \in objs', p.kind = "sync", p.state = "due" PROVE owed'[p.data]
    BY DEF DueOwed
  <2>1. PICK o \in objs : p.id = o.id /\ (p = o \/ p.data = t)
    BY <1>5
  <2>2. CASE p.data = t
    BY <1>1, <2>2 DEF EventIndInv, EventTypeOK
  <2>3. CASE p = o /\ p.data # t
    <3>1. owed[p.data]
      BY <2>3 DEF DueOwed
    <3>2. p.data \in Task
      BY <2>3, HandleOfTask DEF EventIndInv, HandlesInv, Owned
    <3> QED
      BY <1>1, <2>3, <3>1, <3>2 DEF EventIndInv, EventTypeOK
  <2> QED
    BY <2>1, <2>2, <2>3
<1>7. ReleasedClosed'
  BY <1>1, <1>5 DEF ReleasedClosed
<1> QED
  BY <1>1, <1>6, <1>7

\* The steps of sleep and getaddrinfo: no sync handle changes, and what they do to
\* results is to the entry of a handle that was open.
LEMMA OtherHistory ==
    ASSUME EventIndInv, DueOwed, ReleasedClosed, UNCHANGED <<made, owed>>,
           \A p \in objs' : p \in objs \/ (p.kind # "sync" /\ \E o \in objs : p.id = o.id),
           \A i \in 1..MaxOps : \/ results'[i] = results[i]
                                \/ \E o \in objs : /\ o.id = i
                                                   /\ \/ results'[i] \in {"none", "pending"}
                                                      \/ \A p \in objs' : p.id # i
    PROVE  DueOwed' /\ ReleasedClosed'
           /\ \A i \in 1..MaxOps : results[i] \in {"given", "freed"} => results'[i] = results[i]
<1>1. DueOwed'
  BY DEF DueOwed
<1>2. \A i \in 1..MaxOps : results[i] \in {"given", "freed"} => results'[i] = results[i]
  BY DEF ReleasedClosed
<1>3. ReleasedClosed'
  <2> SUFFICES ASSUME NEW i \in 1..MaxOps, results'[i] \in {"given", "freed"}
               PROVE  i <= made' /\ \A p \in objs' : p.id # i
    BY DEF ReleasedClosed
  <2>1. CASE results'[i] = results[i]
    BY <2>1 DEF ReleasedClosed
  <2>2. CASE \E o \in objs : o.id = i /\ \A p \in objs' : p.id # i
    BY <2>2 DEF EventIndInv, HandlesInv, Given
  <2> QED
    BY <2>1, <2>2
<1> QED
  BY <1>1, <1>2, <1>3

LEMMA HistoryStep ==
    ASSUME EventIndInv, DueOwed, ReleasedClosed, [EventNext]_eventVars
    PROVE  /\ DueOwed' /\ ReleasedClosed'
           /\ \A q \in Task : told'[q] = "notified" /\ waiting[q] # waiting'[q] => owed[q]
           /\ \A i \in 1..MaxOps : results[i] \in {"given", "freed"} => results'[i] = results[i]
<1> DEFINE Goal == /\ DueOwed' /\ ReleasedClosed'
                   /\ \A q \in Task : told'[q] = "notified" /\ waiting[q] # waiting'[q] => owed[q]
                   /\ \A i \in 1..MaxOps : results[i] \in {"given", "freed"} => results'[i] = results[i]
<1>1. ASSUME NEW t \in Task, NEW n \in Name \cup {NULL}, RunSync(t, n) PROVE Goal
  BY <1>1, BeginHistory DEF RunSync, Kind
<1>2. ASSUME NEW t \in Task, RunSleep(t) \/ RunDns(t) PROVE Goal
  BY <1>2, BeginHistory DEF RunSleep, RunDns, BeginOther, syncVars, Kind
<1>3. ASSUME NEW t \in Task, RefusedDns(t) PROVE Goal
  BY <1>3 DEF RefusedDns, syncVars, DueOwed, ReleasedClosed
<1>4. ASSUME NEW t \in Task, CancelSync(t) PROVE Goal
  <2>1. told'[t] = "canceled"
    BY <1>4 DEF CancelSync, EndSync, End, EventIndInv, EventTypeOK
  <2>2. DueOwed' /\ ReleasedClosed' /\ results' = results /\ \A q \in Task : q # t => waiting'[q] = waiting[q]
    BY <1>4, EndSyncHistory DEF CancelSync
  <2> QED
    BY <2>1, <2>2
<1>5. ASSUME NEW o \in objs, sync_cb(o) PROVE Goal
  <2>1. o.data # NULL /\ o.kind = "sync" /\ owed[o.data]
    BY <1>5 DEF sync_cb, EventIndInv, HandlesInv, Owned, DueOwed
  <2>2. o.data \in Task /\ waiting[o.data] = "sync"
    BY <2>1, HandleOfTask
  <2>3. /\ DueOwed' /\ ReleasedClosed' /\ results' = results
        /\ \A q \in Task : q # o.data => waiting'[q] = waiting[q]
    BY <1>5, <2>2, EndSyncHistory DEF sync_cb
  <2> QED
    BY <2>1, <2>3
<1>6. ASSUME NEW t \in Task, NotifyObj(t) PROVE Goal
  BY <1>6, NotifyHistory
<1>7. ASSUME NEW n \in Name, NotifyId(n) PROVE Goal
  <2>1. ids[n] \in Task
    BY <1>7 DEF NotifyId, EventIndInv, EventTypeOK
  <2> QED
    BY <1>7, <2>1, NotifyHistory DEF NotifyId
<1>8. ASSUME NEW t \in Task, NEW how \in {"slept", "canceled"}, EndSleep(t, how) PROVE Goal
  <2>1. UNCHANGED <<made, owed, results>> /\ objs' \subseteq objs
    BY <1>8 DEF EndSleep, ClosedTimer, End, syncVars
  <2>2. DueOwed' /\ ReleasedClosed'
    BY <2>1, OtherHistory
  <2>3. told' = [told EXCEPT ![t] = how] /\ waiting' = [waiting EXCEPT ![t] = "no"]
    BY <1>8 DEF EndSleep, End
  <2>4. \A q \in Task : told'[q] = "notified" => waiting'[q] = waiting[q]
    BY <2>3 DEF EventIndInv, EventTypeOK
  <2> QED
    BY <2>1, <2>2, <2>4
<1>9. ASSUME NEW o \in objs, TimerDue(o) PROVE Goal
  <2>1. o \in Objects
    BY DEF EventIndInv, EventTypeOK
  <2>2. UNCHANGED <<made, owed, results, waiting>> /\ o.kind = "sleep"
    BY <1>9 DEF TimerDue, syncVars
  <2>3. \A p \in objs' : p \in objs \/ (p.kind # "sync" /\ p.id = o.id)
    BY <1>9, <2>1, <2>2 DEF TimerDue, With, Objects
  <2>4. DueOwed' /\ ReleasedClosed'
    BY <2>2, <2>3, OtherHistory
  <2> QED
    BY <2>2, <2>4
<1>10. ASSUME NEW o \in objs, NEW ok \in BOOLEAN, Resolve(o, ok) PROVE Goal
  <2>1. o \in Objects
    BY DEF EventIndInv, EventTypeOK
  <2>2. UNCHANGED <<made, owed, waiting>> /\ o.kind = "dns"
    BY <1>10 DEF Resolve, syncVars
  <2>3. \A p \in objs' : p \in objs \/ (p.kind # "sync" /\ p.id = o.id)
    BY <1>10, <2>1, <2>2 DEF Resolve, With, Objects
  <2>4. \A i \in 1..MaxOps : results'[i] = results[i] \/ (o.id = i /\ results'[i] \in {"none", "pending"})
    BY <1>10, <2>1 DEF Resolve, EventIndInv, EventTypeOK
  <2>5. /\ DueOwed' /\ ReleasedClosed'
        /\ \A i \in 1..MaxOps : results[i] \in {"given", "freed"} => results'[i] = results[i]
    BY <2>2, <2>3, <2>4, OtherHistory
  <2> QED
    BY <2>2, <2>5
<1>11. ASSUME NEW o \in objs, NEW wanted \in BOOLEAN, getaddrinfo_cb(o, wanted) PROVE Goal
  <2>1. UNCHANGED <<made, owed>> /\ objs' = objs \ {o}
    BY <1>11 DEF getaddrinfo_cb, End, syncVars
  <2>2. \A i \in 1..MaxOps : results'[i] = results[i] \/ o.id = i
    BY <1>11 DEF getaddrinfo_cb, EventIndInv, EventTypeOK
  <2>3. \A p \in objs' : p.id # o.id
    BY <2>1 DEF EventIndInv, HandlesInv, Numbering
  <2>4. /\ DueOwed' /\ ReleasedClosed'
        /\ \A i \in 1..MaxOps : results[i] \in {"given", "freed"} => results'[i] = results[i]
    BY <2>1, <2>2, <2>3, OtherHistory
  <2>5. \A q \in Task : told'[q] = "notified" => waiting'[q] = waiting[q]
    BY <1>11 DEF getaddrinfo_cb, End, EventIndInv, EventTypeOK
  <2> QED
    BY <2>4, <2>5
<1>12. ASSUME NEW t \in Task, NEW stops \in BOOLEAN, CancelDns(t, stops) PROVE Goal
  <2>1. PICK o \in objs :
        /\ o.id = req[t] /\ waiting[t] = "dns"
        /\ objs' = (objs \ {o}) \cup {DropData(o, stops)}
        /\ End(t, "canceled")
        /\ UNCHANGED <<results, owed>>
    BY <1>12 DEF CancelDns, Numbered, syncVars
  <2>2. o.kind = "dns" /\ o \in Objects
    <3>1. o.data = t
      BY <2>1, TaskHasHandle DEF Numbered
    <3>2. o.kind = "dns"
      BY <2>1, <3>1, HandleOfTask, NullAssumption, NameAssumption
    <3> QED
      BY <3>2 DEF EventIndInv, EventTypeOK
  <2>3. DropData(o, stops).kind # "sync" /\ DropData(o, stops).id = o.id
    BY <2>2 DEF DropData, Objects
  <2>4. made' = made /\ told' = [told EXCEPT ![t] = "canceled"] /\ waiting' = [waiting EXCEPT ![t] = "no"]
    BY <2>1 DEF End
  <2>5. DueOwed' /\ ReleasedClosed'
    BY <2>1, <2>3, <2>4, OtherHistory
  <2>6. \A q \in Task : told'[q] = "notified" => waiting'[q] = waiting[q]
    BY <2>4 DEF EventIndInv, EventTypeOK
  <2> QED
    BY <2>1, <2>5, <2>6
<1>13. ASSUME UNCHANGED eventVars PROVE Goal
  BY <1>13 DEF eventVars, DueOwed, ReleasedClosed
<1>14. ASSUME NEW t \in Task, CancelSleep(t) PROVE Goal
  BY <1>8, <1>14 DEF CancelSleep
<1>15. ASSUME NEW o \in objs, sleep_cb(o) PROVE Goal
  <2>1. o.data \in Task
    BY <1>15, HandleOfTask DEF sleep_cb, EventIndInv, HandlesInv, Owned
  <2> QED
    BY <1>8, <1>15, <2>1 DEF sleep_cb
<1> HIDE DEF Goal
<1>16. ASSUME UserCalls PROVE Goal
  BY <1>16, <1>1, <1>2, <1>3, <1>4, <1>6, <1>7, <1>12, <1>14 DEF UserCalls
<1>17. ASSUME Pool PROVE Goal
  BY <1>17, <1>9, <1>10 DEF Pool
<1>18. ASSUME Callbacks PROVE Goal
  BY <1>18, <1>5, <1>11, <1>15 DEF Callbacks
<1>19. Goal
  BY <1>13, <1>16, <1>17, <1>18 DEF EventNext
<1> QED
  BY <1>19 DEF Goal

LEMMA HistoryInvariance == EventSpec => [](EventIndInv /\ DueOwed /\ ReleasedClosed)
<1>1. EventInit => DueOwed /\ ReleasedClosed
  BY DEF EventInit, DueOwed, ReleasedClosed
<1>2. EventIndInv /\ DueOwed /\ ReleasedClosed /\ [EventNext]_eventVars => DueOwed' /\ ReleasedClosed'
  BY HistoryStep
<1> QED
  BY <1>1, <1>2, EventInvariance, PTL DEF EventSpec

\* No sync wakes with success on a notify() meant for an earlier one.
THEOREM NoStrayWakeup == EventSpec => WokenOnlyWhenNotified
<1>1. EventIndInv /\ DueOwed /\ ReleasedClosed /\ [EventNext]_eventVars
      => [\A t \in Task : told'[t] = "notified" /\ waiting[t] # waiting'[t] => owed[t]]_eventVars
  BY HistoryStep
<1> QED
  BY <1>1, HistoryInvariance, PTL DEF EventSpec, WokenOnlyWhenNotified

\* An addrinfo that was handed over is not freed, one that was freed is neither
\* handed over nor freed again.
THEOREM NeverReleasedTwice == EventSpec => ReleasedOnce
<1>1. EventIndInv /\ DueOwed /\ ReleasedClosed /\ [EventNext]_eventVars
      => [\A i \in 1..MaxOps : results[i] \in {"given", "freed"} => results'[i] = results[i]]_eventVars
  BY HistoryStep
<1> QED
  BY <1>1, HistoryInvariance, PTL DEF EventSpec, ReleasedOnce

-----------------------------------------------------------------------------
(***************************************************************************)
(* Proofs about RedisConn, for any set of tasks, any limits of the         *)
(* interval and any length of the queue of commands.                       *)
(*                                                                         *)
(* The code never asks whether its timer is open or its context alive; it  *)
(* goes by mode, context, timer, old_opened and by which callback is in    *)
(* progress.  The inductive invariant lists which of them go together as   *)
(* long as user code has not run into undefined behaviour (Shape), and     *)
(* says position by position which task a cell names.                      *)
(***************************************************************************)

\* The states of the automatic connection: an attempt; one that timed out or
\* failed, to be given up when the reconnect timer runs out; a context that
\* hiredis has freed; a connection; and the two callbacks that drain a context.
AutoShape ==
    \/ phase = "loop" /\ context = "connecting" /\ timer = "timeout"
    \/ phase = "loop" /\ context \in {"connecting", "failed"} /\ timer = "reconnect" /\ old_opened
    \/ phase = "loop" /\ context = "freed" /\ timer = "reconnect" /\ ~old_opened
    \/ phase = "loop" /\ context = "up" /\ timer = "closed"
    \/ phase = "next" /\ context \in {"closing", "freed"} /\ timer = "closed"
    \/ phase = "closed" /\ context = "closing" /\ timer = "closed"

Shape ==
    /\ mode = "none" => context = "null" /\ timer = "null" /\ phase = "loop"
    /\ mode = "refused" => context = "failed" /\ timer = "null" /\ phase = "loop"
    /\ mode = "manual" =>
           /\ timer = "null"
           /\ \/ phase = "loop" /\ context \in {"connecting", "up", "freed"}
              \/ phase = "closed" /\ context = "closing"
    /\ mode = "auto" => AutoShape
    /\ mode = "destroyed" =>
           \/ phase = "destroy" /\ context = "closing"
           \/ phase = "closed" /\ context = "closing" /\ timer = "null"
           \/ phase = "loop" /\ context = "freed" /\ timer \in {"null", "closed"}
    /\ context \in {"null", "freed"} => queue = <<>>

\* At most one task is in redis::connect.
Connecting ==
    \A t \in Task : waits[t] = "connect" =>
        /\ (mode = "manual" /\ context = "connecting") \/ mode = "destroyed"
        /\ \A u \in Task : waits[u] = "connect" => u = t

\* The cells, by position.
Cells ==
    /\ \A i \in 1..Len(queue) : queue[i] # NULL => waits[queue[i]] \in {"sent", "command"}
    /\ \A i, j \in 1..Len(queue) : queue[i] # NULL /\ queue[i] = queue[j] => i = j
    /\ \A t \in Task : waits[t] = "command" => \E i \in 1..Len(queue) : queue[i] = t

IndInv == TypeOK /\ HandlesOwned /\ (misuse = "no" => Shape) /\ Connecting /\ Cells

LEMMA InitOK == Init => IndInv
<1> SUFFICES ASSUME Init PROVE IndInv
  OBVIOUS
<1> USE DEF Init
<1>1. <<>> \in Seq(Task \cup {NULL}) /\ Len(<<>>) = 0
  BY EmptySeq
<1>2. TypeOK
  BY <1>1 DEF TypeOK, Context
<1>3. HandlesOwned /\ Shape /\ Connecting
  BY DEF HandlesOwned, Shape, Connecting
<1>4. Cells
  BY <1>1 DEF Cells
<1> QED
  BY <1>2, <1>3, <1>4 DEF IndInv

\* The interval stays between its limits.
LEMMA NextIntervalType ==
    ASSUME TypeOK PROVE NextInterval \in IntervalMin..IntervalMax
BY IntervalAssumption DEF TypeOK, NextInterval

-----------------------------------------------------------------------------
\* Steps that leave the commands and their cells alone.
LEMMA Frame ==
    ASSUME IndInv, UNCHANGED <<queue, waits, ret>>,
           \A t \in Task : waits[t] = "connect" =>
               (mode' = "manual" /\ context' = "connecting") \/ mode' = "destroyed"
    PROVE  /\ Connecting' /\ Cells'
           /\ queue' \in Seq(Task \cup {NULL})
           /\ waits' \in [Task -> {"no", "connect", "sent", "command"}]
           /\ ret' \in [Task -> {"unfinished", "ok", "error"}]
BY DEF IndInv, TypeOK, Connecting, Cells

LEMMA AutoConnectOK ==
    ASSUME IndInv, NEW ok \in BOOLEAN, AutoConnect(ok)
    PROVE  IndInv'
<1>1. UNCHANGED <<lost, old_opened, interval, queue, phase, waits, ret>> /\ mode = "none" /\ misuse = "no"
  BY DEF AutoConnect, Loop, Defined, taskVars
<1>2. context = "null" /\ timer = "null" /\ phase = "loop" /\ misuse = "no" /\ stray = {} /\ lost = FALSE
  BY <1>1 DEF IndInv, TypeOK, Shape, HandlesOwned
<1>3. misuse' = "no" /\ stray' = {}
  BY <1>2, NullAssumption, TimerAssumption DEF AutoConnect, TimerStep, Running
<1>4. CASE ok
  <2>1. mode' = "auto" /\ context' = "connecting" /\ timer' = "timeout"
    BY <1>2, <1>4, NullAssumption, TimerAssumption DEF AutoConnect, TimerStep
  <2>2. Connecting' /\ Cells' /\ queue' \in Seq(Task \cup {NULL})
    BY <1>1, Frame DEF IndInv, Connecting
  <2>3. Shape'
    BY <1>1, <1>2, <2>1 DEF Shape, AutoShape, IndInv
  <2>4. TypeOK' /\ HandlesOwned'
    BY <1>1, <1>2, <1>3, <2>1 DEF IndInv, TypeOK, Context, HandlesOwned
  <2> QED
    BY <2>2, <2>3, <2>4 DEF IndInv
<1>5. CASE ~ok
  <2>1. mode' = "refused" /\ context' = "failed" /\ timer' = "null"
    BY <1>2, <1>5, NullAssumption, TimerAssumption DEF AutoConnect, TimerStep
  <2>2. Connecting' /\ Cells' /\ queue' \in Seq(Task \cup {NULL})
    BY <1>1, Frame DEF IndInv, Connecting
  <2>3. Shape'
    BY <1>1, <1>2, <2>1 DEF Shape, IndInv
  <2>4. TypeOK' /\ HandlesOwned'
    BY <1>1, <1>2, <1>3, <2>1 DEF IndInv, TypeOK, Context, HandlesOwned
  <2> QED
    BY <2>2, <2>3, <2>4 DEF IndInv
<1> QED
  BY <1>4, <1>5

LEMMA auto_connect_cbOK ==
    ASSUME IndInv, NEW ok \in BOOLEAN, auto_connect_cb(ok)
    PROVE  IndInv'
<1>1. /\ UNCHANGED <<mode, lost, queue, phase, waits, ret>>
      /\ mode = "auto" /\ context = "connecting" /\ phase = "loop" /\ misuse = "no"
  BY DEF auto_connect_cb, Loop, Defined, taskVars
<1>2. timer \in {"timeout", "reconnect"} /\ misuse = "no" /\ stray = {} /\ lost = FALSE
  BY <1>1 DEF IndInv, TypeOK, Shape, AutoShape, HandlesOwned
<1>3. \A t \in Task : waits[t] # "connect"
  BY <1>1 DEF IndInv, Connecting
<1>4. Connecting' /\ Cells' /\ queue' \in Seq(Task \cup {NULL})
  BY <1>1, <1>3, Frame
<1>5. misuse' = "no" /\ stray' = {}
  BY <1>2, NullAssumption, TimerAssumption DEF auto_connect_cb, TimerStep, Running, ClosesTimer
<1>6. CASE ok
  <2>1. context' = "up" /\ timer' = "closed" /\ interval' = 0 /\ old_opened' = old_opened
    BY <1>6, NullAssumption, TimerAssumption DEF auto_connect_cb, TimerStep, ClosesTimer
  <2>2. Shape'
    BY <1>1, <2>1 DEF Shape, AutoShape, IndInv
  <2>3. TypeOK' /\ HandlesOwned'
    BY <1>1, <1>2, <1>5, <2>1 DEF IndInv, TypeOK, Context, HandlesOwned
  <2> QED
    BY <1>4, <2>2, <2>3 DEF IndInv
<1>7. CASE ~ok
  <2>1. context' = "failed" /\ timer' = "reconnect" /\ interval' = NextInterval /\ old_opened' = TRUE
    BY <1>7, NullAssumption, TimerAssumption DEF auto_connect_cb, TimerStep, ClosesTimer, ConnectComing, OldOpened
  <2>2. Shape'
    BY <1>1, <2>1 DEF Shape, AutoShape, IndInv
  <2>3. TypeOK' /\ HandlesOwned'
    BY <1>1, <1>2, <1>5, <2>1, NextIntervalType DEF IndInv, TypeOK, Context, HandlesOwned
  <2> QED
    BY <1>4, <2>2, <2>3 DEF IndInv
<1> QED
  BY <1>6, <1>7

LEMMA TimeoutOK ==
    ASSUME IndInv, auto_connect_timeout_cb
    PROVE  IndInv'
<1>1. /\ UNCHANGED <<mode, context, lost, queue, phase, waits, ret>>
      /\ phase = "loop" /\ misuse = "no" /\ stray = {} /\ lost = FALSE
      /\ timer = "timeout"
  BY DEF auto_connect_timeout_cb, Fires, Loop, Defined, Running, taskVars, IndInv, TypeOK, HandlesOwned
<1>2. mode = "auto" /\ context = "connecting"
  BY <1>1 DEF IndInv, TypeOK, Shape, AutoShape
<1>3. /\ timer' = "reconnect" /\ interval' = NextInterval /\ old_opened' = TRUE
      /\ misuse' = "no" /\ stray' = {}
  BY <1>1, NullAssumption, TimerAssumption DEF auto_connect_timeout_cb, TimerStep, Running, ConnectComing, OldOpened
<1>4. Connecting' /\ Cells' /\ queue' \in Seq(Task \cup {NULL})
  BY <1>1, Frame DEF IndInv, Connecting
<1>5. Shape'
  BY <1>1, <1>2, <1>3 DEF Shape, AutoShape, IndInv
<1>6. TypeOK' /\ HandlesOwned'
  BY <1>1, <1>3, NextIntervalType DEF IndInv, TypeOK, HandlesOwned
<1> QED
  BY <1>4, <1>5, <1>6 DEF IndInv

LEMMA ReconnectNextOK ==
    ASSUME IndInv, auto_reconnect_next_cb
    PROVE  IndInv'
<1>1. /\ UNCHANGED <<mode, lost, old_opened, interval, queue, waits, ret>>
      /\ phase = "loop" /\ misuse = "no" /\ stray = {} /\ lost = FALSE
      /\ timer = "reconnect" /\ phase' = "next"
  BY DEF auto_reconnect_next_cb, Fires, Loop, Defined, Running, taskVars, IndInv, TypeOK, HandlesOwned
<1>2. /\ mode = "auto"
      /\ (old_opened /\ context \in {"connecting", "failed"}) \/ (~old_opened /\ context = "freed")
  BY <1>1 DEF IndInv, TypeOK, Shape, AutoShape
<1>3. /\ timer' = "closed" /\ misuse' = "no" /\ stray' = {}
      /\ context' = "closing" \/ (context' = "freed" /\ context = "freed")
  BY <1>1, <1>2, NullAssumption, TimerAssumption DEF auto_reconnect_next_cb, TimerStep, Running
<1>4. \A t \in Task : waits[t] # "connect"
  BY <1>2 DEF IndInv, Connecting
<1>5. Connecting' /\ Cells' /\ queue' \in Seq(Task \cup {NULL})
  BY <1>1, <1>4, Frame
<1>6. Shape'
  BY <1>1, <1>2, <1>3 DEF Shape, AutoShape, IndInv
<1>7. TypeOK' /\ HandlesOwned'
  BY <1>1, <1>3 DEF IndInv, TypeOK, Context, HandlesOwned
<1> QED
  BY <1>5, <1>6, <1>7 DEF IndInv

LEMMA connect_nowOK ==
    ASSUME IndInv, connect_now
    PROVE  IndInv'
<1>1. /\ UNCHANGED <<mode, old_opened, interval, waits, ret>>
      /\ phase = "next" /\ phase' = "loop" /\ misuse = "no" /\ stray = {} /\ lost = FALSE
      /\ context' = "connecting" /\ queue' = <<>>
  BY DEF connect_now, Defined, taskVars, IndInv, TypeOK, HandlesOwned
<1>2. mode = "auto" /\ context \in {"closing", "freed"} /\ timer = "closed"
  BY <1>1 DEF IndInv, TypeOK, Shape, AutoShape
<1>3. queue' = queue
  BY <1>1, <1>2 DEF connect_now, IndInv, Shape
<1>4. timer' = "timeout" /\ misuse' = "no" /\ stray' = {} /\ lost' = FALSE
  BY <1>1, <1>2, NullAssumption, TimerAssumption DEF connect_now, TimerStep, Running
<1>5. \A t \in Task : waits[t] # "connect"
  BY <1>2 DEF IndInv, Connecting
<1>6. Connecting' /\ Cells' /\ queue' \in Seq(Task \cup {NULL})
  BY <1>1, <1>3, <1>5, Frame
<1>7. Shape'
  BY <1>1, <1>2, <1>4 DEF Shape, AutoShape, IndInv
<1>8. TypeOK' /\ HandlesOwned'
  BY <1>1, <1>4, <1>6 DEF IndInv, TypeOK, Context, HandlesOwned
<1> QED
  BY <1>6, <1>7, <1>8 DEF IndInv

LEMMA DisconnectOK ==
    ASSUME IndInv, Disconnect
    PROVE  IndInv'
<1>1. /\ UNCHANGED <<mode, lost, old_opened, interval, timer, stray, misuse, queue, waits, ret>>
      /\ phase = "loop" /\ context = "up" /\ context' = "closing" /\ phase' = "closed" /\ misuse = "no"
  BY DEF Disconnect, Loop, Defined, taskVars, timerVars
<1>2. mode \in {"auto", "manual"} /\ \A t \in Task : waits[t] # "connect"
  BY <1>1 DEF IndInv, TypeOK, Shape, Connecting
<1>3. Connecting' /\ Cells' /\ queue' \in Seq(Task \cup {NULL})
  BY <1>1, <1>2, Frame
<1>4. Shape'
  BY <1>1, <1>2 DEF Shape, AutoShape, IndInv
<1>5. TypeOK' /\ HandlesOwned'
  BY <1>1 DEF IndInv, TypeOK, Context, HandlesOwned
<1> QED
  BY <1>3, <1>4, <1>5 DEF IndInv

LEMMA ClosedOK ==
    ASSUME IndInv, auto_connect_closed_cb
    PROVE  IndInv'
<1>1. /\ UNCHANGED <<mode, lost, queue, waits, ret>>
      /\ phase = "closed" /\ queue = <<>> /\ context' = "freed" /\ phase' = "loop"
      /\ misuse = "no" /\ stray = {} /\ lost = FALSE
  BY DEF auto_connect_closed_cb, Defined, taskVars, IndInv, TypeOK, HandlesOwned
<1>2. /\ mode \in {"auto", "manual", "destroyed"} /\ context = "closing"
      /\ \A t \in Task : waits[t] = "connect" => mode = "destroyed"
  BY <1>1 DEF IndInv, TypeOK, Shape, AutoShape, Connecting
<1>3. Connecting' /\ Cells' /\ queue' \in Seq(Task \cup {NULL})
  BY <1>1, <1>2, Frame
<1>4. CASE mode = "auto"
  <2>1. timer = "closed"
    BY <1>1, <1>4 DEF IndInv, Shape, AutoShape
  <2>2. timer' = "reconnect" /\ misuse' = "no" /\ stray' = {} /\ old_opened' = FALSE /\ interval' = NextInterval
    BY <1>1, <1>4, <2>1, NullAssumption, TimerAssumption
    DEF auto_connect_closed_cb, TimerStep, Running, ConnectComing, OldOpened
  <2>3. Shape'
    BY <1>1, <1>4, <2>2 DEF Shape, AutoShape
  <2>4. TypeOK' /\ HandlesOwned'
    BY <1>1, <2>2, NextIntervalType DEF IndInv, TypeOK, Context, HandlesOwned
  <2> QED
    BY <1>3, <2>3, <2>4 DEF IndInv
<1>5. CASE mode \in {"manual", "destroyed"}
  <2>1. UNCHANGED <<timer, stray, misuse, old_opened, interval>>
    BY <1>5 DEF auto_connect_closed_cb, timerVars
  <2>2. Shape'
    BY <1>1, <1>5, <2>1 DEF Shape, IndInv
  <2>3. TypeOK' /\ HandlesOwned'
    BY <1>1, <2>1 DEF IndInv, TypeOK, Context, HandlesOwned
  <2> QED
    BY <1>3, <2>2, <2>3 DEF IndInv
<1> QED
  BY <1>2, <1>4, <1>5

LEMMA DestroyOK ==
    ASSUME IndInv, Destroy
    PROVE  IndInv'
<1>1. /\ UNCHANGED <<lost, old_opened, interval, timer, stray, queue, waits, ret>>
      /\ mode' = "destroyed" /\ context' = "closing"
      /\ misuse = "no" /\ misuse' \in {"no", "user"}
      /\ mode \notin {"none", "destroyed"} /\ phase' = IF phase = "loop" THEN "destroy" ELSE phase
  BY DEF Destroy, UserCode, Defined, taskVars
<1>2. Connecting' /\ Cells' /\ queue' \in Seq(Task \cup {NULL})
  BY <1>1, Frame
<1>3. ASSUME misuse' = "no" PROVE Shape'
  <2>1. phase = "loop" \/ timer # "closed"
    BY <1>1, <1>3 DEF Destroy
  <2>2. phase = "loop" \/ (mode = "manual" /\ phase = "closed" /\ timer = "null")
    BY <1>1, <2>1 DEF IndInv, TypeOK, Shape, AutoShape
  <2> QED
    BY <1>1, <2>2 DEF Shape
<1>4. TypeOK' /\ HandlesOwned'
  BY <1>1 DEF IndInv, TypeOK, Context, HandlesOwned
<1> QED
  BY <1>2, <1>3, <1>4 DEF IndInv

LEMMA DestroyedOK ==
    ASSUME IndInv, Destroyed
    PROVE  IndInv'
<1>1. /\ UNCHANGED <<mode, lost, old_opened, interval, stray, queue, waits, ret>>
      /\ phase = "destroy" /\ queue = <<>> /\ context' = "freed" /\ phase' = "loop"
      /\ misuse = "no" /\ misuse' \in {"no", "user"}
      /\ timer' = IF timer = "null" THEN timer ELSE "closed"
  BY DEF Destroyed, Defined, taskVars
<1>2. mode = "destroyed"
  BY <1>1 DEF IndInv, TypeOK, Shape, AutoShape
<1>3. Connecting' /\ Cells' /\ queue' \in Seq(Task \cup {NULL})
  BY <1>1, <1>2, Frame
<1>4. Shape'
  BY <1>1, <1>2 DEF Shape
<1>5. TypeOK' /\ HandlesOwned'
  BY <1>1 DEF IndInv, TypeOK, Context, HandlesOwned
<1> QED
  BY <1>3, <1>4, <1>5 DEF IndInv

-----------------------------------------------------------------------------
\* The tasks.

\* A step of one task in redis::connect.
LEMMA CellsFrame ==
    ASSUME IndInv, UNCHANGED queue, NEW t \in Task, waits[t] \in {"no", "connect"},
           NEW w \in {"no", "connect"}, waits' = [waits EXCEPT ![t] = w]
    PROVE  Cells'
<1>1. \A u \in Task : /\ waits'[u] = "command" <=> waits[u] = "command"
                      /\ waits'[u] = "sent" <=> waits[u] = "sent"
  BY DEF IndInv, TypeOK
<1>2. \A i \in 1..Len(queue) : queue[i] \in Task \cup {NULL}
  BY ElementOfSeq DEF IndInv, TypeOK
<1>3. \A i \in 1..Len(queue) : queue[i] # NULL => waits'[queue[i]] \in {"sent", "command"}
  BY <1>1, <1>2 DEF IndInv, Cells
<1> QED
  BY <1>1, <1>3 DEF IndInv, Cells

LEMMA ConnectOK ==
    ASSUME IndInv, NEW t \in Task, NEW ok \in BOOLEAN, Connect(t, ok)
    PROVE  IndInv'
<1>1. /\ UNCHANGED <<lost, old_opened, interval, timer, stray, misuse, queue, phase>>
      /\ mode = "none" /\ waits[t] = "no" /\ misuse = "no"
  BY DEF Connect, Loop, Defined, timerVars
<1>2. /\ context = "null" /\ timer = "null" /\ phase = "loop" /\ queue = <<>>
      /\ \A u \in Task : waits[u] # "connect"
  BY <1>1 DEF IndInv, Shape, Connecting
<1>3. CASE ok
  <2>1. /\ mode' = "manual" /\ context' = "connecting"
        /\ waits' = [waits EXCEPT ![t] = "connect"] /\ ret' = [ret EXCEPT ![t] = "unfinished"]
    BY <1>3 DEF Connect
  <2>2. Cells'
    BY <1>1, <2>1, CellsFrame
  <2>3. Connecting'
    BY <1>2, <2>1 DEF IndInv, TypeOK, Connecting
  <2>4. Shape'
    BY <1>1, <1>2, <2>1 DEF Shape
  <2>5. TypeOK' /\ HandlesOwned'
    BY <1>1, <2>1 DEF IndInv, TypeOK, Context, HandlesOwned
  <2> QED
    BY <2>2, <2>3, <2>4, <2>5 DEF IndInv
<1>4. CASE ~ok
  <2>1. /\ mode' = "refused" /\ context' = "failed"
        /\ waits' = [waits EXCEPT ![t] = "no"] /\ ret' = [ret EXCEPT ![t] = "error"]
    BY <1>4 DEF Connect, Resume
  <2>2. Cells'
    BY <1>1, <2>1, CellsFrame
  <2>3. Connecting'
    BY <1>2, <2>1 DEF IndInv, TypeOK, Connecting
  <2>4. Shape'
    BY <1>1, <1>2, <2>1 DEF Shape
  <2>5. TypeOK' /\ HandlesOwned'
    BY <1>1, <2>1 DEF IndInv, TypeOK, Context, HandlesOwned
  <2> QED
    BY <2>2, <2>3, <2>4, <2>5 DEF IndInv
<1> QED
  BY <1>3, <1>4

LEMMA connect_cbOK ==
    ASSUME IndInv, NEW t \in Task, NEW ok \in BOOLEAN, connect_cb(t, ok)
    PROVE  IndInv'
<1>1. /\ UNCHANGED <<lost, old_opened, interval, timer, stray, misuse, queue, phase>>
      /\ phase = "loop" /\ waits[t] = "connect" /\ misuse = "no" /\ context = "connecting"
      /\ waits' = [waits EXCEPT ![t] = "no"]
      /\ ret' \in [Task -> {"unfinished", "ok", "error"}]
  BY DEF connect_cb, Loop, Defined, Resume, timerVars, IndInv, TypeOK
<1>2. mode = "manual" /\ context = "connecting" /\ timer = "null" /\ \A u \in Task : waits[u] = "connect" => u = t
  BY <1>1 DEF IndInv, Shape, Connecting
<1>3. Cells'
  BY <1>1, CellsFrame
<1>4. Connecting'
  BY <1>1, <1>2 DEF IndInv, TypeOK, Connecting
<1>5. (mode' = "manual" /\ context' = "up") \/ (mode' = "refused" /\ context' = "failed")
  BY DEF connect_cb
<1>6. Shape'
  BY <1>1, <1>2, <1>5 DEF Shape
<1>7. TypeOK' /\ HandlesOwned'
  BY <1>1, <1>5 DEF IndInv, TypeOK, Context, HandlesOwned
<1> QED
  BY <1>3, <1>4, <1>6, <1>7 DEF IndInv

\* A command is constructed; ...
LEMMA ConstructOK ==
    ASSUME IndInv, NEW t \in Task, Construct(t)
    PROVE  IndInv'
<1> USE NullAssumption, TimerAssumption
<1>1. /\ UNCHANGED <<mode, context, lost, old_opened, interval, timer, stray, phase>>
      /\ waits[t] = "no" /\ misuse = "no" /\ context \in Context
  BY DEF Construct, UserCode, Defined, connVars, IndInv, TypeOK
<1>2. CASE context \in {"connecting", "up", "failed"}
  <2>1. /\ queue' = Append(queue, t) /\ misuse' = "no"
        /\ waits' = [waits EXCEPT ![t] = "sent"] /\ ret' = [ret EXCEPT ![t] = "unfinished"]
    BY <1>1, <1>2 DEF Construct
  <2>2. queue \in Seq(Task \cup {NULL}) /\ t \in Task \cup {NULL}
    BY DEF IndInv, TypeOK
  <2>3. /\ queue' \in Seq(Task \cup {NULL}) /\ Len(queue) \in Nat /\ Len(queue') = Len(queue) + 1
        /\ \A i \in 1..Len(queue) : queue'[i] = queue[i] /\ queue[i] \in Task \cup {NULL}
        /\ queue'[Len(queue) + 1] = t
    BY <2>1, <2>2, AppendProperties, LenProperties, ElementOfSeq
  <2>4. waits'[t] = "sent" /\ \A u \in Task : u # t => waits'[u] = waits[u]
    BY <2>1 DEF IndInv, TypeOK
  <2>5. \A i \in 1..Len(queue') : i \in 1..Len(queue) \/ i = Len(queue) + 1
    BY <2>3
  <2>6. \A i \in 1..Len(queue) : queue[i] # t
    BY <1>1 DEF IndInv, Cells
  <2>7. Cells'
    <3>1. ASSUME NEW i \in 1..Len(queue'), queue'[i] # NULL PROVE waits'[queue'[i]] \in {"sent", "command"}
      <4>1. CASE i = Len(queue) + 1
        BY <2>3, <2>4, <4>1
      <4>2. CASE i \in 1..Len(queue)
        BY <2>3, <2>4, <2>6, <3>1, <4>2 DEF IndInv, Cells
      <4> QED
        BY <2>5, <4>1, <4>2
    <3>2. ASSUME NEW i \in 1..Len(queue'), NEW j \in 1..Len(queue'), queue'[i] # NULL, queue'[i] = queue'[j]
          PROVE  i = j
      BY <2>3, <2>5, <2>6, <3>2 DEF IndInv, Cells
    <3>3. ASSUME NEW u \in Task, waits'[u] = "command" PROVE \E i \in 1..Len(queue') : queue'[i] = u
      <4>1. u # t /\ waits[u] = "command"
        BY <2>4, <3>3
      <4>2. PICK i \in 1..Len(queue) : queue[i] = u
        BY <4>1 DEF IndInv, Cells
      <4> QED
        BY <2>3, <4>2
    <3> QED
      BY <3>1, <3>2, <3>3 DEF Cells
  <2>8. Connecting'
    BY <1>1, <2>4 DEF IndInv, Connecting
  <2>9. Shape'
    BY <1>1, <1>2 DEF IndInv, Shape, AutoShape
  <2>10. TypeOK' /\ HandlesOwned'
    BY <1>1, <2>1, <2>3 DEF IndInv, TypeOK, HandlesOwned
  <2> QED
    BY <2>7, <2>8, <2>9, <2>10 DEF IndInv
<1>3. CASE context = "closing"
  <2>1. /\ queue' = queue /\ misuse' = "no" /\ waits' = [waits EXCEPT ![t] = "no"]
        /\ ret' = [ret EXCEPT ![t] = "error"]
    BY <1>1, <1>3 DEF Construct, Resume
  <2>2. waits' = waits
    BY <1>1, <2>1 DEF IndInv, TypeOK
  <2>3. Cells'
    BY <1>1, <2>1, CellsFrame
  <2>4. Connecting' /\ Shape'
    BY <1>1, <2>1, <2>2 DEF IndInv, Connecting, Shape, AutoShape
  <2>5. TypeOK' /\ HandlesOwned'
    BY <1>1, <2>1 DEF IndInv, TypeOK, HandlesOwned
  <2> QED
    BY <2>3, <2>4, <2>5 DEF IndInv
<1>4. CASE context \in {"null", "freed"}
  <2>1. misuse' = "user" /\ UNCHANGED <<queue, waits, ret>>
    BY <1>4 DEF Construct, taskVars
  <2>2. TypeOK' /\ HandlesOwned'
    BY <1>1, <2>1 DEF IndInv, TypeOK, HandlesOwned
  <2>3. Connecting' /\ Cells'
    BY <1>1, <2>1 DEF IndInv, Connecting, Cells
  <2> QED
    BY <2>1, <2>2, <2>3 DEF IndInv
<1> QED
  BY <1>1, <1>2, <1>3, <1>4 DEF Context

\* ... it is awaited, perhaps too late.
LEMMA RunOK ==
    ASSUME IndInv, NEW t \in Task, Run(t)
    PROVE  IndInv'
<1> USE NullAssumption, TimerAssumption
<1>1. /\ UNCHANGED <<mode, context, lost, old_opened, interval, timer, stray, queue, phase, ret>>
      /\ waits[t] = "sent" /\ misuse = "no"
  BY DEF Run, UserCode, Defined, connVars
<1>2. queue \in Seq(Task \cup {NULL}) /\ \A i \in 1..Len(queue) : queue[i] \in Task \cup {NULL}
  <2>1. queue \in Seq(Task \cup {NULL})
    BY DEF IndInv, TypeOK
  <2> QED
    BY <2>1, ElementOfSeq
<1>3. CASE t \in ToSet(queue)
  <2>1. waits' = [waits EXCEPT ![t] = "command"] /\ misuse' = "no"
    BY <1>1, <1>3 DEF Run
  <2>2. waits'[t] = "command" /\ \A u \in Task : u # t => waits'[u] = waits[u]
    BY <2>1 DEF IndInv, TypeOK
  <2>3. \E i \in 1..Len(queue) : queue[i] = t
    BY <1>2, <1>3 DEF ToSet
  <2>4. Cells'
    <3>1. \A i \in 1..Len(queue) : queue[i] # NULL => waits'[queue[i]] \in {"sent", "command"}
      BY <1>2, <2>2 DEF IndInv, Cells
    <3>2. \A u \in Task : waits'[u] = "command" => \E i \in 1..Len(queue) : queue[i] = u
      BY <2>2, <2>3 DEF IndInv, Cells
    <3> QED
      BY <1>1, <3>1, <3>2 DEF IndInv, Cells
  <2>5. Connecting'
    BY <1>1, <2>2 DEF IndInv, Connecting
  <2>6. Shape'
    BY <1>1 DEF IndInv, Shape, AutoShape
  <2>7. TypeOK' /\ HandlesOwned'
    BY <1>1, <2>1 DEF IndInv, TypeOK, HandlesOwned
  <2> QED
    BY <2>4, <2>5, <2>6, <2>7 DEF IndInv
<1>4. CASE t \notin ToSet(queue)
  <2>1. misuse' = "user" /\ waits' = waits
    BY <1>4 DEF Run
  <2>2. TypeOK' /\ HandlesOwned'
    BY <1>1, <2>1 DEF IndInv, TypeOK, HandlesOwned
  <2>3. Connecting' /\ Cells'
    BY <1>1, <2>1 DEF IndInv, Connecting, Cells
  <2> QED
    BY <2>1, <2>2, <2>3 DEF IndInv
<1> QED
  BY <1>3, <1>4

LEMMA command_cbOK ==
    ASSUME IndInv, misuse = "no", context \in {"up", "closing"}, NEW r \in {"ok", "error"}, command_cb(r)
    PROVE  IndInv'
<1> USE NullAssumption, TimerAssumption
<1> DEFINE t == Head(queue)
<1>1. /\ UNCHANGED <<mode, context, lost, old_opened, interval, timer, stray, misuse, phase>>
      /\ queue # <<>> /\ queue' = Tail(queue)
      /\ IF t # NULL /\ waits[t] = "command"
           THEN waits' = [waits EXCEPT ![t] = "no"] /\ ret' = [ret EXCEPT ![t] = r]
           ELSE waits' = waits /\ ret' = ret
  BY DEF command_cb, Resume, connVars, timerVars, taskVars
<1>2. /\ queue' \in Seq(Task \cup {NULL}) /\ Len(queue) \in Nat /\ Len(queue) >= 1 /\ Len(queue') = Len(queue) - 1
      /\ t = queue[1] /\ t \in Task \cup {NULL}
      /\ \A i \in 1..(Len(queue) - 1) : queue'[i] = queue[i + 1]
      /\ \A i \in 1..Len(queue) : queue[i] \in Task \cup {NULL}
  <2>1. queue \in Seq(Task \cup {NULL}) /\ queue # <<>>
    BY <1>1 DEF IndInv, TypeOK
  <2>2. Len(queue) \in Nat /\ Len(queue) >= 1
    BY <2>1, EmptySeq
  <2>3. /\ Head(queue) \in Task \cup {NULL} /\ Tail(queue) \in Seq(Task \cup {NULL})
        /\ Len(Tail(queue)) = Len(queue) - 1
        /\ \A i \in 1..Len(Tail(queue)) : Tail(queue)[i] = queue[i + 1]
    BY <2>1, HeadTailProperties
  <2>4. \A i \in 1..Len(queue) : queue[i] \in Task \cup {NULL}
    BY <2>1, ElementOfSeq
  <2>5. Head(queue) = queue[1]
    BY <2>1, <2>2
  <2> QED
    BY <1>1, <2>2, <2>3, <2>4, <2>5
<1> HIDE DEF t
<1>3. t # NULL => t \in Task /\ waits[t] \in {"sent", "command"} /\ \A i \in 1..Len(queue) : queue[i] = t => i = 1
  BY <1>2 DEF IndInv, Cells
<1>4. \A u \in Task : /\ u # t => waits'[u] = waits[u]
                      /\ u = t => waits'[u] \in {"no", "sent"}
  BY <1>1, <1>2, <1>3 DEF IndInv, TypeOK
<1>5. /\ waits' \in [Task -> {"no", "connect", "sent", "command"}]
      /\ ret' \in [Task -> {"unfinished", "ok", "error"}]
  BY <1>1, <1>3 DEF IndInv, TypeOK
<1>6. TypeOK' /\ HandlesOwned'
  BY <1>1, <1>2, <1>5 DEF IndInv, TypeOK, HandlesOwned
<1>7. Shape'
  BY <1>1 DEF IndInv, Shape, AutoShape
<1>8. Connecting'
  BY <1>1, <1>4 DEF IndInv, Connecting
<1>9. Cells'
  <2>1. ASSUME NEW i \in 1..Len(queue') PROVE i + 1 \in 1..Len(queue) /\ queue'[i] = queue[i + 1] /\ i + 1 # 1
    BY <1>2
  <2>2. ASSUME NEW i \in 1..Len(queue'), queue'[i] # NULL PROVE waits'[queue'[i]] \in {"sent", "command"}
    <3>1. queue[i + 1] # t /\ queue[i + 1] \in Task /\ waits[queue[i + 1]] \in {"sent", "command"}
      BY <1>2, <1>3, <2>1, <2>2 DEF IndInv, Cells
    <3> QED
      BY <1>4, <2>1, <3>1
  <2>3. ASSUME NEW i \in 1..Len(queue'), NEW j \in 1..Len(queue'), queue'[i] # NULL, queue'[i] = queue'[j]
        PROVE  i = j
    <3>1. i + 1 = j + 1
      BY <2>1, <2>3 DEF IndInv, Cells
    <3> QED
      BY <1>2, <3>1
  <2>4. ASSUME NEW u \in Task, waits'[u] = "command" PROVE \E i \in 1..Len(queue') : queue'[i] = u
    <3>1. u # t /\ waits[u] = "command"
      BY <1>4, <2>4
    <3>2. PICK j \in 1..Len(queue) : queue[j] = u
      BY <3>1 DEF IndInv, Cells
    <3>3. j # 1
      BY <1>2, <3>1, <3>2
    <3>4. j - 1 \in 1..Len(queue') /\ (j - 1) + 1 = j
      BY <1>2, <3>3
    <3>5. queue'[j - 1] = queue[j]
      BY <1>2, <3>4
    <3> QED
      BY <3>2, <3>4, <3>5
  <2> QED
    BY <2>2, <2>3, <2>4 DEF Cells
<1> QED
  BY <1>6, <1>7, <1>8, <1>9 DEF IndInv

LEMMA CancelOK ==
    ASSUME IndInv, NEW t \in Task, Cancel(t)
    PROVE  IndInv'
<1> USE NullAssumption, TimerAssumption
<1>1. /\ UNCHANGED <<mode, context, lost, old_opened, interval, timer, stray, misuse, phase, ret>>
      /\ waits[t] = "command" /\ waits' = [waits EXCEPT ![t] = "no"] /\ misuse = "no"
      /\ queue' = [i \in DOMAIN queue |-> IF queue[i] = t THEN NULL ELSE queue[i]]
  BY DEF Cancel, UserCode, Defined, ClearedCell, connVars, timerVars
<1>2. /\ queue \in Seq(Task \cup {NULL}) /\ Len(queue) \in Nat /\ DOMAIN queue = 1..Len(queue)
      /\ \A i \in 1..Len(queue) : queue[i] \in Task \cup {NULL}
  <2>1. queue \in Seq(Task \cup {NULL})
    BY DEF IndInv, TypeOK
  <2> QED
    BY <2>1, LenProperties, ElementOfSeq
<1>3. /\ queue' \in Seq(Task \cup {NULL}) /\ Len(queue') = Len(queue)
      /\ \A i \in 1..Len(queue) : queue'[i] = IF queue[i] = t THEN NULL ELSE queue[i]
  <2>1. queue' = [i \in 1..Len(queue) |-> IF queue[i] = t THEN NULL ELSE queue[i]]
    BY <1>1, <1>2
  <2> QED
    BY <1>2, <2>1
<1>4. waits'[t] = "no" /\ \A u \in Task : u # t => waits'[u] = waits[u]
  BY <1>1 DEF IndInv, TypeOK
<1>5. Cells'
  <2>1. ASSUME NEW i \in 1..Len(queue'), queue'[i] # NULL PROVE waits'[queue'[i]] \in {"sent", "command"}
    <3>1. queue'[i] = queue[i] /\ queue[i] # t /\ queue[i] \in Task
      BY <1>2, <1>3, <2>1
    <3> QED
      BY <1>3, <1>4, <2>1, <3>1 DEF IndInv, Cells
  <2>2. ASSUME NEW i \in 1..Len(queue'), NEW j \in 1..Len(queue'), queue'[i] # NULL, queue'[i] = queue'[j]
        PROVE  i = j
    <3>1. i \in 1..Len(queue) /\ j \in 1..Len(queue) /\ queue[i] = queue[j] /\ queue[i] # NULL
      BY <1>3, <2>2
    <3> QED
      BY <3>1 DEF IndInv, Cells
  <2>3. ASSUME NEW u \in Task, waits'[u] = "command" PROVE \E i \in 1..Len(queue') : queue'[i] = u
    <3>1. PICK i \in 1..Len(queue) : queue[i] = u
      BY <1>4, <2>3 DEF IndInv, Cells
    <3>2. u # t
      BY <1>4, <2>3
    <3> QED
      BY <1>3, <3>1, <3>2
  <2> QED
    BY <2>1, <2>2, <2>3 DEF Cells
<1>6. TypeOK' /\ HandlesOwned'
  BY <1>1, <1>3 DEF IndInv, TypeOK, HandlesOwned
<1>7. Shape'
  <2>1. queue = <<>> => queue' = <<>>
    BY <1>2, <1>3, EmptySeq
  <2> QED
    BY <1>1, <2>1 DEF IndInv, Shape, AutoShape
<1>8. Connecting'
  BY <1>1, <1>4 DEF IndInv, Connecting
<1> QED
  BY <1>5, <1>6, <1>7, <1>8 DEF IndInv

LEMMA NextOK == IndInv /\ [Next]_vars => IndInv'
<1> SUFFICES ASSUME IndInv, [Next]_vars PROVE IndInv'
  OBVIOUS
<1>1. CASE HiredisAndTimers
  <2>1. ASSUME Reply \/ Drain PROVE IndInv'
    BY <2>1, command_cbOK DEF Reply, Drain, Loop, Defined
  <2> QED
    BY <1>1, <2>1, auto_connect_cbOK, connect_cbOK, TimeoutOK, ReconnectNextOK, connect_nowOK, DisconnectOK,
       ClosedOK, DestroyedOK DEF HiredisAndTimers
<1>2. CASE User
  BY <1>2, AutoConnectOK, ConnectOK, ConstructOK, RunOK, CancelOK, DestroyOK DEF User
<1>3. CASE UNCHANGED vars
  BY <1>3 DEF vars, connVars, timerVars, taskVars, IndInv, TypeOK, HandlesOwned, Shape, AutoShape, Connecting, Cells
<1> QED
  BY <1>1, <1>2, <1>3 DEF Next

LEMMA Invariance == Spec => []IndInv
<1>1. Init => IndInv
  BY InitOK
<1>2. IndInv /\ [Next]_vars => IndInv'
  BY NextOK
<1> QED
  BY <1>1, <1>2, PTL DEF Spec

\* The reconnect interval stays between its limits whatever they are, however
\* often it doubles.
THEOREM TypeSafe == Spec => []TypeOK
<1>1. IndInv => TypeOK
  BY DEF IndInv
<1> QED
  BY <1>1, Invariance, PTL

\* The callbacks of the connection close every timer once and while it is open,
\* none runs on unknown and no context is forgotten, whatever user code does in
\* between, up to a use of the object that is undefined.
THEOREM HandlesSafe == Spec => []HandlesOwned
<1>1. IndInv => HandlesOwned
  BY DEF IndInv
<1> QED
  BY <1>1, Invariance, PTL

\* Cells name exactly the commands in progress, each once.
THEOREM CellsSafe == Spec => []CellsNameCommands
<1>1. IndInv => CellsNameCommands
  <2> SUFFICES ASSUME IndInv, NEW t \in Task
               PROVE  Cardinality({i \in DOMAIN queue : queue[i] = t})
                        \in CASE waits[t] = "command" -> {1}
                             [] waits[t] = "sent" -> {0, 1}
                             [] OTHER -> {0}
    BY DEF CellsNameCommands
  <2> DEFINE P == {i \in DOMAIN queue : queue[i] = t}
  <2>1. DOMAIN queue = 1..Len(queue) /\ t # NULL
    BY LenProperties, NullAssumption, TimerAssumption DEF IndInv, TypeOK
  <2>2. CASE \E i \in 1..Len(queue) : queue[i] = t
    <3>1. PICK i \in 1..Len(queue) : queue[i] = t
      BY <2>2
    <3>2. P = {i} /\ waits[t] \in {"sent", "command"}
      BY <2>1, <3>1 DEF IndInv, Cells
    <3>3. Cardinality(P) = 1
      BY <3>2, FS_Singleton
    <3> QED
      BY <3>2, <3>3
  <2>3. CASE ~\E i \in 1..Len(queue) : queue[i] = t
    <3>1. P = {} /\ waits[t] # "command"
      BY <2>1, <2>3 DEF IndInv, Cells
    <3>2. Cardinality(P) = 0
      BY <3>1, FS_EmptySet
    <3> QED
      BY <3>1, <3>2
  <2> QED
    BY <2>2, <2>3
<1> QED
  BY <1>1, Invariance, PTL

\* No timer left over from an attempt tears down an established connection.
THEOREM EstablishedSafe == Spec => EstablishedKept
<1>1. ASSUME IndInv, [Next]_vars, context = "up", context' # "up" PROVE phase' \in {"closed", "destroy"}
  <2>1. misuse = "no" \/ UNCHANGED vars
    BY <1>1 DEF Next, HiredisAndTimers, User, auto_connect_cb, connect_cb, auto_connect_timeout_cb,
        auto_reconnect_next_cb, Fires, connect_now, Disconnect, auto_connect_closed_cb, Reply, Drain, Destroyed,
        AutoConnect, Connect, Construct, Run, Cancel, Destroy, Loop, UserCode, Defined
  <2>2. misuse = "no"
    BY <1>1, <2>1 DEF vars, connVars
  <2>3. /\ phase = "loop" /\ timer \in {"null", "closed"} /\ stray = {} /\ mode \in {"auto", "manual"}
        /\ \A t \in Task : waits[t] # "connect"
    BY <1>1, <2>2 DEF IndInv, TypeOK, HandlesOwned, Shape, AutoShape, Connecting
  <2>4. CASE HiredisAndTimers
    BY <1>1, <2>3, <2>4
    DEF HiredisAndTimers, auto_connect_cb, connect_cb, auto_connect_timeout_cb, auto_reconnect_next_cb, Fires, Running,
        connect_now, Disconnect, auto_connect_closed_cb, Reply, Drain, command_cb, Destroyed, connVars
  <2>5. CASE Destroy
    BY <2>3, <2>5 DEF Destroy
  <2>6. CASE (User /\ ~Destroy) \/ UNCHANGED vars
    BY <1>1, <2>3, <2>6 DEF User, AutoConnect, Connect, Cancel, Construct, Run, vars, connVars
  <2> QED
    BY <1>1, <2>4, <2>5, <2>6 DEF Next
<1>2. IndInv /\ [Next]_vars => [context = "up" /\ context' # "up" => phase' \in {"closed", "destroy"}]_vars
  BY <1>1
<1> QED
  BY <1>2, Invariance, PTL DEF Spec, EstablishedKept
=============================================================================
