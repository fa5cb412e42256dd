------------------------------ MODULE TaskPool ------------------------------
(***************************************************************************)
(* Coroutine ids: every instance task<UserPages, ProtectPages> of the task *)
(* template owns a contiguous range of ids and a free list over it         *)
(* (include/cocoflow.h), every id one coroutine stack (__init in           *)
(* src/cocoflow.cc).  A task object takes an id when it is constructed,    *)
(* gives it back when it is awaited (it then runs on its parent's          *)
(* coroutine) or destroyed, and runs on its own coroutine when it is       *)
(* started, is a child of all_of/any_of, or is the top task.               *)
(*                                                                         *)
(* Which task calls what, and when a running task finishes, is decided by  *)
(* the program and by module Scheduler; here any running task that waits   *)
(* for nobody may do either.                                               *)
(***************************************************************************)
EXTENDS Integers, FiniteSets, Tasks

CONSTANTS
    Pool,           \* the instances of the task template
    MaxTaskNum      \* bound: the largest max_task_num passed to init()

ASSUME MaxAssumption == MaxTaskNum \in Nat \ {0}

\* 0xffffffff, in place of an id: "no coroutine of its own" / the event loop.
EVENT_LOOP_ID == -1

VARIABLES
    \* static members of each template instance
    initialized,        \* [Pool -> BOOLEAN]
    first_id,           \* [Pool -> Nat]: first id of its range
    max_task_num,       \* [Pool -> Nat]: free_list_end - start of the array
    free_list,          \* [Pool -> array of ids]
    free_list_front,    \* [Pool -> index into the array]
    \* globals of cocoflow.cc
    global_initialized,
    g_max_task_num,     \* ids handed out to template instances so far
    capacity,           \* length of global_task_manager/global_running_manager
    global_task_manager,\* the array itself: id -> task object
    top_task,
    \* members of the task objects
    tpl,                \* the template instance the object belongs to
    status,             \* "none": no object lives at this address
    uid,                \* _unique_id
    finish_to,
    reuse               \* the task this one awaits

poolVars == <<initialized, first_id, max_task_num, free_list, free_list_front>>
globalVars == <<global_initialized, g_max_task_num, capacity,
                global_task_manager, top_task>>
taskVars == <<tpl, status, uid, finish_to, reuse>>
vars == <<poolVars, globalVars, taskVars>>

Ended == {"completed", "canceled", "child_unready"}
Status == {"none", "ready", "limited", "running"} \cup Ended

-----------------------------------------------------------------------------
\* Ids on the free list of p, and the objects of p that hold an id of their
\* own (an awaited object only borrows its parent's).
IdRange(p) == first_id[p] .. (first_id[p] + max_task_num[p] - 1)
Slots(p) == free_list_front[p] .. (max_task_num[p] - 1)
Free(p) == {free_list[p][i] : i \in Slots(p)}
Awaited(t) == \E q \in Task : reuse[q] = t
Holds(t) == status[t] # "none" /\ uid[t] # EVENT_LOOP_ID /\ ~Awaited(t)
Holders(p) == {t \in Task : Holds(t) /\ tpl[t] = p}

-----------------------------------------------------------------------------
Init ==
    /\ initialized = [p \in Pool |-> FALSE]
    /\ first_id = [p \in Pool |-> 0]
    /\ max_task_num = [p \in Pool |-> 0]
    /\ free_list = [p \in Pool |-> [i \in {} |-> 0]]
    /\ free_list_front = [p \in Pool |-> 0]
    /\ global_initialized = FALSE
    /\ g_max_task_num = 0
    /\ capacity = 0
    /\ global_task_manager = [i \in {} |-> NULL]
    /\ top_task = NULL
    /\ tpl \in [Task -> Pool]
    /\ status = [t \in Task |-> "none"]
    /\ uid = [t \in Task |-> EVENT_LOOP_ID]
    /\ finish_to = [t \in Task |-> EVENT_LOOP_ID]
    /\ reuse = [t \in Task |-> NULL]

\* The array that __init_setting fills: the next n ids.  (Seeded bug: one more.)
FreshListLong(n) == [i \in 0..n |-> g_max_task_num + i]
FreshList(n) == [i \in 0..(n-1) |-> g_max_task_num + i]

\* _task_tpl::init and __init_setting.  Both tests of init() read the
\* template's own flag; neither reads global_initialized.
init(p, n) ==
    /\ ~initialized[p]
    /\ initialized' = [initialized EXCEPT ![p] = TRUE]
    /\ first_id' = [first_id EXCEPT ![p] = g_max_task_num]
    /\ max_task_num' = [max_task_num EXCEPT ![p] = n]
    /\ free_list' = [free_list EXCEPT ![p] = FreshList(n)]
    /\ free_list_front' = [free_list_front EXCEPT ![p] = 0]
    /\ g_max_task_num' = g_max_task_num + n
    /\ UNCHANGED <<global_initialized, capacity, global_task_manager, top_task, taskVars>>

\* __init: the tables get one entry for every id handed out so far.
RunInit ==
    /\ global_initialized' = TRUE
    /\ IF global_initialized
         THEN UNCHANGED capacity
         ELSE capacity' = g_max_task_num

\* The manager table after __init (if it runs) and the constructor's store.
\* (Seeded bug: an entry left behind by await() is not overwritten.)
ManagerKeepsOld(store) ==
    [i \in 0..(capacity' - 1) |->
        IF global_initialized /\ global_task_manager[i] # NULL THEN global_task_manager[i]
        ELSE IF i \in DOMAIN store THEN store[i] ELSE NULL]
Manager(store) ==
    [i \in 0..(capacity' - 1) |->
        IF i \in DOMAIN store THEN store[i]
        ELSE IF global_initialized THEN global_task_manager[i] ELSE NULL]

\* free_list_front == free_list_end.  (Seeded bug: off by one.)
ExhaustedEarly(p) == free_list_front[p] >= max_task_num[p] - 1
Exhausted(p) == free_list_front[p] = max_task_num[p]

\* _task_tpl::task(), the free list is not empty.
Construct(t) ==
    LET p == tpl[t]
        id == free_list[p][free_list_front[p]]
    IN  /\ status[t] = "none"
        /\ initialized[p]
        /\ RunInit
        /\ ~Exhausted(p)
        /\ free_list_front' = [free_list_front EXCEPT ![p] = @ + 1]
        /\ uid' = [uid EXCEPT ![t] = id]
        /\ status' = [status EXCEPT ![t] = "ready"]
        /\ reuse' = [reuse EXCEPT ![t] = NULL]
        /\ global_task_manager' = Manager([i \in {id} |-> t])
        /\ UNCHANGED <<initialized, first_id, max_task_num, free_list,
                       g_max_task_num, top_task, tpl, finish_to>>

\* _task_tpl::task(), every id of the template instance is taken.
ConstructLimited(t) ==
    /\ status[t] = "none"
    /\ initialized[tpl[t]]
    /\ RunInit
    /\ Exhausted(tpl[t])
    /\ uid' = [uid EXCEPT ![t] = EVENT_LOOP_ID]
    /\ status' = [status EXCEPT ![t] = "limited"]
    /\ reuse' = [reuse EXCEPT ![t] = NULL]
    /\ global_task_manager' = Manager([i \in {} |-> NULL])
    /\ UNCHANGED <<poolVars, g_max_task_num, top_task, tpl, finish_to>>

\* *(--free_list_front) = uid, unless the object has no id.  (Seeded bug:
\* the id is not pushed.)
PushId(t) ==
    LET p == tpl[t]
        i == free_list_front[p] - 1
    IN  /\ free_list_front' = [free_list_front EXCEPT ![p] = i]
        /\ free_list' = [free_list EXCEPT ![p][i] = uid[t]]
KeepId(t) == UNCHANGED <<free_list, free_list_front>>
GiveBack(t) ==
    IF uid[t] = EVENT_LOOP_ID
      THEN UNCHANGED <<free_list, free_list_front>>
      ELSE PushId(t)

\* ~task(): the address may be used for another object afterwards.
Destructor(t) ==
    /\ GiveBack(t)
    /\ status' = [status EXCEPT ![t] = "none"]
    /\ uid' = [uid EXCEPT ![t] = EVENT_LOOP_ID]
    /\ finish_to' = [finish_to EXCEPT ![t] = EVENT_LOOP_ID]

\* The program destroys an object that does not run.
Destroy(t) ==
    /\ status[t] \notin {"none", "running"}
    /\ Destructor(t)
    /\ UNCHANGED <<initialized, first_id, max_task_num, globalVars, tpl, reuse>>

\* parent->reuse = target.  (Seeded bug: not set.)
Forget(parent, t) == UNCHANGED reuse
Remember(parent, t) == reuse' = [reuse EXCEPT ![parent] = t]

\* await<>(t) and __await(t) called by parent: t gives its id back and runs
\* on the coroutine of its parent.
Await(parent, t) ==
    /\ status[parent] = "running" /\ reuse[parent] = NULL
    /\ status[t] \in {"ready", "limited"}
    /\ GiveBack(t)
    /\ uid' = [uid EXCEPT ![t] = uid[parent]]
    /\ finish_to' = [finish_to EXCEPT ![t] = uid[parent]]
    /\ status' = [status EXCEPT ![t] = "running"]
    /\ Remember(parent, t)
    /\ UNCHANGED <<initialized, first_id, max_task_num, globalVars, tpl>>

\* await<>(t) of a task that is not ready: the template gives the id back
\* before __await looks at the status and returns -1.
AwaitReject(t) ==
    /\ \E caller \in Task : status[caller] = "running" /\ reuse[caller] = NULL
    /\ status[t] \notin {"none", "ready", "limited"}
    /\ GiveBack(t)
    /\ uid' = [uid EXCEPT ![t] = EVENT_LOOP_ID]
    /\ UNCHANGED <<initialized, first_id, max_task_num, globalVars, tpl, status,
                   finish_to, reuse>>

\* The end of __await(t), by return or by interrupt_canceled.
AwaitReturn(parent, t, s) ==
    /\ reuse[parent] = t /\ reuse[t] = NULL
    /\ reuse' = [reuse EXCEPT ![parent] = NULL]
    /\ uid' = [uid EXCEPT ![t] = EVENT_LOOP_ID]
    /\ status' = [status EXCEPT ![t] = s]
    /\ UNCHANGED <<poolVars, globalVars, tpl, finish_to>>

\* __start(t), the step of all_of/any_of that starts child t, __cocoflow(t).
Start(t) ==
    /\ status[t] = "ready"
    /\ \E parent \in Task : status[parent] = "running" /\ reuse[parent] = NULL
    /\ finish_to' = [finish_to EXCEPT ![t] = EVENT_LOOP_ID]
    /\ status' = [status EXCEPT ![t] = "running"]
    /\ UNCHANGED <<poolVars, globalVars, tpl, uid, reuse>>

StartChild(parent, t) ==
    /\ status[t] = "ready"
    /\ status[parent] = "running" /\ reuse[parent] = NULL
    /\ finish_to' = [finish_to EXCEPT ![t] = uid[parent]]
    /\ status' = [status EXCEPT ![t] = "running"]
    /\ UNCHANGED <<poolVars, globalVars, tpl, uid, reuse>>

Cocoflow(t) ==
    /\ top_task = NULL
    /\ status[t] = "ready"
    /\ top_task' = t
    /\ finish_to' = [finish_to EXCEPT ![t] = EVENT_LOOP_ID]
    /\ status' = [status EXCEPT ![t] = "running"]
    /\ UNCHANGED <<poolVars, global_initialized, g_max_task_num, capacity,
                   global_task_manager, tpl, uid, reuse>>

\* __start(t) of a task that is not ready deletes it.
StartReject(t) ==
    /\ status[t] \in Ended \cup {"limited"}
    /\ Destructor(t)
    /\ UNCHANGED <<initialized, first_id, max_task_num, globalVars, tpl, reuse>>

\* The end of __task_runtime's loop body for the coroutine that runs t: a
\* started task is deleted, any other one stays with its end status.
Finish(t, s) ==
    /\ status[t] = "running" /\ reuse[t] = NULL /\ ~Awaited(t)
    /\ IF finish_to[t] = EVENT_LOOP_ID /\ t # top_task
         THEN /\ global_task_manager' = [global_task_manager EXCEPT ![uid[t]] = NULL]
              /\ Destructor(t)
         ELSE /\ status' = [status EXCEPT ![t] = s]
              /\ UNCHANGED <<free_list, free_list_front, global_task_manager,
                             uid, finish_to>>
    /\ UNCHANGED <<initialized, first_id, max_task_num, global_initialized,
                   g_max_task_num, capacity, top_task, tpl, reuse>>

-----------------------------------------------------------------------------
\* The steps of a program that keeps to the documented use: every template
\* instance is initialised before the first task is created, and await is
\* called on ready or limited tasks.
UseTasks ==
    \/ \E t \in Task : \/ Construct(t) \/ ConstructLimited(t) \/ Destroy(t)
                       \/ Start(t) \/ Cocoflow(t) \/ StartReject(t)
    \/ \E parent, t \in Task : Await(parent, t) \/ StartChild(parent, t)
    \/ \E parent, t \in Task, s \in Ended : AwaitReturn(parent, t, s)
    \/ \E t \in Task, s \in Ended : Finish(t, s)

EarlyInit == \E p \in Pool, n \in 1..MaxTaskNum : ~global_initialized /\ init(p, n)

Next == EarlyInit \/ UseTasks

Spec == Init /\ [][Next]_vars

\* The same program with one more init() after tasks exist, which init()
\* itself is meant to refuse, ...
LateInit == \E p \in Pool, n \in 1..MaxTaskNum : global_initialized /\ init(p, n)
LateInitSpec == Init /\ [][Next \/ LateInit]_vars

\* ... and with await() of a task that is not ready, documented to return -1.
RejectedAwaitSpec == Init /\ [][Next \/ \E t \in Task : AwaitReject(t)]_vars

-----------------------------------------------------------------------------
\* Type invariant of the free lists, the globals and the task objects.
TypeOK ==
    /\ initialized \in [Pool -> BOOLEAN]
    /\ first_id \in [Pool -> Nat]
    /\ max_task_num \in [Pool -> Nat]
    /\ free_list_front \in [Pool -> Int]
    /\ free_list = [p \in Pool |-> free_list[p]]
    /\ \A p \in Pool : free_list[p] \in [0..(max_task_num[p]-1) -> Nat]
    /\ global_initialized \in BOOLEAN
    /\ g_max_task_num \in Nat
    /\ capacity \in Nat
    /\ global_task_manager \in [0..(capacity-1) -> Task \cup {NULL}]
    /\ top_task \in Task \cup {NULL}
    /\ tpl \in [Task -> Pool]
    /\ status \in [Task -> Status]
    /\ {uid, finish_to} \subseteq [Task -> Nat \cup {EVENT_LOOP_ID}]
    /\ reuse \in [Task -> Task \cup {NULL}]

\* The free list is an array written through a bare pointer: however tasks are
\* created, awaited while they can run, started and destroyed, free_list_front
\* stays inside it (*(--free_list_front) in await() and ~task(),
\* *(free_list_front++) in task()).  An await() that is rejected breaks this, see
\* RejectedAwaitSpec.
FreeListInBounds ==
    \A p \in Pool : 0 <= free_list_front[p] /\ free_list_front[p] <= max_task_num[p]

\* No id leaks and none is duplicated: each id of a template instance is either
\* on its free list, once, or held by exactly one live task object.
IdsPartitioned ==
    \A p \in Pool :
        /\ \A i, j \in Slots(p) : free_list[p][i] = free_list[p][j] => i = j
        /\ \A t, q \in Holders(p) : uid[t] = uid[q] => t = q
        /\ Free(p) \cap {uid[t] : t \in Holders(p)} = {}
        /\ Free(p) \cup {uid[t] : t \in Holders(p)} = IdRange(p)

\* The two about the free list: it is an exact account of the ids nobody holds.
FreeListSound == FreeListInBounds /\ IdsPartitioned

\* Every id a task holds or borrows indexes the manager tables and the
\* coroutines that __init allocated once, for the ids known at that time; an
\* init() after that breaks this, see LateInitSpec.
IdsHaveCoroutine ==
    \A t \in Task : status[t] # "none" /\ uid[t] # EVENT_LOOP_ID => uid[t] < capacity

\* __task_runtime(id) and swap_running look their task up in
\* global_task_manager: the entry of a held id is the holder, even though
\* await() leaves the entry of the id it gives back behind.
ManagerNamesHolder ==
    \A t \in Task : Holds(t) => global_task_manager[uid[t]] = t

\* The two about the tables, which __init sizes once: indexed inside, and right.
TablesSound == IdsHaveCoroutine /\ ManagerNamesHolder

\* One coroutine stack never carries two lines of execution: of the tasks that
\* run on an id (the holder and those awaited inside it), at most one is the
\* innermost, which is the one that __task_yield may leave and __task_stand
\* may resume.
OneInnermostPerCoroutine ==
    LET Innermost(t) == status[t] = "running" /\ reuse[t] = NULL
    IN  \A t, q \in Task : Innermost(t) /\ Innermost(q) /\ uid[t] = uid[q] => t = q

\* A task is created as "limited" only when all max_task_num ids of its
\* template instance really are held by live objects.
LimitedOnlyWhenFull ==
    [][\A t \in Task : status[t] = "none" /\ status'[t] = "limited"
            => Cardinality(Holders(tpl[t])) = max_task_num[tpl[t]]]_vars

\* The arrays, pointers and borrowed ids implement IdPool: whatever an operation
\* does to them, to the owners of ids it is one taking, refusal or release of one
\* id of the right pool, or nothing.
Ranges == [p \in Pool |-> IdRange(p)]
Held == [t \in Task |-> IF Holds(t) THEN uid[t] ELSE EVENT_LOOP_ID]
Refused == {t \in Task : status[t] = "limited"}
Ids == INSTANCE IdPool WITH home <- tpl, ids <- Ranges, held <- Held, refused <- Refused
ImplementsIdPool == Ids!Spec

=============================================================================
