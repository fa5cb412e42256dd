----------------------------- MODULE EventTasks -----------------------------
(***************************************************************************)
(* The event tasks that wait for one libuv handle or request of their own: *)
(* sync (src/sync.cc) with its table of names and notify(), sleep          *)
(* (src/sleep.cc) and getaddrinfo (src/getaddrinfo.cc).                    *)
(*                                                                         *)
(* User code, and so every run(), cancel() and notify(), comes between the *)
(* callbacks or in the __task_stand that ends one.  Handles and requests   *)
(* are numbered as they are made, so that one which outlives its task is   *)
(* not mistaken for the next; a task object is used for any number of      *)
(* operations, one at a time, where the program would make a new one.      *)
(***************************************************************************)
EXTENDS Naturals, FiniteSets, Tasks

CONSTANTS
    Name,       \* ids of named syncs
    MaxOps      \* bound: handles and requests made

ASSUME NameAssumption == NULL \notin Name
ASSUME OpsAssumption == MaxOps \in Nat

VARIABLES
    waiting,    \* "no", "sync", "sleep", "dns"
    name,       \* the id of a named sync, NULL otherwise
    async,      \* the member async of a sync: a number, 0 for NULL
    req,        \* the member timer of a sleep or req of a getaddrinfo
    ids,        \* sync::ids
    objs,       \* libuv's open handles and requests
    made,       \* how many so far
    results,    \* the addrinfo of a request: none, pending, given, freed
    told,       \* how the last operation ended
    owed        \* a notify() of this wait returned 0

syncVars == <<name, ids, async, owed>>
eventVars == <<waiting, name, async, req, ids, objs, made, results, told, owed>>

Kind == {"sync", "sleep", "dns"}

Objects == [id : 1..MaxOps, kind : Kind, data : Task \cup {NULL},
            state : {"armed", "due", "answered", "failed"}]

\* A new handle or request for t, and the one with number i.
Object(k, t) == [id |-> made + 1, kind |-> k, data |-> t, state |-> "armed"]
Numbered(i) == {o \in objs : o.id = i}
With(o, field, v) == (objs \ {o}) \cup {[o EXCEPT ![field] = v]}

-----------------------------------------------------------------------------
EventInit ==
    /\ waiting = [t \in Task |-> "no"]
    /\ name = [t \in Task |-> NULL]
    /\ async = [t \in Task |-> 0] /\ req = [t \in Task |-> 0]
    /\ ids = [n \in Name |-> NULL]
    /\ objs = {}
    /\ made = 0
    /\ results = [i \in 1..MaxOps |-> "none"]
    /\ told = [t \in Task |-> "none"]
    /\ owed = [t \in Task |-> FALSE]

\* run() up to its yield.
Begin(t, k) ==
    /\ waiting[t] = "no" /\ made < MaxOps
    /\ waiting' = [waiting EXCEPT ![t] = k]
    /\ objs' = objs \cup {Object(k, t)}
    /\ made' = made + 1
    /\ told' = [told EXCEPT ![t] = "none"]
    /\ UNCHANGED results

\* The task goes on (or is canceled), told how.
End(t, how) ==
    /\ waiting' = [waiting EXCEPT ![t] = "no"]
    /\ told' = [told EXCEPT ![t] = how]
    /\ UNCHANGED made

\* sync::run; its CHECK leaves it to the program that no two syncs wait under
\* one id.
RunSync(t, n) ==
    /\ n # NULL => ids[n] = NULL
    /\ Begin(t, "sync")
    /\ name' = [name EXCEPT ![t] = n]
    /\ async' = [async EXCEPT ![t] = made + 1]
    /\ ids' = [m \in Name |-> IF m = n THEN t ELSE ids[m]]
    /\ owed' = [owed EXCEPT ![t] = FALSE]
    /\ UNCHANGED req

\* What sync::run does after its yield, and sync::cancel: the name is erased,
\* the handle closed, the pointer cleared.  (Seeded bug: the name stays.)
KeepName(t) == ids
ErasedName(t) == [n \in Name |-> IF n = name[t] THEN NULL ELSE ids[n]]
ClearedPointer(t) == [async EXCEPT ![t] = 0]
EndSync(t, how) ==
    /\ ids' = ErasedName(t)
    /\ objs' = objs \ Numbered(async[t])
    /\ async' = ClearedPointer(t)
    /\ owed' = [owed EXCEPT ![t] = FALSE]
    /\ End(t, how)
    /\ UNCHANGED <<name, req, results>>

sync_cb(o) ==
    /\ o.kind = "sync" /\ o.state = "due"
    /\ EndSync(o.data, "notified")

CancelSync(t) == waiting[t] = "sync" /\ EndSync(t, "canceled")

\* uv_async_send, through the pointer of t; more than one before the callback
\* count as one.  (Seeded bug: sent only when the sync has no name.)
SignalUnnamed(t) ==
    objs' = IF name[t] = NULL
              THEN {IF o \in Numbered(async[t]) THEN [o EXCEPT !.state = "due"] ELSE o : o \in objs}
              ELSE objs
Signal(t) == objs' = {IF o \in Numbered(async[t]) THEN [o EXCEPT !.state = "due"] ELSE o : o \in objs}

\* notify(sync*) and notify(long), when they return 0; otherwise they return -1
\* and change nothing.
NotifyObj(t) ==
    /\ async[t] # 0
    /\ Signal(t)
    /\ owed' = [owed EXCEPT ![t] = TRUE]
    /\ UNCHANGED <<waiting, name, async, req, ids, made, results, told>>
NotifyId(n) == ids[n] # NULL /\ NotifyObj(ids[n])

-----------------------------------------------------------------------------
\* sleep::run, sleep::cancel, sleep_cb.  The pointer to a closed timer is kept.
BeginOther(t, k) ==
    /\ Begin(t, k)
    /\ req' = [req EXCEPT ![t] = made + 1]
    /\ UNCHANGED syncVars

RunSleep(t) == BeginOther(t, "sleep")

TimerDue(o) ==
    /\ o.kind = "sleep" /\ o.state = "armed"
    /\ objs' = With(o, "state", "due")
    /\ UNCHANGED <<waiting, req, made, results, told, syncVars>>

ClosedTimer(t) == objs \ Numbered(req[t])
EndSleep(t, how) ==
    /\ objs' = ClosedTimer(t)
    /\ End(t, how)
    /\ UNCHANGED <<req, results, syncVars>>

sleep_cb(o) == o.kind = "sleep" /\ o.state = "due" /\ EndSleep(o.data, "slept")

CancelSleep(t) == waiting[t] = "sleep" /\ EndSleep(t, "canceled")

-----------------------------------------------------------------------------
\* getaddrinfo::run; uv_getaddrinfo may also refuse, which ends it at once.
RunDns(t) == BeginOther(t, "dns")

RefusedDns(t) ==
    /\ waiting[t] = "no"
    /\ told' = [told EXCEPT ![t] = "error"]
    /\ UNCHANGED <<waiting, req, objs, made, results, syncVars>>

\* A thread of libuv's pool finishes the request.
Resolve(o, ok) ==
    /\ o.kind = "dns" /\ o.state = "armed"
    /\ objs' = With(o, "state", IF ok THEN "answered" ELSE "failed")
    /\ results' = [results EXCEPT ![o.id] = IF ok THEN "pending" ELSE "none"]
    /\ UNCHANGED <<waiting, req, made, told, syncVars>>

\* getaddrinfo::getaddrinfo_cb.  The result goes to the caller if it is there and
\* asked for it (wanted) and is freed otherwise.  (Seeded bug: not freed when the
\* caller is gone.)
DisposeLost(o, wanted) == IF o.data = NULL THEN results[o.id]
                          ELSE IF wanted THEN "given" ELSE "freed"
Dispose(o, wanted) == IF o.data # NULL /\ wanted THEN "given" ELSE "freed"
getaddrinfo_cb(o, wanted) ==
    /\ o.kind = "dns" /\ o.state \in {"answered", "failed"}
    /\ results' = [results EXCEPT ![o.id] = IF o.state = "answered" THEN Dispose(o, wanted) ELSE @]
    /\ IF o.data = NULL THEN UNCHANGED <<waiting, made, told>>
       ELSE End(o.data, IF o.state = "answered" THEN "result" ELSE "error")
    /\ objs' = objs \ {o}
    /\ UNCHANGED <<req, syncVars>>

\* getaddrinfo::cancel: uv_cancel succeeds (stops) only before a thread has taken
\* the request up; the request stays until its callback, without data.
DropData(o, stops) == [o EXCEPT !.data = NULL, !.state = IF stops THEN "failed" ELSE @]
CancelDns(t, stops) ==
    \E o \in Numbered(req[t]) :
        /\ waiting[t] = "dns"
        /\ stops => o.state = "armed"
        /\ objs' = (objs \ {o}) \cup {DropData(o, stops)}
        /\ End(t, "canceled")
        /\ UNCHANGED <<req, results, syncVars>>

-----------------------------------------------------------------------------
UserCalls ==
    \/ \E t \in Task :
        \/ \E n \in Name \cup {NULL} : RunSync(t, n)
        \/ RunSleep(t) \/ RunDns(t) \/ RefusedDns(t)
        \/ CancelSync(t) \/ CancelSleep(t)
        \/ \E stops \in BOOLEAN : CancelDns(t, stops)
        \/ NotifyObj(t)
    \/ \E n \in Name : NotifyId(n)
Pool == \E o \in objs : TimerDue(o) \/ \E ok \in BOOLEAN : Resolve(o, ok)
Callbacks == \E o \in objs :
    sync_cb(o) \/ sleep_cb(o) \/ \E wanted \in BOOLEAN : getaddrinfo_cb(o, wanted)

EventNext == UserCalls \/ Pool \/ Callbacks

\* Timers run out, libuv's threads finish, and the loop calls back what is due.
EventFairness ==
    \A i \in 1..MaxOps : WF_eventVars(\E o \in objs :
        /\ o.id = i
        /\ \/ TimerDue(o) \/ (\E ok \in BOOLEAN : Resolve(o, ok))
           \/ sync_cb(o) \/ sleep_cb(o) \/ (\E wanted \in BOOLEAN : getaddrinfo_cb(o, wanted)))

EventSpec == EventInit /\ [][EventNext]_eventVars /\ EventFairness

-----------------------------------------------------------------------------
\* Type invariant.
EventTypeOK ==
    /\ waiting \in [Task -> Kind \cup {"no"}]
    /\ name \in [Task -> Name \cup {NULL}]
    /\ async \in [Task -> 0..MaxOps] /\ req \in [Task -> 0..MaxOps]
    /\ ids \in [Name -> Task \cup {NULL}]
    /\ objs \subseteq Objects
    /\ made \in 0..MaxOps
    /\ results \in [1..MaxOps -> {"none", "pending", "given", "freed"}]
    /\ told \in [Task -> {"none", "notified", "slept", "result", "error", "canceled"}]
    /\ owed \in [Task -> BOOLEAN]

\* A callback resumes the task in its data without asking whether it still
\* waits: whatever ends, is canceled and begins again, an open handle or request
\* names a task only while that task waits for this very one, and every wait
\* has one.
CallbackFindsItsWait ==
    /\ \A o \in objs : o.data # NULL =>
        /\ waiting[o.data] = o.kind
        /\ o.id = IF o.kind = "sync" THEN async[o.data] ELSE req[o.data]
    /\ \A t \in Task : waiting[t] # "no" => \E o \in objs : o.data = t

\* notify() goes through two kinds of pointers that nobody else guards: the
\* table of names and the member async.  Both lead to an open handle exactly
\* while the sync waits, so notify() returns 0 exactly then.
NotifyReachesWaiter ==
    /\ \A n \in Name, t \in Task : ids[n] = t <=> waiting[t] = "sync" /\ name[t] = n
    /\ \A t \in Task : async[t] # 0 <=> waiting[t] = "sync"

\* Handles, pointers and waiting tasks name each other.
WaitsSound == EventTypeOK /\ CallbackFindsItsWait /\ NotifyReachesWaiter

\* A sync ends with success only if a notify() during this wait returned 0, not
\* one meant for an earlier sync of the same id.
WokenOnlyWhenNotified ==
    [][\A t \in Task : told'[t] = "notified" /\ waiting[t] # waiting'[t] => owed[t]]_eventVars

\* And once a notify() returned 0, the sync ends: with success, or because it is
\* canceled first.
NotifiedThenWoken ==
    /\ WokenOnlyWhenNotified
    /\ \A t \in Task : owed[t] ~> waiting[t] # "sync"

\* An addrinfo is handed over or freed, never both, and only once.
ReleasedOnce ==
    [][\A i \in 1..MaxOps : results[i] \in {"given", "freed"} => results'[i] = results[i]]_eventVars

\* And none leaks: one that a pool thread produced is handed to the task that
\* still waits for it or freed, also when the task was canceled in between.
ResultsReleased ==
    /\ ReleasedOnce
    /\ \A i \in 1..MaxOps : results[i] = "pending" ~> results[i] \in {"given", "freed"}

=============================================================================
