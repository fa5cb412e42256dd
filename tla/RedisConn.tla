------------------------------ MODULE RedisConn ------------------------------
(***************************************************************************)
(* One redis object of extensions/redis/cocoflow-redis.cc: the automatic   *)
(* connection with its timers, redis::connect, and the commands, whose     *)
(* request cells are shared with hiredis.                                  *)
(*                                                                         *)
(* hiredis and libuv are not part of the repository; they are modelled as  *)
(* the code uses them.  A context that is freed or loses its connection    *)
(* first calls back every command it still holds, with a null reply, and   *)
(* user code runs in each of these calls; then comes the disconnect        *)
(* callback, if it was connected, and the context is gone.  A context      *)
(* whose connection attempt failed stays until it is freed.                *)
(*                                                                         *)
(* The members context and timer are modelled by the state of what they    *)
(* point to; a context or running timer that nothing points to any more is *)
(* recorded in lost and stray.  Nothing in the code asks whether what it   *)
(* points to is still there: the use of a null or freed context, of a      *)
(* closed timer or of a freed cell is undefined behaviour, which ends the  *)
(* behaviour with misuse saying where it happened.                         *)
(***************************************************************************)
EXTENDS Naturals, FiniteSets, SequencesExt, Tasks

CONSTANTS
    IntervalMin,    \* RECONNECT_INTERVAL_MIN
    IntervalMax,    \* RECONNECT_INTERVAL_MAX
    MaxQueue        \* bound: commands held by a context

ASSUME TimerAssumption == NULL \notin {"timeout", "reconnect"}
ASSUME IntervalAssumption == IntervalMin \in Nat \ {0} /\ IntervalMax \in Nat
                                /\ IntervalMin <= IntervalMax

VARIABLES
    mode,       \* "none", "auto", "manual"; "refused": connecting returned an error
    context,    \* what the member points to, see Context
    lost,       \* a live context was overwritten
    timer,      \* likewise: "null", "timeout", "reconnect", "closed"
    stray,      \* kinds of the running timers that nothing points to
    old_opened,
    interval,   \* cur_reconnect_interval
    misuse,     \* "no", "callback" of the connection, or a call of "user" code
    queue,      \* contents of the request cells hiredis holds: a task or NULL
    phase,      \* "loop", or the callback or call that waits for a drain to end
    waits,      \* "no", "connect", "sent" (constructed, not yet awaited), "command"
    ret         \* what the last operation of each task returned

connVars == <<mode, context, lost, old_opened, interval>>
timerVars == <<timer, stray, misuse>>
taskVars == <<waits, ret>>
vars == <<connVars, timerVars, queue, phase, taskVars>>

Context == {"null", "connecting", "up", "failed",
            "closing",      \* it calls its commands back before it goes
            "freed"}
Running(x) == {x} \cap {"timeout", "reconnect"}
Defined == misuse = "no"
Loop == Defined /\ phase = "loop"
UserCode == Defined /\ (phase = "loop" \/ context = "closing")

-----------------------------------------------------------------------------
\* redis::redis
Init ==
    /\ mode = "none" /\ context = "null" /\ lost = FALSE
    /\ old_opened = FALSE /\ interval = 0
    /\ timer = "null" /\ stray = {} /\ misuse = "no"
    /\ queue = <<>> /\ phase = "loop"
    /\ waits = [t \in Task |-> "no"]
    /\ ret = [t \in Task |-> "unfinished"]

\* What a step does with timers: one of kind `fired` calls back (NULL: none),
\* the one the object points to is closed, a new one is started (NULL: none).
TimerStep(fired, close, new) ==
    /\ misuse' = IF close /\ Running(timer) = {} THEN "callback" ELSE misuse
    /\ timer' = IF new # NULL THEN new ELSE IF close THEN "closed" ELSE timer
    /\ stray' = (stray \ {fired}) \cup (IF new # NULL /\ ~close THEN Running(timer) ELSE {})

\* The callback of a one-shot timer that runs.
Fires(kind) == Loop /\ kind \in Running(timer) \cup stray

\* connect_coming, the interval.  (Seeded bug: no upper limit.)
NextIntervalUncapped == IF interval = 0 THEN IntervalMin ELSE interval * 2
NextInterval ==
    IF interval = 0 THEN IntervalMin
    ELSE IF interval * 2 > IntervalMax THEN IntervalMax ELSE interval * 2

\* connect_coming, the rest.  (Seeded bug: the old context is forgotten.)
NeverOpened(opened) == old_opened' = FALSE
OldOpened(opened) == old_opened' = opened
ConnectComing(opened) == OldOpened(opened) /\ interval' = NextInterval

-----------------------------------------------------------------------------
\* redis::auto_connect and connect_now(false), which may return an error.
AutoConnect(ok) ==
    /\ Loop /\ mode = "none"
    /\ mode' = IF ok THEN "auto" ELSE "refused"
    /\ context' = IF ok THEN "connecting" ELSE "failed"
    /\ TimerStep(NULL, FALSE, IF ok THEN "timeout" ELSE NULL)
    /\ UNCHANGED <<lost, old_opened, interval, queue, phase, taskVars>>

\* auto_connect_cb: the answer to an attempt, perhaps after its timeout.  It
\* closes the timer of the object, whichever that is by now.  (Seeded bug: after
\* a timeout it does not.)
ClosesTimeout == timer = "timeout"
ClosesTimer == TRUE
auto_connect_cb(ok) ==
    /\ Loop /\ mode = "auto" /\ context = "connecting"
    /\ context' = IF ok THEN "up" ELSE "failed"
    /\ IF ok
         THEN /\ TimerStep(NULL, ClosesTimer, NULL)
              /\ interval' = 0
              /\ UNCHANGED old_opened
         ELSE TimerStep(NULL, ClosesTimer, "reconnect") /\ ConnectComing(TRUE)
    /\ UNCHANGED <<mode, lost, queue, phase, taskVars>>

\* auto_connect_timeout_cb: the old context stays open until the next attempt.
auto_connect_timeout_cb ==
    /\ Fires("timeout")
    /\ TimerStep("timeout", TRUE, "reconnect")
    /\ ConnectComing(TRUE)
    /\ UNCHANGED <<mode, context, lost, queue, phase, taskVars>>

\* auto_reconnect_next_cb: redisAsyncFree of the old context, unless hiredis has
\* freed it; then connect_now(true).
auto_reconnect_next_cb ==
    /\ Fires("reconnect")
    /\ TimerStep("reconnect", TRUE, NULL)
    /\ context' = IF old_opened THEN "closing" ELSE context
    /\ phase' = "next"
    /\ UNCHANGED <<mode, lost, old_opened, interval, queue, taskVars>>

connect_now ==
    /\ Defined /\ phase = "next" /\ (context = "closing" => queue = <<>>)
    /\ TimerStep(NULL, FALSE, "timeout")
    /\ lost' = (lost \/ context \notin {"closing", "freed"})
    /\ context' = "connecting"
    /\ queue' = <<>>
    /\ phase' = "loop"
    /\ UNCHANGED <<mode, old_opened, interval, taskVars>>

\* An established connection ends; when its commands have been called back,
\* auto_connect_closed_cb is (redis::connect sets no such callback).
Disconnect ==
    /\ Loop /\ context = "up"
    /\ context' = "closing"
    /\ phase' = "closed"
    /\ UNCHANGED <<mode, lost, old_opened, interval, timerVars, queue, taskVars>>

auto_connect_closed_cb ==
    /\ Defined /\ phase = "closed" /\ queue = <<>>
    /\ context' = "freed"
    /\ IF mode = "auto"
         THEN TimerStep(NULL, FALSE, "reconnect") /\ ConnectComing(FALSE)
         ELSE UNCHANGED <<timerVars, old_opened, interval>>
    /\ phase' = "loop"
    /\ UNCHANGED <<mode, lost, queue, taskVars>>

\* redis::~redis, up to the callbacks of redisAsyncFree, which come later when the
\* context is calling back already; ...
Destroy ==
    /\ UserCode /\ mode \notin {"none", "destroyed"}
    /\ mode' = "destroyed"
    /\ misuse' = IF context = "freed" \/ (phase # "loop" /\ timer = "closed") THEN "user" ELSE misuse
    /\ context' = "closing"
    /\ phase' = IF phase = "loop" THEN "destroy" ELSE phase
    /\ UNCHANGED <<lost, old_opened, interval, timer, stray, queue, taskVars>>

\* ... and after them: it closes its last timer, also one that is closed.
Destroyed ==
    /\ Defined /\ phase = "destroy" /\ queue = <<>>
    /\ context' = "freed"
    /\ misuse' = IF timer = "closed" THEN "user" ELSE misuse
    /\ timer' = IF timer = "null" THEN timer ELSE "closed"
    /\ phase' = "loop"
    /\ UNCHANGED <<mode, lost, old_opened, interval, stray, queue, taskVars>>

-----------------------------------------------------------------------------
\* The bookkeeping of a task whose operation ends with r.
Resume(t, r) ==
    /\ waits' = [waits EXCEPT ![t] = "no"]
    /\ ret' = [ret EXCEPT ![t] = r]

\* redis::connect::run and redis::connect_cb
Connect(t, ok) ==
    /\ Loop /\ mode = "none" /\ waits[t] = "no"
    /\ mode' = IF ok THEN "manual" ELSE "refused"
    /\ context' = IF ok THEN "connecting" ELSE "failed"
    /\ IF ok THEN waits' = [waits EXCEPT ![t] = "connect"] /\ ret' = [ret EXCEPT ![t] = "unfinished"]
             ELSE Resume(t, "error")
    /\ UNCHANGED <<lost, old_opened, interval, timerVars, queue, phase>>

connect_cb(t, ok) ==
    /\ Loop /\ waits[t] = "connect" /\ context = "connecting"
    /\ context' = IF ok THEN "up" ELSE "failed"
    /\ mode' = IF ok THEN "manual" ELSE "refused"
    /\ Resume(t, IF ok THEN "ok" ELSE "error")
    /\ UNCHANGED <<lost, old_opened, interval, timerVars, queue, phase>>

\* The constructors of redis::command: the cell goes to hiredis, which refuses
\* it while the context closes.
Construct(t) ==
    /\ UserCode /\ (mode # "destroyed" \/ phase = "destroy")
    /\ waits[t] = "no" /\ Len(queue) < MaxQueue
    /\ \/ /\ context \in {"connecting", "up", "failed"}
          /\ queue' = Append(queue, t)
          /\ waits' = [waits EXCEPT ![t] = "sent"]
          /\ ret' = [ret EXCEPT ![t] = "unfinished"]
          /\ UNCHANGED misuse
       \/ context = "closing" /\ Resume(t, "error") /\ UNCHANGED <<queue, misuse>>
       \/ context \in {"null", "freed"} /\ misuse' = "user" /\ UNCHANGED <<queue, taskVars>>
    /\ UNCHANGED <<connVars, timer, stray, phase>>

\* redis::command::run, whose CHECK reads the cell.
Run(t) ==
    /\ UserCode /\ waits[t] = "sent"
    /\ IF t \in ToSet(queue)
         THEN waits' = [waits EXCEPT ![t] = "command"] /\ UNCHANGED misuse
         ELSE misuse' = "user" /\ UNCHANGED waits
    /\ UNCHANGED <<connVars, timer, stray, queue, phase, ret>>

\* redis::command_cb for the oldest cell, which it frees: a reply, or none.
command_cb(r) ==
    LET t == Head(queue)
    IN  /\ queue # <<>>
        /\ queue' = Tail(queue)
        /\ IF t # NULL /\ waits[t] = "command" THEN Resume(t, r) ELSE UNCHANGED taskVars
        /\ UNCHANGED <<connVars, timerVars, phase>>
Reply == Loop /\ context = "up" /\ command_cb("ok")
Drain == Defined /\ phase # "loop" /\ context = "closing" /\ command_cb("error")

\* redis::command::cancel: *req = NULL.  (Seeded bug: the cell keeps the task.)
KeepCell(t) == queue
ClearedCell(t) == [i \in DOMAIN queue |-> IF queue[i] = t THEN NULL ELSE queue[i]]
Cancel(t) ==
    /\ UserCode /\ waits[t] = "command"
    /\ queue' = ClearedCell(t)
    /\ waits' = [waits EXCEPT ![t] = "no"]
    /\ UNCHANGED <<connVars, timerVars, phase, ret>>

-----------------------------------------------------------------------------
HiredisAndTimers ==
    \/ \E ok \in BOOLEAN : auto_connect_cb(ok) \/ \E t \in Task : connect_cb(t, ok)
    \/ auto_connect_timeout_cb \/ auto_reconnect_next_cb \/ connect_now
    \/ Disconnect \/ auto_connect_closed_cb \/ Reply \/ Drain \/ Destroyed
User ==
    \/ \E ok \in BOOLEAN : AutoConnect(ok) \/ \E t \in Task : Connect(t, ok)
    \/ \E t \in Task : Construct(t) \/ Run(t) \/ Cancel(t)
    \/ Destroy

Next == HiredisAndTimers \/ User

\* Timers run out and callbacks in progress go on.  The server answers the
\* commands of an established connection, or the connection ends.
Fairness ==
    /\ WF_vars(auto_connect_timeout_cb) /\ WF_vars(auto_reconnect_next_cb)
    /\ WF_vars(connect_now) /\ WF_vars(auto_connect_closed_cb) /\ WF_vars(Destroyed)
    /\ WF_vars(Drain)
    /\ WF_vars(Reply \/ Disconnect)

Spec == Init /\ [][Next]_vars /\ Fairness

-----------------------------------------------------------------------------
\* Type invariant; the interval stays between its limits once it is set.
TypeOK ==
    /\ mode \in {"none", "auto", "manual", "refused", "destroyed"}
    /\ context \in Context
    /\ lost \in BOOLEAN /\ old_opened \in BOOLEAN /\ misuse \in {"no", "callback", "user"}
    /\ timer \in {"null", "timeout", "reconnect", "closed"}
    /\ stray \subseteq {"timeout", "reconnect"}
    /\ interval \in {0} \cup IntervalMin..IntervalMax
    /\ queue \in Seq(Task \cup {NULL})
    /\ phase \in {"loop", "next", "closed", "destroy"}
    /\ waits \in [Task -> {"no", "connect", "sent", "command"}]
    /\ ret \in [Task -> {"unfinished", "ok", "error"}]

\* However the answer to an attempt, its timeout, the reconnect timer, the end of
\* the connection and what user code does follow each other, the callbacks close
\* every timer once and only while it is open, none runs on without the object
\* knowing it, and no context is overwritten before it is freed.  What they do not
\* see to is that user code finds the context and the timer there: a command
\* between the end of a connection and the next attempt, or the destruction of an
\* object that has been connected by auto_connect, is undefined.
HandlesOwned == misuse # "callback" /\ stray = {} /\ ~lost

\* A connection that was established, even after the timeout of its attempt, is
\* not torn down by a timer left over from before: it ends only when the
\* connection does, or with the object.
EstablishedKept ==
    [][context = "up" /\ context' # "up" => phase' \in {"closed", "destroy"}]_vars

\* command_cb resumes the task its cell names: the cells name every command that is
\* awaited, once, and no task that does not have one (any more), so none is resumed
\* after it was canceled and none waits for a cell that is gone.  Only a command not
\* yet awaited may have lost its cell to a reply.
CellsNameCommands ==
    \A t \in Task : Cardinality({i \in DOMAIN queue : queue[i] = t})
                      \in CASE waits[t] = "command" -> {1}
                           [] waits[t] = "sent" -> {0, 1}
                           [] OTHER -> {0}

\* Every awaited command of an automatic or an established connection ends, with
\* the server's reply or with an error when the attempt fails, times out or the
\* connection is lost, unless user code ran into undefined behaviour; and an
\* automatic connection that is lost is tried again.  A command on a connection
\* whose redis::connect failed is answered only when the object is destroyed.
CommandsEnd ==
    /\ \A t \in Task : (waits[t] = "command" /\ (mode = "auto" \/ context = "up"))
                         ~> (waits[t] = "no" \/ ~Defined)
    /\ (mode = "auto" /\ context \in {"failed", "freed"})
            ~> (context \in {"connecting", "up"} \/ mode = "destroyed" \/ ~Defined)

=============================================================================
