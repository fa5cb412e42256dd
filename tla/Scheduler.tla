------------------------------ MODULE Scheduler ------------------------------
(***************************************************************************)
(* The coroutine scheduler of src/cocoflow.cc and src/cocoflow-comm.h: the *)
(* primitives await, start, all_of and any_of, the way control passes      *)
(* between coroutines and the event loop, and the cancellation of the      *)
(* children of a combinator.                                               *)
(*                                                                         *)
(* A program is a function prog from task objects to what they do.  Init   *)
(* chooses it from Programs and no step changes it, so a single check      *)
(* covers every program of the set.  All code runs in one thread: the only *)
(* choice a run leaves open is the order in which the event loop delivers  *)
(* the events that tasks wait for (EventFires).                            *)
(*                                                                         *)
(* A coroutine is named by the task that took its id when it was created;  *)
(* TaskPool shows that ids in use are distinct and that the manager table  *)
(* names that task.  stack[c] holds the tasks whose run() is active on     *)
(* coroutine c, innermost first, and act[t] says where the run() of t      *)
(* stands.  An empty stack is a coroutine at the head of the loop in       *)
(* __task_runtime.                                                         *)
(***************************************************************************)
EXTENDS Naturals, Sequences, FiniteSets

CONSTANTS
    Task,       \* task objects
    TopTask,    \* the one given to cocoflow()
    Loop,       \* EVENT_LOOP_ID, and the null pointer in place of a task
    Programs    \* the programs to run

ASSUME TopAssumption == TopTask \in Task /\ Loop \notin Task /\ IsFiniteSet(Task)

Kinds == {"user", "event", "all_of", "any_of"}
Combinators == {"all_of", "any_of"}

\* What a task is: its class, the await/start calls of a user task's run(),
\* the children of a combinator, whether uninterruptable() was called on it,
\* whether it was created as "limited".
User(body) == [kind |-> "user", body |-> body, children |-> <<>>, un |-> FALSE, limited |-> FALSE]
Event == [kind |-> "event", body |-> <<>>, children |-> <<>>, un |-> FALSE, limited |-> FALSE]
AllOf(cs) == [kind |-> "all_of", body |-> <<>>, children |-> cs, un |-> FALSE, limited |-> FALSE]
AnyOf(cs) == [kind |-> "any_of", body |-> <<>>, children |-> cs, un |-> FALSE, limited |-> FALSE]
Uninterruptable(p) == [p EXCEPT !.un = TRUE]
Limited(p) == [p EXCEPT !.limited = TRUE]

VARIABLES
    prog,               \* [Task -> what the task is]; never changes
    \* members of the task objects
    status, uninterruptable, reuse, uid, block_to, finish_to,
    completed_id,       \* any_of: 1-based index of the winner, 0 for -1
    \* globals
    global_current_task, global_signal_canceled,
    running,            \* the coroutine that has the thread, or Loop
    stack, act,
    armed,              \* tasks whose handle or request is active in the event loop
    cancels             \* history: calls of each task's cancel()

objectVars == <<status, uninterruptable, reuse, uid, block_to, finish_to, completed_id>>
controlVars == <<global_current_task, running>>
vars == <<prog, objectVars, controlVars, global_signal_canceled, stack, act, armed, cancels>>

Status == {"ready", "running", "completed", "canceled", "limited", "child_unready", "deleted"}
Points == {"none", "run", "start", "child", "wait", "cancel", "unsupport", "return", "throw",
           "caught", "abort"}

Activation(p) == [parent |-> p, pc |-> "run", i |-> 1, n |-> 0, next |-> "return"]
Kind(t) == prog[t].kind
Children(t) == prog[t].children

-----------------------------------------------------------------------------
\* The task whose code has the thread, its activation, and a step of that.
Top == Head(stack[running])
Here == act[Top]
At(pc) == running # Loop /\ stack[running] # <<>> /\ Here.pc = pc
Becomes(f) == act' = [act EXCEPT ![Top] = f] /\ UNCHANGED stack
GoOn == Becomes([Here EXCEPT !.i = @ + 1])

\* swap_running(running, next): on both sides of the switch the current task
\* becomes the one the manager table has for the coroutine that goes on, which
\* is not the innermost task awaited on it.
Swap(next) == running' = next /\ global_current_task' = next

\* __task_yield up to its switch: control goes to block_to, and only once.
Yield(f) ==
    /\ Becomes(f)
    /\ block_to' = [block_to EXCEPT ![Top] = Loop]
    /\ Swap(block_to[Top])

Init ==
    /\ prog \in Programs
    /\ status = [t \in Task |-> IF prog[t].limited THEN "limited" ELSE "ready"]
    /\ uninterruptable = [t \in Task |-> prog[t].un]
    /\ reuse = [t \in Task |-> Loop]
    /\ uid = [t \in Task |-> IF prog[t].limited THEN Loop ELSE t]
    /\ block_to = [t \in Task |-> Loop]
    /\ finish_to = [t \in Task |-> Loop]
    /\ completed_id = [t \in Task |-> 0]
    /\ global_current_task = TopTask
    /\ global_signal_canceled = FALSE
    /\ running = TopTask
    /\ stack = [t \in Task |-> <<>>]
    /\ act = [t \in Task |-> [Activation(Loop) EXCEPT !.pc = "none"]]
    /\ armed = {}
    /\ cancels = [t \in Task |-> 0]

-----------------------------------------------------------------------------
\* __task_runtime: the head of the loop.
TaskRuntime ==
    /\ running # Loop /\ stack[running] = <<>>
    /\ status' = [status EXCEPT ![running] = "running"]
    /\ stack' = [stack EXCEPT ![running] = <<running>>]
    /\ act' = [act EXCEPT ![running] = Activation(Loop)]
    /\ UNCHANGED <<prog, uninterruptable, reuse, uid, block_to, finish_to, completed_id,
                   controlVars, global_signal_canceled, armed, cancels>>

\* The call the innermost user task makes next, and whether it has one.
AtCall(op) ==
    /\ At("run") /\ Kind(Top) = "user"
    /\ Here.i <= Len(prog[Top].body)
    /\ prog[Top].body[Here.i][1] = op
Target == prog[Top].body[Here.i][2]

\* await(target): the target inherits the coroutine and the pending block_to of
\* the current task, and its run() is called.
Await ==
    /\ AtCall("await")
    /\ status[Target] \in {"ready", "limited"}
    /\ LET parent == global_current_task
           t == Target
       IN  /\ block_to' = [block_to EXCEPT ![t] = block_to[parent], ![parent] = Loop]
           /\ finish_to' = [finish_to EXCEPT ![t] = uid[parent]]
           /\ uid' = [uid EXCEPT ![t] = uid[parent]]
           /\ status' = [status EXCEPT ![t] = "running"]
           /\ reuse' = [reuse EXCEPT ![parent] = t]
           /\ global_current_task' = t
           /\ stack' = [stack EXCEPT ![running] = <<t>> \o @]
           /\ act' = [act EXCEPT ![Top].i = @ + 1, ![t] = Activation(parent)]
    /\ UNCHANGED <<prog, uninterruptable, completed_id, running, global_signal_canceled,
                   armed, cancels>>

\* await(target) of a task that is not ready: its id is given back, then -1.
AwaitReject ==
    /\ AtCall("await")
    /\ status[Target] \notin {"ready", "limited"}
    /\ uid' = [uid EXCEPT ![Target] = Loop]
    /\ GoOn
    /\ UNCHANGED <<prog, status, uninterruptable, reuse, block_to, finish_to, completed_id,
                   controlVars, global_signal_canceled, armed, cancels>>

\* start(target): run it until it blocks for the first time or ends.
Start ==
    /\ AtCall("start")
    /\ status[Target] = "ready"
    /\ block_to' = [block_to EXCEPT ![Target] = uid[global_current_task]]
    /\ finish_to' = [finish_to EXCEPT ![Target] = Loop]
    /\ GoOn
    /\ Swap(uid[Target])
    /\ UNCHANGED <<prog, status, uninterruptable, reuse, uid, completed_id,
                   global_signal_canceled, armed, cancels>>

\* start(target) of a task that is not ready deletes it.
StartReject ==
    /\ AtCall("start")
    /\ status[Target] # "ready"
    /\ status' = [status EXCEPT ![Target] = "deleted"]
    /\ GoOn
    /\ UNCHANGED <<prog, uninterruptable, reuse, uid, block_to, finish_to, completed_id,
                   controlVars, global_signal_canceled, armed, cancels>>

-----------------------------------------------------------------------------
\* run() of an event task (sleep, sync, udp::*, tcp::*, ...): hand a handle or a
\* request to the event loop and yield.
EventRun ==
    /\ At("run") /\ Kind(Top) = "event"
    /\ armed' = armed \cup {Top}
    /\ Yield([Here EXCEPT !.pc = "wait"])
    /\ UNCHANGED <<prog, status, uninterruptable, reuse, uid, finish_to, completed_id,
                   global_signal_canceled, cancels>>

\* The event loop calls back: __task_stand switches to the coroutine of the task.
EventFires(t) ==
    /\ running = Loop
    /\ t \in armed
    /\ armed' = armed \ {t}
    /\ Swap(uid[t])
    /\ UNCHANGED <<prog, objectVars, global_signal_canceled, stack, act, cancels>>

\* __task_yield returned true in an event task: run() ends.
EventWake ==
    /\ At("wait") /\ Kind(Top) = "event" /\ ~global_signal_canceled
    /\ Becomes([Here EXCEPT !.pc = "return"])
    /\ UNCHANGED <<prog, objectVars, controlVars, global_signal_canceled, armed, cancels>>

-----------------------------------------------------------------------------
\* all_of::run and any_of::run look at their children in order and stop at the
\* first that is not ready; the ones before it have been told whom to resume.
Unready(t) == {i \in DOMAIN Children(t) : status[Children(t)[i]] # "ready"}
Adopt(t) ==
    LET kids == {Children(t)[i] : i \in {j \in DOMAIN Children(t) : \A k \in Unready(t) : j < k}}
        Told(f) == [q \in Task |-> IF q \in kids THEN uid[t] ELSE f[q]]
    IN  block_to' = Told(block_to) /\ finish_to' = Told(finish_to)

ChildrenReady ==
    /\ At("run") /\ Kind(Top) \in Combinators
    /\ Unready(Top) = {}
    /\ Adopt(Top)
    /\ Becomes([Here EXCEPT !.pc = "start", !.n = Len(Children(Top))])
    /\ UNCHANGED <<prog, status, uninterruptable, reuse, uid, completed_id, controlVars,
                   global_signal_canceled, armed, cancels>>

ChildrenUnready ==
    /\ At("run") /\ Kind(Top) \in Combinators
    /\ Unready(Top) # {}
    /\ Adopt(Top)
    /\ status' = [status EXCEPT ![Top] = "child_unready"]
    /\ Becomes([Here EXCEPT !.pc = "return"])
    /\ UNCHANGED <<prog, uninterruptable, reuse, uid, completed_id, controlVars,
                   global_signal_canceled, armed, cancels>>

\* __task_start_child(this, children[i]).
StartChild ==
    /\ At("start")
    /\ Becomes([Here EXCEPT !.pc = "child"])
    /\ Swap(uid[Children(Top)[Here.i]])
    /\ UNCHANGED <<prog, objectVars, global_signal_canceled, armed, cancels>>

\* The children all_of still has to wait for, after the switch back from one.
\* (Seeded bugs: any child that gives control back is counted; none is.)
CountEach(f) == f.n - 1
CountNone(f) == f.n
Count(f) == IF status[Children(Top)[f.i]] = "completed" THEN f.n - 1 ELSE f.n

\* all_of::run after the switch back: count down if the child completed at
\* once, start the next one, or wait for the children that are left.
AllOfChildBack ==
    /\ At("child") /\ Kind(Top) = "all_of"
    /\ LET count == Count(Here)
           last == Here.i = Len(Children(Top))
           f == [Here EXCEPT !.n = count, !.i = @ + 1]
       IN  IF last /\ count > 0
             THEN Yield([f EXCEPT !.pc = "wait"])
             ELSE /\ Becomes([f EXCEPT !.pc = IF last THEN "return" ELSE "start"])
                  /\ UNCHANGED <<block_to, controlVars>>
    /\ UNCHANGED <<prog, status, uninterruptable, reuse, uid, finish_to, completed_id,
                   global_signal_canceled, armed, cancels>>

\* Entry of __task_cancel_children, and what follows it.
Canceling(f, next) == [f EXCEPT !.pc = "cancel", !.i = 1, !.n = 0, !.next = next]

\* any_of::run after the switch back: a child that completed at once wins.
AnyOfChildBack ==
    /\ At("child") /\ Kind(Top) = "any_of"
    /\ LET kid == Children(Top)[Here.i]
           f == [Here EXCEPT !.i = @ + 1]
       IN  \/ /\ status[kid] = "completed"
              /\ completed_id' = [completed_id EXCEPT ![Top] = Here.i]
              /\ Becomes(Canceling(f, "return"))
              /\ UNCHANGED <<block_to, controlVars>>
           \/ /\ status[kid] # "completed" /\ Here.i < Len(Children(Top))
              /\ Becomes([f EXCEPT !.pc = "start"])
              /\ UNCHANGED <<completed_id, block_to, controlVars>>
           \/ /\ status[kid] # "completed" /\ Here.i = Len(Children(Top))
              /\ Yield([f EXCEPT !.pc = "wait"])
              /\ UNCHANGED completed_id
    /\ UNCHANGED <<prog, status, uninterruptable, reuse, uid, finish_to,
                   global_signal_canceled, armed, cancels>>

\* all_of: __task_yield returned true; one child less to wait for.
AllOfWake ==
    /\ At("wait") /\ Kind(Top) = "all_of" /\ ~global_signal_canceled
    /\ IF Here.n > 1
         THEN Yield([Here EXCEPT !.n = @ - 1])
         ELSE Becomes([Here EXCEPT !.n = 0, !.pc = "return"]) /\ UNCHANGED <<block_to, controlVars>>
    /\ UNCHANGED <<prog, status, uninterruptable, reuse, uid, finish_to, completed_id,
                   global_signal_canceled, armed, cancels>>

\* any_of: __task_yield returned true; the first completed child wins.
AnyOfWake ==
    /\ At("wait") /\ Kind(Top) = "any_of" /\ ~global_signal_canceled
    /\ LET kids == Children(Top)
           done == {i \in DOMAIN kids : status[kids[i]] = "completed"}
       IN  completed_id' = [completed_id EXCEPT ![Top] =
                              IF done = {} THEN @ ELSE CHOOSE i \in done : \A j \in done : i <= j]
    /\ Becomes(Canceling(Here, "return"))
    /\ UNCHANGED <<prog, status, uninterruptable, reuse, uid, block_to, finish_to, controlVars,
                   global_signal_canceled, armed, cancels>>

-----------------------------------------------------------------------------
\* uv_close in cancel() of an event task.
Disarm == armed' = armed \ {Top}

\* cancel() of the innermost task, then f.pc = next: an event task closes its
\* handle, a combinator cancels its children, a user task does what it likes.
RunCancel(next) ==
    /\ cancels' = [cancels EXCEPT ![Top] = @ + 1]
    /\ Disarm
    /\ Becomes(IF Kind(Top) \in Combinators THEN Canceling(Here, next)
                                                 ELSE [Here EXCEPT !.pc = next])

\* __task_yield takes the signal.
TakeSignal == global_signal_canceled' = FALSE

\* __task_yield interrupted in the very task that was canceled: cancel() runs
\* here and run() returns.
CanceledDirectly ==
    /\ At("wait") /\ global_signal_canceled
    /\ status[Top] = "canceled"
    /\ TakeSignal
    /\ RunCancel("return")
    /\ UNCHANGED <<prog, objectVars, controlVars>>

\* __task_yield interrupted in a task awaited inside the canceled one:
\* interrupt_canceled leaves its run().
CanceledIndirectly ==
    /\ At("wait") /\ global_signal_canceled
    /\ status[Top] # "canceled"
    /\ TakeSignal
    /\ status' = [status EXCEPT ![Top] = "canceled"]
    /\ Becomes([Here EXCEPT !.pc = "throw"])
    /\ UNCHANGED <<prog, uninterruptable, reuse, uid, block_to, finish_to, completed_id,
                   controlVars, armed, cancels>>

\* The catch blocks of __await and __task_runtime up to the call of cancel().
Catch ==
    /\ At("throw")
    /\ status' = [status EXCEPT ![Top] = "canceled"]
    /\ RunCancel("caught")
    /\ UNCHANGED <<prog, uninterruptable, reuse, uid, block_to, finish_to, completed_id,
                   controlVars, global_signal_canceled>>

\* The walk along the awaits of a child: its first uninterruptable task, Loop if
\* none is.
Final(child) ==
    LET walk[k \in 0..Cardinality(Task)] ==
          IF k = 0 THEN child
          ELSE LET t == walk[k - 1]
               IN  IF t = Loop \/ uninterruptable[t] THEN t ELSE reuse[t]
    IN  walk[Cardinality(Task)]

\* Which children there is something to cancel in.
Cancelable(child) == status[child] = "running"

\* __task_cancel_children, one child: not running; ...
CancelSkip ==
    /\ At("cancel") /\ Here.i <= Len(Children(Top))
    /\ ~Cancelable(Children(Top)[Here.i])
    /\ GoOn
    /\ UNCHANGED <<prog, objectVars, controlVars, global_signal_canceled, armed, cancels>>

\* ... in an uninterruptable task, which is only marked; ...
\* (Seeded bug: it is not counted.)
NotCounted(f) == [f EXCEPT !.i = @ + 1]
Counted(f) == [f EXCEPT !.i = @ + 1, !.n = @ + 1]
CancelUnsupport ==
    /\ At("cancel") /\ Here.i <= Len(Children(Top))
    /\ LET child == Children(Top)[Here.i]
       IN  /\ Cancelable(child)
           /\ Final(child) # Loop
           /\ status' = [status EXCEPT ![Final(child)] = IF Final(child) = child THEN @ ELSE "canceled"]
    /\ Becomes(Counted(Here))
    /\ UNCHANGED <<prog, uninterruptable, reuse, uid, block_to, finish_to, completed_id,
                   controlVars, global_signal_canceled, armed, cancels>>

\* ... or interrupted where it waits.
CancelInterrupt ==
    /\ At("cancel") /\ Here.i <= Len(Children(Top))
    /\ LET child == Children(Top)[Here.i]
       IN  /\ Cancelable(child)
           /\ Final(child) = Loop
           /\ status' = [status EXCEPT ![child] = "canceled"]
           /\ Swap(uid[child])
    /\ global_signal_canceled' = TRUE
    /\ GoOn
    /\ UNCHANGED <<prog, uninterruptable, reuse, uid, block_to, finish_to, completed_id,
                   armed, cancels>>

\* __task_cancel_children after the loop: wait for the uninterruptable ones,
\* being uninterruptable oneself.
CancelEnd ==
    /\ At("cancel") /\ Here.i > Len(Children(Top))
    /\ IF Here.n > 0
         THEN /\ uninterruptable' = [uninterruptable EXCEPT ![Top] = TRUE]
              /\ Yield([Here EXCEPT !.pc = "unsupport"])
         ELSE /\ Becomes([Here EXCEPT !.pc = Here.next])
              /\ UNCHANGED <<uninterruptable, block_to, controlVars>>
    /\ UNCHANGED <<prog, status, reuse, uid, finish_to, completed_id,
                   global_signal_canceled, armed, cancels>>

\* CHECK(__task_yield(cur) == true): an interrupt here fails the assertion, or
\* unwinds a cancel() that is not finished; the model does not go on from there.
UnsupportWake ==
    /\ At("unsupport")
    /\ CASE global_signal_canceled ->
              Becomes([Here EXCEPT !.pc = "abort"]) /\ UNCHANGED <<block_to, controlVars>>
         [] ~global_signal_canceled /\ Here.n > 1 ->
              Yield([Here EXCEPT !.n = @ - 1])
         [] OTHER ->
              Becomes([Here EXCEPT !.n = 0, !.pc = Here.next]) /\ UNCHANGED <<block_to, controlVars>>
    /\ UNCHANGED <<prog, status, uninterruptable, reuse, uid, finish_to, completed_id,
                   global_signal_canceled, armed, cancels>>

-----------------------------------------------------------------------------
\* run() of the innermost task has returned.
Returned == \/ At("return")
            \/ /\ At("run") /\ Kind(Top) = "user"
               /\ Here.i > Len(prog[Top].body)
AtBase == Len(stack[running]) = 1

\* The status at the end.
EndStatus(t) == IF status[t] = "running" THEN "completed" ELSE status[t]

\* __await after run(): how a run() that ended as s is left, for the pending
\* block_to, which goes back to the parent, and for the caller, which goes on at
\* the point it is at or with the exception.
\* (Seeded bugs: global_current_task is not reset; block_to is not passed back.)
Caller == stack[running][2]
Leave == stack' = [stack EXCEPT ![running] = Tail(@)]
BackToBase(s) ==
    /\ UNCHANGED global_current_task
    /\ reuse' = [reuse EXCEPT ![Here.parent] = Loop]
    /\ uid' = [uid EXCEPT ![Top] = Loop]
    /\ status' = [status EXCEPT ![Top] = s]
BackToParent(s) ==
    /\ global_current_task' = Here.parent
    /\ reuse' = [reuse EXCEPT ![Here.parent] = Loop]
    /\ uid' = [uid EXCEPT ![Top] = Loop]
    /\ status' = [status EXCEPT ![Top] = s]
KeepBlock == UNCHANGED block_to
PassBlockBack ==
    block_to' = IF block_to[Top] = Loop THEN block_to
                ELSE [block_to EXCEPT ![Here.parent] = block_to[Top], ![Top] = Loop]

\* __await returns 0.
AwaitReturn ==
    /\ Returned /\ ~AtBase
    /\ EndStatus(Top) # "canceled"
    /\ BackToParent(EndStatus(Top))
    /\ PassBlockBack
    /\ Leave
    /\ act' = [act EXCEPT ![Top].pc = "none"]
    /\ UNCHANGED <<prog, uninterruptable, finish_to, completed_id, running,
                   global_signal_canceled, armed, cancels>>

\* __await of an uninterruptable task that was marked canceled meanwhile: it
\* counts as completed, and its parent is interrupted.
AwaitReturnThrow ==
    /\ Returned /\ ~AtBase
    /\ EndStatus(Top) = "canceled"
    /\ BackToParent("completed")
    /\ PassBlockBack
    /\ Leave
    /\ act' = [act EXCEPT ![Top].pc = "none", ![Caller].pc = "throw"]
    /\ UNCHANGED <<prog, uninterruptable, finish_to, completed_id, running,
                   global_signal_canceled, armed, cancels>>

\* The rest of __await's catch block: the interrupt goes on to the parent.
AwaitRethrow ==
    /\ At("caught") /\ ~AtBase
    /\ BackToParent(status[Top])
    /\ Leave
    /\ act' = [act EXCEPT ![Top].pc = "none", ![Caller].pc = "throw"]
    /\ UNCHANGED <<prog, uninterruptable, block_to, finish_to, completed_id, running,
                   global_signal_canceled, armed, cancels>>

\* The rest of the loop body of __task_runtime.
RuntimeFinish ==
    /\ Returned \/ At("caught")
    /\ AtBase
    /\ LET t == Top
       IN  /\ Swap(IF finish_to[t] # Loop \/ block_to[t] = Loop THEN finish_to[t] ELSE block_to[t])
           /\ status' = [status EXCEPT ![t] = IF finish_to[t] = Loop /\ t # TopTask
                                                THEN "deleted" ELSE EndStatus(t)]
           /\ act' = [act EXCEPT ![t].pc = "none"]
    /\ Leave
    /\ UNCHANGED <<prog, uninterruptable, reuse, uid, block_to, finish_to, completed_id,
                   global_signal_canceled, armed, cancels>>

\* uv_run returns when nothing is active any more.
Quiescent == running = Loop /\ armed = {}
Exit == Quiescent /\ UNCHANGED vars

-----------------------------------------------------------------------------
Step ==
    \/ TaskRuntime \/ Await \/ AwaitReject \/ Start \/ StartReject
    \/ EventRun \/ EventWake
    \/ ChildrenReady \/ ChildrenUnready \/ StartChild
    \/ AllOfChildBack \/ AnyOfChildBack \/ AllOfWake \/ AnyOfWake
    \/ CanceledDirectly \/ CanceledIndirectly \/ Catch
    \/ CancelSkip \/ CancelUnsupport \/ CancelInterrupt \/ CancelEnd \/ UnsupportWake
    \/ AwaitReturn \/ AwaitReturnThrow \/ AwaitRethrow \/ RuntimeFinish

Next == Step \/ (\E t \in Task : EventFires(t)) \/ Exit

Spec == Init /\ [][Next]_vars /\ WF_vars(Step) /\ WF_vars(\E t \in Task : EventFires(t))

-----------------------------------------------------------------------------
\* Type invariant.
Activations == [parent : Task \cup {Loop}, pc : Points, i : Nat, n : Nat,
                next : {"return", "caught"}]
TypeOK ==
    /\ \A t \in Task : Kind(t) \in Kinds /\ Children(t) \in Seq(Task)
    /\ status \in [Task -> Status]
    /\ uninterruptable \in [Task -> BOOLEAN]
    /\ {reuse, uid, block_to, finish_to} \subseteq [Task -> Task \cup {Loop}]
    /\ completed_id \in [Task -> Nat]
    /\ global_current_task \in Task \cup {Loop}
    /\ global_signal_canceled \in BOOLEAN
    /\ running \in Task \cup {Loop}
    /\ stack \in [Task -> Seq(Task)]
    /\ act \in [Task -> Activations]
    /\ armed \subseteq Task
    /\ cancels \in [Task -> Nat]

\* Tasks whose run() is active.
Live == {t \in Task : act[t].pc # "none"}

\* While the event loop has control every suspended coroutine is inside a
\* __task_yield, or in __task_cancel_children waiting for a child whose own
\* cancel() waits.  start() and the start of a child never leave their caller
\* behind (it would be suspended in "run" or "child").
OnlyWaitersSuspended ==
    running = Loop =>
        \A c \in Task : stack[c] # <<>> => act[Head(stack[c])].pc \in {"wait", "unsupport", "cancel"}

\* The callback of an active handle resumes the activation that waits for it:
\* its task still lives, on the coroutine it is going to switch to, innermost.
CallbackFindsWaiter ==
    running = Loop =>
    \A t \in armed : /\ uid[t] # Loop /\ stack[uid[t]] # <<>>
                     /\ Head(stack[uid[t]]) = t
                     /\ act[t].pc = "wait"

\* Both sides of waiting: who is suspended waits, and an event finds who waits.
WaitersAndEvents == TypeOK /\ OnlyWaitersSuspended /\ CallbackFindsWaiter

\* Structured concurrency: when the run() of a combinator has ended none of its
\* children is still executing.
NoOrphans ==
    \A t \in Task :
        (Kind(t) \in Combinators /\ t \notin Live /\ status[t] \in {"completed", "canceled"})
            => \A i \in DOMAIN Children(t) : Children(t)[i] \notin Live

\* all_of completes only if all its children did; any_of only with a completed
\* child as who_completed(), every other child being canceled, never started,
\* ended without work because a child of its own was not ready, or completed
\* because it could not be interrupted.
CombinatorResult ==
    \A t \in Task : t \notin Live /\ status[t] = "completed" =>
        LET kids == Children(t)
        IN  /\ Kind(t) = "all_of" => \A i \in DOMAIN kids : status[kids[i]] = "completed"
            /\ Kind(t) = "any_of" =>
                  /\ completed_id[t] \in DOMAIN kids
                  /\ status[kids[completed_id[t]]] = "completed"
                  /\ \A i \in DOMAIN kids \ {completed_id[t]} :
                        \/ status[kids[i]] \in {"canceled", "ready", "child_unready"}
                        \/ status[kids[i]] = "completed" /\ uninterruptable[kids[i]]

\* cancel() is called exactly once for a task that ends as canceled, and never
\* for one that completes: it closes the handle that run() would close.
CancelOnce ==
    \A t \in Task : t \notin Live => cancels[t] = (IF status[t] = "canceled" THEN 1 ELSE 0)

\* How tasks end: combinators with the result their children gave them, and a
\* task either completed or canceled once.
TasksEndRight == CombinatorResult /\ CancelOnce

\* The one global cancel signal is consumed by the task it is meant for before
\* anything else can see it.
SignalReachesTarget ==
    global_signal_canceled =>
        /\ running # Loop /\ status[running] = "canceled"
        /\ At("wait")

\* User code always runs as the current task, so that await() and start() in it
\* act for the task that makes the call.
CurrentIsExecuting ==
    At("run") => global_current_task = Top

\* The two globals that all coroutines share are right for the code that reads
\* them next, across every switch, exception and nested cancellation.
GlobalsRight == SignalReachesTarget /\ CurrentIsExecuting

\* Whatever the order of events, the program comes to its end: uv_run returns, and
\* no task is left that waits for somebody who is not going to act.
Termination == <>[](Quiescent /\ Live = {})

-----------------------------------------------------------------------------
(***************************************************************************)
(* The programs for which the safety properties are proved.  Every task is *)
(* named once, by the task that awaits or starts it or as the child of one *)
(* combinator (rank: no task below itself); an awaited task calls no       *)
(* start(); a combinator has children; and what lies below a combinator    *)
(* that is itself below one can be interrupted (level: the combinators     *)
(* above a task, 2 for more).                                              *)
(***************************************************************************)
Named(p, t) == IF p[t].kind = "user" THEN [i \in DOMAIN p[t].body |-> p[t].body[i][2]]
                                     ELSE p[t].children

Program == [kind : Kinds, body : Seq({"await", "start"} \X Task), children : Seq(Task),
            un : BOOLEAN, limited : BOOLEAN]

Shaped(p, rank, level) ==
    /\ p \in [Task -> Program] /\ ~p[TopTask].limited
    /\ \A t \in Task :
        /\ p[t].kind \in Combinators <=> p[t].children # <<>>
        /\ p[t].un => level[t] <= 1
        /\ \A i \in DOMAIN Named(p, t) :
            /\ Named(p, t)[i] # TopTask /\ rank[Named(p, t)[i]] < rank[t]
            /\ \A u \in Task : \A j \in DOMAIN Named(p, u) :
                Named(p, u)[j] = Named(p, t)[i] => u = t /\ j = i
        /\ \A i \in DOMAIN p[t].body : p[t].body[i][1] = "await" =>
            /\ level[p[t].body[i][2]] = level[t]
            /\ \A j \in DOMAIN p[p[t].body[i][2]].body : p[p[t].body[i][2]].body[j][1] # "start"
        /\ \A i \in DOMAIN p[t].children :
            level[p[t].children[i]] = IF level[t] = 0 THEN 1 ELSE 2

Structured(p) == \E rank \in [Task -> Nat], level \in [Task -> 0..2] : Shaped(p, rank, level)
=============================================================================
