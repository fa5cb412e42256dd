--------------------------- MODULE SchedulerSteps ---------------------------
(***************************************************************************)
(* The inductive invariant of Scheduler, for any finite set of tasks and   *)
(* any structured programs; what it says of the coroutines that have given *)
(* control away; the effect of every action; and the first parts of the    *)
(* proof that every step preserves it.  SchedulerProofs has the rest and   *)
(* the theorems.                                                           *)
(***************************************************************************)
EXTENDS Scheduler, FiniteSetTheorems, SequenceTheorems, WellFoundedInduction, TLAPS

\* The ranks and levels of the program.
Shape == CHOOSE w \in [Task -> Nat] \X [Task -> 0..2] : Shaped(prog, w[1], w[2])
Rank(t) == Shape[1][t]
Level(t) == Shape[2][t]

Body(t) == prog[t].body
Pc(t) == act[t].pc
Inner(c) == stack[c][1]

-----------------------------------------------------------------------------
\* What the program is made of.

LEMMA ShapeIs ==
    ASSUME Structured(prog)
    PROVE  /\ Shape \in [Task -> Nat] \X [Task -> 0..2]
           /\ Shaped(prog, Shape[1], Shape[2])
<1>1. PICK rank \in [Task -> Nat], level \in [Task -> 0..2] : Shaped(prog, rank, level)
  BY DEF Structured
<1>2. <<rank, level>> \in [Task -> Nat] \X [Task -> 0..2]
      /\ <<rank, level>>[1] = rank /\ <<rank, level>>[2] = level
  OBVIOUS
<1> QED
  BY <1>1, <1>2 DEF Shape

LEMMA TaskFacts ==
    ASSUME Structured(prog), NEW t \in Task
    PROVE  /\ Rank(t) \in Nat /\ Level(t) \in 0..2
           /\ Kind(t) \in Kinds /\ Children(t) \in Seq(Task)
           /\ DOMAIN Children(t) = 1..Len(Children(t)) /\ Len(Children(t)) \in Nat
           /\ Body(t) \in Seq({"await", "start"} \X Task)
           /\ DOMAIN Body(t) = 1..Len(Body(t)) /\ Len(Body(t)) \in Nat
           /\ prog[t].un \in BOOLEAN /\ prog[t].limited \in BOOLEAN
           /\ Kind(t) \in Combinators <=> Children(t) # <<>>
           /\ Kind(t) \in Combinators => Len(Children(t)) >= 1
           /\ prog[t].un => Level(t) <= 1
<1>1. Shaped(prog, Shape[1], Shape[2]) /\ Shape[1] \in [Task -> Nat] /\ Shape[2] \in [Task -> 0..2]
  BY ShapeIs
<1>2. prog[t] \in Program
  BY <1>1 DEF Shaped
<1>3. /\ prog[t].kind \in Kinds /\ prog[t].children \in Seq(Task)
      /\ prog[t].body \in Seq({"await", "start"} \X Task)
      /\ prog[t].un \in BOOLEAN /\ prog[t].limited \in BOOLEAN
  BY <1>2 DEF Program
<1>4. Kind(t) \in Combinators <=> Children(t) # <<>>
  BY <1>1 DEF Shaped, Kind, Children
<1>5. prog[t].un => Level(t) <= 1
  BY <1>1 DEF Shaped, Level
<1>6. /\ DOMAIN Children(t) = 1..Len(Children(t)) /\ Len(Children(t)) \in Nat
      /\ DOMAIN Body(t) = 1..Len(Body(t)) /\ Len(Body(t)) \in Nat
  BY <1>3, LenProperties DEF Children, Body
<1>7. Children(t) # <<>> => Len(Children(t)) # 0
  BY <1>3, EmptySeq DEF Children
<1> QED
  BY <1>1, <1>3, <1>4, <1>5, <1>6, <1>7 DEF Rank, Level, Kind, Children, Body

\* A child: the only place where it is named.
LEMMA KidFacts ==
    ASSUME Structured(prog), NEW k \in Task, NEW j \in DOMAIN Children(k)
    PROVE  /\ Children(k)[j] \in Task /\ Children(k)[j] # TopTask
           /\ Kind(k) \in Combinators
           /\ Rank(Children(k)[j]) < Rank(k)
           /\ Level(Children(k)[j]) = IF Level(k) = 0 THEN 1 ELSE 2
           /\ \A l \in Task : \A m \in DOMAIN Children(l) :
                  Children(l)[m] = Children(k)[j] => l = k /\ m = j
           /\ \A u \in Task : \A i \in DOMAIN Body(u) :
                  Kind(u) = "user" => Body(u)[i][2] # Children(k)[j]
<1>1. Shaped(prog, Shape[1], Shape[2])
  BY ShapeIs
<1>2. Children(k) \in Seq(Task) /\ Children(k)[j] \in Task /\ Children(k) # <<>>
  BY TaskFacts, ElementOfSeq, EmptySeq
<1>3. Kind(k) \in Combinators
  BY <1>2, TaskFacts
<1>4. \A l \in Task : Kind(l) \in Combinators => Named(prog, l) = Children(l)
  BY DEF Named, Kind, Children, Combinators
<1>5. \A l \in Task : \A m \in DOMAIN Children(l) : Kind(l) \in Combinators
  BY TaskFacts, EmptySeq
<1>6. \A u \in Task : Kind(u) = "user" =>
        /\ DOMAIN Named(prog, u) = DOMAIN Body(u)
        /\ \A i \in DOMAIN Body(u) : Named(prog, u)[i] = Body(u)[i][2]
  BY DEF Named, Kind, Body
<1>7. /\ Named(prog, k)[j] # TopTask /\ Shape[1][Named(prog, k)[j]] < Shape[1][k]
      /\ \A u \in Task : \A i \in DOMAIN Named(prog, u) :
            Named(prog, u)[i] = Named(prog, k)[j] => u = k /\ i = j
  BY <1>1, <1>3, <1>4 DEF Shaped
<1>8. Level(Children(k)[j]) = IF Level(k) = 0 THEN 1 ELSE 2
  BY <1>1 DEF Shaped, Level, Children
<1>9. \A u \in Task : \A i \in DOMAIN Body(u) : Kind(u) = "user" => Body(u)[i][2] # Children(k)[j]
  BY <1>3, <1>4, <1>6, <1>7 DEF Combinators
<1> QED
  BY <1>2, <1>3, <1>4, <1>5, <1>7, <1>8, <1>9 DEF Rank

\* The same for a task that is awaited or started.
LEMMA CallFacts ==
    ASSUME Structured(prog), NEW u \in Task, Kind(u) = "user", NEW i \in DOMAIN Body(u)
    PROVE  /\ Body(u)[i] = <<Body(u)[i][1], Body(u)[i][2]>>
           /\ Body(u)[i][1] \in {"await", "start"} /\ Body(u)[i][2] \in Task
           /\ Body(u)[i][2] # TopTask /\ Rank(Body(u)[i][2]) < Rank(u)
           /\ \A v \in Task : \A j \in DOMAIN Body(v) :
                  Kind(v) = "user" /\ Body(v)[j][2] = Body(u)[i][2] => v = u /\ j = i
           /\ \A k \in Task : \A j \in DOMAIN Children(k) : Children(k)[j] # Body(u)[i][2]
           /\ Body(u)[i][1] = "await" =>
                  /\ Level(Body(u)[i][2]) = Level(u)
                  /\ \A j \in DOMAIN Body(Body(u)[i][2]) : Body(Body(u)[i][2])[j][1] # "start"
<1>1. Shaped(prog, Shape[1], Shape[2])
  BY ShapeIs
<1>2. Body(u)[i] \in {"await", "start"} \X Task
  BY TaskFacts, ElementOfSeq
<1>3. \A v \in Task : Kind(v) = "user" =>
        /\ DOMAIN Named(prog, v) = DOMAIN Body(v)
        /\ \A j \in DOMAIN Body(v) : Named(prog, v)[j] = Body(v)[j][2]
  BY DEF Named, Kind, Body
<1>4. /\ Named(prog, u)[i] # TopTask /\ Shape[1][Named(prog, u)[i]] < Shape[1][u]
      /\ \A v \in Task : \A j \in DOMAIN Named(prog, v) :
            Named(prog, v)[j] = Named(prog, u)[i] => v = u /\ j = i
  BY <1>1, <1>3 DEF Shaped
<1>5. Body(u)[i][1] = "await" =>
        /\ Level(Body(u)[i][2]) = Level(u)
        /\ \A j \in DOMAIN Body(Body(u)[i][2]) : Body(Body(u)[i][2])[j][1] # "start"
  BY <1>1 DEF Shaped, Level, Body
<1> QED
  BY <1>2, <1>3, <1>4, <1>5, KidFacts DEF Rank

-----------------------------------------------------------------------------
(***************************************************************************)
(* The inductive invariant.                                                *)
(***************************************************************************)

\* A coroutine with run()s on its stack; one that is about to begin its task;
\* and a task that its coroutine has begun.
Busy(c) == stack[c] # <<>>
Entering(c) == c = running /\ ~Busy(c)
Begun(x) == Pc(x) # "none" \/ x = running

\* The stack of a coroutine: active tasks on it, the coroutine's own one at the
\* base, each awaited by the one below it.
Frame(c, k) ==
    /\ Pc(stack[c][k]) # "none" /\ uid[stack[c][k]] = c
    /\ Level(stack[c][k]) = Level(c)
    /\ k = 1 => reuse[stack[c][k]] = Loop
    /\ k > 1 => block_to[stack[c][k]] = Loop /\ Pc(stack[c][k]) = "run"
    /\ k = Len(stack[c]) => stack[c][k] = c /\ act[c].parent = Loop
Link(t, u) ==
    /\ act[t].parent = u /\ reuse[u] = t /\ Kind(u) = "user"
    /\ act[u].i - 1 \in DOMAIN Body(u) /\ Body(u)[act[u].i - 1] = <<"await", t>>
StackInv ==
    /\ \A c \in Task : \A k \in 1..Len(stack[c]) : Frame(c, k)
    /\ \A c \in Task : \A k \in 1..(Len(stack[c]) - 1) : Link(stack[c][k], stack[c][k + 1])
    /\ \A c \in Task : \A k, l \in 1..Len(stack[c]) : k < l => Rank(stack[c][k]) < Rank(stack[c][l])
    /\ \A t \in Task : Pc(t) # "none" =>
        uid[t] \in Task /\ \E k \in 1..Len(stack[uid[t]]) : stack[uid[t]][k] = t
    /\ \A t \in Task : Pc(t) = "none" => reuse[t] = Loop

\* What the status of a task says.
StatusInv ==
    /\ \A t \in Task : Pc(t) # "none" =>
        /\ status[t] \in {"running", "canceled", "child_unready"}
        /\ status[t] = "child_unready" => Pc(t) = "return"
        /\ Pc(t) = "run" /\ Kind(t) # "user" => status[t] = "running"
    /\ \A t \in Task : Pc(t) = "none" => status[t] # "running"
    /\ \A t \in Task : status[t] = "ready" => uid[t] = t
    /\ \A t \in Task : Entering(t) => status[t] = "ready"

\* Where the run() of each kind of task may stand.
PcInv ==
    \A t \in Task :
        /\ Kind(t) = "user" => Pc(t) \in {"none", "run", "throw", "caught"}
        /\ Kind(t) = "event" => Pc(t) \in {"none", "run", "wait", "return", "throw", "caught"}
        /\ Pc(t) # "abort"
        /\ act[t].i >= 1
        /\ Pc(t) = "run" /\ Kind(t) # "user" => act[t].i = 1
        /\ Pc(t) \in {"start", "child"} => act[t].i <= Len(Children(t))
        /\ Pc(t) = "cancel" => act[t].i <= Len(Children(t)) + 1

\* Tasks that nobody has awaited or started yet, and what all_of and any_of have
\* told the children they have not started yet.
Untouched(x) == status[x] \in {"ready", "limited"} /\ x # running
Told(x, k) == /\ status[x] = "ready" /\ x # running
              /\ block_to[x] = uid[k] /\ finish_to[x] = uid[k]
Later(k) == {j \in DOMAIN Children(k) : j > act[k].i \/ (j = act[k].i /\ Pc(k) = "start")}
NotYet ==
    /\ \A t \in Task : status[t] \in {"ready", "limited"} =>
        /\ Kind(t) = "user" => \A i \in DOMAIN Body(t) : Untouched(Body(t)[i][2])
        /\ \A j \in DOMAIN Children(t) : Untouched(Children(t)[j])
    /\ \A t \in Task : Pc(t) = "run" =>
        /\ Kind(t) = "user" => \A i \in DOMAIN Body(t) : i >= act[t].i => Untouched(Body(t)[i][2])
        /\ \A j \in DOMAIN Children(t) : Untouched(Children(t)[j])
    /\ \A t \in Task : Pc(t) \in {"start", "child"} => \A j \in Later(t) : Told(Children(t)[j], t)

\* A child that has begun belongs to a combinator that is still at work, and
\* gives control to it when it ends; any other coroutine ends into the loop.
IsKid(x) == \E k \in Task : \E j \in DOMAIN Children(k) : Children(k)[j] = x
AtWork == {"start", "child", "wait", "cancel", "unsupport", "throw"}
FinishInv ==
    /\ \A k \in Task : \A j \in DOMAIN Children(k) : Begun(Children(k)[j]) =>
        Pc(k) \in AtWork /\ finish_to[Children(k)[j]] = uid[k]
    /\ \A x \in Task : (x = running \/ Busy(x)) /\ ~IsKid(x) => finish_to[x] = Loop

\* A coroutine that has given control to another one and expects it back, the
\* one it gave control to, and the coroutine that control goes back to when d
\* blocks.
Waits == {"wait", "unsupport"}
Calling(c) == c # running /\ Busy(c) /\ Pc(Inner(c)) \notin Waits
Calls(t, d) ==
    \/ Pc(t) = "run" /\ Kind(t) = "user" /\ act[t].i - 1 \in DOMAIN Body(t)
       /\ Body(t)[act[t].i - 1] = <<"start", d>>
    \/ Pc(t) = "child" /\ act[t].i \in DOMAIN Children(t) /\ d = Children(t)[act[t].i]
    \/ Pc(t) = "cancel" /\ act[t].i - 1 \in DOMAIN Children(t) /\ d = Children(t)[act[t].i - 1]
Blk(d) == block_to[IF Busy(d) THEN Inner(d) ELSE d]

\* A coroutine that an interrupt is leaving.
Leaving(t) == Pc(t) \in {"throw", "caught"} \/ (Pc(t) = "cancel" /\ act[t].next = "caught")
Unwinds(d) ==
    /\ Busy(d)
    /\ \/ Leaving(Inner(d))
       \/ Pc(Inner(d)) = "wait" /\ d = running /\ global_signal_canceled
       \/ Pc(Inner(d)) \in {"cancel", "return"} /\ Inner(d) = d /\ status[d] = "canceled"

BlockInv ==
    /\ \A c \in Task : Busy(c) /\ (Pc(Inner(c)) \in Waits \/ Leaving(Inner(c))) =>
        block_to[Inner(c)] = Loop
    /\ \A k \in Task : \A j \in DOMAIN Children(k) :
        \/ Entering(Children(k)[j])
        \/ Pc(Children(k)[j]) = "run" /\ Kind(Children(k)[j]) # "user"
        \/ Pc(Children(k)[j]) # "none" /\ status[Children(k)[j]] = "child_unready"
        => block_to[Children(k)[j]] = uid[k]

\* Who gave control is waiting for it; it comes back when the other one blocks
\* or, where it was given to interrupt, ends.
CallInv ==
    /\ \A c \in Task : Calling(c) =>
        \E d \in Task :
            /\ Calls(Inner(c), d) /\ (d = running \/ Calling(d))
            /\ Pc(Inner(c)) = "run" => Inner(c) = c
            /\ Pc(Inner(c)) # "cancel" => Blk(d) = c
            /\ Pc(Inner(c)) = "cancel" => Blk(d) = Loop /\ Unwinds(d)
    /\ \A d \in Task : (d = running \/ Calling(d)) /\ Blk(d) # Loop =>
        Blk(d) \in Task /\ Calling(Blk(d)) /\ Calls(Inner(Blk(d)), d)

\* The signal is on its way to the wait of the coroutine that was interrupted.
SignalInv ==
    global_signal_canceled =>
        /\ running # Loop /\ Busy(running) /\ Pc(Inner(running)) = "wait"
        /\ status[running] = "canceled"
        /\ \A t \in Task : Pc(t) # "none" /\ uid[t] = running /\ t # running => status[t] = "running"

CurrentInv ==
    /\ running # Loop /\ Busy(running) /\ Pc(Inner(running)) = "run" =>
        global_current_task = Inner(running)
    /\ running # Loop /\ ~Busy(running) => global_current_task = running

\* A handle is active for an event task that waits, or is being interrupted.
ArmedInv ==
    \A t \in armed :
        /\ Kind(t) = "event" /\ Pc(t) \in {"wait", "throw"}
        /\ Pc(t) = "throw" => uid[t] = running
        /\ Pc(t) = "wait" /\ uid[t] = running => global_signal_canceled

\* Children that __task_cancel_children has dealt with.
Visited(k, j) == Pc(k) = "unsupport" \/ (Pc(k) = "cancel" /\ j < act[k].i)
LiveKids(k) == {j \in DOMAIN Children(k) : Pc(Children(k)[j]) # "none"}
Completed(k) == {j \in DOMAIN Children(k) : status[Children(k)[j]] = "completed"}

\* A combinator to which one of its children has just ended.
Woken(k) == uid[k] = running /\ ~global_signal_canceled

\* Where an uninterruptable task can be.
LevelInv ==
    \A t \in Task :
        /\ uninterruptable[t] => Level(t) = 0 \/ (Level(t) = 1 /\ prog[t].un)
        /\ prog[t].un => uninterruptable[t]
        /\ Pc(t) = "unsupport" => uninterruptable[t] /\ Level(t) = 0
        /\ Pc(t) = "cancel" /\ act[t].n > 0 => Level(t) = 0

\* Coroutines whose task is going to end canceled.
Doomed(c) ==
    /\ Busy(c)
    /\ \/ \E t \in Task : Pc(t) # "none" /\ uid[t] = c /\ status[t] = "canceled"
       \/ Pc(Inner(c)) = "throw"
DoomInv ==
    /\ \A c \in Task : Doomed(c) =>
        \E k \in Task : \E j \in DOMAIN Children(k) : Children(k)[j] = c /\ Visited(k, j)
    /\ \A c \in Task : Busy(c) /\ status[c] = "canceled" => Unwinds(c)
    /\ \A t \in Task : Pc(t) = "caught" \/ (Pc(t) = "cancel" /\ act[t].next = "caught") =>
        status[t] = "canceled"
    /\ \A t \in Task : Pc(t) = "unsupport" => act[t].next = "return"
    /\ \A k \in Task : \A j \in LiveKids(k) : Visited(k, j) =>
        uninterruptable[Children(k)[j]] \/ Doomed(Children(k)[j])

\* The tasks whose cancel() has been called.
WasCanceled(t) ==
    \/ Pc(t) = "none" /\ status[t] = "canceled"
    \/ Pc(t) = "caught"
    \/ Pc(t) = "cancel" /\ act[t].next = "caught"
    \/ Pc(t) \in {"cancel", "return"} /\ status[t] = "canceled" /\ uid[t] = t
CancelsInv == \A t \in Task : cancels[t] = IF WasCanceled(t) THEN 1 ELSE 0

\* The counters of all_of::run and __task_cancel_children.
Awaited(k) == DOMAIN Children(k) \ Completed(k)
AwaitedButOne(k) == DOMAIN Children(k) \ (Completed(k) \ {act[k].i})
Kept(k) == {j \in LiveKids(k) : j < act[k].i /\ (uid[k] = running \/ j # act[k].i - 1)}
CountOf(k) ==
    /\ Kind(k) = "all_of" =>
        /\ Pc(k) = "start" => act[k].n = Cardinality(Awaited(k))
        /\ Pc(k) = "child" => act[k].n = Cardinality(AwaitedButOne(k))
        /\ Pc(k) = "wait" =>
            act[k].n >= 1 /\ act[k].n = Cardinality(Awaited(k)) + (IF Woken(k) THEN 1 ELSE 0)
    /\ Pc(k) = "cancel" => act[k].n = Cardinality(Kept(k))
    /\ Pc(k) = "unsupport" =>
        act[k].n >= 1 /\ act[k].n = Cardinality(LiveKids(k)) + (IF Woken(k) THEN 1 ELSE 0)
CountInv == \A k \in Task : CountOf(k)

\* The results of the children, and what they make the combinator's.
KidStatus == {"ready", "running", "canceled", "completed", "child_unready"}
Winner(k) ==
    /\ completed_id[k] \in Completed(k)
    /\ \A j \in Completed(k) \ {completed_id[k]} : uninterruptable[Children(k)[j]]
Naturally(k) == cancels[k] = 0 /\ status[k] # "child_unready"
KidsKnown(k) ==
    Pc(k) \notin {"none", "run"} /\ status[k] # "child_unready" =>
        \A j \in DOMAIN Children(k) : status[Children(k)[j]] \in KidStatus
AnyOfResult(k) ==
    /\ Pc(k) = "start" => Completed(k) = {}
    /\ Pc(k) = "child" => Completed(k) \subseteq {act[k].i}
    /\ Pc(k) = "wait" /\ ~Woken(k) => Completed(k) = {}
    /\ Pc(k) = "wait" /\ Woken(k) => \E j \in DOMAIN Children(k) : Completed(k) = {j}
    /\ Pc(k) \in {"cancel", "unsupport", "return"} /\ Naturally(k) => Winner(k)
AllOfResult(k) ==
    /\ Pc(k) = "return" /\ Naturally(k) => Completed(k) = DOMAIN Children(k)
    /\ Pc(k) \in {"cancel", "unsupport"} => cancels[k] = 1
EndResult(k) ==
    Pc(k) = "none" /\ status[k] = "completed" =>
        /\ Kind(k) = "all_of" => Completed(k) = DOMAIN Children(k)
        /\ Kind(k) = "any_of" => Winner(k)
        /\ \A j \in DOMAIN Children(k) : status[Children(k)[j]] \in KidStatus \ {"running"}
ResultInv ==
    \A k \in Task :
        /\ KidsKnown(k) /\ EndResult(k)
        /\ Kind(k) = "any_of" => AnyOfResult(k)
        /\ Kind(k) = "all_of" => AllOfResult(k)

IndInv ==
    /\ TypeOK /\ Structured(prog)
    /\ StackInv /\ StatusInv /\ PcInv /\ NotYet /\ FinishInv /\ BlockInv /\ CallInv
    /\ SignalInv /\ CurrentInv /\ ArmedInv /\ LevelInv /\ DoomInv /\ CancelsInv /\ CountInv
    /\ ResultInv

-----------------------------------------------------------------------------
\* What follows from the invariant about stacks.

LEMMA SameShape ==
    ASSUME prog' = prog
    PROVE  /\ Shape' = Shape
           /\ \A t \in Task : Rank(t)' = Rank(t) /\ Level(t)' = Level(t)
<1>1. Shape' = Shape
  BY DEF Shape
<1> QED
  BY <1>1 DEF Rank, Level

LEMMA StackTypes ==
    ASSUME IndInv
    PROVE  /\ \A c \in Task : /\ stack[c] \in Seq(Task) /\ Len(stack[c]) \in Nat
                              /\ Busy(c) <=> Len(stack[c]) >= 1
                              /\ \A k \in 1..Len(stack[c]) : stack[c][k] \in Task
           /\ \A c \in Task : Busy(c) => Inner(c) \in Task /\ Inner(c) = Head(stack[c])
           /\ \A t \in Task : /\ act[t] \in Activations /\ act[t].i \in Nat /\ act[t].n \in Nat
                              /\ act[t].pc \in Points /\ act[t].parent \in Task \cup {Loop}
                              /\ act[t].next \in {"return", "caught"}
           /\ running \in Task \/ running = Loop
           /\ Loop \notin Task
<1>1. stack \in [Task -> Seq(Task)] /\ act \in [Task -> Activations] /\ running \in Task \cup {Loop}
  BY DEF IndInv, TypeOK
<1>2. ASSUME NEW c \in Task
      PROVE  /\ stack[c] \in Seq(Task) /\ Len(stack[c]) \in Nat
             /\ Busy(c) <=> Len(stack[c]) >= 1
             /\ \A k \in 1..Len(stack[c]) : stack[c][k] \in Task
             /\ Busy(c) => Inner(c) \in Task /\ Inner(c) = Head(stack[c])
  <2>1. stack[c] \in Seq(Task)
    BY <1>1
  <2>2. Len(stack[c]) \in Nat /\ \A k \in 1..Len(stack[c]) : stack[c][k] \in Task
    BY <2>1, LenProperties, ElementOfSeq
  <2>3. Busy(c) <=> Len(stack[c]) >= 1
    BY <2>1, <2>2, EmptySeq DEF Busy
  <2>4. Busy(c) => Head(stack[c]) = stack[c][1]
    BY <2>1, <2>3, HeadTailProperties DEF Busy
  <2> QED
    BY <2>1, <2>2, <2>3, <2>4 DEF Inner
<1>3. ASSUME NEW t \in Task
      PROVE  /\ act[t] \in Activations /\ act[t].i \in Nat /\ act[t].n \in Nat
             /\ act[t].pc \in Points /\ act[t].parent \in Task \cup {Loop}
             /\ act[t].next \in {"return", "caught"}
  BY <1>1 DEF Activations
<1> QED
  BY <1>1, <1>2, <1>3, TopAssumption

\* A coroutine with a stack: the innermost task and the base.
LEMMA BusyFacts ==
    ASSUME IndInv
    PROVE  \A c \in Task : Busy(c) =>
             /\ Inner(c) \in Task /\ Pc(Inner(c)) # "none" /\ uid[Inner(c)] = c
             /\ Level(Inner(c)) = Level(c) /\ Rank(Inner(c)) <= Rank(c)
             /\ reuse[Inner(c)] = Loop
             /\ Pc(c) # "none" /\ uid[c] = c
             /\ Inner(c) = c <=> Len(stack[c]) = 1
             /\ Inner(c) # c => Pc(c) = "run" /\ block_to[c] = Loop
<1> SUFFICES ASSUME NEW c \in Task, Busy(c)
             PROVE  /\ Inner(c) \in Task /\ Pc(Inner(c)) # "none" /\ uid[Inner(c)] = c
                    /\ Level(Inner(c)) = Level(c) /\ Rank(Inner(c)) <= Rank(c)
                    /\ reuse[Inner(c)] = Loop
                    /\ Pc(c) # "none" /\ uid[c] = c
                    /\ Inner(c) = c <=> Len(stack[c]) = 1
                    /\ Inner(c) # c => Pc(c) = "run" /\ block_to[c] = Loop
  OBVIOUS
<1>1. Len(stack[c]) \in Nat /\ Len(stack[c]) >= 1 /\ Inner(c) \in Task
  BY StackTypes
<1>2. Frame(c, 1) /\ Frame(c, Len(stack[c]))
  BY <1>1 DEF IndInv, StackInv
<1>3. \A k, l \in 1..Len(stack[c]) : k < l => Rank(stack[c][k]) < Rank(stack[c][l])
  BY DEF IndInv, StackInv
<1>4. stack[c][Len(stack[c])] = c
  BY <1>2 DEF Frame
<1>5. Rank(Inner(c)) \in Nat /\ Rank(c) \in Nat
  BY <1>1, TaskFacts DEF IndInv
<1>6. CASE Len(stack[c]) = 1
  BY <1>1, <1>2, <1>4, <1>5, <1>6 DEF Frame, Inner
<1>7. CASE Len(stack[c]) # 1
  <2>1. Rank(Inner(c)) < Rank(c)
    <3>1. PICK n \in Nat : n = Len(stack[c])
      BY <1>1
    <3>. n >= 1 /\ n # 1
      BY <1>1, <1>7, <3>1
    <3>2. 1 \in 1..n /\ n \in 1..n /\ 1 < n
      OBVIOUS
    <3>3. Rank(stack[c][1]) < Rank(stack[c][n])
      BY <1>3, <3>1, <3>2
    <3> QED
      BY <1>4, <3>1, <3>3 DEF Inner
  <2> QED
    BY <1>1, <1>2, <1>4, <1>5, <1>7, <2>1 DEF Frame, Inner
<1> QED
  BY <1>6, <1>7

\* An active task: it is the innermost one of its coroutine, or a user task
\* that awaits the one above it.
LEMMA LiveFacts ==
    ASSUME IndInv
    PROVE  \A t \in Task : Pc(t) # "none" =>
             /\ uid[t] \in Task /\ Busy(uid[t]) /\ Level(t) = Level(uid[t])
             /\ Rank(t) <= Rank(uid[t])
             /\ t # Inner(uid[t]) => Pc(t) = "run" /\ Kind(t) = "user" /\ block_to[t] = Loop
             /\ t # uid[t] => \E u \in Task : /\ Kind(u) = "user" /\ act[u].i - 1 \in DOMAIN Body(u)
                                              /\ Body(u)[act[u].i - 1] = <<"await", t>>
<1> SUFFICES ASSUME NEW t \in Task, Pc(t) # "none"
             PROVE  /\ uid[t] \in Task /\ Busy(uid[t]) /\ Level(t) = Level(uid[t])
                    /\ Rank(t) <= Rank(uid[t])
                    /\ t # Inner(uid[t]) => Pc(t) = "run" /\ Kind(t) = "user" /\ block_to[t] = Loop
                    /\ t # uid[t] => \E u \in Task :
                           /\ Kind(u) = "user" /\ act[u].i - 1 \in DOMAIN Body(u)
                           /\ Body(u)[act[u].i - 1] = <<"await", t>>
  OBVIOUS
<1> DEFINE c == uid[t]
<1>1. c \in Task /\ \E k \in 1..Len(stack[c]) : stack[c][k] = t
  BY DEF IndInv, StackInv
<1> HIDE DEF c
<1>2. PICK k \in 1..Len(stack[c]) : stack[c][k] = t
  BY <1>1
<1>3. /\ Len(stack[c]) \in Nat /\ Busy(c) <=> Len(stack[c]) >= 1
      /\ \A l \in 1..Len(stack[c]) : stack[c][l] \in Task
  BY <1>1, StackTypes
<1>4. Busy(c)
  BY <1>2, <1>3
<1>5. Frame(c, k) /\ Frame(c, Len(stack[c]))
  BY <1>1, <1>2, <1>3, <1>4 DEF IndInv, StackInv
<1>6. Level(t) = Level(c)
  BY <1>2, <1>5 DEF Frame
<1>7. stack[c][Len(stack[c])] = c
  BY <1>5 DEF Frame
<1>8. Rank(t) <= Rank(c)
  <2>1. k < Len(stack[c]) => Rank(stack[c][k]) < Rank(stack[c][Len(stack[c])])
    BY <1>1, <1>2, <1>3, <1>4 DEF IndInv, StackInv
  <2>2. Rank(t) \in Nat /\ Rank(c) \in Nat
    BY <1>1, TaskFacts DEF IndInv
  <2> QED
    BY <1>2, <1>3, <1>7, <2>1, <2>2
<1>9. t # Inner(c) => Pc(t) = "run" /\ Kind(t) = "user" /\ block_to[t] = Loop
  <2> SUFFICES ASSUME t # Inner(c)
               PROVE  Pc(t) = "run" /\ Kind(t) = "user" /\ block_to[t] = Loop
    OBVIOUS
  <2>1. k > 1 /\ k - 1 \in 1..(Len(stack[c]) - 1)
    BY <1>2, <1>3 DEF Inner
  <2>2. Link(stack[c][k - 1], stack[c][(k - 1) + 1])
    BY <1>1, <2>1 DEF IndInv, StackInv
  <2>3. (k - 1) + 1 = k
    BY <1>3
  <2> QED
    BY <1>2, <1>5, <2>1, <2>2, <2>3 DEF Link, Frame
<1>10. t # c => \E u \in Task : /\ Kind(u) = "user" /\ act[u].i - 1 \in DOMAIN Body(u)
                                /\ Body(u)[act[u].i - 1] = <<"await", t>>
  <2> SUFFICES ASSUME t # c
               PROVE  \E u \in Task : /\ Kind(u) = "user" /\ act[u].i - 1 \in DOMAIN Body(u)
                                      /\ Body(u)[act[u].i - 1] = <<"await", t>>
    OBVIOUS
  <2>1. k \in 1..(Len(stack[c]) - 1) /\ k + 1 \in 1..Len(stack[c])
    BY <1>2, <1>3, <1>7
  <2>2. Link(stack[c][k], stack[c][k + 1]) /\ stack[c][k + 1] \in Task
    BY <1>1, <1>3, <2>1 DEF IndInv, StackInv
  <2> QED
    BY <1>2, <2>2 DEF Link
<1> QED
  BY <1>1, <1>4, <1>6, <1>8, <1>9, <1>10 DEF c

\* A child of a combinator is awaited by nobody: it runs on its own coroutine.
LEMMA KidBase ==
    ASSUME IndInv, NEW k \in Task, NEW j \in DOMAIN Children(k), Pc(Children(k)[j]) # "none"
    PROVE  uid[Children(k)[j]] = Children(k)[j] /\ Busy(Children(k)[j])
<1> DEFINE x == Children(k)[j]
<1>1. x \in Task /\ \A u \in Task : \A i \in DOMAIN Body(u) : Kind(u) = "user" => Body(u)[i][2] # x
  BY KidFacts DEF IndInv
<1> HIDE DEF x
<1>2. Pc(x) # "none"
  BY DEF x
<1>3. uid[x] = x
  <2>1. ASSUME NEW u \in Task, Kind(u) = "user", act[u].i - 1 \in DOMAIN Body(u),
               Body(u)[act[u].i - 1] = <<"await", x>>
        PROVE  FALSE
    <3>1. Body(u)[act[u].i - 1][2] = x
      BY <2>1
    <3> QED
      BY <1>1, <2>1, <3>1
  <2> QED
    BY <1>1, <1>2, <2>1, LiveFacts
<1> QED
  BY <1>1, <1>2, <1>3, LiveFacts DEF x

\* The task that has the thread, and the others.
LEMMA TopFacts ==
    ASSUME IndInv, running # Loop, Busy(running)
    PROVE  /\ running \in Task
           /\ Top = Inner(running) /\ Top \in Task /\ uid[Top] = running /\ Pc(Top) # "none"
           /\ Here = act[Top] /\ Here \in Activations
           /\ Kind(Top) \in Kinds /\ Top # Loop
           /\ \A c \in Task : Busy(c) /\ c # running => Inner(c) # Top /\ uid[Inner(c)] = c
           /\ \A t \in Task : Pc(t) # "none" /\ Pc(t) # "run" => t = Inner(uid[t])
           /\ \A t \in Task : Pc(t) # "none" /\ t # Top /\ uid[t] = running =>
                Pc(t) = "run" /\ Kind(t) = "user"
<1>1. running \in Task
  BY StackTypes
<1>2. Top = Inner(running) /\ Top \in Task
  BY <1>1, StackTypes DEF Top
<1>3. Kind(Top) \in Kinds
  BY <1>2, TaskFacts DEF IndInv
<1> QED
  BY <1>1, <1>2, <1>3, BusyFacts, LiveFacts, StackTypes DEF Here

\* The run() that awaits the innermost one.
LEMMA CallerFacts ==
    ASSUME IndInv, running # Loop, Busy(running), ~AtBase
    PROVE  /\ Caller \in Task /\ Caller # Top /\ Caller = act[Top].parent
           /\ Pc(Caller) = "run" /\ Kind(Caller) = "user" /\ uid[Caller] = running
           /\ block_to[Caller] = Loop /\ reuse[Caller] = Top
           /\ act[Caller].i - 1 \in DOMAIN Body(Caller)
           /\ Body(Caller)[act[Caller].i - 1] = <<"await", Top>>
           /\ Top # running /\ Level(Caller) = Level(running)
<1> DEFINE s == stack[running]
<1>1. running \in Task /\ Top = s[1] /\ Top # running
  BY TopFacts, BusyFacts DEF Inner, AtBase
<1>2. Len(s) \in Nat /\ Len(s) > 1 /\ \A k \in 1..Len(s) : s[k] \in Task
  <2>1. PICK n \in Nat : n = Len(s)
    BY <1>1, StackTypes
  <2>2. n >= 1 /\ n # 1
    BY <1>1, <2>1, StackTypes DEF AtBase
  <2>3. n > 1
    BY <2>2
  <2> QED
    BY <1>1, <2>1, <2>3, StackTypes
<1>3. Frame(running, 2) /\ Link(s[1], s[1 + 1])
  BY <1>1, <1>2 DEF IndInv, StackInv
<1>4. Rank(s[1]) < Rank(s[2])
  BY <1>1, <1>2 DEF IndInv, StackInv
<1>5. Rank(s[1]) \in Nat /\ s[1 + 1] = s[2] /\ s[2] \in Task
  BY <1>1, <1>2, TaskFacts DEF IndInv
<1> QED
  BY <1>1, <1>3, <1>4, <1>5 DEF Caller, Frame, Link

-----------------------------------------------------------------------------
\* What follows about coroutines that have given control away.

LEMMA CallsWhat ==
    ASSUME IndInv, NEW t \in Task, NEW d \in Task, Calls(t, d)
    PROVE  /\ Rank(d) < Rank(t) /\ Rank(t) \in Nat /\ Rank(d) \in Nat
           /\ \A u \in Task : Calls(u, d) => u = t
           /\ \A e \in Task : Calls(t, e) => e = d
           /\ Pc(t) \in {"run", "child", "cancel"}
           /\ Pc(t) = "run" => Kind(t) = "user" /\ ~IsKid(d)
           /\ Pc(t) # "run" => Kind(t) \in Combinators /\ \E j \in DOMAIN Children(t) : d = Children(t)[j]
           /\ \A k \in Task : \A j \in DOMAIN Children(k) : Children(k)[j] = d => k = t
<1> USE DEF IndInv
<1>1. Structured(prog) /\ Rank(t) \in Nat /\ Rank(d) \in Nat
  BY TaskFacts
<1>2. CASE Pc(t) = "run"
  <2> DEFINE i == act[t].i - 1
  <2>1. Kind(t) = "user" /\ i \in DOMAIN Body(t) /\ Body(t)[i] = <<"start", d>>
    BY <1>2 DEF Calls
  <2> HIDE DEF i
  <2>2. Body(t)[i][2] = d
    BY <2>1
  <2>3. /\ Rank(d) < Rank(t)
        /\ \A v \in Task : \A j \in DOMAIN Body(v) : Kind(v) = "user" /\ Body(v)[j][2] = d => v = t /\ j = i
        /\ \A k \in Task : \A j \in DOMAIN Children(k) : Children(k)[j] # d
    BY <1>1, <2>1, <2>2, CallFacts
  <2>4. ASSUME NEW u \in Task, Calls(u, d) PROVE u = t
    <3>1. Pc(u) = "run"
      BY <2>3, <2>4 DEF Calls
    <3>2. Kind(u) = "user" /\ act[u].i - 1 \in DOMAIN Body(u) /\ Body(u)[act[u].i - 1] = <<"start", d>>
      BY <2>4, <3>1 DEF Calls
    <3>3. Body(u)[act[u].i - 1][2] = d
      BY <3>2
    <3> QED
      BY <2>3, <3>2, <3>3
  <2>5. ASSUME NEW e \in Task, Calls(t, e) PROVE e = d
    <3>1. Body(t)[i] = <<"start", e>>
      BY <1>2, <2>5 DEF Calls, i
    <3> QED
      BY <2>1, <3>1
  <2> QED
    BY <1>1, <1>2, <2>1, <2>3, <2>4, <2>5 DEF IsKid
<1>3. CASE Pc(t) # "run"
  <2>1. PICK j \in DOMAIN Children(t) : /\ d = Children(t)[j]
                                        /\ \A e \in Task : Calls(t, e) => e = Children(t)[j]
    BY <1>3 DEF Calls
  <2>2. /\ Rank(d) < Rank(t) /\ Kind(t) \in Combinators
        /\ \A l \in Task : \A m \in DOMAIN Children(l) : Children(l)[m] = d => l = t
        /\ \A u \in Task : \A i \in DOMAIN Body(u) : Kind(u) = "user" => Body(u)[i][2] # d
    BY <1>1, <2>1, KidFacts
  <2>3. ASSUME NEW u \in Task, Calls(u, d) PROVE u = t
    <3>1. CASE Pc(u) = "run"
      <4>1. Kind(u) = "user" /\ act[u].i - 1 \in DOMAIN Body(u) /\ Body(u)[act[u].i - 1] = <<"start", d>>
        BY <2>3, <3>1 DEF Calls
      <4>2. Body(u)[act[u].i - 1][2] = d
        BY <4>1
      <4> QED
        BY <2>2, <4>1, <4>2
    <3>2. CASE Pc(u) # "run"
      <4>1. \E m \in DOMAIN Children(u) : d = Children(u)[m]
        BY <2>3, <3>2 DEF Calls
      <4> QED
        BY <2>2, <4>1
    <3> QED
      BY <3>1, <3>2
  <2>4. Pc(t) \in {"run", "child", "cancel"}
    BY DEF Calls
  <2> QED
    BY <1>1, <1>3, <2>1, <2>2, <2>3, <2>4
<1> QED
  BY <1>2, <1>3

\* In place of induction: a set of numbers has a least one.
LEMMA Least ==
    ASSUME NEW T \in SUBSET Nat, T # {}
    PROVE  \E x \in T : \A y \in T : x <= y
<1>1. PICK x \in T : \A y \in T : ~(<<y, x>> \in OpToRel(<, Nat))
  BY NatLessThanWellFounded, WFMin
<1>2. ASSUME NEW y \in T PROVE x <= y
  <2>1. <<y, x>> \in Nat \X Nat /\ <<y, x>>[1] = y /\ <<y, x>>[2] = x
    OBVIOUS
  <2>2. y < x => <<y, x>> \in OpToRel(<, Nat)
    BY <2>1 DEF OpToRel
  <2>3. ~(y < x)
    BY <1>1, <2>2
  <2> QED
    BY <2>3
<1> QED
  BY <1>2

LEMMA CallingFacts ==
    ASSUME IndInv, NEW c \in Task, Calling(c)
    PROVE  \E d \in Task :
            /\ Calls(Inner(c), d) /\ (d = running \/ Calling(d))
            /\ Pc(Inner(c)) = "run" => Inner(c) = c
            /\ Pc(Inner(c)) # "cancel" => Blk(d) = c
            /\ Pc(Inner(c)) = "cancel" => Blk(d) = Loop /\ Unwinds(d)
            /\ Rank(d) < Rank(c) /\ Rank(c) \in Nat
<1>1. Busy(c) /\ Inner(c) \in Task /\ Rank(Inner(c)) <= Rank(c)
  BY BusyFacts DEF Calling
<1>2. PICK d \in Task :
            /\ Calls(Inner(c), d) /\ (d = running \/ Calling(d))
            /\ Pc(Inner(c)) = "run" => Inner(c) = c
            /\ Pc(Inner(c)) # "cancel" => Blk(d) = c
            /\ Pc(Inner(c)) = "cancel" => Blk(d) = Loop /\ Unwinds(d)
  BY DEF IndInv, CallInv
<1>3. Rank(d) < Rank(Inner(c)) /\ Rank(Inner(c)) \in Nat /\ Rank(d) \in Nat
  BY <1>1, <1>2, CallsWhat
<1>4. Rank(c) \in Nat
  BY TaskFacts DEF IndInv
<1>5. Rank(d) < Rank(c)
  BY <1>1, <1>3, <1>4
<1> QED
  BY <1>2, <1>4, <1>5

\* Whoever gave control away is above the coroutine that has it.
LEMMA CallChain ==
    ASSUME IndInv, NEW c \in Task, Calling(c)
    PROVE  running \in Task /\ Rank(running) < Rank(c)
<1> DEFINE Bad == {b \in Task : Calling(b) /\ ~(running \in Task /\ Rank(running) < Rank(b))}
<1> SUFFICES ASSUME Bad # {} PROVE FALSE
  OBVIOUS
<1>1. {Rank(b) : b \in Bad} \in SUBSET Nat /\ {Rank(b) : b \in Bad} # {}
  BY TaskFacts DEF IndInv
<1>2. PICK b \in Bad : \A e \in Bad : Rank(b) <= Rank(e)
  <2>1. PICK x \in {Rank(e) : e \in Bad} : \A y \in {Rank(e) : e \in Bad} : x <= y
    BY <1>1, Least
  <2> QED
    BY <2>1
<1>3. PICK d \in Task : (d = running \/ Calling(d)) /\ Rank(d) < Rank(b) /\ Rank(b) \in Nat
  BY <1>2, CallingFacts
<1>4. d # running /\ Calling(d)
  BY <1>2, <1>3
<1>5. Rank(d) \in Nat
  BY TaskFacts DEF IndInv
<1>6. d \notin Bad
  BY <1>2, <1>3, <1>5
<1>7. running \in Task /\ Rank(running) < Rank(d)
  BY <1>4, <1>6
<1>8. Rank(running) \in Nat
  BY <1>7, TaskFacts DEF IndInv
<1> QED
  BY <1>2, <1>3, <1>5, <1>7, <1>8

LEMMA NobodyCalls ==
    ASSUME IndInv, running = Loop
    PROVE  \A c \in Task : ~Calling(c)
BY CallChain, StackTypes

\* Where somebody gave control away, the coroutine that has it was given it.
LEMMA DirectCaller ==
    ASSUME IndInv, NEW c \in Task, Calling(c)
    PROVE  /\ running \in Task
           /\ \E b \in Task :
                /\ Calling(b) /\ Calls(Inner(b), running)
                /\ Pc(Inner(b)) = "run" => Inner(b) = b
                /\ Pc(Inner(b)) # "cancel" => Blk(running) = b
                /\ Pc(Inner(b)) = "cancel" => Blk(running) = Loop /\ Unwinds(running)
<1> DEFINE C == {b \in Task : Calling(b)}
<1>1. {Rank(b) : b \in C} \in SUBSET Nat /\ {Rank(b) : b \in C} # {}
  BY TaskFacts DEF IndInv
<1>2. PICK b \in C : \A e \in C : Rank(b) <= Rank(e)
  <2>1. PICK x \in {Rank(e) : e \in C} : \A y \in {Rank(e) : e \in C} : x <= y
    BY <1>1, Least
  <2> QED
    BY <2>1
<1>3. PICK d \in Task :
            /\ Calls(Inner(b), d) /\ (d = running \/ Calling(d))
            /\ Pc(Inner(b)) = "run" => Inner(b) = b
            /\ Pc(Inner(b)) # "cancel" => Blk(d) = b
            /\ Pc(Inner(b)) = "cancel" => Blk(d) = Loop /\ Unwinds(d)
            /\ Rank(d) < Rank(b) /\ Rank(b) \in Nat
  BY <1>2, CallingFacts
<1>4. Rank(d) \in Nat
  BY TaskFacts DEF IndInv
<1>5. d \notin C
  BY <1>2, <1>3, <1>4
<1> QED
  BY <1>2, <1>3, <1>5

\* A child has control while somebody waits for it back: its combinator gave it.
LEMMA CallerOfKid ==
    ASSUME IndInv, NEW c \in Task, Calling(c),
           NEW k \in Task, NEW j \in DOMAIN Children(k), Children(k)[j] = running
    PROVE  /\ Calling(uid[k]) /\ uid[k] \in Task /\ Inner(uid[k]) = k /\ Calls(k, running)
           /\ Pc(k) \in {"child", "cancel"}
           /\ Pc(k) = "child" => act[k].i = j /\ Blk(running) = uid[k]
           /\ Pc(k) = "cancel" => act[k].i - 1 = j /\ Blk(running) = Loop /\ Unwinds(running)
<1>1. running \in Task
  BY DirectCaller
<1>2. PICK b \in Task :
                /\ Calling(b) /\ Calls(Inner(b), running)
                /\ Pc(Inner(b)) = "run" => Inner(b) = b
                /\ Pc(Inner(b)) # "cancel" => Blk(running) = b
                /\ Pc(Inner(b)) = "cancel" => Blk(running) = Loop /\ Unwinds(running)
  BY DirectCaller
<1>3. Inner(b) \in Task /\ uid[Inner(b)] = b
  BY <1>2, BusyFacts DEF Calling
<1>4. k = Inner(b)
  BY <1>1, <1>2, <1>3, CallsWhat
<1>5. Pc(k) \in {"child", "cancel"}
  BY <1>1, <1>2, <1>3, <1>4, CallsWhat DEF IsKid
<1>6. \A m \in DOMAIN Children(k) : Children(k)[m] = running => m = j
  BY KidFacts DEF IndInv
<1>7. /\ Pc(k) = "child" => act[k].i = j
      /\ Pc(k) = "cancel" => act[k].i - 1 = j
  BY <1>2, <1>4, <1>6 DEF Calls
<1> QED
  BY <1>2, <1>3, <1>4, <1>5, <1>7

\* Nobody waits for control back from a coroutine that returns to the event loop.
LEMMA NobodyBehind ==
    ASSUME IndInv, running # Loop, Blk(running) = Loop, ~Unwinds(running)
    PROVE  \A c \in Task : ~Calling(c)
BY DirectCaller, StackTypes

\* A running child of the combinator that has the thread is waiting.
LEMMA KidSuspended ==
    ASSUME IndInv, running # Loop, Busy(running), NEW j \in DOMAIN Children(Top)
    PROVE  /\ Children(Top)[j] \in Task /\ Children(Top)[j] # running
           /\ Pc(Children(Top)[j]) # "none" =>
                /\ Busy(Children(Top)[j]) /\ uid[Children(Top)[j]] = Children(Top)[j]
                /\ ~Calling(Children(Top)[j])
                /\ Pc(Inner(Children(Top)[j])) \in Waits
                /\ block_to[Inner(Children(Top)[j])] = Loop
<1>1. PICK t \in Task : t = Top
  BY TopFacts
<1>2. PICK x \in Task : x = Children(t)[j] /\ Rank(x) < Rank(t) /\ Rank(x) \in Nat /\ Rank(t) \in Nat
  BY <1>1, KidFacts, TaskFacts DEF IndInv
<1>3. running \in Task /\ Rank(running) \in Nat /\ Rank(t) <= Rank(running)
  BY <1>1, TopFacts, BusyFacts, TaskFacts DEF IndInv
<1>4. x # running
  BY <1>2, <1>3
<1>5. ~Calling(x)
  <2>1. ~(Rank(running) < Rank(x))
    BY <1>2, <1>3
  <2> QED
    BY <2>1, CallChain
<1>6. Pc(x) # "none" => Busy(x) /\ uid[x] = x
  BY <1>1, <1>2, KidBase
<1>7. Pc(x) # "none" => Pc(Inner(x)) \in Waits
  BY <1>4, <1>5, <1>6 DEF Calling
<1>8. Pc(x) # "none" => block_to[Inner(x)] = Loop
  BY <1>6, <1>7 DEF IndInv, BlockInv
<1> QED
  BY <1>1, <1>2, <1>4, <1>5, <1>6, <1>7, <1>8

-----------------------------------------------------------------------------
\* The walk along the awaits of a child finds an uninterruptable task on its
\* stack if there is one.

\* The function that the walk computes, up to n steps.
WalkStep(v) == IF v = Loop \/ uninterruptable[v] THEN v ELSE reuse[v]
IsWalk(f, x, n) == f = [k \in 0..n |-> IF k = 0 THEN x ELSE WalkStep(f[k - 1])]

LEMMA WalkExists ==
    ASSUME NEW x
    PROVE  \A n \in Nat : \E f : IsWalk(f, x, n)
<1> DEFINE Bad == {n \in Nat : ~\E f : IsWalk(f, x, n)}
<1> SUFFICES ASSUME Bad # {} PROVE FALSE
  OBVIOUS
<1>1. PICK n \in Bad : \A m \in Bad : n <= m
  BY Least
<1>2. n # 0
  <2>1. IsWalk([k \in 0..0 |-> x], x, 0)
    BY DEF IsWalk
  <2> QED
    BY <1>1, <2>1
<1>3. n - 1 \in Nat /\ n - 1 \notin Bad
  BY <1>1, <1>2
<1>4. PICK f : IsWalk(f, x, n - 1)
  BY <1>3
<1> DEFINE g == [k \in 0..n |-> IF k = n THEN WalkStep(f[n - 1]) ELSE f[k]]
<1>5. ASSUME NEW k \in 0..n PROVE g[k] = IF k = 0 THEN x ELSE WalkStep(g[k - 1])
  <2>1. \A i \in 0..(n - 1) : f[i] = IF i = 0 THEN x ELSE WalkStep(f[i - 1])
    BY <1>4 DEF IsWalk
  <2>2. CASE k = 0
    BY <1>2, <1>3, <2>1, <2>2
  <2>3. CASE k # 0 /\ k # n
    <3>1. k \in 0..(n - 1) /\ k - 1 \in 0..n /\ k - 1 # n
      BY <1>1, <2>3
    <3>2. g[k] = f[k] /\ g[k - 1] = f[k - 1]
      BY <2>3, <3>1
    <3> QED
      BY <2>1, <2>3, <3>1, <3>2
  <2>4. CASE k = n
    <3>1. n - 1 \in 0..n /\ n - 1 # n
      BY <1>1, <1>2
    <3>2. g[n - 1] = f[n - 1] /\ g[n] = WalkStep(f[n - 1])
      BY <1>1, <3>1
    <3> QED
      BY <1>2, <2>4, <3>2
  <2> QED
    BY <2>2, <2>3, <2>4
<1>6. IsWalk(g, x, n)
  <2>1. g = [k \in 0..n |-> g[k]]
    OBVIOUS
  <2> HIDE DEF g
  <2> QED
    BY <1>5, <2>1 DEF IsWalk
<1> QED
  BY <1>1, <1>6

LEMMA FinalFacts ==
    ASSUME IndInv, NEW x \in Task, Busy(x)
    PROVE  /\ Final(x) = Loop =>
                \A t \in Task : Pc(t) # "none" /\ uid[t] = x => ~uninterruptable[t]
           /\ Final(x) # Loop =>
                /\ Final(x) \in Task /\ Pc(Final(x)) # "none" /\ uid[Final(x)] = x
                /\ uninterruptable[Final(x)]
<1> DEFINE N == Cardinality(Task)
           s == stack[x]
           w == CHOOSE f : IsWalk(f, x, N)
<1>1. N \in Nat
  BY FS_CardinalityType, TopAssumption
<1>2. IsWalk(w, x, N)
  BY <1>1, WalkExists
<1>3. Final(x) = w[N]
  BY DEF Final, IsWalk, WalkStep
<1> HIDE DEF w
<1>4. \A k \in 0..N : w[k] = IF k = 0 THEN x ELSE WalkStep(w[k - 1])
  BY <1>2 DEF IsWalk
<1>5. PICK L \in Nat : L = Len(s) /\ L >= 1 /\ \A k \in 1..L : s[k] \in Task /\ Frame(x, k)
  BY StackTypes DEF IndInv, StackInv
<1>6. \A k, l \in 1..L : k < l => Rank(s[k]) < Rank(s[l])
  BY <1>5 DEF IndInv, StackInv
<1>7. L <= N
  <2>1. [k \in 1..L |-> s[k]] \in Injection(1..L, Task)
    <3>1. [k \in 1..L |-> s[k]] \in [1..L -> Task]
      BY <1>5
    <3>2. ASSUME NEW k \in 1..L, NEW l \in 1..L, s[k] = s[l] PROVE k = l
      <4>1. Rank(s[k]) \in Nat
        BY <1>5, TaskFacts DEF IndInv
      <4>2. ~(k < l) /\ ~(l < k)
        BY <1>6, <3>2, <4>1
      <4> QED
        BY <4>2
    <3> QED
      BY <3>1, <3>2 DEF Injection, IsInjective
  <2>2. IsFiniteSet(1..L) /\ Cardinality(1..L) = L
    <3>1. 1 \in Int /\ L \in Int
      BY <1>5
    <3>2. IsFiniteSet(1..L) /\ Cardinality(1..L) = IF 1 > L THEN 0 ELSE L - 1 + 1
      BY <3>1, FS_Interval
    <3> QED
      BY <1>5, <3>2
  <2>3. Cardinality(1..L) <= N
    BY <2>1, <2>2, FS_Injection, TopAssumption DEF ExistsInjection
  <2> QED
    BY <2>2, <2>3
\* After k steps the walk is at a frame above which everything is still to come.
<1> DEFINE At_(k, p) == /\ w[k] = s[p] /\ (p = L - k \/ uninterruptable[s[p]])
                        /\ \A q \in 1..L : q > p => ~uninterruptable[s[q]]
           Good(k) == \/ w[k] = Loop /\ \A q \in 1..L : ~uninterruptable[s[q]]
                      \/ \E p \in 1..L : At_(k, p)
           Bad == {k \in 0..N : ~Good(k)}
<1>8. Good(0)
  <2>1. s[L] = x /\ w[0] = x
    BY <1>1, <1>4, <1>5 DEF Frame
  <2> QED
    BY <1>5, <2>1
<1>9. ASSUME NEW k \in 0..N, k # 0, Good(k - 1) PROVE Good(k)
  <2>1. w[k] = WalkStep(w[k - 1])
    BY <1>4, <1>9
  <2>2. CASE w[k - 1] = Loop /\ \A q \in 1..L : ~uninterruptable[s[q]]
    BY <2>1, <2>2 DEF WalkStep
  <2>3. ASSUME NEW p \in 1..L, At_(k - 1, p) PROVE Good(k)
    <3>1. s[p] \in Task /\ s[p] # Loop
      BY <1>5, TopAssumption
    <3>2. CASE uninterruptable[s[p]]
      <4>1. At_(k, p)
        BY <2>1, <2>3, <3>2 DEF WalkStep
      <4> QED
        BY <4>1
    <3>3. CASE ~uninterruptable[s[p]]
      <4>1. w[k] = reuse[s[p]] /\ p = L - (k - 1)
        BY <2>1, <2>3, <3>1, <3>3 DEF WalkStep
      <4>2. \A q \in 1..L : q > p - 1 => ~uninterruptable[s[q]]
        BY <2>3, <3>3
      <4>3. CASE p = 1
        <5>1. w[k] = Loop
          BY <1>5, <4>1, <4>3 DEF Frame
        <5> QED
          BY <4>2, <4>3, <5>1
      <4>4. CASE p # 1
        <5>1. p - 1 \in 1..L /\ p - 1 \in 1..(L - 1) /\ (p - 1) + 1 = p /\ p - 1 = L - k
          BY <1>1, <4>1, <4>4
        <5>2. Link(s[p - 1], s[(p - 1) + 1])
          BY <1>5, <5>1 DEF IndInv, StackInv
        <5>3. w[k] = s[p - 1]
          BY <4>1, <5>1, <5>2 DEF Link
        <5> QED
          BY <4>2, <5>1, <5>3
      <4> QED
        BY <4>3, <4>4
    <3> QED
      BY <3>2, <3>3
  <2> QED
    BY <1>9, <2>2, <2>3
<1> HIDE DEF Good
<1>10. Bad = {}
  <2> SUFFICES ASSUME Bad # {} PROVE FALSE
    OBVIOUS
  <2>1. PICK k \in Bad : \A m \in Bad : k <= m
    <3>1. Bad \in SUBSET Nat
      BY <1>1
    <3> HIDE DEF Bad
    <3> QED
      BY <3>1, Least
  <2>2. k \in 0..N /\ k # 0
    BY <1>8, <2>1
  <2>3. k - 1 \in 0..N /\ ~(k <= k - 1)
    BY <1>1, <2>2
  <2>4. Good(k - 1)
    BY <2>1, <2>3
  <2> QED
    BY <1>9, <2>1, <2>2, <2>4
<1>11. Good(N)
  BY <1>1, <1>10
<1>12. \A t \in Task : Pc(t) # "none" /\ uid[t] = x => \E q \in 1..L : s[q] = t
  BY <1>5 DEF IndInv, StackInv
<1>13. CASE w[N] = Loop /\ \A q \in 1..L : ~uninterruptable[s[q]]
  BY <1>3, <1>12, <1>13
<1>14. ASSUME NEW p \in 1..L, At_(N, p) PROVE Final(x) \in Task /\ Pc(Final(x)) # "none"
                                              /\ uid[Final(x)] = x /\ uninterruptable[Final(x)]
  <2>1. p # L - N
    BY <1>1, <1>7
  <2> QED
    BY <1>3, <1>5, <1>14, <2>1 DEF Frame
<1> QED
  BY <1>11, <1>13, <1>14, TopAssumption DEF Good

-----------------------------------------------------------------------------
(***************************************************************************)
(* The effect of the actions.  All but those that begin or leave a run()   *)
(* leave the stacks alone and move the innermost task of the coroutine     *)
(* that has the thread.                                                    *)
(***************************************************************************)
Moves(pc, i, n, next) ==
    /\ act'[Top].pc = pc /\ act'[Top].i = i /\ act'[Top].n = n /\ act'[Top].next = next
    /\ act'[Top].parent = act[Top].parent
    /\ \A u \in Task : u # Top => act'[u] = act[u]
Stays == running' = running /\ global_current_task' = global_current_task
Yields ==
    /\ block_to' = [block_to EXCEPT ![Top] = Loop]
    /\ running' = block_to[Top] /\ global_current_task' = block_to[Top]
Keeps ==
    /\ running # Loop /\ Busy(running)
    /\ prog' = prog /\ stack' = stack /\ uid' = uid /\ reuse' = reuse
    /\ act'[Top].pc # "none" /\ act'[Top].parent = act[Top].parent
    /\ \A u \in Task : u # Top => act'[u] = act[u]
    /\ \A u \in Task : Pc(u) # "none" /\ u # Top => block_to'[u] = block_to[u]
    /\ TypeOK'

LEMMA AtTop ==
    ASSUME IndInv, NEW pc, At(pc)
    PROVE  /\ running # Loop /\ Busy(running)
           /\ Top \in Task /\ act[Top] \in Activations /\ Here = act[Top]
           /\ Pc(Top) = pc /\ act[Top].pc = pc
<1>1. running # Loop /\ Busy(running)
  BY DEF At, Busy
<1> QED
  BY <1>1, TopFacts DEF At, Pc, Here

LEMMA BecomesMoves ==
    ASSUME IndInv, running # Loop, Busy(running), NEW f \in Activations, Becomes(f),
           f.parent = act[Top].parent
    PROVE  Moves(f.pc, f.i, f.n, f.next) /\ act' \in [Task -> Activations] /\ stack' = stack
<1>1. act \in [Task -> Activations] /\ Top \in Task
  BY TopFacts DEF IndInv, TypeOK
<1> QED
  BY <1>1 DEF Becomes, Moves

\* Sets of children, and how many there are.
LEMMA KidSets ==
    ASSUME IndInv, NEW k \in Task, NEW S \in SUBSET DOMAIN Children(k)
    PROVE  /\ IsFiniteSet(S) /\ Cardinality(S) \in Nat
           /\ Cardinality(S) = 0 <=> S = {}
           /\ \A j \in S : Cardinality(S \ {j}) = Cardinality(S) - 1
           /\ \A j \in DOMAIN Children(k) : j \notin S => Cardinality(S \cup {j}) = Cardinality(S) + 1
           /\ Cardinality(DOMAIN Children(k)) = Len(Children(k))
<1>1. PICK n \in Nat : n = Len(Children(k)) /\ DOMAIN Children(k) = 1..n
  BY TaskFacts DEF IndInv
<1>2. IsFiniteSet(1..n) /\ Cardinality(1..n) = n
  <2>1. 1 \in Int /\ n \in Int
    OBVIOUS
  <2>2. IsFiniteSet(1..n) /\ Cardinality(1..n) = IF 1 > n THEN 0 ELSE n - 1 + 1
    BY <2>1, FS_Interval
  <2> QED
    BY <2>2
<1>3. IsFiniteSet(S)
  BY <1>1, <1>2, FS_Subset
<1>4. Cardinality(S) \in Nat /\ (Cardinality(S) = 0 <=> S = {})
  BY <1>3, FS_CardinalityType, FS_EmptySet
<1>5. \A j \in S : Cardinality(S \ {j}) = Cardinality(S) - 1
  BY <1>3, FS_RemoveElement
<1>6. \A j \in DOMAIN Children(k) : j \notin S => Cardinality(S \cup {j}) = Cardinality(S) + 1
  BY <1>3, FS_AddElement
<1> QED
  BY <1>1, <1>2, <1>3, <1>4, <1>5, <1>6

LEMMA CountNat ==
    ASSUME IndInv, At("child"), Kind(Top) = "all_of"
    PROVE  Count(Here) \in Nat
<1>1. PICK t \in Task : t = Top /\ Here = act[t] /\ Pc(t) = "child" /\ act[t].n \in Nat
  BY AtTop, StackTypes
<1>2. act[t].n = Cardinality(AwaitedButOne(t)) /\ AwaitedButOne(t) \in SUBSET DOMAIN Children(t)
  BY <1>1 DEF IndInv, CountInv, CountOf, AwaitedButOne
<1>3. act[t].i \in DOMAIN Children(t)
  <2>1. act[t].i \in 1..Len(Children(t))
    BY <1>1, StackTypes DEF IndInv, PcInv
  <2> QED
    BY <2>1, TaskFacts DEF IndInv
<1>4. act[t].i \in AwaitedButOne(t)
  BY <1>3 DEF AwaitedButOne
<1>5. act[t].n # 0
  BY <1>2, <1>4, KidSets
<1> QED
  BY <1>1, <1>5 DEF Count

LEMMA EventWakeIs ==
    ASSUME IndInv, EventWake
    PROVE  /\ Keeps
           /\ Moves("return", act[Top].i, act[Top].n, act[Top].next)
           /\ Pc(Top) = "wait"
           /\ Kind(Top) = "event" /\ ~global_signal_canceled
           /\ Stays
           /\ UNCHANGED <<status, uninterruptable, block_to, finish_to, completed_id,
                global_signal_canceled, armed, cancels>>
<1>1. /\ running # Loop /\ Busy(running) /\ Top \in Task
      /\ act[Top] \in Activations /\ Here = act[Top] /\ Pc(Top) = "wait" /\ act[Top].pc = "wait"
  BY AtTop DEF EventWake
<1> DEFINE f == [Here EXCEPT !.pc = "return"]
<1>3. f \in Activations /\ <<f.pc, f.i, f.n, f.next, f.parent>> = <<"return", act[Top].i,
        act[Top].n, act[Top].next, act[Top].parent>>
  BY <1>1 DEF Activations, Points
<1>4. Becomes(f)
  BY <1>1 DEF EventWake, Yield, GoOn
<1> HIDE DEF f
<1>5. Moves("return", act[Top].i, act[Top].n, act[Top].next) /\ act' \in [Task -> Activations] /\
        stack' = stack
  BY <1>1, <1>3, <1>4, BecomesMoves
<1>6. /\ Pc(Top) = "wait"
      /\ Kind(Top) = "event" /\ ~global_signal_canceled
      /\ Stays
      /\ UNCHANGED <<status, uninterruptable, block_to, finish_to, completed_id,
           global_signal_canceled, armed, cancels>>
  BY <1>1 DEF EventWake, Yield, Swap, GoOn, Stays, Yields, controlVars, objectVars
<1>7. prog' = prog /\ uid' = uid /\ reuse' = reuse
  BY DEF EventWake, objectVars
<1>8. TypeOK'
  BY <1>1, <1>5, <1>6, <1>7 DEF IndInv, TypeOK, Stays, Yields, Kind, Children, Status
<1>9. \A u \in Task : Pc(u) # "none" /\ u # Top => block_to'[u] = block_to[u]
  BY <1>1, <1>6 DEF Yields, IndInv, TypeOK
<1> QED
  BY <1>1, <1>5, <1>6, <1>7, <1>8, <1>9 DEF Keeps, Moves

LEMMA EventRunIs ==
    ASSUME IndInv, EventRun
    PROVE  /\ Keeps
           /\ Moves("wait", act[Top].i, act[Top].n, act[Top].next)
           /\ Pc(Top) = "run"
           /\ Kind(Top) = "event"
           /\ Yields /\ armed' = armed \cup {Top}
           /\ UNCHANGED <<status, uninterruptable, finish_to, completed_id,
                global_signal_canceled, cancels>>
<1>1. /\ running # Loop /\ Busy(running) /\ Top \in Task
      /\ act[Top] \in Activations /\ Here = act[Top] /\ Pc(Top) = "run" /\ act[Top].pc = "run"
  BY AtTop DEF EventRun
<1> DEFINE f == [Here EXCEPT !.pc = "wait"]
<1>3. f \in Activations /\ <<f.pc, f.i, f.n, f.next, f.parent>> = <<"wait", act[Top].i,
        act[Top].n, act[Top].next, act[Top].parent>>
  BY <1>1 DEF Activations, Points
<1>4. Becomes(f)
  BY <1>1 DEF EventRun, Yield, GoOn
<1> HIDE DEF f
<1>5. Moves("wait", act[Top].i, act[Top].n, act[Top].next) /\ act' \in [Task -> Activations] /\
        stack' = stack
  BY <1>1, <1>3, <1>4, BecomesMoves
<1>6. /\ Pc(Top) = "run"
      /\ Kind(Top) = "event"
      /\ Yields /\ armed' = armed \cup {Top}
      /\ UNCHANGED <<status, uninterruptable, finish_to, completed_id, global_signal_canceled,
           cancels>>
  BY <1>1 DEF EventRun, Yield, Swap, GoOn, Stays, Yields, controlVars, objectVars
<1>7. prog' = prog /\ uid' = uid /\ reuse' = reuse
  BY DEF EventRun, objectVars
<1>8. TypeOK'
  BY <1>1, <1>5, <1>6, <1>7 DEF IndInv, TypeOK, Stays, Yields, Kind, Children, Status
<1>9. \A u \in Task : Pc(u) # "none" /\ u # Top => block_to'[u] = block_to[u]
  BY <1>1, <1>6 DEF Yields, IndInv, TypeOK
<1> QED
  BY <1>1, <1>5, <1>6, <1>7, <1>8, <1>9 DEF Keeps, Moves

LEMMA StartChildIs ==
    ASSUME IndInv, StartChild
    PROVE  /\ Keeps
           /\ Moves("child", act[Top].i, act[Top].n, act[Top].next)
           /\ Pc(Top) = "start"
           /\ running' = uid[Children(Top)[act[Top].i]]
           /\ global_current_task' = running'
           /\ UNCHANGED <<status, uninterruptable, block_to, finish_to, completed_id,
                global_signal_canceled, armed, cancels>>
<1>1. /\ running # Loop /\ Busy(running) /\ Top \in Task
      /\ act[Top] \in Activations /\ Here = act[Top] /\ Pc(Top) = "start" /\ act[Top].pc = "start"
  BY AtTop DEF StartChild
<1>2. /\ act[Top].i \in DOMAIN Children(Top) /\ Children(Top)[act[Top].i] \in Task
      /\ uid[Children(Top)[act[Top].i]] \in Task \cup {Loop}
  <2>1. act[Top].i \in 1..Len(Children(Top))
    BY <1>1, StackTypes DEF IndInv, PcInv
  <2>2. act[Top].i \in DOMAIN Children(Top)
    BY <1>1, <2>1, TaskFacts DEF IndInv
  <2>3. Children(Top)[act[Top].i] \in Task
    BY <1>1, <2>2, KidFacts DEF IndInv
  <2> QED
    BY <2>2, <2>3 DEF IndInv, TypeOK
<1> DEFINE f == [Here EXCEPT !.pc = "child"]
<1>3. f \in Activations /\ <<f.pc, f.i, f.n, f.next, f.parent>> = <<"child", act[Top].i,
        act[Top].n, act[Top].next, act[Top].parent>>
  BY <1>1, <1>2 DEF Activations, Points
<1>4. Becomes(f)
  BY <1>1, <1>2 DEF StartChild, Yield, GoOn
<1> HIDE DEF f
<1>5. Moves("child", act[Top].i, act[Top].n, act[Top].next) /\ act' \in [Task -> Activations] /\
        stack' = stack
  BY <1>1, <1>3, <1>4, BecomesMoves
<1>6. /\ Pc(Top) = "start"
      /\ running' = uid[Children(Top)[act[Top].i]]
      /\ global_current_task' = running'
      /\ UNCHANGED <<status, uninterruptable, block_to, finish_to, completed_id,
           global_signal_canceled, armed, cancels>>
  BY <1>1, <1>2 DEF StartChild, Yield, Swap, GoOn, Stays, Yields, controlVars, objectVars
<1>7. prog' = prog /\ uid' = uid /\ reuse' = reuse
  BY DEF StartChild, objectVars
<1>8. TypeOK'
  BY <1>1, <1>5, <1>6, <1>7, <1>2, <1>2 DEF IndInv, TypeOK, Stays, Yields, Kind, Children, Status
<1>9. \A u \in Task : Pc(u) # "none" /\ u # Top => block_to'[u] = block_to[u]
  BY <1>1, <1>6 DEF Yields, IndInv, TypeOK
<1> QED
  BY <1>1, <1>2, <1>5, <1>6, <1>7, <1>8, <1>9 DEF Keeps, Moves

LEMMA AllOfBackYieldsIs ==
    ASSUME IndInv, AllOfChildBack, Here.i = Len(Children(Top)) /\ Count(Here) > 0
    PROVE  /\ Keeps
           /\ Moves("wait", act[Top].i + 1, Count(Here), act[Top].next)
           /\ Pc(Top) = "child"
           /\ Kind(Top) = "all_of"
           /\ act[Top].i = Len(Children(Top)) /\ Count(Here) > 0
           /\ Yields
           /\ UNCHANGED <<status, uninterruptable, finish_to, completed_id,
                global_signal_canceled, armed, cancels>>
<1>1. /\ running # Loop /\ Busy(running) /\ Top \in Task
      /\ act[Top] \in Activations /\ Here = act[Top] /\ Pc(Top) = "child" /\ act[Top].pc = "child"
  BY AtTop DEF AllOfChildBack
<1>2. Count(Here) \in Nat /\ act[Top].i = Len(Children(Top)) /\ Count(Here) > 0
  BY <1>1, CountNat DEF AllOfChildBack
<1> DEFINE f == [[Here EXCEPT !.n = Count(Here), !.i = @ + 1] EXCEPT !.pc = "wait"]
<1>3. f \in Activations /\ <<f.pc, f.i, f.n, f.next, f.parent>> = <<"wait", act[Top].i + 1,
        Count(Here), act[Top].next, act[Top].parent>>
  <2>1. PICK h \in Activations, i \in Nat, n \in Nat, pc \in Points :
            /\ h = act[Top] /\ i = act[Top].i + 1 /\ n = Count(Here)
            /\ pc = "wait"
    <3>1. act[Top].i + 1 \in Nat /\ Count(Here) \in Nat
      BY <1>1, <1>2, StackTypes
    <3>2. "wait" \in Points
      BY DEF Points
    <3> QED
      BY <1>1, <3>1, <3>2
  <2>2. f = [[h EXCEPT !.n = n, !.i = i] EXCEPT !.pc = pc]
    BY <1>1, <2>1
  <2> HIDE DEF f
  <2>3. /\ f \in Activations /\ f.pc = pc /\ f.i = i /\ f.n = n
        /\ f.next = h.next /\ f.parent = h.parent
    BY <2>2 DEF Activations
  <2> QED
    BY <1>1, <2>1, <2>3
<1>4. Becomes(f)
  BY <1>1, <1>2 DEF AllOfChildBack, Yield, GoOn
<1> HIDE DEF f
<1>5. Moves("wait", act[Top].i + 1, Count(Here), act[Top].next) /\ act' \in [Task -> Activations]
        /\ stack' = stack
  BY <1>1, <1>3, <1>4, BecomesMoves
<1>6. /\ Pc(Top) = "child"
      /\ Kind(Top) = "all_of"
      /\ act[Top].i = Len(Children(Top)) /\ Count(Here) > 0
      /\ Yields
      /\ UNCHANGED <<status, uninterruptable, finish_to, completed_id, global_signal_canceled,
           armed, cancels>>
  BY <1>1, <1>2 DEF AllOfChildBack, Yield, Swap, GoOn, Stays, Yields, controlVars, objectVars
<1>7. prog' = prog /\ uid' = uid /\ reuse' = reuse
  BY DEF AllOfChildBack, objectVars
<1>8. TypeOK'
  BY <1>1, <1>5, <1>6, <1>7, <1>2 DEF IndInv, TypeOK, Stays, Yields, Kind, Children, Status
<1>9. \A u \in Task : Pc(u) # "none" /\ u # Top => block_to'[u] = block_to[u]
  BY <1>1, <1>6 DEF Yields, IndInv, TypeOK
<1> QED
  BY <1>1, <1>2, <1>5, <1>6, <1>7, <1>8, <1>9 DEF Keeps, Moves

LEMMA AllOfBackGoesOnIs ==
    ASSUME IndInv, AllOfChildBack, ~(Here.i = Len(Children(Top)) /\ Count(Here) > 0)
    PROVE  /\ Keeps
           /\ Moves((IF act[Top].i = Len(Children(Top)) THEN "return" ELSE "start"), act[Top].i +
                1, Count(Here), act[Top].next)
           /\ Pc(Top) = "child"
           /\ Kind(Top) = "all_of"
           /\ act[Top].i = Len(Children(Top)) => Count(Here) = 0
           /\ Stays
           /\ UNCHANGED <<status, uninterruptable, block_to, finish_to, completed_id,
                global_signal_canceled, armed, cancels>>
<1>1. /\ running # Loop /\ Busy(running) /\ Top \in Task
      /\ act[Top] \in Activations /\ Here = act[Top] /\ Pc(Top) = "child" /\ act[Top].pc = "child"
  BY AtTop DEF AllOfChildBack
<1>2. Count(Here) \in Nat /\ ~(act[Top].i = Len(Children(Top)) /\ Count(Here) > 0)
  BY <1>1, CountNat DEF AllOfChildBack
<1> DEFINE f == [[Here EXCEPT !.n = Count(Here), !.i = @ + 1] EXCEPT !.pc = IF Here.i = Len(Children(Top)) THEN "return" ELSE "start"]
<1>3. f \in Activations /\ <<f.pc, f.i, f.n, f.next, f.parent>> = <<(IF act[Top].i =
        Len(Children(Top)) THEN "return" ELSE "start"), act[Top].i + 1, Count(Here),
        act[Top].next, act[Top].parent>>
  <2>1. PICK h \in Activations, i \in Nat, n \in Nat, pc \in Points :
            /\ h = act[Top] /\ i = act[Top].i + 1 /\ n = Count(Here)
            /\ pc = (IF act[Top].i = Len(Children(Top)) THEN "return" ELSE "start")
    <3>1. act[Top].i + 1 \in Nat /\ Count(Here) \in Nat
      BY <1>1, <1>2, StackTypes
    <3>2. (IF act[Top].i = Len(Children(Top)) THEN "return" ELSE "start") \in Points
      BY DEF Points
    <3> QED
      BY <1>1, <3>1, <3>2
  <2>2. f = [[h EXCEPT !.n = n, !.i = i] EXCEPT !.pc = pc]
    BY <1>1, <2>1
  <2> HIDE DEF f
  <2>3. /\ f \in Activations /\ f.pc = pc /\ f.i = i /\ f.n = n
        /\ f.next = h.next /\ f.parent = h.parent
    BY <2>2 DEF Activations
  <2> QED
    BY <1>1, <2>1, <2>3
<1>4. Becomes(f)
  BY <1>1, <1>2 DEF AllOfChildBack, Yield, GoOn
<1> HIDE DEF f
<1>5. Moves((IF act[Top].i = Len(Children(Top)) THEN "return" ELSE "start"), act[Top].i + 1,
        Count(Here), act[Top].next) /\ act' \in [Task -> Activations] /\ stack' = stack
  BY <1>1, <1>3, <1>4, BecomesMoves
<1>6. /\ Pc(Top) = "child"
      /\ Kind(Top) = "all_of"
      /\ act[Top].i = Len(Children(Top)) => Count(Here) = 0
      /\ Stays
      /\ UNCHANGED <<status, uninterruptable, block_to, finish_to, completed_id,
           global_signal_canceled, armed, cancels>>
  BY <1>1, <1>2 DEF AllOfChildBack, Yield, Swap, GoOn, Stays, Yields, controlVars, objectVars
<1>7. prog' = prog /\ uid' = uid /\ reuse' = reuse
  BY DEF AllOfChildBack, objectVars
<1>8. TypeOK'
  BY <1>1, <1>5, <1>6, <1>7, <1>2 DEF IndInv, TypeOK, Stays, Yields, Kind, Children, Status
<1>9. \A u \in Task : Pc(u) # "none" /\ u # Top => block_to'[u] = block_to[u]
  BY <1>1, <1>6 DEF Yields, IndInv, TypeOK
<1> QED
  BY <1>1, <1>2, <1>5, <1>6, <1>7, <1>8, <1>9 DEF Keeps, Moves

LEMMA AllOfWakeYieldsIs ==
    ASSUME IndInv, AllOfWake, Here.n > 1
    PROVE  /\ Keeps
           /\ Moves("wait", act[Top].i, act[Top].n - 1, act[Top].next)
           /\ Pc(Top) = "wait"
           /\ Kind(Top) = "all_of" /\ ~global_signal_canceled /\ act[Top].n > 1
           /\ Yields
           /\ UNCHANGED <<status, uninterruptable, finish_to, completed_id,
                global_signal_canceled, armed, cancels>>
<1>1. /\ running # Loop /\ Busy(running) /\ Top \in Task
      /\ act[Top] \in Activations /\ Here = act[Top] /\ Pc(Top) = "wait" /\ act[Top].pc = "wait"
  BY AtTop DEF AllOfWake
<1>2. act[Top].n \in Nat /\ act[Top].n > 1
  BY <1>1, StackTypes
<1> DEFINE f == [Here EXCEPT !.n = @ - 1]
<1>3. f \in Activations /\ <<f.pc, f.i, f.n, f.next, f.parent>> = <<"wait", act[Top].i,
        act[Top].n - 1, act[Top].next, act[Top].parent>>
  BY <1>1, <1>2 DEF Activations, Points
<1>4. Becomes(f)
  BY <1>1, <1>2 DEF AllOfWake, Yield, GoOn
<1> HIDE DEF f
<1>5. Moves("wait", act[Top].i, act[Top].n - 1, act[Top].next) /\ act' \in [Task -> Activations]
        /\ stack' = stack
  BY <1>1, <1>3, <1>4, BecomesMoves
<1>6. /\ Pc(Top) = "wait"
      /\ Kind(Top) = "all_of" /\ ~global_signal_canceled /\ act[Top].n > 1
      /\ Yields
      /\ UNCHANGED <<status, uninterruptable, finish_to, completed_id, global_signal_canceled,
           armed, cancels>>
  BY <1>1, <1>2 DEF AllOfWake, Yield, Swap, GoOn, Stays, Yields, controlVars, objectVars
<1>7. prog' = prog /\ uid' = uid /\ reuse' = reuse
  BY DEF AllOfWake, objectVars
<1>8. TypeOK'
  BY <1>1, <1>5, <1>6, <1>7, <1>2 DEF IndInv, TypeOK, Stays, Yields, Kind, Children, Status
<1>9. \A u \in Task : Pc(u) # "none" /\ u # Top => block_to'[u] = block_to[u]
  BY <1>1, <1>6 DEF Yields, IndInv, TypeOK
<1> QED
  BY <1>1, <1>2, <1>5, <1>6, <1>7, <1>8, <1>9 DEF Keeps, Moves

LEMMA AllOfWakeEndsIs ==
    ASSUME IndInv, AllOfWake, ~(Here.n > 1)
    PROVE  /\ Keeps
           /\ Moves("return", act[Top].i, 0, act[Top].next)
           /\ Pc(Top) = "wait"
           /\ Kind(Top) = "all_of" /\ ~global_signal_canceled /\ act[Top].n <= 1
           /\ Stays
           /\ UNCHANGED <<status, uninterruptable, block_to, finish_to, completed_id,
                global_signal_canceled, armed, cancels>>
<1>1. /\ running # Loop /\ Busy(running) /\ Top \in Task
      /\ act[Top] \in Activations /\ Here = act[Top] /\ Pc(Top) = "wait" /\ act[Top].pc = "wait"
  BY AtTop DEF AllOfWake
<1>2. act[Top].n \in Nat /\ ~(act[Top].n > 1)
  BY <1>1, StackTypes
<1> DEFINE f == [Here EXCEPT !.n = 0, !.pc = "return"]
<1>3. f \in Activations /\ <<f.pc, f.i, f.n, f.next, f.parent>> = <<"return", act[Top].i, 0,
        act[Top].next, act[Top].parent>>
  BY <1>1, <1>2 DEF Activations, Points
<1>4. Becomes(f)
  BY <1>1, <1>2 DEF AllOfWake, Yield, GoOn
<1> HIDE DEF f
<1>5. Moves("return", act[Top].i, 0, act[Top].next) /\ act' \in [Task -> Activations] /\ stack' =
        stack
  BY <1>1, <1>3, <1>4, BecomesMoves
<1>6. /\ Pc(Top) = "wait"
      /\ Kind(Top) = "all_of" /\ ~global_signal_canceled /\ act[Top].n <= 1
      /\ Stays
      /\ UNCHANGED <<status, uninterruptable, block_to, finish_to, completed_id,
           global_signal_canceled, armed, cancels>>
  BY <1>1, <1>2 DEF AllOfWake, Yield, Swap, GoOn, Stays, Yields, controlVars, objectVars
<1>7. prog' = prog /\ uid' = uid /\ reuse' = reuse
  BY DEF AllOfWake, objectVars
<1>8. TypeOK'
  BY <1>1, <1>5, <1>6, <1>7, <1>2 DEF IndInv, TypeOK, Stays, Yields, Kind, Children, Status
<1>9. \A u \in Task : Pc(u) # "none" /\ u # Top => block_to'[u] = block_to[u]
  BY <1>1, <1>6 DEF Yields, IndInv, TypeOK
<1> QED
  BY <1>1, <1>2, <1>5, <1>6, <1>7, <1>8, <1>9 DEF Keeps, Moves

LEMMA AnyOfBackWinsIs ==
    ASSUME IndInv, AnyOfChildBack, status[Children(Top)[Here.i]] = "completed"
    PROVE  /\ Keeps
           /\ Moves("cancel", 1, 0, "return")
           /\ Pc(Top) = "child"
           /\ Kind(Top) = "any_of" /\ status[Children(Top)[act[Top].i]] = "completed"
           /\ completed_id' = [completed_id EXCEPT ![Top] = act[Top].i]
           /\ Stays
           /\ UNCHANGED <<status, uninterruptable, block_to, finish_to, global_signal_canceled,
                armed, cancels>>
<1>1. /\ running # Loop /\ Busy(running) /\ Top \in Task
      /\ act[Top] \in Activations /\ Here = act[Top] /\ Pc(Top) = "child" /\ act[Top].pc = "child"
  BY AtTop DEF AnyOfChildBack
<1> DEFINE f == Canceling([Here EXCEPT !.i = @ + 1], "return")
<1>3. f \in Activations /\ <<f.pc, f.i, f.n, f.next, f.parent>> = <<"cancel", 1, 0, "return",
        act[Top].parent>>
  BY <1>1 DEF Activations, Points, Canceling
<1>4. Becomes(f)
  BY <1>1 DEF AnyOfChildBack, Yield, GoOn
<1> HIDE DEF f
<1>5. Moves("cancel", 1, 0, "return") /\ act' \in [Task -> Activations] /\ stack' = stack
  BY <1>1, <1>3, <1>4, BecomesMoves
<1>6. /\ Pc(Top) = "child"
      /\ Kind(Top) = "any_of" /\ status[Children(Top)[act[Top].i]] = "completed"
      /\ completed_id' = [completed_id EXCEPT ![Top] = act[Top].i]
      /\ Stays
      /\ UNCHANGED <<status, uninterruptable, block_to, finish_to, global_signal_canceled, armed,
           cancels>>
  BY <1>1 DEF AnyOfChildBack, Yield, Swap, GoOn, Stays, Yields, controlVars, objectVars
<1>7. prog' = prog /\ uid' = uid /\ reuse' = reuse
  BY DEF AnyOfChildBack, objectVars
<1>8. TypeOK'
  BY <1>1, <1>5, <1>6, <1>7, StackTypes DEF IndInv, TypeOK, Stays, Yields, Kind, Children, Status
<1>9. \A u \in Task : Pc(u) # "none" /\ u # Top => block_to'[u] = block_to[u]
  BY <1>1, <1>6 DEF Yields, IndInv, TypeOK
<1> QED
  BY <1>1, <1>5, <1>6, <1>7, <1>8, <1>9 DEF Keeps, Moves

LEMMA AnyOfBackGoesOnIs ==
    ASSUME IndInv, AnyOfChildBack, status[Children(Top)[Here.i]] # "completed", Here.i < Len(Children(Top))
    PROVE  /\ Keeps
           /\ Moves("start", act[Top].i + 1, act[Top].n, act[Top].next)
           /\ Pc(Top) = "child"
           /\ Kind(Top) = "any_of" /\ status[Children(Top)[act[Top].i]] # "completed"
           /\ act[Top].i < Len(Children(Top))
           /\ Stays
           /\ UNCHANGED <<status, uninterruptable, block_to, finish_to, completed_id,
                global_signal_canceled, armed, cancels>>
<1>1. /\ running # Loop /\ Busy(running) /\ Top \in Task
      /\ act[Top] \in Activations /\ Here = act[Top] /\ Pc(Top) = "child" /\ act[Top].pc = "child"
  BY AtTop DEF AnyOfChildBack
<1>2. act[Top].i \in Nat /\ act[Top].i < Len(Children(Top)) /\ Len(Children(Top)) \in Nat
  BY <1>1, StackTypes, TaskFacts DEF IndInv
<1> DEFINE f == [[Here EXCEPT !.i = @ + 1] EXCEPT !.pc = "start"]
<1>3. f \in Activations /\ <<f.pc, f.i, f.n, f.next, f.parent>> = <<"start", act[Top].i + 1,
        act[Top].n, act[Top].next, act[Top].parent>>
  <2>1. PICK h \in Activations, i \in Nat, n \in Nat, pc \in Points :
            /\ h = act[Top] /\ i = act[Top].i + 1 /\ n = act[Top].n
            /\ pc = "start"
    <3>1. act[Top].i + 1 \in Nat /\ act[Top].n \in Nat
      BY <1>1, <1>2, StackTypes
    <3>2. "start" \in Points
      BY DEF Points
    <3> QED
      BY <1>1, <3>1, <3>2
  <2>2. f = [[h EXCEPT !.i = i] EXCEPT !.pc = pc]
    BY <1>1, <2>1
  <2> HIDE DEF f
  <2>3. /\ f \in Activations /\ f.pc = pc /\ f.i = i /\ f.n = h.n
        /\ f.next = h.next /\ f.parent = h.parent
    BY <2>2 DEF Activations
  <2> QED
    BY <1>1, <2>1, <2>3
<1>4. Becomes(f)
  BY <1>1, <1>2 DEF AnyOfChildBack, Yield, GoOn
<1> HIDE DEF f
<1>5. Moves("start", act[Top].i + 1, act[Top].n, act[Top].next) /\ act' \in [Task -> Activations]
        /\ stack' = stack
  BY <1>1, <1>3, <1>4, BecomesMoves
<1>6. /\ Pc(Top) = "child"
      /\ Kind(Top) = "any_of" /\ status[Children(Top)[act[Top].i]] # "completed"
      /\ act[Top].i < Len(Children(Top))
      /\ Stays
      /\ UNCHANGED <<status, uninterruptable, block_to, finish_to, completed_id,
           global_signal_canceled, armed, cancels>>
  BY <1>1, <1>2 DEF AnyOfChildBack, Yield, Swap, GoOn, Stays, Yields, controlVars, objectVars
<1>7. prog' = prog /\ uid' = uid /\ reuse' = reuse
  BY DEF AnyOfChildBack, objectVars
<1>8. TypeOK'
  BY <1>1, <1>5, <1>6, <1>7, <1>2 DEF IndInv, TypeOK, Stays, Yields, Kind, Children, Status
<1>9. \A u \in Task : Pc(u) # "none" /\ u # Top => block_to'[u] = block_to[u]
  BY <1>1, <1>6 DEF Yields, IndInv, TypeOK
<1> QED
  BY <1>1, <1>2, <1>5, <1>6, <1>7, <1>8, <1>9 DEF Keeps, Moves

LEMMA AnyOfBackYieldsIs ==
    ASSUME IndInv, AnyOfChildBack, status[Children(Top)[Here.i]] # "completed", ~(Here.i < Len(Children(Top)))
    PROVE  /\ Keeps
           /\ Moves("wait", act[Top].i + 1, act[Top].n, act[Top].next)
           /\ Pc(Top) = "child"
           /\ Kind(Top) = "any_of" /\ status[Children(Top)[act[Top].i]] # "completed"
           /\ act[Top].i = Len(Children(Top))
           /\ Yields
           /\ UNCHANGED <<status, uninterruptable, finish_to, completed_id,
                global_signal_canceled, armed, cancels>>
<1>1. /\ running # Loop /\ Busy(running) /\ Top \in Task
      /\ act[Top] \in Activations /\ Here = act[Top] /\ Pc(Top) = "child" /\ act[Top].pc = "child"
  BY AtTop DEF AnyOfChildBack
<1>2. act[Top].i \in Nat /\ ~(act[Top].i < Len(Children(Top))) /\ Len(Children(Top)) \in Nat
  BY <1>1, StackTypes, TaskFacts DEF IndInv
<1> DEFINE f == [[Here EXCEPT !.i = @ + 1] EXCEPT !.pc = "wait"]
<1>3. f \in Activations /\ <<f.pc, f.i, f.n, f.next, f.parent>> = <<"wait", act[Top].i + 1,
        act[Top].n, act[Top].next, act[Top].parent>>
  <2>1. PICK h \in Activations, i \in Nat, n \in Nat, pc \in Points :
            /\ h = act[Top] /\ i = act[Top].i + 1 /\ n = act[Top].n
            /\ pc = "wait"
    <3>1. act[Top].i + 1 \in Nat /\ act[Top].n \in Nat
      BY <1>1, <1>2, StackTypes
    <3>2. "wait" \in Points
      BY DEF Points
    <3> QED
      BY <1>1, <3>1, <3>2
  <2>2. f = [[h EXCEPT !.i = i] EXCEPT !.pc = pc]
    BY <1>1, <2>1
  <2> HIDE DEF f
  <2>3. /\ f \in Activations /\ f.pc = pc /\ f.i = i /\ f.n = h.n
        /\ f.next = h.next /\ f.parent = h.parent
    BY <2>2 DEF Activations
  <2> QED
    BY <1>1, <2>1, <2>3
<1>4. Becomes(f)
  BY <1>1, <1>2 DEF AnyOfChildBack, Yield, GoOn
<1> HIDE DEF f
<1>5. Moves("wait", act[Top].i + 1, act[Top].n, act[Top].next) /\ act' \in [Task -> Activations]
        /\ stack' = stack
  BY <1>1, <1>3, <1>4, BecomesMoves
<1>6. /\ Pc(Top) = "child"
      /\ Kind(Top) = "any_of" /\ status[Children(Top)[act[Top].i]] # "completed"
      /\ act[Top].i = Len(Children(Top))
      /\ Yields
      /\ UNCHANGED <<status, uninterruptable, finish_to, completed_id, global_signal_canceled,
           armed, cancels>>
  BY <1>1, <1>2 DEF AnyOfChildBack, Yield, Swap, GoOn, Stays, Yields, controlVars, objectVars
<1>7. prog' = prog /\ uid' = uid /\ reuse' = reuse
  BY DEF AnyOfChildBack, objectVars
<1>8. TypeOK'
  BY <1>1, <1>5, <1>6, <1>7, <1>2 DEF IndInv, TypeOK, Stays, Yields, Kind, Children, Status
<1>9. \A u \in Task : Pc(u) # "none" /\ u # Top => block_to'[u] = block_to[u]
  BY <1>1, <1>6 DEF Yields, IndInv, TypeOK
<1> QED
  BY <1>1, <1>2, <1>5, <1>6, <1>7, <1>8, <1>9 DEF Keeps, Moves

LEMMA AnyOfWakeIs ==
    ASSUME IndInv, AnyOfWake
    PROVE  /\ Keeps
           /\ Moves("cancel", 1, 0, "return")
           /\ Pc(Top) = "wait"
           /\ Kind(Top) = "any_of" /\ ~global_signal_canceled
           /\ \E w \in Nat : (completed_id' = [completed_id EXCEPT ![Top] = w] /\ (Completed(Top)
                # {} => w \in Completed(Top)))
           /\ Stays
           /\ UNCHANGED <<status, uninterruptable, block_to, finish_to, global_signal_canceled,
                armed, cancels>>
<1>1. /\ running # Loop /\ Busy(running) /\ Top \in Task
      /\ act[Top] \in Activations /\ Here = act[Top] /\ Pc(Top) = "wait" /\ act[Top].pc = "wait"
  BY AtTop DEF AnyOfWake
<1>2. \E w \in Nat : (completed_id' = [completed_id EXCEPT ![Top] = w]
                        /\ (Completed(Top) # {} => w \in Completed(Top)))
  <2> DEFINE done == Completed(Top)
             w == IF done = {} THEN completed_id[Top] ELSE CHOOSE i \in done : \A j \in done : i <= j
  <2>1. done \in SUBSET Nat
    BY <1>1, TaskFacts DEF IndInv, Completed
  <2>2. completed_id' = [completed_id EXCEPT ![Top] = w]
    BY DEF AnyOfWake, Completed
  <2>3. done # {} => \E i \in done : \A j \in done : i <= j
    BY <2>1, Least
  <2>4. done # {} => w \in done
    BY <2>3
  <2>5. completed_id[Top] \in Nat
    BY <1>1 DEF IndInv, TypeOK
  <2> QED
    BY <2>1, <2>2, <2>4, <2>5
<1> DEFINE f == Canceling(Here, "return")
<1>3. f \in Activations /\ <<f.pc, f.i, f.n, f.next, f.parent>> = <<"cancel", 1, 0, "return",
        act[Top].parent>>
  BY <1>1, <1>2 DEF Activations, Points, Canceling
<1>4. Becomes(f)
  BY <1>1, <1>2 DEF AnyOfWake, Yield, GoOn
<1> HIDE DEF f
<1>5. Moves("cancel", 1, 0, "return") /\ act' \in [Task -> Activations] /\ stack' = stack
  BY <1>1, <1>3, <1>4, BecomesMoves
<1>6. /\ Pc(Top) = "wait"
      /\ Kind(Top) = "any_of" /\ ~global_signal_canceled
      /\ \E w \in Nat : (completed_id' = [completed_id EXCEPT ![Top] = w] /\ (Completed(Top) # {}
           => w \in Completed(Top)))
      /\ Stays
      /\ UNCHANGED <<status, uninterruptable, block_to, finish_to, global_signal_canceled, armed,
           cancels>>
  BY <1>1, <1>2 DEF AnyOfWake, Yield, Swap, GoOn, Stays, Yields, controlVars, objectVars
<1>7. prog' = prog /\ uid' = uid /\ reuse' = reuse
  BY DEF AnyOfWake, objectVars
<1>8. TypeOK'
  BY <1>1, <1>5, <1>6, <1>7, <1>2 DEF IndInv, TypeOK, Stays, Yields, Kind, Children, Status
<1>9. \A u \in Task : Pc(u) # "none" /\ u # Top => block_to'[u] = block_to[u]
  BY <1>1, <1>6 DEF Yields, IndInv, TypeOK
<1> QED
  BY <1>1, <1>2, <1>5, <1>6, <1>7, <1>8, <1>9 DEF Keeps, Moves

LEMMA CanceledDirectlyLeafIs ==
    ASSUME IndInv, CanceledDirectly, Kind(Top) \notin Combinators
    PROVE  /\ Keeps
           /\ Moves("return", act[Top].i, act[Top].n, act[Top].next)
           /\ Pc(Top) = "wait"
           /\ Kind(Top) \notin Combinators /\ global_signal_canceled /\ status[Top] = "canceled"
           /\ Stays /\ global_signal_canceled' = FALSE
           /\ armed' = armed \ {Top} /\ cancels' = [cancels EXCEPT ![Top] = @ + 1]
           /\ UNCHANGED <<status, uninterruptable, block_to, finish_to, completed_id>>
<1>1. /\ running # Loop /\ Busy(running) /\ Top \in Task
      /\ act[Top] \in Activations /\ Here = act[Top] /\ Pc(Top) = "wait" /\ act[Top].pc = "wait"
  BY AtTop DEF CanceledDirectly
<1> DEFINE f == [Here EXCEPT !.pc = "return"]
<1>3. f \in Activations /\ <<f.pc, f.i, f.n, f.next, f.parent>> = <<"return", act[Top].i,
        act[Top].n, act[Top].next, act[Top].parent>>
  BY <1>1 DEF Activations, Points
<1>4. Becomes(f)
  BY <1>1 DEF CanceledDirectly, RunCancel, TakeSignal, Disarm, Yield, GoOn
<1> HIDE DEF f
<1>5. Moves("return", act[Top].i, act[Top].n, act[Top].next) /\ act' \in [Task -> Activations] /\
        stack' = stack
  BY <1>1, <1>3, <1>4, BecomesMoves
<1>6. /\ Pc(Top) = "wait"
      /\ Kind(Top) \notin Combinators /\ global_signal_canceled /\ status[Top] = "canceled"
      /\ Stays /\ global_signal_canceled' = FALSE
      /\ armed' = armed \ {Top} /\ cancels' = [cancels EXCEPT ![Top] = @ + 1]
      /\ UNCHANGED <<status, uninterruptable, block_to, finish_to, completed_id>>
  BY <1>1 DEF CanceledDirectly, RunCancel, TakeSignal, Disarm, Yield, Swap, GoOn, Stays, Yields, controlVars, objectVars
<1>7. prog' = prog /\ uid' = uid /\ reuse' = reuse
  BY DEF CanceledDirectly, objectVars
<1>10. cancels' \in [Task -> Nat] /\ armed' \subseteq Task
  BY <1>1, <1>6 DEF IndInv, TypeOK
<1>11. global_signal_canceled' \in BOOLEAN
  BY <1>6
<1>8. TypeOK'
  BY <1>1, <1>5, <1>6, <1>7, <1>10, <1>11 DEF IndInv, TypeOK, Stays, Yields, Kind, Children, Status
<1>9. \A u \in Task : Pc(u) # "none" /\ u # Top => block_to'[u] = block_to[u]
  BY <1>1, <1>6 DEF Yields, IndInv, TypeOK
<1> QED
  BY <1>1, <1>5, <1>6, <1>7, <1>8, <1>9 DEF Keeps, Moves

LEMMA CanceledDirectlyCombIs ==
    ASSUME IndInv, CanceledDirectly, Kind(Top) \in Combinators
    PROVE  /\ Keeps
           /\ Moves("cancel", 1, 0, "return")
           /\ Pc(Top) = "wait"
           /\ Kind(Top) \in Combinators /\ global_signal_canceled /\ status[Top] = "canceled"
           /\ Stays /\ global_signal_canceled' = FALSE
           /\ armed' = armed \ {Top} /\ cancels' = [cancels EXCEPT ![Top] = @ + 1]
           /\ UNCHANGED <<status, uninterruptable, block_to, finish_to, completed_id>>
<1>1. /\ running # Loop /\ Busy(running) /\ Top \in Task
      /\ act[Top] \in Activations /\ Here = act[Top] /\ Pc(Top) = "wait" /\ act[Top].pc = "wait"
  BY AtTop DEF CanceledDirectly
<1> DEFINE f == Canceling(Here, "return")
<1>3. f \in Activations /\ <<f.pc, f.i, f.n, f.next, f.parent>> = <<"cancel", 1, 0, "return",
        act[Top].parent>>
  BY <1>1 DEF Activations, Points, Canceling
<1>4. Becomes(f)
  BY <1>1 DEF CanceledDirectly, RunCancel, TakeSignal, Disarm, Yield, GoOn
<1> HIDE DEF f
<1>5. Moves("cancel", 1, 0, "return") /\ act' \in [Task -> Activations] /\ stack' = stack
  BY <1>1, <1>3, <1>4, BecomesMoves
<1>6. /\ Pc(Top) = "wait"
      /\ Kind(Top) \in Combinators /\ global_signal_canceled /\ status[Top] = "canceled"
      /\ Stays /\ global_signal_canceled' = FALSE
      /\ armed' = armed \ {Top} /\ cancels' = [cancels EXCEPT ![Top] = @ + 1]
      /\ UNCHANGED <<status, uninterruptable, block_to, finish_to, completed_id>>
  BY <1>1 DEF CanceledDirectly, RunCancel, TakeSignal, Disarm, Yield, Swap, GoOn, Stays, Yields, controlVars, objectVars
<1>7. prog' = prog /\ uid' = uid /\ reuse' = reuse
  BY DEF CanceledDirectly, objectVars
<1>10. cancels' \in [Task -> Nat] /\ armed' \subseteq Task
  BY <1>1, <1>6 DEF IndInv, TypeOK
<1>11. global_signal_canceled' \in BOOLEAN
  BY <1>6
<1>8. TypeOK'
  BY <1>1, <1>5, <1>6, <1>7, <1>10, <1>11 DEF IndInv, TypeOK, Stays, Yields, Kind, Children, Status
<1>9. \A u \in Task : Pc(u) # "none" /\ u # Top => block_to'[u] = block_to[u]
  BY <1>1, <1>6 DEF Yields, IndInv, TypeOK
<1> QED
  BY <1>1, <1>5, <1>6, <1>7, <1>8, <1>9 DEF Keeps, Moves

LEMMA CanceledIndirectlyIs ==
    ASSUME IndInv, CanceledIndirectly
    PROVE  /\ Keeps
           /\ Moves("throw", act[Top].i, act[Top].n, act[Top].next)
           /\ Pc(Top) = "wait"
           /\ global_signal_canceled /\ status[Top] # "canceled"
           /\ Stays /\ global_signal_canceled' = FALSE
           /\ status' = [status EXCEPT ![Top] = "canceled"]
           /\ UNCHANGED <<uninterruptable, block_to, finish_to, completed_id, armed, cancels>>
<1>1. /\ running # Loop /\ Busy(running) /\ Top \in Task
      /\ act[Top] \in Activations /\ Here = act[Top] /\ Pc(Top) = "wait" /\ act[Top].pc = "wait"
  BY AtTop DEF CanceledIndirectly
<1> DEFINE f == [Here EXCEPT !.pc = "throw"]
<1>3. f \in Activations /\ <<f.pc, f.i, f.n, f.next, f.parent>> = <<"throw", act[Top].i,
        act[Top].n, act[Top].next, act[Top].parent>>
  BY <1>1 DEF Activations, Points
<1>4. Becomes(f)
  BY <1>1 DEF CanceledIndirectly, TakeSignal, Yield, GoOn
<1> HIDE DEF f
<1>5. Moves("throw", act[Top].i, act[Top].n, act[Top].next) /\ act' \in [Task -> Activations] /\
        stack' = stack
  BY <1>1, <1>3, <1>4, BecomesMoves
<1>6. /\ Pc(Top) = "wait"
      /\ global_signal_canceled /\ status[Top] # "canceled"
      /\ Stays /\ global_signal_canceled' = FALSE
      /\ status' = [status EXCEPT ![Top] = "canceled"]
      /\ UNCHANGED <<uninterruptable, block_to, finish_to, completed_id, armed, cancels>>
  BY <1>1 DEF CanceledIndirectly, TakeSignal, Yield, Swap, GoOn, Stays, Yields, controlVars, objectVars
<1>7. prog' = prog /\ uid' = uid /\ reuse' = reuse
  BY DEF CanceledIndirectly, objectVars
<1>8. TypeOK'
  BY <1>1, <1>5, <1>6, <1>7 DEF IndInv, TypeOK, Stays, Yields, Kind, Children, Status
<1>9. \A u \in Task : Pc(u) # "none" /\ u # Top => block_to'[u] = block_to[u]
  BY <1>1, <1>6 DEF Yields, IndInv, TypeOK
<1> QED
  BY <1>1, <1>5, <1>6, <1>7, <1>8, <1>9 DEF Keeps, Moves

LEMMA CatchLeafIs ==
    ASSUME IndInv, Catch, Kind(Top) \notin Combinators
    PROVE  /\ Keeps
           /\ Moves("caught", act[Top].i, act[Top].n, act[Top].next)
           /\ Pc(Top) = "throw"
           /\ Kind(Top) \notin Combinators
           /\ Stays /\ status' = [status EXCEPT ![Top] = "canceled"]
           /\ armed' = armed \ {Top} /\ cancels' = [cancels EXCEPT ![Top] = @ + 1]
           /\ UNCHANGED <<uninterruptable, block_to, finish_to, completed_id,
                global_signal_canceled>>
<1>1. /\ running # Loop /\ Busy(running) /\ Top \in Task
      /\ act[Top] \in Activations /\ Here = act[Top] /\ Pc(Top) = "throw" /\ act[Top].pc = "throw"
  BY AtTop DEF Catch
<1> DEFINE f == [Here EXCEPT !.pc = "caught"]
<1>3. f \in Activations /\ <<f.pc, f.i, f.n, f.next, f.parent>> = <<"caught", act[Top].i,
        act[Top].n, act[Top].next, act[Top].parent>>
  BY <1>1 DEF Activations, Points
<1>4. Becomes(f)
  BY <1>1 DEF Catch, RunCancel, Disarm, Yield, GoOn
<1> HIDE DEF f
<1>5. Moves("caught", act[Top].i, act[Top].n, act[Top].next) /\ act' \in [Task -> Activations] /\
        stack' = stack
  BY <1>1, <1>3, <1>4, BecomesMoves
<1>6. /\ Pc(Top) = "throw"
      /\ Kind(Top) \notin Combinators
      /\ Stays /\ status' = [status EXCEPT ![Top] = "canceled"]
      /\ armed' = armed \ {Top} /\ cancels' = [cancels EXCEPT ![Top] = @ + 1]
      /\ UNCHANGED <<uninterruptable, block_to, finish_to, completed_id, global_signal_canceled>>
  BY <1>1 DEF Catch, RunCancel, Disarm, Yield, Swap, GoOn, Stays, Yields, controlVars, objectVars
<1>7. prog' = prog /\ uid' = uid /\ reuse' = reuse
  BY DEF Catch, objectVars
<1>8. TypeOK'
  BY <1>1, <1>5, <1>6, <1>7 DEF IndInv, TypeOK, Stays, Yields, Kind, Children, Status
<1>9. \A u \in Task : Pc(u) # "none" /\ u # Top => block_to'[u] = block_to[u]
  BY <1>1, <1>6 DEF Yields, IndInv, TypeOK
<1> QED
  BY <1>1, <1>5, <1>6, <1>7, <1>8, <1>9 DEF Keeps, Moves

LEMMA CatchCombIs ==
    ASSUME IndInv, Catch, Kind(Top) \in Combinators
    PROVE  /\ Keeps
           /\ Moves("cancel", 1, 0, "caught")
           /\ Pc(Top) = "throw"
           /\ Kind(Top) \in Combinators
           /\ Stays /\ status' = [status EXCEPT ![Top] = "canceled"]
           /\ armed' = armed \ {Top} /\ cancels' = [cancels EXCEPT ![Top] = @ + 1]
           /\ UNCHANGED <<uninterruptable, block_to, finish_to, completed_id,
                global_signal_canceled>>
<1>1. /\ running # Loop /\ Busy(running) /\ Top \in Task
      /\ act[Top] \in Activations /\ Here = act[Top] /\ Pc(Top) = "throw" /\ act[Top].pc = "throw"
  BY AtTop DEF Catch
<1> DEFINE f == Canceling(Here, "caught")
<1>3. f \in Activations /\ <<f.pc, f.i, f.n, f.next, f.parent>> = <<"cancel", 1, 0, "caught",
        act[Top].parent>>
  BY <1>1 DEF Activations, Points, Canceling
<1>4. Becomes(f)
  BY <1>1 DEF Catch, RunCancel, Disarm, Yield, GoOn
<1> HIDE DEF f
<1>5. Moves("cancel", 1, 0, "caught") /\ act' \in [Task -> Activations] /\ stack' = stack
  BY <1>1, <1>3, <1>4, BecomesMoves
<1>6. /\ Pc(Top) = "throw"
      /\ Kind(Top) \in Combinators
      /\ Stays /\ status' = [status EXCEPT ![Top] = "canceled"]
      /\ armed' = armed \ {Top} /\ cancels' = [cancels EXCEPT ![Top] = @ + 1]
      /\ UNCHANGED <<uninterruptable, block_to, finish_to, completed_id, global_signal_canceled>>
  BY <1>1 DEF Catch, RunCancel, Disarm, Yield, Swap, GoOn, Stays, Yields, controlVars, objectVars
<1>7. prog' = prog /\ uid' = uid /\ reuse' = reuse
  BY DEF Catch, objectVars
<1>8. TypeOK'
  BY <1>1, <1>5, <1>6, <1>7 DEF IndInv, TypeOK, Stays, Yields, Kind, Children, Status
<1>9. \A u \in Task : Pc(u) # "none" /\ u # Top => block_to'[u] = block_to[u]
  BY <1>1, <1>6 DEF Yields, IndInv, TypeOK
<1> QED
  BY <1>1, <1>5, <1>6, <1>7, <1>8, <1>9 DEF Keeps, Moves

LEMMA CancelSkipIs ==
    ASSUME IndInv, CancelSkip
    PROVE  /\ Keeps
           /\ Moves("cancel", act[Top].i + 1, act[Top].n, act[Top].next)
           /\ Pc(Top) = "cancel"
           /\ act[Top].i \in DOMAIN Children(Top) /\ status[Children(Top)[act[Top].i]] # "running"
           /\ Stays
           /\ UNCHANGED <<status, uninterruptable, block_to, finish_to, completed_id,
                global_signal_canceled, armed, cancels>>
<1>1. /\ running # Loop /\ Busy(running) /\ Top \in Task
      /\ act[Top] \in Activations /\ Here = act[Top] /\ Pc(Top) = "cancel" /\ act[Top].pc = "cancel"
  BY AtTop DEF CancelSkip
<1>2. /\ act[Top].i \in Nat /\ act[Top].n \in Nat /\ act[Top].i \in DOMAIN Children(Top)
      /\ Children(Top)[act[Top].i] \in Task
      /\ Here.i <= Len(Children(Top))
  <2>1. act[Top].i \in 1..Len(Children(Top)) /\ act[Top].i \in Nat /\ act[Top].n \in Nat
    BY <1>1, StackTypes, TaskFacts DEF IndInv, PcInv, CancelSkip
  <2> QED
    BY <1>1, <2>1, TaskFacts, KidFacts DEF IndInv
<1> DEFINE f == [Here EXCEPT !.i = @ + 1]
<1>3. f \in Activations /\ <<f.pc, f.i, f.n, f.next, f.parent>> = <<"cancel", act[Top].i + 1,
        act[Top].n, act[Top].next, act[Top].parent>>
  BY <1>1, <1>2 DEF Activations, Points
<1>4. Becomes(f)
  BY <1>1, <1>2 DEF CancelSkip, Cancelable, Yield, GoOn
<1> HIDE DEF f
<1>5. Moves("cancel", act[Top].i + 1, act[Top].n, act[Top].next) /\ act' \in [Task ->
        Activations] /\ stack' = stack
  BY <1>1, <1>3, <1>4, BecomesMoves
<1>6. /\ Pc(Top) = "cancel"
      /\ act[Top].i \in DOMAIN Children(Top) /\ status[Children(Top)[act[Top].i]] # "running"
      /\ Stays
      /\ UNCHANGED <<status, uninterruptable, block_to, finish_to, completed_id,
           global_signal_canceled, armed, cancels>>
  BY <1>1, <1>2 DEF CancelSkip, Cancelable, Yield, Swap, GoOn, Stays, Yields, controlVars, objectVars
<1>7. prog' = prog /\ uid' = uid /\ reuse' = reuse
  BY DEF CancelSkip, objectVars
<1>8. TypeOK'
  BY <1>1, <1>5, <1>6, <1>7, <1>2 DEF IndInv, TypeOK, Stays, Yields, Kind, Children, Status
<1>9. \A u \in Task : Pc(u) # "none" /\ u # Top => block_to'[u] = block_to[u]
  BY <1>1, <1>6 DEF Yields, IndInv, TypeOK
<1> QED
  BY <1>1, <1>2, <1>5, <1>6, <1>7, <1>8, <1>9 DEF Keeps, Moves

LEMMA CancelUnsupportIs ==
    ASSUME IndInv, CancelUnsupport
    PROVE  /\ Keeps
           /\ Moves("cancel", act[Top].i + 1, act[Top].n + 1, act[Top].next)
           /\ Pc(Top) = "cancel"
           /\ act[Top].i \in DOMAIN Children(Top) /\ status[Children(Top)[act[Top].i]] = "running"
           /\ Final(Children(Top)[act[Top].i]) # Loop
           /\ Stays
           /\ status' = [status EXCEPT ![Final(Children(Top)[act[Top].i])] = IF
                Final(Children(Top)[act[Top].i]) = Children(Top)[act[Top].i] THEN @ ELSE
                "canceled"]
           /\ UNCHANGED <<uninterruptable, block_to, finish_to, completed_id,
                global_signal_canceled, armed, cancels>>
<1>1. /\ running # Loop /\ Busy(running) /\ Top \in Task
      /\ act[Top] \in Activations /\ Here = act[Top] /\ Pc(Top) = "cancel" /\ act[Top].pc = "cancel"
  BY AtTop DEF CancelUnsupport
<1>2. /\ act[Top].i \in Nat /\ act[Top].n \in Nat /\ act[Top].i \in DOMAIN Children(Top)
      /\ Children(Top)[act[Top].i] \in Task
      /\ Here.i <= Len(Children(Top))
  <2>1. act[Top].i \in 1..Len(Children(Top)) /\ act[Top].i \in Nat /\ act[Top].n \in Nat
    BY <1>1, StackTypes, TaskFacts DEF IndInv, PcInv, CancelUnsupport
  <2> QED
    BY <1>1, <2>1, TaskFacts, KidFacts DEF IndInv
<1>10. PICK x \in Task : x = Children(Top)[act[Top].i]
  BY <1>2
<1>11. Pc(x) # "none" /\ status[x] = "running"
  BY <1>1, <1>2, <1>10 DEF CancelUnsupport, Cancelable, IndInv, StatusInv
<1>12. Busy(x) /\ uid[x] = x
  BY <1>1, <1>2, <1>10, <1>11, KidBase
<1>13. Final(x) # Loop => Final(x) \in Task
  BY <1>12, FinalFacts
<1> DEFINE f == [Here EXCEPT !.i = @ + 1, !.n = @ + 1]
<1>3. f \in Activations /\ <<f.pc, f.i, f.n, f.next, f.parent>> = <<"cancel", act[Top].i + 1,
        act[Top].n + 1, act[Top].next, act[Top].parent>>
  <2>1. PICK h \in Activations, i \in Nat, n \in Nat, pc \in Points :
            /\ h = act[Top] /\ i = act[Top].i + 1 /\ n = act[Top].n + 1
            /\ pc = "cancel"
    <3>1. act[Top].i + 1 \in Nat /\ act[Top].n + 1 \in Nat
      BY <1>1, <1>2, StackTypes
    <3>2. "cancel" \in Points
      BY DEF Points
    <3> QED
      BY <1>1, <3>1, <3>2
  <2>2. f = [h EXCEPT !.i = i, !.n = n]
    BY <1>1, <2>1
  <2> HIDE DEF f
  <2>3. /\ f \in Activations /\ f.pc = h.pc /\ f.i = i /\ f.n = n
        /\ f.next = h.next /\ f.parent = h.parent
    BY <2>2 DEF Activations
  <2> QED
    BY <1>1, <2>1, <2>3
<1>4. Becomes(f)
  BY <1>1, <1>2 DEF CancelUnsupport, Cancelable, Counted, Yield, GoOn
<1> HIDE DEF f
<1>5. Moves("cancel", act[Top].i + 1, act[Top].n + 1, act[Top].next) /\ act' \in [Task ->
        Activations] /\ stack' = stack
  BY <1>1, <1>3, <1>4, BecomesMoves
<1>6. /\ Pc(Top) = "cancel"
      /\ act[Top].i \in DOMAIN Children(Top) /\ status[Children(Top)[act[Top].i]] = "running"
      /\ Final(Children(Top)[act[Top].i]) # Loop
      /\ Stays
      /\ status' = [status EXCEPT ![Final(Children(Top)[act[Top].i])] = IF
           Final(Children(Top)[act[Top].i]) = Children(Top)[act[Top].i] THEN @ ELSE "canceled"]
      /\ UNCHANGED <<uninterruptable, block_to, finish_to, completed_id, global_signal_canceled,
           armed, cancels>>
  BY <1>1, <1>2 DEF CancelUnsupport, Cancelable, Counted, Yield, Swap, GoOn, Stays, Yields, controlVars, objectVars
<1>7. prog' = prog /\ uid' = uid /\ reuse' = reuse
  BY DEF CancelUnsupport, objectVars
<1>8. TypeOK'
  BY <1>1, <1>5, <1>6, <1>7, <1>2, <1>10, <1>12, <1>13 DEF IndInv, TypeOK, Stays, Yields, Kind, Children, Status
<1>9. \A u \in Task : Pc(u) # "none" /\ u # Top => block_to'[u] = block_to[u]
  BY <1>1, <1>6 DEF Yields, IndInv, TypeOK
<1> QED
  BY <1>1, <1>2, <1>5, <1>6, <1>7, <1>8, <1>9 DEF Keeps, Moves

LEMMA CancelInterruptIs ==
    ASSUME IndInv, CancelInterrupt
    PROVE  /\ Keeps
           /\ Moves("cancel", act[Top].i + 1, act[Top].n, act[Top].next)
           /\ Pc(Top) = "cancel"
           /\ act[Top].i \in DOMAIN Children(Top) /\ status[Children(Top)[act[Top].i]] = "running"
           /\ Final(Children(Top)[act[Top].i]) = Loop
           /\ running' = uid[Children(Top)[act[Top].i]] /\ global_current_task' = running'
           /\ status' = [status EXCEPT ![Children(Top)[act[Top].i]] = "canceled"] /\
                global_signal_canceled' = TRUE
           /\ UNCHANGED <<uninterruptable, block_to, finish_to, completed_id, armed, cancels>>
<1>1. /\ running # Loop /\ Busy(running) /\ Top \in Task
      /\ act[Top] \in Activations /\ Here = act[Top] /\ Pc(Top) = "cancel" /\ act[Top].pc = "cancel"
  BY AtTop DEF CancelInterrupt
<1>2. /\ act[Top].i \in Nat /\ act[Top].n \in Nat /\ act[Top].i \in DOMAIN Children(Top)
      /\ Children(Top)[act[Top].i] \in Task
      /\ Here.i <= Len(Children(Top))
  <2>1. act[Top].i \in 1..Len(Children(Top)) /\ act[Top].i \in Nat /\ act[Top].n \in Nat
    BY <1>1, StackTypes, TaskFacts DEF IndInv, PcInv, CancelInterrupt
  <2> QED
    BY <1>1, <2>1, TaskFacts, KidFacts DEF IndInv
<1>10. PICK x \in Task : x = Children(Top)[act[Top].i]
  BY <1>2
<1>11. Pc(x) # "none" /\ status[x] = "running"
  BY <1>1, <1>2, <1>10 DEF CancelInterrupt, Cancelable, IndInv, StatusInv
<1>12. Busy(x) /\ uid[x] = x
  BY <1>1, <1>2, <1>10, <1>11, KidBase
<1>13. Final(x) # Loop => Final(x) \in Task
  BY <1>12, FinalFacts
<1> DEFINE f == [Here EXCEPT !.i = @ + 1]
<1>3. f \in Activations /\ <<f.pc, f.i, f.n, f.next, f.parent>> = <<"cancel", act[Top].i + 1,
        act[Top].n, act[Top].next, act[Top].parent>>
  BY <1>1, <1>2 DEF Activations, Points
<1>4. Becomes(f)
  BY <1>1, <1>2 DEF CancelInterrupt, Cancelable, Yield, GoOn
<1> HIDE DEF f
<1>5. Moves("cancel", act[Top].i + 1, act[Top].n, act[Top].next) /\ act' \in [Task ->
        Activations] /\ stack' = stack
  BY <1>1, <1>3, <1>4, BecomesMoves
<1>6. /\ Pc(Top) = "cancel"
      /\ act[Top].i \in DOMAIN Children(Top) /\ status[Children(Top)[act[Top].i]] = "running"
      /\ Final(Children(Top)[act[Top].i]) = Loop
      /\ running' = uid[Children(Top)[act[Top].i]] /\ global_current_task' = running'
      /\ status' = [status EXCEPT ![Children(Top)[act[Top].i]] = "canceled"] /\
           global_signal_canceled' = TRUE
      /\ UNCHANGED <<uninterruptable, block_to, finish_to, completed_id, armed, cancels>>
  BY <1>1, <1>2 DEF CancelInterrupt, Cancelable, Yield, Swap, GoOn, Stays, Yields, controlVars, objectVars
<1>7. prog' = prog /\ uid' = uid /\ reuse' = reuse
  BY DEF CancelInterrupt, objectVars
<1>8. TypeOK'
  BY <1>1, <1>5, <1>6, <1>7, <1>2, <1>10, <1>12, <1>13 DEF IndInv, TypeOK, Stays, Yields, Kind, Children, Status
<1>9. \A u \in Task : Pc(u) # "none" /\ u # Top => block_to'[u] = block_to[u]
  BY <1>1, <1>6 DEF Yields, IndInv, TypeOK
<1> QED
  BY <1>1, <1>2, <1>5, <1>6, <1>7, <1>8, <1>9 DEF Keeps, Moves

LEMMA CancelEndYieldsIs ==
    ASSUME IndInv, CancelEnd, Here.n > 0
    PROVE  /\ Keeps
           /\ Moves("unsupport", act[Top].i, act[Top].n, act[Top].next)
           /\ Pc(Top) = "cancel"
           /\ act[Top].i > Len(Children(Top)) /\ act[Top].n > 0
           /\ Yields /\ uninterruptable' = [uninterruptable EXCEPT ![Top] = TRUE]
           /\ UNCHANGED <<status, finish_to, completed_id, global_signal_canceled, armed,
                cancels>>
<1>1. /\ running # Loop /\ Busy(running) /\ Top \in Task
      /\ act[Top] \in Activations /\ Here = act[Top] /\ Pc(Top) = "cancel" /\ act[Top].pc = "cancel"
  BY AtTop DEF CancelEnd
<1> DEFINE f == [Here EXCEPT !.pc = "unsupport"]
<1>3. f \in Activations /\ <<f.pc, f.i, f.n, f.next, f.parent>> = <<"unsupport", act[Top].i,
        act[Top].n, act[Top].next, act[Top].parent>>
  BY <1>1 DEF Activations, Points
<1>4. Becomes(f)
  BY <1>1 DEF CancelEnd, Yield, GoOn
<1> HIDE DEF f
<1>5. Moves("unsupport", act[Top].i, act[Top].n, act[Top].next) /\ act' \in [Task -> Activations]
        /\ stack' = stack
  BY <1>1, <1>3, <1>4, BecomesMoves
<1>6. /\ Pc(Top) = "cancel"
      /\ act[Top].i > Len(Children(Top)) /\ act[Top].n > 0
      /\ Yields /\ uninterruptable' = [uninterruptable EXCEPT ![Top] = TRUE]
      /\ UNCHANGED <<status, finish_to, completed_id, global_signal_canceled, armed, cancels>>
  BY <1>1 DEF CancelEnd, Yield, Swap, GoOn, Stays, Yields, controlVars, objectVars
<1>7. prog' = prog /\ uid' = uid /\ reuse' = reuse
  BY DEF CancelEnd, objectVars
<1>8. TypeOK'
  BY <1>1, <1>5, <1>6, <1>7 DEF IndInv, TypeOK, Stays, Yields, Kind, Children, Status
<1>9. \A u \in Task : Pc(u) # "none" /\ u # Top => block_to'[u] = block_to[u]
  BY <1>1, <1>6 DEF Yields, IndInv, TypeOK
<1> QED
  BY <1>1, <1>5, <1>6, <1>7, <1>8, <1>9 DEF Keeps, Moves

LEMMA CancelEndDoneIs ==
    ASSUME IndInv, CancelEnd, ~(Here.n > 0)
    PROVE  /\ Keeps
           /\ Moves(act[Top].next, act[Top].i, act[Top].n, act[Top].next)
           /\ Pc(Top) = "cancel"
           /\ act[Top].i > Len(Children(Top)) /\ act[Top].n = 0
           /\ Stays
           /\ UNCHANGED <<status, uninterruptable, block_to, finish_to, completed_id,
                global_signal_canceled, armed, cancels>>
<1>1. /\ running # Loop /\ Busy(running) /\ Top \in Task
      /\ act[Top] \in Activations /\ Here = act[Top] /\ Pc(Top) = "cancel" /\ act[Top].pc = "cancel"
  BY AtTop DEF CancelEnd
<1>2. act[Top].i \in Nat /\ act[Top].n \in Nat /\ act[Top].next \in {"return", "caught"}
  BY <1>1, StackTypes
<1> DEFINE f == [Here EXCEPT !.pc = Here.next]
<1>3. f \in Activations /\ <<f.pc, f.i, f.n, f.next, f.parent>> = <<act[Top].next, act[Top].i,
        act[Top].n, act[Top].next, act[Top].parent>>
  BY <1>1, <1>2 DEF Activations, Points
<1>4. Becomes(f)
  BY <1>1, <1>2 DEF CancelEnd, Yield, GoOn
<1> HIDE DEF f
<1>5. Moves(act[Top].next, act[Top].i, act[Top].n, act[Top].next) /\ act' \in [Task ->
        Activations] /\ stack' = stack
  BY <1>1, <1>3, <1>4, BecomesMoves
<1>6. /\ Pc(Top) = "cancel"
      /\ act[Top].i > Len(Children(Top)) /\ act[Top].n = 0
      /\ Stays
      /\ UNCHANGED <<status, uninterruptable, block_to, finish_to, completed_id,
           global_signal_canceled, armed, cancels>>
  BY <1>1, <1>2 DEF CancelEnd, Yield, Swap, GoOn, Stays, Yields, controlVars, objectVars
<1>7. prog' = prog /\ uid' = uid /\ reuse' = reuse
  BY DEF CancelEnd, objectVars
<1>8. TypeOK'
  BY <1>1, <1>5, <1>6, <1>7, <1>2 DEF IndInv, TypeOK, Stays, Yields, Kind, Children, Status
<1>9. \A u \in Task : Pc(u) # "none" /\ u # Top => block_to'[u] = block_to[u]
  BY <1>1, <1>6 DEF Yields, IndInv, TypeOK
<1> QED
  BY <1>1, <1>2, <1>5, <1>6, <1>7, <1>8, <1>9 DEF Keeps, Moves

LEMMA UnsupportYieldsIs ==
    ASSUME IndInv, UnsupportWake, ~global_signal_canceled, Here.n > 1
    PROVE  /\ Keeps
           /\ Moves("unsupport", act[Top].i, act[Top].n - 1, act[Top].next)
           /\ Pc(Top) = "unsupport"
           /\ ~global_signal_canceled /\ act[Top].n > 1
           /\ Yields
           /\ UNCHANGED <<status, uninterruptable, finish_to, completed_id,
                global_signal_canceled, armed, cancels>>
<1>1. /\ running # Loop /\ Busy(running) /\ Top \in Task
      /\ act[Top] \in Activations /\ Here = act[Top] /\ Pc(Top) = "unsupport" /\ act[Top].pc = "unsupport"
  BY AtTop DEF UnsupportWake
<1>2. act[Top].i \in Nat /\ act[Top].n \in Nat /\ act[Top].next \in {"return", "caught"}
  BY <1>1, StackTypes
<1> DEFINE f == [Here EXCEPT !.n = @ - 1]
<1>3. f \in Activations /\ <<f.pc, f.i, f.n, f.next, f.parent>> = <<"unsupport", act[Top].i,
        act[Top].n - 1, act[Top].next, act[Top].parent>>
  BY <1>1, <1>2 DEF Activations, Points
<1>4. Becomes(f)
  BY <1>1, <1>2 DEF UnsupportWake, Yield, GoOn
<1> HIDE DEF f
<1>5. Moves("unsupport", act[Top].i, act[Top].n - 1, act[Top].next) /\ act' \in [Task ->
        Activations] /\ stack' = stack
  BY <1>1, <1>3, <1>4, BecomesMoves
<1>6. /\ Pc(Top) = "unsupport"
      /\ ~global_signal_canceled /\ act[Top].n > 1
      /\ Yields
      /\ UNCHANGED <<status, uninterruptable, finish_to, completed_id, global_signal_canceled,
           armed, cancels>>
  BY <1>1, <1>2 DEF UnsupportWake, Yield, Swap, GoOn, Stays, Yields, controlVars, objectVars
<1>7. prog' = prog /\ uid' = uid /\ reuse' = reuse
  BY DEF UnsupportWake, objectVars
<1>8. TypeOK'
  BY <1>1, <1>5, <1>6, <1>7, <1>2 DEF IndInv, TypeOK, Stays, Yields, Kind, Children, Status
<1>9. \A u \in Task : Pc(u) # "none" /\ u # Top => block_to'[u] = block_to[u]
  BY <1>1, <1>6 DEF Yields, IndInv, TypeOK
<1> QED
  BY <1>1, <1>2, <1>5, <1>6, <1>7, <1>8, <1>9 DEF Keeps, Moves

LEMMA UnsupportDoneIs ==
    ASSUME IndInv, UnsupportWake, ~global_signal_canceled, ~(Here.n > 1)
    PROVE  /\ Keeps
           /\ Moves(act[Top].next, act[Top].i, 0, act[Top].next)
           /\ Pc(Top) = "unsupport"
           /\ ~global_signal_canceled /\ act[Top].n <= 1
           /\ Stays
           /\ UNCHANGED <<status, uninterruptable, block_to, finish_to, completed_id,
                global_signal_canceled, armed, cancels>>
<1>1. /\ running # Loop /\ Busy(running) /\ Top \in Task
      /\ act[Top] \in Activations /\ Here = act[Top] /\ Pc(Top) = "unsupport" /\ act[Top].pc = "unsupport"
  BY AtTop DEF UnsupportWake
<1>2. act[Top].i \in Nat /\ act[Top].n \in Nat /\ act[Top].next \in {"return", "caught"}
  BY <1>1, StackTypes
<1> DEFINE f == [Here EXCEPT !.n = 0, !.pc = Here.next]
<1>3. f \in Activations /\ <<f.pc, f.i, f.n, f.next, f.parent>> = <<act[Top].next, act[Top].i, 0,
        act[Top].next, act[Top].parent>>
  BY <1>1, <1>2 DEF Activations, Points
<1>4. Becomes(f)
  BY <1>1, <1>2 DEF UnsupportWake, Yield, GoOn
<1> HIDE DEF f
<1>5. Moves(act[Top].next, act[Top].i, 0, act[Top].next) /\ act' \in [Task -> Activations] /\
        stack' = stack
  BY <1>1, <1>3, <1>4, BecomesMoves
<1>6. /\ Pc(Top) = "unsupport"
      /\ ~global_signal_canceled /\ act[Top].n <= 1
      /\ Stays
      /\ UNCHANGED <<status, uninterruptable, block_to, finish_to, completed_id,
           global_signal_canceled, armed, cancels>>
  BY <1>1, <1>2 DEF UnsupportWake, Yield, Swap, GoOn, Stays, Yields, controlVars, objectVars
<1>7. prog' = prog /\ uid' = uid /\ reuse' = reuse
  BY DEF UnsupportWake, objectVars
<1>8. TypeOK'
  BY <1>1, <1>5, <1>6, <1>7, <1>2 DEF IndInv, TypeOK, Stays, Yields, Kind, Children, Status
<1>9. \A u \in Task : Pc(u) # "none" /\ u # Top => block_to'[u] = block_to[u]
  BY <1>1, <1>6 DEF Yields, IndInv, TypeOK
<1> QED
  BY <1>1, <1>2, <1>5, <1>6, <1>7, <1>8, <1>9 DEF Keeps, Moves

\* A call of await() or start(): nobody has touched its target yet.
LEMMA CallIs ==
    ASSUME IndInv, NEW op, AtCall(op)
    PROVE  /\ running # Loop /\ Busy(running) /\ Top \in Task /\ Top = Inner(running)
           /\ uid[Top] = running /\ act[Top] \in Activations /\ Here = act[Top] /\ act[Top].pc = "run"
           /\ Pc(Top) = "run" /\ Kind(Top) = "user"
           /\ act[Top].i \in DOMAIN Body(Top) /\ Body(Top)[act[Top].i] = <<op, Target>>
           /\ Body(Top)[act[Top].i][2] = Target
           /\ Target \in Task /\ Untouched(Target) /\ Pc(Target) = "none" /\ ~Busy(Target)
           /\ Target # Top /\ ~IsKid(Target) /\ global_current_task = Top
<1>1. /\ running # Loop /\ Busy(running) /\ Top \in Task /\ Top = Inner(running) /\ uid[Top] = running
      /\ act[Top] \in Activations /\ Here = act[Top] /\ act[Top].pc = "run" /\ Pc(Top) = "run"
  BY AtTop, TopFacts DEF AtCall
<1>2. Kind(Top) = "user" /\ act[Top].i <= Len(Body(Top)) /\ Body(Top)[act[Top].i][1] = op
      /\ Target = Body(Top)[act[Top].i][2]
  BY <1>1 DEF AtCall, Target, Body
<1>3. act[Top].i \in DOMAIN Body(Top)
  <2>1. act[Top].i \in Nat /\ act[Top].i >= 1
    BY <1>1, StackTypes DEF IndInv, PcInv
  <2>2. DOMAIN Body(Top) = 1..Len(Body(Top)) /\ Len(Body(Top)) \in Nat
    BY <1>1, TaskFacts DEF IndInv
  <2> QED
    BY <1>2, <2>1, <2>2
<1>4. /\ Body(Top)[act[Top].i] = <<op, Target>> /\ Target \in Task
      /\ Rank(Target) < Rank(Top) /\ Rank(Top) \in Nat
      /\ \A k \in Task : \A j \in DOMAIN Children(k) : Children(k)[j] # Target
  BY <1>1, <1>2, <1>3, CallFacts, TaskFacts DEF IndInv
<1>5. Untouched(Target)
  <2>1. act[Top].i >= act[Top].i
    BY <1>1, StackTypes
  <2> QED
    BY <1>1, <1>2, <1>3, <2>1 DEF IndInv, NotYet
<1>6. Pc(Target) = "none"
  BY <1>4, <1>5 DEF Untouched, IndInv, StatusInv
<1>7. ~Busy(Target)
  BY <1>4, <1>6, BusyFacts
<1>8. global_current_task = Top
  BY <1>1 DEF IndInv, CurrentInv
<1>9. Target # Top
  BY <1>1, <1>6
<1> QED
  BY <1>1, <1>2, <1>3, <1>4, <1>5, <1>6, <1>7, <1>8, <1>9 DEF IsKid

LEMMA StartIs ==
    ASSUME IndInv, Start
    PROVE  /\ Keeps
           /\ Moves("run", act[Top].i + 1, act[Top].n, act[Top].next)
           /\ Top = running /\ status[Target] = "ready"
           /\ running' = Target /\ global_current_task' = Target
           /\ block_to' = [block_to EXCEPT ![Target] = running]
           /\ finish_to' = [finish_to EXCEPT ![Target] = Loop]
           /\ UNCHANGED <<status, uninterruptable, completed_id, global_signal_canceled, armed,
                          cancels>>
<1>1. AtCall("start")
  BY DEF Start
<1>2. /\ running # Loop /\ Busy(running) /\ Top \in Task /\ Top = Inner(running) /\ uid[Top] = running
      /\ act[Top] \in Activations /\ Here = act[Top] /\ act[Top].pc = "run"
      /\ Target \in Task /\ Pc(Target) = "none" /\ global_current_task = Top
      /\ act[Top].i \in DOMAIN Body(Top) /\ Body(Top)[act[Top].i] = <<"start", Target>>
      /\ Pc(Top) = "run" /\ Target # Top
  BY <1>1, CallIs
<1> DEFINE f == [Here EXCEPT !.i = @ + 1]
<1>3. /\ f \in Activations
      /\ <<f.pc, f.i, f.n, f.next, f.parent>> = <<"run", act[Top].i + 1, act[Top].n, act[Top].next,
                                                  act[Top].parent>>
  BY <1>2 DEF Activations
<1>4. Becomes(f)
  BY DEF Start, GoOn
<1> HIDE DEF f
<1>5. /\ Moves("run", act[Top].i + 1, act[Top].n, act[Top].next)
      /\ act' \in [Task -> Activations] /\ stack' = stack
  BY <1>2, <1>3, <1>4, BecomesMoves
<1>6. Top = running
  <2> SUFFICES ASSUME Top # running PROVE FALSE
    OBVIOUS
  <2>1. PICK u \in Task : /\ Kind(u) = "user" /\ act[u].i - 1 \in DOMAIN Body(u)
                          /\ Body(u)[act[u].i - 1] = <<"await", Top>>
    BY <1>2, LiveFacts
  <2>2. Body(u)[act[u].i - 1][1] = "await" /\ Body(u)[act[u].i - 1][2] = Top
    BY <2>1
  <2>3. \A j \in DOMAIN Body(Top) : Body(Top)[j][1] # "start"
    BY <2>1, <2>2, CallFacts DEF IndInv
  <2> QED
    BY <1>2, <2>3
<1>7. uid[Target] = Target /\ status[Target] = "ready"
  BY <1>2 DEF Start, IndInv, StatusInv
<1>8. /\ running' = Target /\ global_current_task' = Target
      /\ block_to' = [block_to EXCEPT ![Target] = running]
      /\ finish_to' = [finish_to EXCEPT ![Target] = Loop]
      /\ UNCHANGED <<status, uninterruptable, completed_id, global_signal_canceled, armed, cancels>>
      /\ prog' = prog /\ uid' = uid /\ reuse' = reuse
  BY <1>2, <1>7 DEF Start, Swap
<1>9. TypeOK'
  BY <1>2, <1>5, <1>6, <1>8 DEF IndInv, TypeOK, Kind, Children
<1>10. \A u \in Task : Pc(u) # "none" => block_to'[u] = block_to[u]
  BY <1>2, <1>8 DEF IndInv, TypeOK
<1> QED
  BY <1>2, <1>5, <1>6, <1>7, <1>8, <1>9, <1>10 DEF Keeps, Moves

LEMMA StartRejectIs ==
    ASSUME IndInv, StartReject
    PROVE  /\ Keeps
           /\ Moves("run", act[Top].i + 1, act[Top].n, act[Top].next)
           /\ status[Target] = "limited" /\ status' = [status EXCEPT ![Target] = "deleted"]
           /\ Stays
           /\ UNCHANGED <<uninterruptable, block_to, finish_to, completed_id,
                          global_signal_canceled, armed, cancels>>
<1>1. AtCall("start")
  BY DEF StartReject
<1>2. /\ running # Loop /\ Busy(running) /\ Top \in Task
      /\ act[Top] \in Activations /\ Here = act[Top] /\ act[Top].pc = "run"
      /\ Target \in Task /\ Untouched(Target)
  BY <1>1, CallIs
<1> DEFINE f == [Here EXCEPT !.i = @ + 1]
<1>3. /\ f \in Activations
      /\ <<f.pc, f.i, f.n, f.next, f.parent>> = <<"run", act[Top].i + 1, act[Top].n, act[Top].next,
                                                  act[Top].parent>>
  BY <1>2 DEF Activations
<1>4. Becomes(f)
  BY DEF StartReject, GoOn
<1> HIDE DEF f
<1>5. /\ Moves("run", act[Top].i + 1, act[Top].n, act[Top].next)
      /\ act' \in [Task -> Activations] /\ stack' = stack
  BY <1>2, <1>3, <1>4, BecomesMoves
<1>6. /\ status[Target] = "limited" /\ status' = [status EXCEPT ![Target] = "deleted"] /\ Stays
      /\ UNCHANGED <<uninterruptable, block_to, finish_to, completed_id,
                     global_signal_canceled, armed, cancels>>
      /\ prog' = prog /\ uid' = uid /\ reuse' = reuse
  BY <1>2 DEF StartReject, Untouched, Stays, controlVars
<1>7. TypeOK'
  BY <1>2, <1>5, <1>6 DEF IndInv, TypeOK, Kind, Children, Stays, Status
<1> QED
  BY <1>2, <1>5, <1>6, <1>7 DEF Keeps, Moves

\* await() of a task that is not ready does not happen.
LEMMA NoAwaitReject ==
    ASSUME IndInv
    PROVE  ~AwaitReject
BY CallIs DEF AwaitReject, Untouched

\* Nor does the interrupt of a wait in __task_cancel_children.
LEMMA NoUnsupportInterrupt ==
    ASSUME IndInv, At("unsupport")
    PROVE  ~global_signal_canceled
BY AtTop, TopFacts DEF IndInv, SignalInv

\* all_of::run and any_of::run begin.
LEMMA AdoptIs ==
    ASSUME IndInv, At("run"), Kind(Top) \in Combinators, Adopt(Top)
    PROVE  /\ running # Loop /\ Busy(running) /\ Top \in Task /\ uid[Top] = running
           /\ act[Top] \in Activations /\ Here = act[Top] /\ act[Top].pc = "run" /\ Pc(Top) = "run"
           /\ {block_to', finish_to'} \subseteq [Task -> Task \cup {Loop}]
           /\ \A q \in Task : ~(\E j \in DOMAIN Children(Top) : Children(Top)[j] = q) =>
                block_to'[q] = block_to[q] /\ finish_to'[q] = finish_to[q]
           /\ Unready(Top) = {} => \A j \in DOMAIN Children(Top) :
                /\ block_to'[Children(Top)[j]] = running /\ finish_to'[Children(Top)[j]] = running
                /\ status[Children(Top)[j]] = "ready"
           /\ \A j \in DOMAIN Children(Top) :
                /\ Children(Top)[j] \in Task /\ Untouched(Children(Top)[j])
                /\ Pc(Children(Top)[j]) = "none"
           /\ \A u \in Task : Pc(u) # "none" => block_to'[u] = block_to[u]
<1>1. /\ running # Loop /\ Busy(running) /\ Top \in Task /\ uid[Top] = running /\ running \in Task
      /\ act[Top] \in Activations /\ Here = act[Top] /\ act[Top].pc = "run" /\ Pc(Top) = "run"
  BY AtTop, TopFacts
<1>2. \A j \in DOMAIN Children(Top) :
        Children(Top)[j] \in Task /\ Untouched(Children(Top)[j])
  BY <1>1, KidFacts DEF IndInv, NotYet
<1>3. \A j \in DOMAIN Children(Top) : Pc(Children(Top)[j]) = "none"
  BY <1>2 DEF Untouched, IndInv, StatusInv
<1> DEFINE kids == {Children(Top)[i] :
                      i \in {j \in DOMAIN Children(Top) : \A k \in Unready(Top) : j < k}}
<1>4. /\ block_to' = [q \in Task |-> IF q \in kids THEN uid[Top] ELSE block_to[q]]
      /\ finish_to' = [q \in Task |-> IF q \in kids THEN uid[Top] ELSE finish_to[q]]
  BY DEF Adopt
<1>5. \A q \in kids : \E j \in DOMAIN Children(Top) : Children(Top)[j] = q
  OBVIOUS
<1>6. Unready(Top) = {} => \A j \in DOMAIN Children(Top) : Children(Top)[j] \in kids
  OBVIOUS
<1>7. Unready(Top) = {} => \A j \in DOMAIN Children(Top) : status[Children(Top)[j]] = "ready"
  BY DEF Unready
<1> HIDE DEF kids
<1>8. {block_to', finish_to'} \subseteq [Task -> Task \cup {Loop}]
  BY <1>1, <1>4 DEF IndInv, TypeOK
<1>9. \A u \in Task : Pc(u) # "none" => block_to'[u] = block_to[u]
  BY <1>3, <1>4, <1>5
<1> QED
  BY <1>1, <1>2, <1>3, <1>4, <1>5, <1>6, <1>7, <1>8, <1>9

LEMMA ChildrenReadyIs ==
    ASSUME IndInv, ChildrenReady
    PROVE  /\ Keeps
           /\ Moves("start", 1, Len(Children(Top)), act[Top].next)
           /\ Pc(Top) = "run" /\ Kind(Top) \in Combinators /\ Len(Children(Top)) >= 1
           /\ \A q \in Task : ~(\E j \in DOMAIN Children(Top) : Children(Top)[j] = q) =>
                block_to'[q] = block_to[q] /\ finish_to'[q] = finish_to[q]
           /\ \A j \in DOMAIN Children(Top) :
                /\ Children(Top)[j] \in Task /\ status[Children(Top)[j]] = "ready"
                /\ Children(Top)[j] # running /\ Pc(Children(Top)[j]) = "none"
                /\ block_to'[Children(Top)[j]] = running /\ finish_to'[Children(Top)[j]] = running
           /\ Stays
           /\ UNCHANGED <<status, uninterruptable, completed_id, global_signal_canceled, armed,
                          cancels>>
<1>1. At("run") /\ Kind(Top) \in Combinators /\ Adopt(Top) /\ Unready(Top) = {}
  BY DEF ChildrenReady
<1>2. /\ running # Loop /\ Busy(running) /\ Top \in Task /\ uid[Top] = running
      /\ act[Top] \in Activations /\ Here = act[Top] /\ act[Top].pc = "run" /\ Pc(Top) = "run"
      /\ {block_to', finish_to'} \subseteq [Task -> Task \cup {Loop}]
      /\ \A q \in Task : ~(\E j \in DOMAIN Children(Top) : Children(Top)[j] = q) =>
            block_to'[q] = block_to[q] /\ finish_to'[q] = finish_to[q]
      /\ \A j \in DOMAIN Children(Top) :
            /\ block_to'[Children(Top)[j]] = running /\ finish_to'[Children(Top)[j]] = running
            /\ status[Children(Top)[j]] = "ready"
      /\ \A j \in DOMAIN Children(Top) :
            /\ Children(Top)[j] \in Task /\ Untouched(Children(Top)[j])
            /\ Pc(Children(Top)[j]) = "none"
      /\ \A u \in Task : Pc(u) # "none" => block_to'[u] = block_to[u]
  BY <1>1, AdoptIs
<1>3. act[Top].i = 1 /\ Len(Children(Top)) \in Nat /\ Len(Children(Top)) >= 1
  BY <1>1, <1>2, TaskFacts DEF IndInv, PcInv, Combinators
<1> DEFINE f == [Here EXCEPT !.pc = "start", !.n = Len(Children(Top))]
<1>4. /\ f \in Activations
      /\ <<f.pc, f.i, f.n, f.next, f.parent>> = <<"start", 1, Len(Children(Top)), act[Top].next,
                                                  act[Top].parent>>
  BY <1>2, <1>3 DEF Activations, Points
<1>5. Becomes(f)
  BY DEF ChildrenReady
<1> HIDE DEF f
<1>6. /\ Moves("start", 1, Len(Children(Top)), act[Top].next)
      /\ act' \in [Task -> Activations] /\ stack' = stack
  BY <1>2, <1>4, <1>5, BecomesMoves
<1>7. /\ Stays
      /\ UNCHANGED <<status, uninterruptable, completed_id, global_signal_canceled, armed, cancels>>
      /\ prog' = prog /\ uid' = uid /\ reuse' = reuse
  BY DEF ChildrenReady, Stays, controlVars
<1>8. TypeOK'
  BY <1>2, <1>6, <1>7 DEF IndInv, TypeOK, Kind, Children, Stays
<1> QED
  BY <1>1, <1>2, <1>3, <1>6, <1>7, <1>8 DEF Keeps, Moves, Untouched

LEMMA ChildrenUnreadyIs ==
    ASSUME IndInv, ChildrenUnready
    PROVE  /\ Keeps
           /\ Moves("return", act[Top].i, act[Top].n, act[Top].next)
           /\ Pc(Top) = "run" /\ Kind(Top) \in Combinators
           /\ \A q \in Task : ~(\E j \in DOMAIN Children(Top) : Children(Top)[j] = q) =>
                block_to'[q] = block_to[q] /\ finish_to'[q] = finish_to[q]
           /\ \A j \in DOMAIN Children(Top) :
                /\ Children(Top)[j] \in Task /\ Untouched(Children(Top)[j])
                /\ Pc(Children(Top)[j]) = "none"
           /\ status' = [status EXCEPT ![Top] = "child_unready"]
           /\ Stays
           /\ UNCHANGED <<uninterruptable, completed_id, global_signal_canceled, armed, cancels>>
<1>1. At("run") /\ Kind(Top) \in Combinators /\ Adopt(Top)
  BY DEF ChildrenUnready
<1>2. /\ running # Loop /\ Busy(running) /\ Top \in Task /\ uid[Top] = running
      /\ act[Top] \in Activations /\ Here = act[Top] /\ act[Top].pc = "run" /\ Pc(Top) = "run"
      /\ {block_to', finish_to'} \subseteq [Task -> Task \cup {Loop}]
      /\ \A q \in Task : ~(\E j \in DOMAIN Children(Top) : Children(Top)[j] = q) =>
            block_to'[q] = block_to[q] /\ finish_to'[q] = finish_to[q]
      /\ \A j \in DOMAIN Children(Top) :
            /\ Children(Top)[j] \in Task /\ Untouched(Children(Top)[j])
            /\ Pc(Children(Top)[j]) = "none"
      /\ \A u \in Task : Pc(u) # "none" => block_to'[u] = block_to[u]
  BY <1>1, AdoptIs
<1> DEFINE f == [Here EXCEPT !.pc = "return"]
<1>3. /\ f \in Activations
      /\ <<f.pc, f.i, f.n, f.next, f.parent>> = <<"return", act[Top].i, act[Top].n, act[Top].next,
                                                  act[Top].parent>>
  BY <1>2 DEF Activations, Points
<1>4. Becomes(f)
  BY DEF ChildrenUnready
<1> HIDE DEF f
<1>5. /\ Moves("return", act[Top].i, act[Top].n, act[Top].next)
      /\ act' \in [Task -> Activations] /\ stack' = stack
  BY <1>2, <1>3, <1>4, BecomesMoves
<1>6. /\ Stays /\ status' = [status EXCEPT ![Top] = "child_unready"]
      /\ UNCHANGED <<uninterruptable, completed_id, global_signal_canceled, armed, cancels>>
      /\ prog' = prog /\ uid' = uid /\ reuse' = reuse
  BY DEF ChildrenUnready, Stays, controlVars
<1>7. TypeOK'
  BY <1>2, <1>5, <1>6 DEF IndInv, TypeOK, Kind, Children, Stays, Status
<1> QED
  BY <1>1, <1>2, <1>5, <1>6, <1>7 DEF Keeps, Moves

\* __task_runtime begins the task of its coroutine.
LEMMA TaskRuntimeIs ==
    ASSUME IndInv, TaskRuntime
    PROVE  /\ running # Loop /\ running \in Task /\ ~Busy(running)
           /\ status[running] = "ready" /\ Pc(running) = "none" /\ uid[running] = running
           /\ reuse[running] = Loop /\ global_current_task = running
           /\ status' = [status EXCEPT ![running] = "running"]
           /\ stack' = [stack EXCEPT ![running] = <<running>>]
           /\ act'[running].pc = "run" /\ act'[running].i = 1 /\ act'[running].n = 0
           /\ act'[running].next = "return" /\ act'[running].parent = Loop
           /\ \A u \in Task : u # running => act'[u] = act[u]
           /\ prog' = prog /\ Stays
           /\ UNCHANGED <<uninterruptable, reuse, uid, block_to, finish_to, completed_id,
                          global_signal_canceled, armed, cancels>>
           /\ TypeOK'
<1>1. running # Loop /\ running \in Task /\ ~Busy(running)
  BY StackTypes DEF TaskRuntime, Busy
<1>2. status[running] = "ready" /\ uid[running] = running
  BY <1>1 DEF IndInv, StatusInv, Entering
<1>3. Pc(running) = "none"
  BY <1>1, <1>2 DEF IndInv, StatusInv
<1>4. reuse[running] = Loop /\ global_current_task = running
  BY <1>1, <1>3 DEF IndInv, StackInv, CurrentInv
<1>5. /\ act' = [act EXCEPT ![running] = Activation(Loop)] /\ act \in [Task -> Activations]
      /\ Activation(Loop) \in Activations
  BY DEF TaskRuntime, IndInv, TypeOK, Activation, Activations, Points
<1>6. /\ act'[running].pc = "run" /\ act'[running].i = 1 /\ act'[running].n = 0
      /\ act'[running].next = "return" /\ act'[running].parent = Loop
      /\ \A u \in Task : u # running => act'[u] = act[u]
      /\ act' \in [Task -> Activations]
  BY <1>1, <1>5 DEF Activation
<1>7. /\ status' = [status EXCEPT ![running] = "running"]
      /\ stack' = [stack EXCEPT ![running] = <<running>>]
      /\ prog' = prog /\ Stays
      /\ UNCHANGED <<uninterruptable, reuse, uid, block_to, finish_to, completed_id,
                     global_signal_canceled, armed, cancels>>
  BY DEF TaskRuntime, Stays, controlVars
<1>8. stack' \in [Task -> Seq(Task)]
  <2>1. <<running>> \in Seq(Task)
    BY <1>1
  <2> QED
    BY <1>7, <2>1 DEF IndInv, TypeOK
<1>9. TypeOK'
  BY <1>6, <1>7, <1>8 DEF IndInv, TypeOK, Kind, Children, Stays, Status
<1> QED
  BY <1>1, <1>2, <1>3, <1>4, <1>6, <1>7, <1>9

LEMMA AwaitIs ==
    ASSUME IndInv, Await
    PROVE  /\ running \in Task /\ AtCall("await") /\ status[Target] \in {"ready", "limited"}
           /\ block_to' = [block_to EXCEPT ![Target] = block_to[Top], ![Top] = Loop]
           /\ finish_to' = [finish_to EXCEPT ![Target] = running]
           /\ uid' = [uid EXCEPT ![Target] = running]
           /\ status' = [status EXCEPT ![Target] = "running"]
           /\ reuse' = [reuse EXCEPT ![Top] = Target]
           /\ running' = running /\ global_current_task' = Target
           /\ stack' = [stack EXCEPT ![running] = <<Target>> \o @]
           /\ act'[Target].pc = "run" /\ act'[Target].i = 1 /\ act'[Target].n = 0
           /\ act'[Target].next = "return" /\ act'[Target].parent = Top
           /\ act'[Top].pc = "run" /\ act'[Top].i = act[Top].i + 1 /\ act'[Top].n = act[Top].n
           /\ act'[Top].next = act[Top].next /\ act'[Top].parent = act[Top].parent
           /\ \A u \in Task : u # Top /\ u # Target => act'[u] = act[u]
           /\ prog' = prog
           /\ UNCHANGED <<uninterruptable, completed_id, global_signal_canceled, armed, cancels>>
           /\ TypeOK'
<1>1. AtCall("await")
  BY DEF Await
<1>2. /\ running # Loop /\ Busy(running) /\ Top \in Task /\ uid[Top] = running
      /\ act[Top] \in Activations /\ Here = act[Top] /\ act[Top].pc = "run"
      /\ Target \in Task /\ Target # Top /\ global_current_task = Top
  BY <1>1, CallIs
<1>3. running \in Task
  BY <1>2, StackTypes
<1>4. /\ status[Target] \in {"ready", "limited"}
      /\ block_to' = [block_to EXCEPT ![Target] = block_to[Top], ![Top] = Loop]
      /\ finish_to' = [finish_to EXCEPT ![Target] = running]
      /\ uid' = [uid EXCEPT ![Target] = running]
      /\ status' = [status EXCEPT ![Target] = "running"]
      /\ reuse' = [reuse EXCEPT ![Top] = Target]
      /\ running' = running /\ global_current_task' = Target
      /\ stack' = [stack EXCEPT ![running] = <<Target>> \o @]
      /\ prog' = prog
      /\ UNCHANGED <<uninterruptable, completed_id, global_signal_canceled, armed, cancels>>
  BY <1>2 DEF Await
<1>5. /\ act' = [act EXCEPT ![Top].i = @ + 1, ![Target] = Activation(Top)]
      /\ act \in [Task -> Activations]
  BY <1>2 DEF Await, IndInv, TypeOK
<1>6. /\ Activation(Top) \in Activations /\ Activation(Top).pc = "run" /\ Activation(Top).i = 1
      /\ Activation(Top).n = 0 /\ Activation(Top).next = "return" /\ Activation(Top).parent = Top
  BY <1>2 DEF Activation, Activations, Points
<1> DEFINE g == [act[Top] EXCEPT !.i = @ + 1]
<1>7. /\ g \in Activations /\ g.pc = "run" /\ g.i = act[Top].i + 1 /\ g.n = act[Top].n
      /\ g.next = act[Top].next /\ g.parent = act[Top].parent
  BY <1>2 DEF Activations
<1>8. /\ act'[Target] = Activation(Top) /\ act'[Top] = g
      /\ \A u \in Task : u # Top /\ u # Target => act'[u] = act[u]
  BY <1>2, <1>5
<1> HIDE DEF g
<1>9. act' \in [Task -> Activations]
  <2>1. DOMAIN act' = Task /\ act' = [u \in Task |-> act'[u]]
    BY <1>5
  <2>2. \A u \in Task : act'[u] \in Activations
    BY <1>5, <1>6, <1>7, <1>8
  <2> QED
    BY <2>1, <2>2
<1>10. stack' \in [Task -> Seq(Task)]
  <2>1. <<Target>> \o stack[running] \in Seq(Task)
    BY <1>2, <1>3, StackTypes
  <2> QED
    BY <1>4, <2>1 DEF IndInv, TypeOK
<1>11. {reuse', uid', block_to', finish_to'} \subseteq [Task -> Task \cup {Loop}]
  <2>1. {reuse, uid, block_to, finish_to} \subseteq [Task -> Task \cup {Loop}]
    BY DEF IndInv, TypeOK
  <2>2. reuse' \in [Task -> Task \cup {Loop}] /\ uid' \in [Task -> Task \cup {Loop}]
    BY <1>2, <1>3, <1>4, <2>1
  <2>3. block_to' \in [Task -> Task \cup {Loop}] /\ finish_to' \in [Task -> Task \cup {Loop}]
    BY <1>2, <1>3, <1>4, <2>1
  <2> QED
    BY <2>2, <2>3
<1>12. TypeOK'
  BY <1>2, <1>3, <1>4, <1>9, <1>10, <1>11 DEF IndInv, TypeOK, Kind, Children, Status
<1> QED
  BY <1>1, <1>3, <1>4, <1>6, <1>7, <1>8, <1>12

\* The end of a run() that was awaited.
Pops(s, pc) ==
    /\ running # Loop /\ Busy(running) /\ ~AtBase
    /\ prog' = prog /\ running' = running /\ global_current_task' = Caller
    /\ stack' = [stack EXCEPT ![running] = Tail(@)]
    /\ reuse' = [reuse EXCEPT ![Caller] = Loop]
    /\ uid' = [uid EXCEPT ![Top] = Loop]
    /\ status' = [status EXCEPT ![Top] = s]
    /\ act'[Top].pc = "none" /\ act'[Top].i = act[Top].i
    /\ act'[Caller].pc = pc /\ act'[Caller].i = act[Caller].i
    /\ act'[Caller].parent = act[Caller].parent
    /\ \A u \in Task : u # Top /\ u # Caller => act'[u] = act[u]
    /\ block_to'[Caller] = block_to[Top]
    /\ \A u \in Task : u # Top /\ u # Caller => block_to'[u] = block_to[u]
    /\ UNCHANGED <<uninterruptable, finish_to, completed_id, global_signal_canceled, armed, cancels>>
    /\ TypeOK'

\* run() has returned.
LEMMA ReturnedIs ==
    ASSUME IndInv, Returned
    PROVE  /\ running # Loop /\ Busy(running)
           /\ \/ Pc(Top) = "return"
              \/ Pc(Top) = "run" /\ Kind(Top) = "user" /\ act[Top].i > Len(Body(Top))
BY AtTop DEF Returned, Body

LEMMA StackTail ==
    ASSUME IndInv, running # Loop, Busy(running)
    PROVE  /\ Tail(stack[running]) \in Seq(Task)
           /\ Len(Tail(stack[running])) = Len(stack[running]) - 1
           /\ \A k \in 1..(Len(stack[running]) - 1) : Tail(stack[running])[k] = stack[running][k + 1]
           /\ [stack EXCEPT ![running] = Tail(@)] \in [Task -> Seq(Task)]
           /\ AtBase => Tail(stack[running]) = <<>>
<1>1. running \in Task /\ stack[running] \in Seq(Task) /\ stack[running] # <<>>
  BY StackTypes DEF Busy
<1>2. /\ Tail(stack[running]) \in Seq(Task)
      /\ Len(Tail(stack[running])) = Len(stack[running]) - 1
      /\ \A k \in 1..(Len(stack[running]) - 1) : Tail(stack[running])[k] = stack[running][k + 1]
  BY <1>1, HeadTailProperties
<1>3. [stack EXCEPT ![running] = Tail(@)] \in [Task -> Seq(Task)]
  BY <1>1, <1>2 DEF IndInv, TypeOK
<1>4. AtBase => Tail(stack[running]) = <<>>
  <2>1. AtBase => Len(Tail(stack[running])) = 0
    BY <1>2 DEF AtBase
  <2> QED
    BY <1>2, <2>1, EmptySeq
<1> QED
  BY <1>2, <1>3, <1>4

LEMMA PopTypes ==
    ASSUME IndInv, running # Loop, Busy(running), ~AtBase, NEW s \in Status,
           BackToParent(s), Leave, {block_to'} \subseteq [Task -> Task \cup {Loop}],
           act' \in [Task -> Activations], prog' = prog, running' = running,
           UNCHANGED <<uninterruptable, finish_to, completed_id, global_signal_canceled, armed, cancels>>
    PROVE  /\ TypeOK'
           /\ global_current_task' = Caller
           /\ stack' = [stack EXCEPT ![running] = Tail(@)]
           /\ reuse' = [reuse EXCEPT ![Caller] = Loop]
           /\ uid' = [uid EXCEPT ![Top] = Loop]
           /\ status' = [status EXCEPT ![Top] = s]
<1>1. Here.parent = Caller /\ Caller \in Task /\ Top \in Task
  BY CallerFacts, TopFacts
<1>2. /\ global_current_task' = Caller
      /\ stack' = [stack EXCEPT ![running] = Tail(@)]
      /\ reuse' = [reuse EXCEPT ![Caller] = Loop]
      /\ uid' = [uid EXCEPT ![Top] = Loop]
      /\ status' = [status EXCEPT ![Top] = s]
  BY <1>1 DEF BackToParent, Leave
<1>3. stack' \in [Task -> Seq(Task)]
  BY <1>2, StackTail
<1>4. TypeOK'
  BY <1>1, <1>2, <1>3 DEF IndInv, TypeOK, Kind, Children
<1> QED
  BY <1>2, <1>4

LEMMA PopActs ==
    ASSUME IndInv, running # Loop, Busy(running), ~AtBase
    PROVE  /\ act' = [act EXCEPT ![Top].pc = "none"] =>
                /\ act' \in [Task -> Activations]
                /\ act'[Top].pc = "none" /\ act'[Top].i = act[Top].i
                /\ \A u \in Task : u # Top => act'[u] = act[u]
           /\ act' = [act EXCEPT ![Top].pc = "none", ![Caller].pc = "throw"] =>
                /\ act' \in [Task -> Activations]
                /\ act'[Top].pc = "none" /\ act'[Top].i = act[Top].i
                /\ act'[Caller].pc = "throw" /\ act'[Caller].i = act[Caller].i
                /\ act'[Caller].parent = act[Caller].parent
                /\ \A u \in Task : u # Top /\ u # Caller => act'[u] = act[u]
<1>1. Top \in Task /\ Caller \in Task /\ Caller # Top /\ act \in [Task -> Activations]
  BY CallerFacts, TopFacts DEF IndInv, TypeOK
<1> DEFINE g == [act[Top] EXCEPT !.pc = "none"]
           h == [act[Caller] EXCEPT !.pc = "throw"]
<1>2. g \in Activations /\ g.pc = "none" /\ g.i = act[Top].i
  BY <1>1 DEF Activations, Points
<1>3. /\ h \in Activations /\ h.pc = "throw" /\ h.i = act[Caller].i
      /\ h.parent = act[Caller].parent
  BY <1>1 DEF Activations, Points
<1>4. ASSUME act' = [act EXCEPT ![Top].pc = "none"]
      PROVE  /\ act' \in [Task -> Activations]
             /\ act'[Top].pc = "none" /\ act'[Top].i = act[Top].i
             /\ \A u \in Task : u # Top => act'[u] = act[u]
  <2>1. act' = [act EXCEPT ![Top] = g]
    BY <1>4
  <2> HIDE DEF g, h
  <2> QED
    BY <1>1, <1>2, <2>1
<1>5. ASSUME act' = [act EXCEPT ![Top].pc = "none", ![Caller].pc = "throw"]
      PROVE  /\ act' \in [Task -> Activations]
             /\ act'[Top].pc = "none" /\ act'[Top].i = act[Top].i
             /\ act'[Caller].pc = "throw" /\ act'[Caller].i = act[Caller].i
             /\ act'[Caller].parent = act[Caller].parent
             /\ \A u \in Task : u # Top /\ u # Caller => act'[u] = act[u]
  <2>1. act' = [act EXCEPT ![Top] = g, ![Caller] = h]
    BY <1>1, <1>5
  <2> HIDE DEF g, h
  <2> QED
    BY <1>1, <1>2, <1>3, <2>1
<1> QED
  BY <1>4, <1>5

LEMMA PassBlockIs ==
    ASSUME IndInv, running # Loop, Busy(running), ~AtBase, PassBlockBack
    PROVE  /\ block_to' \in [Task -> Task \cup {Loop}]
           /\ block_to'[Caller] = block_to[Top]
           /\ \A u \in Task : u # Top /\ u # Caller => block_to'[u] = block_to[u]
<1>1. /\ Here.parent = Caller /\ Caller \in Task /\ Caller # Top /\ Top \in Task
      /\ block_to[Caller] = Loop
  BY CallerFacts, TopFacts
<1>2. block_to \in [Task -> Task \cup {Loop}]
  BY DEF IndInv, TypeOK
<1>3. CASE block_to[Top] = Loop
  BY <1>1, <1>2, <1>3 DEF PassBlockBack
<1>4. CASE block_to[Top] # Loop
  <2>1. block_to' = [block_to EXCEPT ![Caller] = block_to[Top], ![Top] = Loop]
    BY <1>1, <1>4 DEF PassBlockBack
  <2> QED
    BY <1>1, <1>2, <2>1
<1> QED
  BY <1>3, <1>4

LEMMA AwaitReturnIs ==
    ASSUME IndInv, AwaitReturn
    PROVE  /\ \/ Pc(Top) = "return"
              \/ Pc(Top) = "run" /\ Kind(Top) = "user" /\ act[Top].i > Len(Body(Top))
           /\ \/ status[Top] = "running" /\ Pops("completed", "run")
              \/ status[Top] = "child_unready" /\ Pops("child_unready", "run")
<1>1. /\ running # Loop /\ Busy(running) /\ ~AtBase
      /\ \/ Pc(Top) = "return"
         \/ Pc(Top) = "run" /\ Kind(Top) = "user" /\ act[Top].i > Len(Body(Top))
  BY ReturnedIs DEF AwaitReturn
<1>2. Top \in Task /\ Caller \in Task /\ Caller # Top /\ Pc(Caller) = "run" /\ Pc(Top) # "none"
  BY <1>1, CallerFacts, TopFacts
<1>3. status[Top] \in {"running", "canceled", "child_unready"}
  BY <1>2 DEF IndInv, StatusInv
<1>4. \/ status[Top] = "running" /\ EndStatus(Top) = "completed"
      \/ status[Top] = "child_unready" /\ EndStatus(Top) = "child_unready"
  BY <1>3 DEF AwaitReturn, EndStatus
<1>5. EndStatus(Top) \in Status
  BY <1>4 DEF Status
<1>6. /\ BackToParent(EndStatus(Top)) /\ PassBlockBack /\ Leave
      /\ act' = [act EXCEPT ![Top].pc = "none"] /\ prog' = prog /\ running' = running
      /\ UNCHANGED <<uninterruptable, finish_to, completed_id, global_signal_canceled, armed, cancels>>
  BY DEF AwaitReturn
<1>7. /\ act' \in [Task -> Activations]
      /\ act'[Top].pc = "none" /\ act'[Top].i = act[Top].i
      /\ \A u \in Task : u # Top => act'[u] = act[u]
  BY <1>1, <1>6, PopActs
<1>8. /\ block_to' \in [Task -> Task \cup {Loop}]
      /\ block_to'[Caller] = block_to[Top]
      /\ \A u \in Task : u # Top /\ u # Caller => block_to'[u] = block_to[u]
  BY <1>1, <1>6, PassBlockIs
<1>9. {block_to'} \subseteq [Task -> Task \cup {Loop}]
  BY <1>8
<1>10. /\ TypeOK' /\ global_current_task' = Caller
       /\ stack' = [stack EXCEPT ![running] = Tail(@)]
       /\ reuse' = [reuse EXCEPT ![Caller] = Loop]
       /\ uid' = [uid EXCEPT ![Top] = Loop]
       /\ status' = [status EXCEPT ![Top] = EndStatus(Top)]
  BY <1>1, <1>5, <1>6, <1>7, <1>9, PopTypes
<1>11. act'[Caller].pc = "run" /\ act'[Caller] = act[Caller]
  BY <1>2, <1>7 DEF Pc
<1> QED
  BY <1>1, <1>2, <1>4, <1>6, <1>7, <1>8, <1>10, <1>11 DEF Pops

LEMMA AwaitReturnThrowIs ==
    ASSUME IndInv, AwaitReturnThrow
    PROVE  /\ \/ Pc(Top) = "return"
              \/ Pc(Top) = "run" /\ Kind(Top) = "user" /\ act[Top].i > Len(Body(Top))
           /\ status[Top] = "canceled" /\ Pops("completed", "throw")
<1>1. /\ running # Loop /\ Busy(running) /\ ~AtBase
      /\ \/ Pc(Top) = "return"
         \/ Pc(Top) = "run" /\ Kind(Top) = "user" /\ act[Top].i > Len(Body(Top))
  BY ReturnedIs DEF AwaitReturnThrow
<1>2. "completed" \in Status /\ status[Top] = "canceled"
  BY DEF Status, AwaitReturnThrow, EndStatus
<1>3. /\ BackToParent("completed") /\ PassBlockBack /\ Leave
      /\ act' = [act EXCEPT ![Top].pc = "none", ![Caller].pc = "throw"]
      /\ prog' = prog /\ running' = running
      /\ UNCHANGED <<uninterruptable, finish_to, completed_id, global_signal_canceled, armed, cancels>>
  BY DEF AwaitReturnThrow
<1>4. /\ act' \in [Task -> Activations]
      /\ act'[Top].pc = "none" /\ act'[Top].i = act[Top].i
      /\ act'[Caller].pc = "throw" /\ act'[Caller].i = act[Caller].i
      /\ act'[Caller].parent = act[Caller].parent
      /\ \A u \in Task : u # Top /\ u # Caller => act'[u] = act[u]
  BY <1>1, <1>3, PopActs
<1>5. /\ block_to' \in [Task -> Task \cup {Loop}]
      /\ block_to'[Caller] = block_to[Top]
      /\ \A u \in Task : u # Top /\ u # Caller => block_to'[u] = block_to[u]
  BY <1>1, <1>3, PassBlockIs
<1>6. {block_to'} \subseteq [Task -> Task \cup {Loop}]
  BY <1>5
<1>7. /\ TypeOK' /\ global_current_task' = Caller
      /\ stack' = [stack EXCEPT ![running] = Tail(@)]
      /\ reuse' = [reuse EXCEPT ![Caller] = Loop]
      /\ uid' = [uid EXCEPT ![Top] = Loop]
      /\ status' = [status EXCEPT ![Top] = "completed"]
  BY <1>1, <1>2, <1>3, <1>4, <1>6, PopTypes
<1> QED
  BY <1>1, <1>2, <1>3, <1>4, <1>5, <1>7 DEF Pops

LEMMA AwaitRethrowIs ==
    ASSUME IndInv, AwaitRethrow
    PROVE  Pc(Top) = "caught" /\ status[Top] = "canceled" /\ Pops("canceled", "throw")
<1>1. /\ running # Loop /\ Busy(running) /\ ~AtBase /\ Pc(Top) = "caught" /\ Top \in Task
  BY AtTop DEF AwaitRethrow
<1>2. "canceled" \in Status /\ status[Top] = "canceled"
  BY <1>1 DEF Status, IndInv, DoomInv
<1>3. /\ BackToParent("canceled") /\ Leave
      /\ act' = [act EXCEPT ![Top].pc = "none", ![Caller].pc = "throw"]
      /\ prog' = prog /\ running' = running /\ block_to' = block_to
      /\ UNCHANGED <<uninterruptable, finish_to, completed_id, global_signal_canceled, armed, cancels>>
  BY <1>2 DEF AwaitRethrow
<1>4. /\ act' \in [Task -> Activations]
      /\ act'[Top].pc = "none" /\ act'[Top].i = act[Top].i
      /\ act'[Caller].pc = "throw" /\ act'[Caller].i = act[Caller].i
      /\ act'[Caller].parent = act[Caller].parent
      /\ \A u \in Task : u # Top /\ u # Caller => act'[u] = act[u]
  BY <1>1, <1>3, PopActs
<1>5. {block_to'} \subseteq [Task -> Task \cup {Loop}]
  BY <1>3 DEF IndInv, TypeOK
<1>6. block_to[Top] = Loop
  BY <1>1, TopFacts DEF IndInv, BlockInv, Leaving
<1>7. /\ TypeOK' /\ global_current_task' = Caller
      /\ stack' = [stack EXCEPT ![running] = Tail(@)]
      /\ reuse' = [reuse EXCEPT ![Caller] = Loop]
      /\ uid' = [uid EXCEPT ![Top] = Loop]
      /\ status' = [status EXCEPT ![Top] = "canceled"]
  BY <1>1, <1>2, <1>3, <1>4, <1>5, PopTypes
<1>8. block_to[Caller] = Loop
  BY <1>1, CallerFacts
<1> QED
  BY <1>1, <1>2, <1>3, <1>4, <1>6, <1>7, <1>8 DEF Pops

\* The end of the task of a coroutine.
LEMMA RuntimeFinishIs ==
    ASSUME IndInv, RuntimeFinish
    PROVE  /\ running # Loop /\ running \in Task /\ Busy(running) /\ Top = running /\ Inner(running) = running
           /\ \/ Pc(running) \in {"return", "caught"}
              \/ Pc(running) = "run" /\ Kind(running) = "user" /\ act[running].i > Len(Body(running))
           /\ finish_to[running] # Loop => running' = finish_to[running]
           /\ finish_to[running] = Loop => running' = block_to[running]
           /\ global_current_task' = running'
           /\ status' = [status EXCEPT ![running] = IF finish_to[running] = Loop /\ running # TopTask
                                                      THEN "deleted" ELSE EndStatus(running)]
           /\ stack' = [stack EXCEPT ![running] = <<>>]
           /\ act'[running].pc = "none" /\ act'[running].i = act[running].i
           /\ \A u \in Task : u # running => act'[u] = act[u]
           /\ prog' = prog
           /\ UNCHANGED <<uninterruptable, reuse, uid, block_to, finish_to, completed_id,
                          global_signal_canceled, armed, cancels>>
           /\ TypeOK'
<1>1. /\ running # Loop /\ Busy(running) /\ AtBase
      /\ \/ Pc(Top) \in {"return", "caught"}
         \/ Pc(Top) = "run" /\ Kind(Top) = "user" /\ act[Top].i > Len(Body(Top))
  BY ReturnedIs, AtTop DEF RuntimeFinish
<1>2. running \in Task /\ Top = running /\ Inner(running) = running
  BY <1>1, TopFacts, BusyFacts DEF AtBase
<1>3. /\ running' = IF finish_to[running] # Loop \/ block_to[running] = Loop
                      THEN finish_to[running] ELSE block_to[running]
      /\ global_current_task' = running'
      /\ status' = [status EXCEPT ![running] = IF finish_to[running] = Loop /\ running # TopTask
                                                 THEN "deleted" ELSE EndStatus(running)]
      /\ act' = [act EXCEPT ![running].pc = "none"]
      /\ stack' = [stack EXCEPT ![running] = Tail(@)]
      /\ prog' = prog
      /\ UNCHANGED <<uninterruptable, reuse, uid, block_to, finish_to, completed_id,
                     global_signal_canceled, armed, cancels>>
  BY <1>2 DEF RuntimeFinish, Swap, Leave
<1>4. stack' = [stack EXCEPT ![running] = <<>>] /\ stack' \in [Task -> Seq(Task)]
  BY <1>1, <1>3, StackTail
<1> DEFINE g == [act[running] EXCEPT !.pc = "none"]
<1>5. g \in Activations /\ g.pc = "none" /\ g.i = act[running].i
  BY <1>2, StackTypes DEF Activations, Points
<1>6. act' = [act EXCEPT ![running] = g] /\ act \in [Task -> Activations]
  BY <1>3 DEF IndInv, TypeOK
<1> HIDE DEF g
<1>7. /\ act'[running].pc = "none" /\ act'[running].i = act[running].i
      /\ \A u \in Task : u # running => act'[u] = act[u]
      /\ act' \in [Task -> Activations]
  BY <1>2, <1>5, <1>6
<1>8. EndStatus(running) \in Status
  BY <1>2 DEF EndStatus, IndInv, TypeOK, Status
<1>9. status' \in [Task -> Status] /\ running' \in Task \cup {Loop}
  <2>1. {"deleted"} \subseteq Status
    BY DEF Status
  <2> QED
    BY <1>2, <1>3, <1>8, <2>1 DEF IndInv, TypeOK
<1>10. TypeOK'
  BY <1>3, <1>4, <1>7, <1>9 DEF IndInv, TypeOK, Kind, Children
<1> QED
  BY <1>1, <1>2, <1>3, <1>4, <1>7, <1>10

\* An event fires.
LEMMA EventFiresIs ==
    ASSUME IndInv, NEW t \in Task, EventFires(t)
    PROVE  /\ running = Loop /\ t \in armed /\ Kind(t) = "event" /\ Pc(t) = "wait"
           /\ uid[t] \in Task /\ Busy(uid[t]) /\ Inner(uid[t]) = t
           /\ running' = uid[t] /\ global_current_task' = uid[t] /\ armed' = armed \ {t}
           /\ ~global_signal_canceled
           /\ UNCHANGED <<prog, status, uninterruptable, reuse, uid, block_to, finish_to, completed_id,
                          global_signal_canceled, stack, act, cancels>>
           /\ TypeOK'
<1>1. /\ running = Loop /\ t \in armed
      /\ running' = uid[t] /\ global_current_task' = uid[t] /\ armed' = armed \ {t}
      /\ UNCHANGED <<prog, status, uninterruptable, reuse, uid, block_to, finish_to, completed_id,
                     global_signal_canceled, stack, act, cancels>>
  BY DEF EventFires, Swap, objectVars
<1>2. Kind(t) = "event" /\ Pc(t) \in {"wait", "throw"} /\ (Pc(t) = "throw" => uid[t] = running)
  BY <1>1 DEF IndInv, ArmedInv
<1>3. uid[t] \in Task /\ Busy(uid[t]) /\ (t # Inner(uid[t]) => Kind(t) = "user")
  BY <1>2, LiveFacts
<1>4. Pc(t) = "wait"
  BY <1>1, <1>2, <1>3, TopAssumption
<1>5. ~global_signal_canceled
  BY <1>1 DEF IndInv, SignalInv
<1>6. TypeOK'
  BY <1>1, <1>3 DEF IndInv, TypeOK, Kind, Children
<1> QED
  BY <1>1, <1>2, <1>3, <1>4, <1>5, <1>6

-----------------------------------------------------------------------------
(***************************************************************************)
(* Every part of the invariant is preserved.                               *)
(***************************************************************************)

\* Stacks.

LEMMA StackKept ==
    ASSUME IndInv, Keeps
    PROVE  StackInv'
<1>1. /\ running # Loop /\ Busy(running)
      /\ prog' = prog /\ stack' = stack /\ uid' = uid /\ reuse' = reuse
      /\ act'[Top].pc # "none" /\ act'[Top].parent = act[Top].parent
      /\ \A u \in Task : u # Top => act'[u] = act[u]
      /\ \A u \in Task : Pc(u) # "none" /\ u # Top => block_to'[u] = block_to[u]
  BY DEF Keeps
<1>2. Shape' = Shape
  BY <1>1, SameShape
<1>3. /\ running \in Task /\ Top = stack[running][1] /\ Top \in Task /\ uid[Top] = running
      /\ Pc(Top) # "none"
  BY <1>1, TopFacts DEF Inner
<1>4. \A c \in Task : Len(stack[c]) \in Nat /\ \A k \in 1..Len(stack[c]) : stack[c][k] \in Task
  BY StackTypes
<1>5. \A t \in Task : (Pc(t)' = "none" <=> Pc(t) = "none") /\ act'[t].parent = act[t].parent
  BY <1>1, <1>3 DEF Pc
\* Below the innermost task nothing moves.
<1>6. ASSUME NEW c \in Task, NEW k \in 1..Len(stack[c]), k > 1
      PROVE  /\ stack[c][k] # Top /\ stack[c][k] \in Task /\ Frame(c, k)
             /\ act'[stack[c][k]] = act[stack[c][k]]
             /\ block_to'[stack[c][k]] = block_to[stack[c][k]]
  <2>1. stack[c][k] \in Task /\ Frame(c, k)
    BY <1>4 DEF IndInv, StackInv
  <2>2. stack[c][k] # Top
    <3> SUFFICES ASSUME stack[c][k] = Top PROVE FALSE
      OBVIOUS
    <3>1. c = running
      BY <1>3, <2>1 DEF Frame
    <3>2. 1 \in 1..Len(stack[c]) /\ 1 < k
      BY <1>4, <1>6
    <3>3. Rank(stack[c][1]) < Rank(stack[c][k])
      BY <1>6, <3>2 DEF IndInv, StackInv
    <3>4. Rank(Top) \in Nat
      BY <1>3, TaskFacts DEF IndInv
    <3> QED
      BY <1>3, <3>1, <3>3, <3>4
  <2> QED
    BY <1>1, <2>1, <2>2 DEF Frame
<1>7. ASSUME NEW c \in Task, NEW k \in 1..Len(stack[c]) PROVE Frame(c, k)'
  <2>1. stack[c][k] \in Task /\ Frame(c, k)
    BY <1>4 DEF IndInv, StackInv
  <2>2. k > 1 => /\ block_to'[stack[c][k]] = Loop /\ act'[stack[c][k]].pc = "run"
    BY <1>6, <2>1 DEF Frame, Pc
  <2> QED
    BY <1>1, <1>2, <1>5, <2>1, <2>2 DEF Frame, Pc, Level
<1>8. ASSUME NEW c \in Task, NEW k \in 1..(Len(stack[c]) - 1)
      PROVE  Link(stack[c][k], stack[c][k + 1])'
  <2>1. Link(stack[c][k], stack[c][k + 1]) /\ stack[c][k] \in Task
    BY <1>4 DEF IndInv, StackInv
  <2>2. k + 1 \in 1..Len(stack[c]) /\ k + 1 > 1
    BY <1>4
  <2>3. act'[stack[c][k + 1]] = act[stack[c][k + 1]] /\ stack[c][k + 1] \in Task
    BY <1>6, <2>2
  <2> QED
    BY <1>1, <1>5, <2>1, <2>3 DEF Link, Kind, Body
<1>9. (\A c \in Task : \A k \in 1..Len(stack[c]) : Frame(c, k))'
  BY <1>1, <1>7
<1>10. (\A c \in Task : \A k \in 1..(Len(stack[c]) - 1) : Link(stack[c][k], stack[c][k + 1]))'
  BY <1>1, <1>8
<1>11. (\A c \in Task : \A k, l \in 1..Len(stack[c]) : k < l => Rank(stack[c][k]) < Rank(stack[c][l]))'
  BY <1>1, <1>2 DEF Rank, IndInv, StackInv
<1>12. (\A t \in Task : Pc(t) # "none" =>
          uid[t] \in Task /\ \E k \in 1..Len(stack[uid[t]]) : stack[uid[t]][k] = t)'
  BY <1>1, <1>5 DEF IndInv, StackInv
<1>13. (\A t \in Task : Pc(t) = "none" => reuse[t] = Loop)'
  BY <1>1, <1>5 DEF IndInv, StackInv
<1> QED
  BY <1>9, <1>10, <1>11, <1>12, <1>13 DEF StackInv

\* The stacks of other coroutines, where only tasks with another uid change.
LEMMA OtherStack ==
    ASSUME IndInv, NEW c \in Task, stack'[c] = stack[c], prog' = prog,
           \A u \in Task : Pc(u) # "none" /\ uid[u] = c =>
                /\ act'[u] = act[u] /\ uid'[u] = uid[u] /\ reuse'[u] = reuse[u]
                /\ block_to'[u] = block_to[u]
    PROVE  /\ \A k \in 1..Len(stack'[c]) : Frame(c, k)'
           /\ \A k \in 1..(Len(stack'[c]) - 1) : Link(stack[c][k], stack[c][k + 1])'
           /\ \A k, l \in 1..Len(stack'[c]) : k < l => (Rank(stack[c][k]) < Rank(stack[c][l]))'
<1>1. Shape' = Shape
  BY SameShape
<1>2. Len(stack[c]) \in Nat /\ \A k \in 1..Len(stack[c]) : stack[c][k] \in Task /\ Frame(c, k)
  BY StackTypes DEF IndInv, StackInv
<1>3. \A k \in 1..Len(stack[c]) :
        /\ act'[stack[c][k]] = act[stack[c][k]] /\ uid'[stack[c][k]] = uid[stack[c][k]]
        /\ reuse'[stack[c][k]] = reuse[stack[c][k]] /\ block_to'[stack[c][k]] = block_to[stack[c][k]]
  BY <1>2 DEF Frame
<1>4. ASSUME NEW k \in 1..Len(stack[c]) PROVE Frame(c, k)'
  <2>1. k = Len(stack[c]) => stack[c][k] = c
    BY <1>2 DEF Frame
  <2> QED
    BY <1>1, <1>2, <1>3, <2>1 DEF Frame, Pc, Level
<1>5. ASSUME NEW k \in 1..(Len(stack[c]) - 1) PROVE Link(stack[c][k], stack[c][k + 1])'
  <2>1. Link(stack[c][k], stack[c][k + 1])
    BY DEF IndInv, StackInv
  <2>2. k \in 1..Len(stack[c]) /\ k + 1 \in 1..Len(stack[c])
    BY <1>2
  <2>3. /\ act'[stack[c][k]] = act[stack[c][k]] /\ act'[stack[c][k + 1]] = act[stack[c][k + 1]]
        /\ reuse'[stack[c][k + 1]] = reuse[stack[c][k + 1]]
    BY <1>3, <2>2
  <2> QED
    BY <2>1, <2>3 DEF Link, Kind, Body
<1>6. \A k, l \in 1..Len(stack[c]) : k < l => (Rank(stack[c][k]) < Rank(stack[c][l]))'
  BY <1>1 DEF Rank, IndInv, StackInv
<1> QED
  BY <1>4, <1>5, <1>6

LEMMA StackTaskRuntime ==
    ASSUME IndInv, TaskRuntime
    PROVE  StackInv'
<1>0. PICK r : r = running
  OBVIOUS
<1>1. /\ r \in Task /\ ~Busy(r) /\ Pc(r) = "none" /\ uid[r] = r /\ reuse[r] = Loop
      /\ stack' = [stack EXCEPT ![r] = <<r>>] /\ prog' = prog
      /\ act'[r].pc = "run" /\ act'[r].parent = Loop
      /\ \A u \in Task : u # r => act'[u] = act[u]
      /\ uid' = uid /\ reuse' = reuse /\ block_to' = block_to
  BY <1>0, TaskRuntimeIs
<1>2. PICK s : /\ s = stack' /\ s[r] = <<r>> /\ Len(s[r]) = 1 /\ s[r][1] = r
               /\ \A c \in Task : c # r => s[c] = stack[c]
  <2>1. stack \in [Task -> Seq(Task)]
    BY DEF IndInv, TypeOK
  <2>2. stack'[r] = <<r>> /\ \A c \in Task : c # r => stack'[c] = stack[c]
    BY <1>1, <2>1
  <2>3. Len(<<r>>) = 1 /\ <<r>>[1] = r
    OBVIOUS
  <2> QED
    BY <2>2, <2>3
<1>3. ASSUME NEW c \in Task, c # r
      PROVE  /\ \A k \in 1..Len(stack'[c]) : Frame(c, k)'
             /\ \A k \in 1..(Len(stack'[c]) - 1) : Link(stack[c][k], stack[c][k + 1])'
             /\ \A k, l \in 1..Len(stack'[c]) : k < l => (Rank(stack[c][k]) < Rank(stack[c][l]))'
  <2>1. stack'[c] = stack[c]
    BY <1>2, <1>3
  <2>2. \A u \in Task : Pc(u) # "none" /\ uid[u] = c =>
                /\ act'[u] = act[u] /\ uid'[u] = uid[u] /\ reuse'[u] = reuse[u]
                /\ block_to'[u] = block_to[u]
    BY <1>1
  <2> QED
    BY <1>1, <2>1, <2>2, OtherStack
<1>4. \A k \in 1..Len(stack'[r]) : Frame(r, k)'
  BY <1>1, <1>2 DEF Frame, Pc
<1>5. /\ \A k \in 1..(Len(stack'[r]) - 1) : Link(stack[r][k], stack[r][k + 1])'
      /\ \A k, l \in 1..Len(stack'[r]) : k < l => (Rank(stack[r][k]) < Rank(stack[r][l]))'
  BY <1>2
<1>6. ASSUME NEW t \in Task, Pc(t)' # "none"
      PROVE  uid'[t] \in Task /\ \E k \in 1..Len(stack'[uid'[t]]) : stack'[uid'[t]][k] = t
  <2>1. CASE t = r
    BY <1>1, <1>2, <2>1
  <2>2. CASE t # r
    <3>1. Pc(t) # "none"
      BY <1>1, <1>6, <2>2 DEF Pc
    <3>2. uid[t] \in Task /\ Busy(uid[t]) /\ \E k \in 1..Len(stack[uid[t]]) : stack[uid[t]][k] = t
      BY <3>1, LiveFacts DEF IndInv, StackInv
    <3>3. uid[t] # r
      BY <1>1, <3>2
    <3> QED
      BY <1>1, <1>2, <3>2, <3>3
  <2> QED
    BY <2>1, <2>2
<1>7. \A t \in Task : Pc(t)' = "none" => reuse'[t] = Loop
  BY <1>1 DEF Pc, IndInv, StackInv
<1> QED
  BY <1>3, <1>4, <1>5, <1>6, <1>7 DEF StackInv

LEMMA StackAwait ==
    ASSUME IndInv, Await
    PROVE  StackInv'
<1>0. PICK r, t, u : r = running /\ t = Target /\ u = Top
  OBVIOUS
<1>1. /\ r \in Task /\ AtCall("await") /\ prog' = prog
      /\ block_to' = [block_to EXCEPT ![t] = block_to[u], ![u] = Loop]
      /\ uid' = [uid EXCEPT ![t] = r] /\ reuse' = [reuse EXCEPT ![u] = t]
      /\ stack' = [stack EXCEPT ![r] = <<t>> \o @]
      /\ act'[t].pc = "run" /\ act'[t].parent = u
      /\ act'[u].pc = "run" /\ act'[u].i = act[u].i + 1 /\ act'[u].parent = act[u].parent
      /\ \A v \in Task : v # u /\ v # t => act'[v] = act[v]
  BY <1>0, AwaitIs
<1>2. /\ Busy(r) /\ u \in Task /\ u = Inner(r) /\ uid[u] = r /\ Pc(u) = "run" /\ Kind(u) = "user"
      /\ act[u].i \in DOMAIN Body(u) /\ Body(u)[act[u].i] = <<"await", t>> /\ Body(u)[act[u].i][2] = t
      /\ t \in Task /\ Pc(t) = "none" /\ t # u
  BY <1>0, <1>1, CallIs
<1>3. Level(t) = Level(u) /\ Rank(t) < Rank(u) /\ Level(u) = Level(r)
  <2>1. Body(u)[act[u].i][1] = "await"
    BY <1>2
  <2> QED
    BY <1>1, <1>2, <2>1, CallFacts, BusyFacts DEF IndInv
<1>4. /\ stack[r] \in Seq(Task) /\ Len(stack[r]) \in Nat /\ Len(stack[r]) >= 1
      /\ \A k \in 1..Len(stack[r]) : stack[r][k] \in Task /\ Frame(r, k)
      /\ stack[r][1] = u
  BY <1>1, <1>2, StackTypes DEF IndInv, StackInv, Inner
<1>q. PICK q : q = <<t>> \o stack[r]
  OBVIOUS
<1>5. /\ Len(q) = Len(stack[r]) + 1 /\ q[1] = t
      /\ \A k \in 2..(Len(stack[r]) + 1) : q[k] = stack[r][k - 1]
  <2>1. <<t>> \in Seq(Task) /\ Len(<<t>>) = 1 /\ <<t>>[1] = t
    BY <1>2
  <2>2. /\ Len(q) = 1 + Len(stack[r])
        /\ \A i \in 1..(1 + Len(stack[r])) : q[i] = IF i <= 1 THEN <<t>>[i] ELSE stack[r][i - 1]
    BY <1>q, <1>4, <2>1, ConcatProperties
  <2> QED
    BY <1>4, <2>1, <2>2
<1>6. stack'[r] = q /\ \A c \in Task : c # r => stack'[c] = stack[c]
  BY <1>q, <1>1 DEF IndInv, TypeOK
<1>7. /\ uid'[t] = r /\ \A v \in Task : v # t => uid'[v] = uid[v]
      /\ reuse'[u] = t /\ \A v \in Task : v # u => reuse'[v] = reuse[v]
      /\ block_to'[u] = Loop /\ \A v \in Task : v # u /\ v # t => block_to'[v] = block_to[v]
  BY <1>1, <1>2 DEF IndInv, TypeOK
<1>8. \A v \in Task : Pc(v) # "none" => v # t
  BY <1>2
<1>9. ASSUME NEW c \in Task, c # r
      PROVE  /\ \A k \in 1..Len(stack'[c]) : Frame(c, k)'
             /\ \A k \in 1..(Len(stack'[c]) - 1) : Link(stack[c][k], stack[c][k + 1])'
             /\ \A k, l \in 1..Len(stack'[c]) : k < l => (Rank(stack[c][k]) < Rank(stack[c][l]))'
  <2>1. stack'[c] = stack[c]
    BY <1>6, <1>9
  <2>2. \A v \in Task : Pc(v) # "none" /\ uid[v] = c =>
                /\ act'[v] = act[v] /\ uid'[v] = uid[v] /\ reuse'[v] = reuse[v]
                /\ block_to'[v] = block_to[v]
    BY <1>1, <1>2, <1>7, <1>8, <1>9
  <2> QED
    BY <1>1, <2>1, <2>2, OtherStack
<1>10. Shape' = Shape
  BY <1>1, SameShape
\* The tasks that were on the stack.
<1>11. ASSUME NEW k \in 1..Len(stack[r])
       PROVE  /\ stack[r][k] \in Task /\ stack[r][k] # t /\ uid'[stack[r][k]] = r
              /\ act'[stack[r][k]].parent = act[stack[r][k]].parent
              /\ block_to'[stack[r][k]] = Loop /\ act'[stack[r][k]].pc = "run"
              /\ k # 1 => stack[r][k] # u /\ act'[stack[r][k]] = act[stack[r][k]]
                          /\ reuse'[stack[r][k]] = reuse[stack[r][k]]
  <2>1. stack[r][k] \in Task /\ Frame(r, k)
    BY <1>4
  <2>2. stack[r][k] # t
    BY <1>2, <2>1 DEF Frame
  <2>3. k # 1 => stack[r][k] # u
    <3>1. 1 < k => Rank(stack[r][1]) < Rank(stack[r][k])
      <4>1. PICK n \in Nat : n = Len(stack[r]) /\ n >= 1
        BY <1>4
      <4>2. 1 \in 1..Len(stack[r])
        BY <4>1
      <4> QED
        BY <1>1, <4>2 DEF IndInv, StackInv
    <3>2. Rank(u) \in Nat
      BY <1>2, TaskFacts DEF IndInv
    <3> QED
      BY <1>4, <3>1, <3>2
  <2>4. k # 1 => block_to[stack[r][k]] = Loop /\ Pc(stack[r][k]) = "run"
    BY <2>1 DEF Frame
  <2> QED
    BY <1>1, <1>4, <1>7, <2>1, <2>2, <2>3, <2>4 DEF Frame, Pc
<1>12. ASSUME NEW k \in 1..Len(q) PROVE Frame(r, k)'
  <2>1. CASE k = 1
    <3>1. reuse'[t] = Loop
      BY <1>2, <1>7 DEF IndInv, StackInv
    <3>2. 1 # Len(q)
      BY <1>4, <1>5
    <3> QED
      BY <1>1, <1>3, <1>5, <1>6, <1>7, <1>10, <2>1, <3>1, <3>2 DEF Frame, Pc, Level
  <2>2. CASE k # 1
    <3>1. PICK l \in 1..Len(stack[r]) : l = k - 1 /\ q[k] = stack[r][l]
      BY <1>4, <1>5, <2>2
    <3>2. Frame(r, l) /\ (k = Len(q) <=> l = Len(stack[r])) /\ k > 1
      BY <1>4, <1>5, <2>2, <3>1
    <3>3. /\ Level(stack[r][l]) = Level(r)
          /\ l = Len(stack[r]) => stack[r][l] = r /\ act[r].parent = Loop
      BY <3>2 DEF Frame
    <3>4. k = Len(q) => stack[r][l] = r /\ act'[r].parent = Loop
      BY <1>11, <3>2, <3>3
    <3> QED
      BY <1>6, <1>10, <1>11, <2>2, <3>1, <3>2, <3>3, <3>4 DEF Frame, Pc, Level
  <2> QED
    BY <2>1, <2>2
<1>13. ASSUME NEW k \in 1..(Len(q) - 1) PROVE Link(stack[r][k], stack[r][k + 1])'
  <2>1. CASE k = 1
    <3>1. q[1] = t /\ q[1 + 1] = u
      BY <1>4, <1>5
    <3>2. act'[u].i - 1 = act[u].i
      BY <1>1, <1>2, StackTypes
    <3> QED
      BY <1>1, <1>2, <1>6, <1>7, <2>1, <3>1, <3>2 DEF Link, Kind, Body
  <2>2. CASE k # 1
    <3>1. PICK l \in 1..(Len(stack[r]) - 1) : /\ l = k - 1 /\ q[k] = stack[r][l]
                                              /\ q[k + 1] = stack[r][l + 1]
      <4>1. PICK n \in Nat : n = Len(stack[r]) /\ n >= 1 /\ Len(q) = n + 1
        BY <1>4, <1>5
      <4>2. /\ k \in 1..n /\ k - 1 \in 1..(n - 1) /\ (k - 1) + 1 = k /\ (k + 1) - 1 = k
            /\ k \in 2..(n + 1) /\ k + 1 \in 2..(n + 1)
        BY <4>1, <2>2
      <4>3. q[k] = stack[r][k - 1] /\ q[k + 1] = stack[r][(k + 1) - 1]
        BY <1>5, <4>1, <4>2
      <4> QED
        BY <4>1, <4>2, <4>3
    <3>2. Link(stack[r][l], stack[r][l + 1])
      BY <1>1 DEF IndInv, StackInv
    <3>3. l \in 1..Len(stack[r]) /\ l + 1 \in 1..Len(stack[r]) /\ l + 1 # 1
      BY <1>4
    <3>4. PICK v, w : v = stack[r][l] /\ w = stack[r][l + 1]
      OBVIOUS
    <3>5. /\ act'[v].parent = act[v].parent /\ act'[w] = act[w] /\ reuse'[w] = reuse[w]
      BY <1>11, <3>3, <3>4
    <3>6. Link(v, w)'
      BY <1>1, <3>2, <3>4, <3>5 DEF Link, Kind, Body
    <3> QED
      BY <1>6, <3>1, <3>4, <3>6
  <2> QED
    BY <2>1, <2>2
<1>14. ASSUME NEW k \in 1..Len(q), NEW l \in 1..Len(q), k < l
       PROVE  (Rank(stack[r][k]) < Rank(stack[r][l]))'
  <2>1. PICK m \in 1..Len(stack[r]) : m = l - 1 /\ q[l] = stack[r][m]
    BY <1>4, <1>5, <1>14
  <2>2. \A i \in 1..Len(stack[r]) : i < m => Rank(stack[r][i]) < Rank(stack[r][m])
    BY <1>1 DEF IndInv, StackInv
  <2>3. Rank(q[k]) < Rank(q[l])
    <3>1. CASE k = 1
      <4>1. Rank(u) <= Rank(stack[r][m])
        <5>1. m # 1 => Rank(stack[r][1]) < Rank(stack[r][m])
          BY <1>4, <2>2
        <5>2. Rank(u) \in Nat /\ Rank(stack[r][m]) \in Nat
          BY <1>2, <1>4, TaskFacts DEF IndInv
        <5> QED
          BY <1>4, <5>1, <5>2
      <4>2. Rank(t) \in Nat /\ Rank(u) \in Nat /\ Rank(stack[r][m]) \in Nat
        BY <1>2, <1>4, TaskFacts DEF IndInv
      <4> QED
        BY <1>3, <1>5, <2>1, <3>1, <4>1, <4>2
    <3>2. CASE k # 1
      <4>1. k - 1 \in 1..Len(stack[r]) /\ q[k] = stack[r][k - 1] /\ k - 1 < m
        BY <1>4, <1>5, <1>14, <2>1, <3>2
      <4> QED
        BY <2>1, <2>2, <4>1
    <3> QED
      BY <3>1, <3>2
  <2> QED
    BY <1>6, <1>10, <2>3 DEF Rank
<1>15. ASSUME NEW v \in Task, Pc(v)' # "none"
       PROVE  uid'[v] \in Task /\ \E k \in 1..Len(stack'[uid'[v]]) : stack'[uid'[v]][k] = v
  <2>1. CASE v = t
    <3>1. 1 \in 1..Len(q)
      BY <1>4, <1>5
    <3>2. stack'[uid'[v]] = q /\ uid'[v] = r /\ q[1] = v
      BY <1>1, <1>5, <1>6, <1>7, <2>1
    <3> QED
      BY <1>1, <3>1, <3>2
  <2>2. CASE v # t
    <3>1. Pc(v) # "none"
      BY <1>1, <1>2, <1>15, <2>2 DEF Pc
    <3>2. PICK k \in 1..Len(stack[uid[v]]) : uid[v] \in Task /\ stack[uid[v]][k] = v
      BY <3>1 DEF IndInv, StackInv
    <3>3. CASE uid[v] = r
      <4>1. k + 1 \in 1..Len(q) /\ q[k + 1] = stack[r][k]
        BY <1>4, <1>5, <3>2, <3>3
      <4> QED
        BY <1>6, <1>7, <2>2, <3>2, <3>3, <4>1
    <3>4. CASE uid[v] # r
      BY <1>6, <1>7, <2>2, <3>2, <3>4
    <3> QED
      BY <3>3, <3>4
  <2> QED
    BY <2>1, <2>2
<1>16. \A v \in Task : Pc(v)' = "none" => reuse'[v] = Loop
  BY <1>1, <1>2, <1>7 DEF Pc, IndInv, StackInv
<1>17. ASSUME NEW c \in Task
       PROVE  /\ \A k \in 1..Len(stack'[c]) : Frame(c, k)'
              /\ \A k \in 1..(Len(stack'[c]) - 1) : Link(stack[c][k], stack[c][k + 1])'
              /\ \A k, l \in 1..Len(stack'[c]) : k < l => (Rank(stack[c][k]) < Rank(stack[c][l]))'
  <2>1. CASE c = r
    <3>1. stack'[c] = q
      BY <1>6, <2>1
    <3> QED
      BY <1>12, <1>13, <1>14, <2>1, <3>1
  <2> QED
    BY <1>9, <2>1
<1> QED
  BY <1>15, <1>16, <1>17 DEF StackInv

LEMMA StackPops ==
    ASSUME IndInv, NEW s, NEW pc, pc # "none", Pops(s, pc)
    PROVE  StackInv'
<1>0. PICK r, t, u, q : r = running /\ t = Top /\ u = Caller /\ q = Tail(stack[r])
  OBVIOUS
<1>1. /\ r # Loop /\ Busy(r) /\ ~AtBase /\ prog' = prog
      /\ stack' = [stack EXCEPT ![r] = q]
      /\ reuse' = [reuse EXCEPT ![u] = Loop] /\ uid' = [uid EXCEPT ![t] = Loop]
      /\ act'[t].pc = "none" /\ act'[u].pc = pc /\ act'[u].i = act[u].i /\ act'[u].parent = act[u].parent
      /\ \A v \in Task : v # t /\ v # u => act'[v] = act[v] /\ block_to'[v] = block_to[v]
  BY <1>0 DEF Pops
<1>2. /\ r \in Task /\ t \in Task /\ t = stack[r][1] /\ uid[t] = r /\ Pc(t) # "none"
  BY <1>0, <1>1, TopFacts DEF Inner
<1>3. /\ u \in Task /\ u # t /\ u = stack[r][2] /\ Pc(u) = "run" /\ uid[u] = r /\ reuse[u] = t
  BY <1>0, <1>1, CallerFacts DEF Caller
<1>4. PICK n \in Nat : /\ n = Len(stack[r]) /\ n >= 2 /\ Len(q) = n - 1
                       /\ \A k \in 1..(n - 1) : q[k] = stack[r][k + 1]
  <2>1. Len(stack[r]) \in Nat /\ Len(stack[r]) >= 1 /\ Len(stack[r]) # 1
    BY <1>0, <1>1, <1>2, StackTypes DEF AtBase
  <2>2. PICK n \in Nat : n = Len(stack[r])
    BY <2>1
  <2>4. n >= 2
    <3>1. n >= 1
      BY <2>1, <2>2
    <3>2. n # 1
      BY <2>1, <2>2
    <3> QED
      BY <3>1, <3>2
  <2>3. /\ Len(q) = Len(stack[r]) - 1
        /\ \A k \in 1..(Len(stack[r]) - 1) : q[k] = stack[r][k + 1]
    BY <1>0, <1>1, StackTail
  <2> QED
    BY <2>2, <2>3, <2>4
<1>5. /\ stack'[r] = q /\ \A c \in Task : c # r => stack'[c] = stack[c]
      /\ reuse'[u] = Loop /\ uid'[t] = Loop
      /\ \A v \in Task : v # u => reuse'[v] = reuse[v]
      /\ \A v \in Task : v # t => uid'[v] = uid[v]
  BY <1>1, <1>2, <1>3 DEF IndInv, TypeOK
<1>6. Shape' = Shape
  BY <1>1, SameShape
<1>7. ASSUME NEW c \in Task, c # r
      PROVE  /\ \A k \in 1..Len(stack'[c]) : Frame(c, k)'
             /\ \A k \in 1..(Len(stack'[c]) - 1) : Link(stack[c][k], stack[c][k + 1])'
             /\ \A k, l \in 1..Len(stack'[c]) : k < l => (Rank(stack[c][k]) < Rank(stack[c][l]))'
  <2>1. stack'[c] = stack[c]
    BY <1>5, <1>7
  <2>2. \A v \in Task : Pc(v) # "none" /\ uid[v] = c =>
                /\ act'[v] = act[v] /\ uid'[v] = uid[v] /\ reuse'[v] = reuse[v]
                /\ block_to'[v] = block_to[v]
    BY <1>1, <1>2, <1>3, <1>5, <1>7
  <2> QED
    BY <1>1, <2>1, <2>2, OtherStack
\* The tasks that stay on the stack.
<1>8. ASSUME NEW k \in 1..n, k > 1
      PROVE  /\ stack[r][k] \in Task /\ Frame(r, k) /\ stack[r][k] # t
             /\ k > 2 => stack[r][k] # u
  <2>1. k \in 1..Len(stack[r]) /\ 1 \in 1..Len(stack[r]) /\ 2 \in 1..Len(stack[r])
    BY <1>4
  <2>2. stack[r][k] \in Task /\ Frame(r, k)
    BY <1>2, <2>1, StackTypes DEF IndInv, StackInv
  <2>3. /\ Rank(stack[r][1]) < Rank(stack[r][k])
        /\ k > 2 => Rank(stack[r][2]) < Rank(stack[r][k])
    BY <1>2, <1>8, <2>1 DEF IndInv, StackInv
  <2>4. Rank(t) \in Nat /\ Rank(u) \in Nat
    BY <1>2, <1>3, TaskFacts DEF IndInv
  <2> QED
    BY <1>2, <1>3, <2>2, <2>3, <2>4
<1>9. ASSUME NEW k \in 1..(n - 1) PROVE Frame(r, k)'
  <2>1. PICK l \in 1..n : l = k + 1 /\ l > 1 /\ (k > 1 <=> l > 2) /\ (k = 1 <=> l = 2)
                          /\ (k = n - 1 <=> l = n)
    BY <1>4
  <2>2. PICK v \in Task : v = stack[r][l] /\ q[k] = v /\ v # t /\ (l > 2 => v # u) /\ (l = 2 => v = u)
    BY <1>3, <1>4, <1>8, <2>1
  <2>3. /\ Pc(v) = "run" /\ uid[v] = r /\ Level(v) = Level(r) /\ block_to[v] = Loop
        /\ l = n => v = r /\ act[r].parent = Loop
    BY <1>4, <1>8, <2>1, <2>2 DEF Frame
  <2>4. /\ act'[v].pc # "none" /\ uid'[v] = r /\ act'[v].parent = act[v].parent
        /\ l = 2 => reuse'[v] = Loop
        /\ l > 2 => block_to'[v] = Loop /\ act'[v].pc = "run"
    BY <1>1, <1>3, <1>5, <2>2, <2>3 DEF Pc
  <2>5. l = n => v = r /\ act'[r].parent = Loop
    BY <2>3, <2>4
  <2>6. stack'[r][k] = v /\ Len(stack'[r]) = n - 1
    BY <1>4, <1>5, <2>2
  <2>7. Level(v)' = Level(r)'
    BY <1>6, <2>3 DEF Level
  <2> QED
    BY <2>1, <2>4, <2>5, <2>6, <2>7 DEF Frame, Pc
<1>10. ASSUME NEW k \in 1..(n - 2) PROVE Link(stack[r][k], stack[r][k + 1])'
  <2>1. PICK l \in 1..n : /\ l = k + 1 /\ l > 1 /\ l + 1 \in 1..n /\ l + 1 > 2
                          /\ l \in 1..(Len(stack[r]) - 1)
                          /\ k \in 1..(n - 1) /\ k + 1 \in 1..(n - 1)
    BY <1>4
  <2>2. PICK v \in Task, w \in Task : /\ v = stack[r][l] /\ w = stack[r][l + 1]
                                      /\ q[k] = v /\ q[k + 1] = w /\ v # t /\ w # t /\ w # u
    BY <1>4, <1>8, <2>1
  <2>3. Link(v, w)
    BY <1>2, <2>1, <2>2 DEF IndInv, StackInv
  <2>4. act'[v].parent = act[v].parent /\ act'[w] = act[w] /\ reuse'[w] = reuse[w]
    BY <1>1, <1>5, <2>2
  <2>5. Link(v, w)'
    BY <1>1, <2>3, <2>4 DEF Link, Kind, Body
  <2>6. stack'[r][k] = v /\ stack'[r][k + 1] = w
    BY <1>5, <2>2
  <2> QED
    BY <2>5, <2>6
<1>11. ASSUME NEW k \in 1..(n - 1), NEW l \in 1..(n - 1), k < l
       PROVE  (Rank(stack[r][k]) < Rank(stack[r][l]))'
  <2>1. k + 1 \in 1..Len(stack[r]) /\ l + 1 \in 1..Len(stack[r]) /\ k + 1 < l + 1
    BY <1>4, <1>11
  <2>2. Rank(stack[r][k + 1]) < Rank(stack[r][l + 1])
    BY <1>2, <2>1 DEF IndInv, StackInv
  <2>3. stack'[r][k] = stack[r][k + 1] /\ stack'[r][l] = stack[r][l + 1]
    BY <1>4, <1>5
  <2> QED
    BY <1>6, <2>2, <2>3 DEF Rank
<1>12. ASSUME NEW v \in Task, Pc(v)' # "none"
       PROVE  uid'[v] \in Task /\ \E k \in 1..Len(stack'[uid'[v]]) : stack'[uid'[v]][k] = v
  <2>1. v # t /\ Pc(v) # "none" /\ uid'[v] = uid[v]
    BY <1>1, <1>3, <1>5, <1>12 DEF Pc
  <2>2. PICK k \in 1..Len(stack[uid[v]]) : uid[v] \in Task /\ stack[uid[v]][k] = v
    BY <2>1 DEF IndInv, StackInv
  <2>3. CASE uid[v] = r
    <3>1. k \in 1..n /\ k # 1
      BY <1>2, <1>4, <2>1, <2>2, <2>3
    <3>2. k - 1 \in 1..(n - 1) /\ (k - 1) + 1 = k
      BY <3>1
    <3>3. q[k - 1] = stack[r][k]
      BY <1>4, <3>2
    <3> QED
      BY <1>4, <1>5, <2>1, <2>2, <2>3, <3>2, <3>3
  <2>4. CASE uid[v] # r
    BY <1>5, <2>1, <2>2, <2>4
  <2> QED
    BY <2>3, <2>4
<1>13. ASSUME NEW v \in Task, Pc(v)' = "none" PROVE reuse'[v] = Loop
  <2>1. CASE v = t
    BY <1>1, <1>2, <1>3, <1>5, <2>1, BusyFacts DEF Inner
  <2>2. CASE v = u
    BY <1>5, <2>2
  <2>3. CASE v # t /\ v # u
    BY <1>1, <1>5, <1>13, <2>3 DEF Pc, IndInv, StackInv
  <2> QED
    BY <2>1, <2>2, <2>3
<1>14. ASSUME NEW c \in Task
       PROVE  /\ \A k \in 1..Len(stack'[c]) : Frame(c, k)'
              /\ \A k \in 1..(Len(stack'[c]) - 1) : Link(stack[c][k], stack[c][k + 1])'
              /\ \A k, l \in 1..Len(stack'[c]) : k < l => (Rank(stack[c][k]) < Rank(stack[c][l]))'
  <2>1. CASE c = r
    <3>1. Len(stack'[c]) = n - 1 /\ (n - 1) - 1 = n - 2
      BY <1>4, <1>5, <2>1
    <3> QED
      BY <1>9, <1>10, <1>11, <2>1, <3>1
  <2> QED
    BY <1>7, <2>1
<1> QED
  BY <1>12, <1>13, <1>14 DEF StackInv

LEMMA StackFinish ==
    ASSUME IndInv, RuntimeFinish
    PROVE  StackInv'
<1>0. PICK r : r = running
  OBVIOUS
<1>1. /\ r \in Task /\ Busy(r) /\ Inner(r) = r /\ prog' = prog
      /\ stack' = [stack EXCEPT ![r] = <<>>]
      /\ act'[r].pc = "none"
      /\ \A u \in Task : u # r => act'[u] = act[u]
      /\ uid' = uid /\ reuse' = reuse /\ block_to' = block_to
  BY <1>0, RuntimeFinishIs
<1>2. /\ stack'[r] = <<>> /\ Len(<<>>) = 0 /\ \A c \in Task : c # r => stack'[c] = stack[c]
  BY <1>1 DEF IndInv, TypeOK
<1>3. uid[r] = r /\ Len(stack[r]) = 1 /\ stack[r][1] = r /\ reuse[r] = Loop
  BY <1>1, BusyFacts DEF Inner
<1>4. ASSUME NEW c \in Task
      PROVE  /\ \A k \in 1..Len(stack'[c]) : Frame(c, k)'
             /\ \A k \in 1..(Len(stack'[c]) - 1) : Link(stack[c][k], stack[c][k + 1])'
             /\ \A k, l \in 1..Len(stack'[c]) : k < l => (Rank(stack[c][k]) < Rank(stack[c][l]))'
  <2>1. CASE c = r
    BY <1>2, <2>1
  <2>2. CASE c # r
    <3>1. \A u \in Task : Pc(u) # "none" /\ uid[u] = c =>
                /\ act'[u] = act[u] /\ uid'[u] = uid[u] /\ reuse'[u] = reuse[u]
                /\ block_to'[u] = block_to[u]
      BY <1>1, <1>3, <2>2
    <3> QED
      BY <1>1, <1>2, <2>2, <3>1, OtherStack
  <2> QED
    BY <2>1, <2>2
<1>5. ASSUME NEW t \in Task, Pc(t)' # "none"
      PROVE  uid'[t] \in Task /\ \E k \in 1..Len(stack'[uid'[t]]) : stack'[uid'[t]][k] = t
  <2>1. t # r /\ Pc(t) # "none"
    BY <1>1, <1>5 DEF Pc
  <2>2. PICK k \in 1..Len(stack[uid[t]]) : uid[t] \in Task /\ stack[uid[t]][k] = t
    BY <2>1 DEF IndInv, StackInv
  <2>3. uid[t] # r
    BY <1>3, <2>1, <2>2
  <2> QED
    BY <1>1, <1>2, <2>2, <2>3
<1>6. \A t \in Task : Pc(t)' = "none" => reuse'[t] = Loop
  BY <1>1, <1>3 DEF Pc, IndInv, StackInv
<1> QED
  BY <1>4, <1>5, <1>6 DEF StackInv

\* Steps that leave stacks and activations alone.
LEMMA StackSame ==
    ASSUME IndInv, UNCHANGED <<prog, reuse, uid, block_to, stack, act>>
    PROVE  StackInv'
<1>1. ASSUME NEW c \in Task
      PROVE  /\ \A k \in 1..Len(stack'[c]) : Frame(c, k)'
             /\ \A k \in 1..(Len(stack'[c]) - 1) : Link(stack[c][k], stack[c][k + 1])'
             /\ \A k, l \in 1..Len(stack'[c]) : k < l => (Rank(stack[c][k]) < Rank(stack[c][l]))'
  BY OtherStack
<1>2. /\ \A t \in Task : Pc(t) # "none" =>
            uid[t] \in Task /\ \E k \in 1..Len(stack[uid[t]]) : stack[uid[t]][k] = t
      /\ \A t \in Task : Pc(t) = "none" => reuse[t] = Loop
  BY DEF IndInv, StackInv
<1>3. /\ \A t \in Task : Pc(t)' # "none" =>
            uid'[t] \in Task /\ \E k \in 1..Len(stack'[uid'[t]]) : stack'[uid'[t]][k] = t
      /\ \A t \in Task : Pc(t)' = "none" => reuse'[t] = Loop
  BY <1>2 DEF Pc
<1> QED
  BY <1>1, <1>3 DEF StackInv

-----------------------------------------------------------------------------
\* The steps, case by case.
AllOfBackYields == AllOfChildBack /\ Here.i = Len(Children(Top)) /\ Count(Here) > 0
AllOfBackGoesOn == AllOfChildBack /\ ~(Here.i = Len(Children(Top)) /\ Count(Here) > 0)
AllOfWakeYields == AllOfWake /\ Here.n > 1
AllOfWakeEnds == AllOfWake /\ ~(Here.n > 1)
AnyOfBackWins == AnyOfChildBack /\ status[Children(Top)[Here.i]] = "completed"
AnyOfBackGoesOn == /\ AnyOfChildBack /\ status[Children(Top)[Here.i]] # "completed"
                   /\ Here.i < Len(Children(Top))
AnyOfBackYields == /\ AnyOfChildBack /\ status[Children(Top)[Here.i]] # "completed"
                   /\ ~(Here.i < Len(Children(Top)))
CanceledDirectlyLeaf == CanceledDirectly /\ Kind(Top) \notin Combinators
CanceledDirectlyComb == CanceledDirectly /\ Kind(Top) \in Combinators
CatchLeaf == Catch /\ Kind(Top) \notin Combinators
CatchComb == Catch /\ Kind(Top) \in Combinators
CancelEndYields == CancelEnd /\ Here.n > 0
CancelEndDone == CancelEnd /\ ~(Here.n > 0)
UnsupportYields == UnsupportWake /\ ~global_signal_canceled /\ Here.n > 1
UnsupportDone == UnsupportWake /\ ~global_signal_canceled /\ ~(Here.n > 1)

LEMMA StepCases ==
    ASSUME IndInv, [Next]_vars
    PROVE  \/ TaskRuntime \/ Await \/ Start \/ StartReject \/ EventRun \/ EventWake
           \/ ChildrenReady \/ ChildrenUnready \/ StartChild
           \/ AllOfBackYields \/ AllOfBackGoesOn \/ AnyOfBackWins \/ AnyOfBackGoesOn \/ AnyOfBackYields
           \/ AllOfWakeYields \/ AllOfWakeEnds \/ AnyOfWake
           \/ CanceledDirectlyLeaf \/ CanceledDirectlyComb \/ CanceledIndirectly
           \/ CatchLeaf \/ CatchComb
           \/ CancelSkip \/ CancelUnsupport \/ CancelInterrupt \/ CancelEndYields \/ CancelEndDone
           \/ UnsupportYields \/ UnsupportDone
           \/ AwaitReturn \/ AwaitReturnThrow \/ AwaitRethrow \/ RuntimeFinish
           \/ (\E t \in Task : EventFires(t)) \/ UNCHANGED vars
<1>1. CASE Step
  <2>1. ~AwaitReject
    BY NoAwaitReject
  <2>2. UnsupportWake => ~global_signal_canceled
    BY NoUnsupportInterrupt DEF UnsupportWake
  <2> QED
    BY <1>1, <2>1, <2>2 DEF Step, AllOfBackYields, AllOfBackGoesOn, AllOfWakeYields, AllOfWakeEnds,
         AnyOfBackWins, AnyOfBackGoesOn, AnyOfBackYields, CanceledDirectlyLeaf, CanceledDirectlyComb,
         CatchLeaf, CatchComb, CancelEndYields, CancelEndDone, UnsupportYields, UnsupportDone
<1> QED
  BY <1>1 DEF Next, Exit

\* Names do not change.
LEMMA SameProgram ==
    ASSUME prog' = prog
    PROVE  \A t \in Task : /\ Kind(t)' = Kind(t) /\ Children(t)' = Children(t) /\ Body(t)' = Body(t)
                           /\ Rank(t)' = Rank(t) /\ Level(t)' = Level(t)
BY SameShape DEF Kind, Children, Body

\* The coroutine that goes on when this one blocks.
LEMMA YieldTo ==
    ASSUME IndInv, running # Loop, Busy(running), ~Unwinds(running)
    PROVE  \/ block_to[Top] = Loop /\ \A c \in Task : ~Calling(c)
           \/ /\ block_to[Top] \in Task /\ block_to[Top] # running /\ block_to[Top] # Loop
              /\ Calling(block_to[Top]) /\ Busy(block_to[Top]) /\ Inner(block_to[Top]) \in Task
              /\ Inner(block_to[Top]) # Top
              /\ Calls(Inner(block_to[Top]), running)
              /\ Pc(Inner(block_to[Top])) \in {"run", "child"}
              /\ Pc(Inner(block_to[Top])) = "run" => Inner(block_to[Top]) = block_to[Top]
<1>0. PICK b : b = block_to[Top]
  OBVIOUS
<1>1. running \in Task /\ Top = Inner(running) /\ Blk(running) = b
  BY <1>0, TopFacts DEF Blk
<1>2. CASE b = Loop
  BY <1>0, <1>1, <1>2, NobodyBehind
<1>3. CASE b # Loop
  <2>1. b \in Task /\ Calling(b) /\ Calls(Inner(b), running)
    BY <1>1, <1>3 DEF IndInv, CallInv
  <2>2. b # running /\ Busy(b) /\ Inner(b) \in Task /\ Inner(b) # Top
    BY <2>1, TopFacts, BusyFacts DEF Calling
  <2>3. PICK d \in Task : /\ Calls(Inner(b), d)
                          /\ Pc(Inner(b)) = "run" => Inner(b) = b
                          /\ Pc(Inner(b)) = "cancel" => Unwinds(d)
    BY <2>1 DEF IndInv, CallInv
  <2>4. d = running /\ Pc(Inner(b)) \in {"run", "child", "cancel"}
    BY <1>1, <2>1, <2>2, <2>3, CallsWhat
  <2> QED
    BY <1>0, <1>1, <1>3, <2>1, <2>2, <2>3, <2>4
<1> QED
  BY <1>2, <1>3

\* A coroutine that unwinds runs the child of a combinator.
LEMMA UnwindingKid ==
    ASSUME IndInv, running # Loop, Busy(running), Unwinds(running)
    PROVE  IsKid(running) /\ Level(Top) >= 1
<1>1. running \in Task /\ Top = Inner(running) /\ Top \in Task /\ uid[Top] = running /\ Pc(Top) # "none"
  BY TopFacts
<1>2. Doomed(running)
  <2>1. CASE Leaving(Top)
    <3>1. Pc(Top) = "throw" \/ status[Top] = "canceled"
      BY <1>1, <2>1 DEF Leaving, IndInv, DoomInv
    <3> QED
      BY <1>1, <3>1 DEF Doomed
  <2>2. CASE global_signal_canceled
    <3>1. status[running] = "canceled"
      BY <2>2 DEF IndInv, SignalInv
    <3>2. Pc(running) # "none" /\ uid[running] = running
      BY <1>1, BusyFacts
    <3> QED
      BY <1>1, <3>1, <3>2 DEF Doomed
  <2>3. CASE Inner(running) = running /\ status[running] = "canceled"
    BY <1>1, <2>3 DEF Doomed
  <2> QED
    BY <1>1, <2>1, <2>2, <2>3 DEF Unwinds
<1>a. PICK k \in Task : \E j \in DOMAIN Children(k) : Children(k)[j] = running
  BY <1>1, <1>2 DEF IndInv, DoomInv
<1>3. PICK j \in DOMAIN Children(k) : Children(k)[j] = running
  BY <1>a
<1>4. Level(running) >= 1
  <2>1. Level(Children(k)[j]) = IF Level(k) = 0 THEN 1 ELSE 2
    BY KidFacts DEF IndInv
  <2> QED
    BY <1>3, <2>1
<1>5. Level(Top) = Level(running)
  BY <1>1, BusyFacts
<1> QED
  BY <1>3, <1>4, <1>5 DEF IsKid

\* The coroutine that goes on when this one ends.
LEMMA FinishTo ==
    ASSUME IndInv, RuntimeFinish
    PROVE  \/ running' = Loop /\ ~IsKid(running) /\ \A c \in Task : ~Calling(c)
           \/ \E b \in Task :
                /\ running' = b /\ b # running /\ Busy(b) /\ Inner(b) \in Task /\ Inner(b) # running
                /\ \/ /\ Calling(b) /\ Calls(Inner(b), running)
                      /\ \/ Pc(Inner(b)) = "run" /\ Inner(b) = b /\ ~IsKid(running)
                         \/ Pc(Inner(b)) \in {"child", "cancel"} /\ IsKid(running)
                   \/ /\ Pc(Inner(b)) \in Waits /\ \A c \in Task : ~Calling(c)
                      /\ \E j \in DOMAIN Children(Inner(b)) : Children(Inner(b))[j] = running
<1>1. /\ running # Loop /\ running \in Task /\ Busy(running) /\ Top = running /\ Inner(running) = running
      /\ finish_to[running] # Loop => running' = finish_to[running]
      /\ finish_to[running] = Loop => running' = block_to[running]
  BY RuntimeFinishIs
<1>2. CASE IsKid(running)
  <2>a. PICK k \in Task : \E j \in DOMAIN Children(k) : Children(k)[j] = running
    BY <1>2 DEF IsKid
  <2>1. PICK j \in DOMAIN Children(k) : Children(k)[j] = running
    BY <2>a
  <2>2. Pc(k) \in AtWork /\ finish_to[running] = uid[k]
    BY <1>1, <2>1 DEF IndInv, FinishInv, Begun
  <2>3. PICK b \in Task : b = uid[k] /\ Busy(b) /\ k = Inner(b)
    BY <1>1, <2>1, <2>2, LiveFacts DEF AtWork
  <2>4. b # Loop /\ running' = b
    BY <1>1, <2>2, <2>3, StackTypes
  <2>5. b # running /\ k # running
    <3>1. k # Top
      BY <1>1, <2>1, KidSuspended
    <3> QED
      BY <1>1, <2>3, <3>1
  <2>6. CASE Calling(b)
    <3>1. Calls(k, running) /\ Pc(k) \in {"child", "cancel"}
      BY <1>1, <2>1, <2>3, <2>6, CallerOfKid
    <3> QED
      BY <1>2, <2>3, <2>4, <2>5, <2>6, <3>1
  <2>7. CASE ~Calling(b)
    <3>1. Pc(k) \in Waits
      BY <2>3, <2>5, <2>7 DEF Calling
    <3>2. \A c \in Task : ~Calling(c)
      BY <1>1, <2>1, <2>3, <2>7, CallerOfKid
    <3> QED
      BY <2>1, <2>3, <2>4, <2>5, <3>1, <3>2
  <2> QED
    BY <2>6, <2>7
<1>3. CASE ~IsKid(running)
  <2>1. running' = block_to[Top]
    BY <1>1, <1>3 DEF IndInv, FinishInv
  <2>2. ~Unwinds(running)
    BY <1>1, <1>3, UnwindingKid
  <2>3. \/ block_to[Top] = Loop /\ \A c \in Task : ~Calling(c)
        \/ /\ block_to[Top] \in Task /\ block_to[Top] # running /\ block_to[Top] # Loop
           /\ Calling(block_to[Top]) /\ Busy(block_to[Top]) /\ Inner(block_to[Top]) \in Task
           /\ Inner(block_to[Top]) # Top
           /\ Calls(Inner(block_to[Top]), running)
           /\ Pc(Inner(block_to[Top])) \in {"run", "child"}
           /\ Pc(Inner(block_to[Top])) = "run" => Inner(block_to[Top]) = block_to[Top]
    BY <1>1, <2>2, YieldTo
  <2>4. PICK b : b = block_to[Top]
    OBVIOUS
  <2>5. CASE b = Loop
    BY <1>3, <2>1, <2>3, <2>4, <2>5, StackTypes
  <2>6. CASE b # Loop
    <3>1. Pc(Inner(b)) # "child"
      <4>1. Pc(Inner(b)) # "run" => \E j \in DOMAIN Children(Inner(b)) : running = Children(Inner(b))[j]
        BY <1>1, <2>3, <2>4, <2>6, CallsWhat
      <4> QED
        BY <1>3, <2>3, <2>4, <2>6, <4>1 DEF IsKid
    <3> QED
      BY <1>1, <1>3, <2>1, <2>3, <2>4, <2>6, <3>1
  <2> QED
    BY <2>5, <2>6
<1> QED
  BY <1>2, <1>3

\* A step of the innermost run() and the tasks and coroutines.
LEMMA KeepsFrame ==
    ASSUME IndInv, Keeps
    PROVE  /\ running \in Task /\ running # Loop /\ Busy(running)
           /\ Top \in Task /\ Top = Inner(running) /\ uid[Top] = running /\ Pc(Top) # "none"
           /\ prog' = prog /\ stack' = stack /\ uid' = uid /\ reuse' = reuse
           /\ act'[Top].pc # "none"
           /\ \A u \in Task : u # Top => act'[u] = act[u]
           /\ \A c \in Task : Busy(c)' = Busy(c) /\ Inner(c)' = Inner(c)
           /\ \A t \in Task : (Pc(t)' = "none" <=> Pc(t) = "none")
           /\ \A t \in Task : t # Top => Pc(t)' = Pc(t)
<1>1. /\ running # Loop /\ Busy(running)
      /\ prog' = prog /\ stack' = stack /\ uid' = uid /\ reuse' = reuse
      /\ act'[Top].pc # "none"
      /\ \A u \in Task : u # Top => act'[u] = act[u]
  BY DEF Keeps
<1>2. running \in Task /\ Top \in Task /\ Top = Inner(running) /\ uid[Top] = running /\ Pc(Top) # "none"
  BY <1>1, TopFacts
<1> QED
  BY <1>1, <1>2 DEF Pc, Busy, Inner


\* Nobody who blocks is being interrupted.
LEMMA YieldsFreely ==
    ASSUME IndInv,
           \/ EventRun \/ AllOfBackYields \/ AnyOfBackYields \/ AllOfWakeYields
           \/ CancelEndYields \/ UnsupportYields
    PROVE  ~Unwinds(running)
<1>1. CASE EventRun
  BY <1>1, EventRunIs, TopFacts DEF Keeps, Unwinds, Leaving
<1>2. CASE AllOfBackYields
  BY <1>2, AllOfBackYieldsIs, TopFacts DEF AllOfBackYields, Keeps, Unwinds, Leaving
<1>3. CASE AnyOfBackYields
  BY <1>3, AnyOfBackYieldsIs, TopFacts DEF AnyOfBackYields, Keeps, Unwinds, Leaving
<1>4. CASE AllOfWakeYields
  BY <1>4, AllOfWakeYieldsIs, TopFacts DEF AllOfWakeYields, Keeps, Unwinds, Leaving
<1>5. CASE CancelEndYields
  <2>1. Keeps /\ Pc(Top) = "cancel" /\ act[Top].n > 0
    BY <1>5, CancelEndYieldsIs DEF CancelEndYields
  <2>2. running # Loop /\ Busy(running) /\ Top \in Task
    BY <2>1, TopFacts DEF Keeps
  <2>3. Level(Top) = 0
    BY <2>1, <2>2 DEF IndInv, LevelInv
  <2> QED
    BY <2>2, <2>3, UnwindingKid
<1>6. CASE UnsupportYields
  BY <1>6, UnsupportYieldsIs, TopFacts DEF UnsupportYields, Keeps, Unwinds, Leaving
<1> QED
  BY <1>1, <1>2, <1>3, <1>4, <1>5, <1>6


LEMMA StartsKid ==
    ASSUME IndInv, Keeps, Pc(Top) \in {"start", "child"}
    PROVE  /\ act[Top].i \in DOMAIN Children(Top) /\ Kind(Top) \in Combinators
           /\ Children(Top)[act[Top].i] \in Task
<1>1. Top \in Task
  BY KeepsFrame
<1>2. act[Top].i \in Nat /\ act[Top].i >= 1 /\ act[Top].i <= Len(Children(Top))
  BY <1>1, StackTypes DEF IndInv, PcInv
<1>3. DOMAIN Children(Top) = 1..Len(Children(Top)) /\ Len(Children(Top)) \in Nat
  BY <1>1, TaskFacts DEF IndInv
<1>4. act[Top].i \in DOMAIN Children(Top)
  BY <1>2, <1>3
<1> QED
  BY <1>1, <1>4, KidFacts DEF IndInv

LEMMA PopsBusy ==
    ASSUME IndInv, AwaitReturn \/ AwaitReturnThrow \/ AwaitRethrow
    PROVE  /\ running # Loop /\ running \in Task /\ Busy(running) /\ ~AtBase /\ running' = running
           /\ Busy(running)' /\ Inner(running)' = Caller
           /\ \A c \in Task : Busy(c)' = Busy(c) /\ (c # running => Inner(c)' = Inner(c))
<1>1. \E s, pc : Pops(s, pc)
  BY AwaitReturnIs, AwaitReturnThrowIs, AwaitRethrowIs
<1>2. /\ running # Loop /\ Busy(running) /\ ~AtBase /\ running' = running
      /\ stack' = [stack EXCEPT ![running] = Tail(@)]
  BY <1>1 DEF Pops
<1>3. PICK r : r = running
  OBVIOUS
<1>4. r \in Task /\ Tail(stack[r]) \in Seq(Task) /\ Len(Tail(stack[r])) = Len(stack[r]) - 1
      /\ \A k \in 1..(Len(stack[r]) - 1) : Tail(stack[r])[k] = stack[r][k + 1]
  BY <1>2, <1>3, TopFacts, StackTail
<1>5. Len(stack[r]) \in Nat /\ Len(stack[r]) >= 1 /\ Len(stack[r]) # 1
  BY <1>2, <1>3, <1>4, StackTypes DEF AtBase
<1>6. PICK n \in Nat : n = Len(stack[r])
  BY <1>5
<1>7. n >= 1 /\ n # 1
  BY <1>5, <1>6
<1>8. 1 \in 1..(n - 1) /\ n - 1 # 0 /\ 1 + 1 = 2
  BY <1>7
<1>9. Tail(stack[r])[1] = stack[r][2] /\ Tail(stack[r]) # <<>>
  <2>1. Len(Tail(stack[r])) # 0
    BY <1>4, <1>6, <1>8
  <2>2. Tail(stack[r]) # <<>>
    BY <1>4, <2>1, EmptySeq
  <2> QED
    BY <1>4, <1>6, <1>8, <2>2
<1>10. stack'[r] = Tail(stack[r]) /\ \A c \in Task : c # r => stack'[c] = stack[c]
  BY <1>2, <1>3, <1>4 DEF IndInv, TypeOK
<1>11. Busy(r)' /\ Inner(r)' = Caller
  BY <1>3, <1>9, <1>10 DEF Busy, Inner, Caller
<1> QED
  BY <1>2, <1>3, <1>4, <1>10, <1>11 DEF Busy, Inner

\* The coroutine that is about to begin its task.
LEMMA WhoEnters ==
    ASSUME IndInv, [Next]_vars
    PROVE  \A x \in Task : Entering(x)' =>
               \/ UNCHANGED vars /\ Entering(x)
               \/ Start /\ x = Target
               \/ StartChild /\ x = Children(Top)[act[Top].i]
<1>0. PICK r, t : r = running /\ t = Top
  OBVIOUS
<1>TaskRuntime. CASE TaskRuntime
  <2>1. running' = running /\ stack'[running] = <<running>> /\ <<running>> # <<>>
    BY <1>TaskRuntime, TaskRuntimeIs DEF Stays, IndInv, TypeOK
  <2> QED
    BY <2>1 DEF Entering, Busy
<1>Await. CASE Await
  <2>1. running' = running /\ stack'[running] # <<>>
    <3>1. running \in Task /\ running' = running /\ stack' = [stack EXCEPT ![running] = <<Target>> \o @]
          /\ Target \in Task
      BY <1>Await, AwaitIs, CallIs
    <3>2. stack[running] \in Seq(Task) /\ stack'[running] = <<Target>> \o stack[running]
      BY <3>1 DEF IndInv, TypeOK
    <3>3. <<Target>> \o stack[running] # <<>>
      BY <3>1, <3>2
    <3> QED
      BY <3>1, <3>2, <3>3
  <2> QED
    BY <2>1 DEF Entering, Busy
<1>Start. CASE Start
  BY <1>0, <1>Start, StartIs, KeepsFrame DEF Stays, Yields, Entering
<1>StartReject. CASE StartReject
  BY <1>0, <1>StartReject, StartRejectIs, KeepsFrame DEF Stays, Yields, Entering
<1>EventRun. CASE EventRun
  BY <1>0, <1>EventRun, EventRunIs, KeepsFrame, YieldTo, YieldsFreely, StackTypes
     DEF Stays, Yields, Entering
<1>EventWake. CASE EventWake
  BY <1>0, <1>EventWake, EventWakeIs, KeepsFrame DEF Stays, Yields, Entering
<1>ChildrenReady. CASE ChildrenReady
  BY <1>0, <1>ChildrenReady, ChildrenReadyIs, KeepsFrame DEF Stays, Yields, Entering
<1>ChildrenUnready. CASE ChildrenUnready
  BY <1>0, <1>ChildrenUnready, ChildrenUnreadyIs, KeepsFrame DEF Stays, Yields, Entering
<1>StartChild. CASE StartChild
  <2>1. Keeps /\ Pc(Top) = "start" /\ running' = uid[Children(Top)[act[Top].i]]
    BY <1>StartChild, StartChildIs
  <2>2. \A c \in Task : Busy(c)' = Busy(c)
    BY <2>1, KeepsFrame
  <2>3. Top \in Task /\ act[Top].i \in DOMAIN Children(Top)
    BY <2>1, KeepsFrame, StartsKid
  <2>4. status[Children(Top)[act[Top].i]] = "ready"
    BY <2>1, <2>3 DEF IndInv, NotYet, Later, Told
  <2>5. uid[Children(Top)[act[Top].i]] = Children(Top)[act[Top].i] /\ Children(Top)[act[Top].i] \in Task
    BY <2>3, <2>4, KidFacts DEF IndInv, StatusInv
  <2> QED
    BY <1>StartChild, <2>1, <2>2, <2>3, <2>5 DEF Entering
<1>AllOfBackYields. CASE AllOfBackYields
  BY <1>0, <1>AllOfBackYields, AllOfBackYieldsIs, KeepsFrame, YieldTo, YieldsFreely, StackTypes
     DEF AllOfBackYields, Stays, Yields, Entering
<1>AllOfBackGoesOn. CASE AllOfBackGoesOn
  BY <1>0, <1>AllOfBackGoesOn, AllOfBackGoesOnIs, KeepsFrame
     DEF AllOfBackGoesOn, Stays, Yields, Entering
<1>AnyOfBackWins. CASE AnyOfBackWins
  BY <1>0, <1>AnyOfBackWins, AnyOfBackWinsIs, KeepsFrame
     DEF AnyOfBackWins, Stays, Yields, Entering
<1>AnyOfBackGoesOn. CASE AnyOfBackGoesOn
  BY <1>0, <1>AnyOfBackGoesOn, AnyOfBackGoesOnIs, KeepsFrame
     DEF AnyOfBackGoesOn, Stays, Yields, Entering
<1>AnyOfBackYields. CASE AnyOfBackYields
  BY <1>0, <1>AnyOfBackYields, AnyOfBackYieldsIs, KeepsFrame, YieldTo, YieldsFreely, StackTypes
     DEF AnyOfBackYields, Stays, Yields, Entering
<1>AllOfWakeYields. CASE AllOfWakeYields
  BY <1>0, <1>AllOfWakeYields, AllOfWakeYieldsIs, KeepsFrame, YieldTo, YieldsFreely, StackTypes
     DEF AllOfWakeYields, Stays, Yields, Entering
<1>AllOfWakeEnds. CASE AllOfWakeEnds
  BY <1>0, <1>AllOfWakeEnds, AllOfWakeEndsIs, KeepsFrame
     DEF AllOfWakeEnds, Stays, Yields, Entering
<1>AnyOfWake. CASE AnyOfWake
  BY <1>0, <1>AnyOfWake, AnyOfWakeIs, KeepsFrame DEF Stays, Yields, Entering
<1>CanceledDirectlyLeaf. CASE CanceledDirectlyLeaf
  BY <1>0, <1>CanceledDirectlyLeaf, CanceledDirectlyLeafIs, KeepsFrame
     DEF CanceledDirectlyLeaf, Stays, Yields, Entering
<1>CanceledDirectlyComb. CASE CanceledDirectlyComb
  BY <1>0, <1>CanceledDirectlyComb, CanceledDirectlyCombIs, KeepsFrame
     DEF CanceledDirectlyComb, Stays, Yields, Entering
<1>CanceledIndirectly. CASE CanceledIndirectly
  BY <1>0, <1>CanceledIndirectly, CanceledIndirectlyIs, KeepsFrame DEF Stays, Yields, Entering
<1>CatchLeaf. CASE CatchLeaf
  BY <1>0, <1>CatchLeaf, CatchLeafIs, KeepsFrame DEF CatchLeaf, Stays, Yields, Entering
<1>CatchComb. CASE CatchComb
  BY <1>0, <1>CatchComb, CatchCombIs, KeepsFrame DEF CatchComb, Stays, Yields, Entering
<1>CancelSkip. CASE CancelSkip
  BY <1>0, <1>CancelSkip, CancelSkipIs, KeepsFrame DEF Stays, Yields, Entering
<1>CancelUnsupport. CASE CancelUnsupport
  BY <1>0, <1>CancelUnsupport, CancelUnsupportIs, KeepsFrame DEF Stays, Yields, Entering
<1>CancelInterrupt. CASE CancelInterrupt
  <2>1. Keeps /\ act[Top].i \in DOMAIN Children(Top) /\ status[Children(Top)[act[Top].i]] = "running"
        /\ running' = uid[Children(Top)[act[Top].i]]
    BY <1>CancelInterrupt, CancelInterruptIs
  <2>2. running # Loop /\ Busy(running) /\ \A c \in Task : Busy(c)' = Busy(c)
    BY <2>1, KeepsFrame
  <2>3. PICK x \in Task : x = Children(Top)[act[Top].i] /\ status[x] = "running" /\ running' = uid[x]
                         /\ (Pc(x) # "none" => Busy(x) /\ uid[x] = x)
    BY <2>1, <2>2, KidSuspended
  <2>4. Pc(x) # "none"
    BY <2>3 DEF IndInv, StatusInv
  <2> QED
    BY <2>2, <2>3, <2>4 DEF Entering
<1>CancelEndYields. CASE CancelEndYields
  BY <1>0, <1>CancelEndYields, CancelEndYieldsIs, KeepsFrame, YieldTo, YieldsFreely, StackTypes
     DEF CancelEndYields, Stays, Yields, Entering
<1>CancelEndDone. CASE CancelEndDone
  BY <1>0, <1>CancelEndDone, CancelEndDoneIs, KeepsFrame
     DEF CancelEndDone, Stays, Yields, Entering
<1>UnsupportYields. CASE UnsupportYields
  BY <1>0, <1>UnsupportYields, UnsupportYieldsIs, KeepsFrame, YieldTo, YieldsFreely, StackTypes
     DEF UnsupportYields, Stays, Yields, Entering
<1>UnsupportDone. CASE UnsupportDone
  BY <1>0, <1>UnsupportDone, UnsupportDoneIs, KeepsFrame
     DEF UnsupportDone, Stays, Yields, Entering
<1>AwaitReturn. CASE AwaitReturn
  BY <1>0, <1>AwaitReturn, AwaitReturnIs, PopsBusy DEF Entering
<1>AwaitReturnThrow. CASE AwaitReturnThrow
  BY <1>0, <1>AwaitReturnThrow, AwaitReturnThrowIs, PopsBusy DEF Entering
<1>AwaitRethrow. CASE AwaitRethrow
  BY <1>0, <1>AwaitRethrow, AwaitRethrowIs, PopsBusy DEF Entering
<1>RuntimeFinish. CASE RuntimeFinish
  <2>1. running' = Loop \/ \E b \in Task : running' = b /\ b # running /\ Busy(b)
    BY <1>RuntimeFinish, FinishTo
  <2>2. \A c \in Task : c # running => stack'[c] = stack[c]
    BY <1>RuntimeFinish, RuntimeFinishIs DEF IndInv, TypeOK
  <2> QED
    BY <2>1, <2>2, StackTypes DEF Entering, Busy
<1>EventFires. CASE \E e \in Task : EventFires(e)
  BY <1>0, <1>EventFires, EventFiresIs DEF Entering, Busy
<1>Stutter. CASE UNCHANGED vars
  BY <1>0, <1>Stutter DEF Entering, Busy, vars, controlVars
<1> QED
  BY StepCases, <1>TaskRuntime, <1>Await, <1>Start, <1>StartReject, <1>EventRun, <1>EventWake,
       <1>ChildrenReady, <1>ChildrenUnready, <1>StartChild, <1>AllOfBackYields,
       <1>AllOfBackGoesOn, <1>AnyOfBackWins, <1>AnyOfBackGoesOn, <1>AnyOfBackYields,
       <1>AllOfWakeYields, <1>AllOfWakeEnds, <1>AnyOfWake, <1>CanceledDirectlyLeaf,
       <1>CanceledDirectlyComb, <1>CanceledIndirectly, <1>CatchLeaf, <1>CatchComb, <1>CancelSkip,
       <1>CancelUnsupport, <1>CancelInterrupt, <1>CancelEndYields, <1>CancelEndDone,
       <1>UnsupportYields, <1>UnsupportDone, <1>AwaitReturn, <1>AwaitReturnThrow, <1>AwaitRethrow,
       <1>RuntimeFinish, <1>EventFires, <1>Stutter

\* The child that a combinator deals with, when it starts it, marks it or
\* interrupts it.
LEMMA StartFx ==
    ASSUME IndInv, Start
    PROVE  \E x \in Task :
            /\ x = Target /\ x # running /\ x # Top /\ ~Busy(x) /\ Pc(x) = "none" /\ uid[x] = x
            /\ status[x] = "ready" /\ running' = x /\ ~IsKid(x)
            /\ act[Top].i \in DOMAIN Body(Top) /\ Body(Top)[act[Top].i] = <<"start", x>>
            /\ Pc(Top) = "run" /\ Kind(Top) = "user" /\ Top = running
            /\ block_to'[x] = running /\ finish_to'[x] = Loop
            /\ \A u \in Task : u # x => block_to'[u] = block_to[u] /\ finish_to'[u] = finish_to[u]
<1>1. AtCall("start")
  BY DEF Start
<1>2. PICK x : x = Target
  OBVIOUS
<1>3. /\ Pc(Top) = "run" /\ Kind(Top) = "user" /\ x \in Task /\ Untouched(x) /\ Pc(x) = "none"
      /\ ~Busy(x) /\ x # Top /\ ~IsKid(x)
      /\ act[Top].i \in DOMAIN Body(Top) /\ Body(Top)[act[Top].i] = <<"start", x>>
  BY <1>1, <1>2, CallIs
<1>4. /\ Top = running /\ status[x] = "ready" /\ running' = x
      /\ block_to' = [block_to EXCEPT ![x] = running]
      /\ finish_to' = [finish_to EXCEPT ![x] = Loop]
  BY <1>2, StartIs
<1>5. uid[x] = x
  BY <1>3, <1>4 DEF IndInv, StatusInv
<1>6. /\ block_to'[x] = running /\ finish_to'[x] = Loop
      /\ \A u \in Task : u # x => block_to'[u] = block_to[u] /\ finish_to'[u] = finish_to[u]
  BY <1>3, <1>4 DEF IndInv, TypeOK
<1> QED
  BY <1>2, <1>3, <1>4, <1>5, <1>6 DEF Untouched

LEMMA StartChildFx ==
    ASSUME IndInv, StartChild
    PROVE  \E x \in Task :
            /\ act[Top].i \in DOMAIN Children(Top) /\ x = Children(Top)[act[Top].i]
            /\ x # running /\ x # Top /\ ~Busy(x) /\ Pc(x) = "none" /\ uid[x] = x
            /\ status[x] = "ready" /\ running' = x
            /\ block_to[x] = running /\ finish_to[x] = running
            /\ Kind(Top) \in Combinators
<1>1. Keeps /\ Pc(Top) = "start" /\ running' = uid[Children(Top)[act[Top].i]]
  BY StartChildIs
<1>2. Top \in Task /\ act[Top].i \in DOMAIN Children(Top) /\ uid[Top] = running
      /\ Kind(Top) \in Combinators /\ running # Loop /\ Busy(running)
  BY <1>1, KeepsFrame, StartsKid
<1>3. Told(Children(Top)[act[Top].i], Top)
  BY <1>1, <1>2 DEF IndInv, NotYet, Later
<1>4. PICK x \in Task : x = Children(Top)[act[Top].i]
  BY <1>2, KidFacts DEF IndInv
<1>5. status[x] = "ready" /\ x # running /\ block_to[x] = running /\ finish_to[x] = running
  BY <1>2, <1>3, <1>4 DEF Told
<1>6. uid[x] = x /\ Pc(x) = "none"
  BY <1>4, <1>5 DEF IndInv, StatusInv
<1>7. ~Busy(x) /\ x # Top
  BY <1>1, <1>4, <1>6, BusyFacts
<1> QED
  BY <1>1, <1>2, <1>4, <1>5, <1>6, <1>7

LEMMA CancelUnsupportFx ==
    ASSUME IndInv, CancelUnsupport
    PROVE  \E x, f \in Task :
            /\ act[Top].i \in DOMAIN Children(Top) /\ x = Children(Top)[act[Top].i]
            /\ x # running /\ Busy(x) /\ uid[x] = x /\ Pc(x) # "none" /\ status[x] = "running"
            /\ Pc(Inner(x)) \in Waits
            /\ Pc(f) # "none" /\ uid[f] = x /\ uninterruptable[f] /\ f # Top /\ x # Top
            /\ f # Inner(x) => Pc(f) = "run" /\ Kind(f) = "user"
            /\ f = Inner(x) => Pc(f) \in Waits
            /\ status'[f] = IF f = x THEN status[f] ELSE "canceled"
            /\ \A u \in Task : u # f => status'[u] = status[u]
<1>1. /\ Keeps /\ act[Top].i \in DOMAIN Children(Top)
      /\ status[Children(Top)[act[Top].i]] = "running"
      /\ Final(Children(Top)[act[Top].i]) # Loop
      /\ status' = [status EXCEPT ![Final(Children(Top)[act[Top].i])] =
            IF Final(Children(Top)[act[Top].i]) = Children(Top)[act[Top].i] THEN @ ELSE "canceled"]
  BY CancelUnsupportIs
<1>2. Top \in Task /\ running # Loop /\ Busy(running) /\ Top = Inner(running) /\ uid[Top] = running
  BY <1>1, KeepsFrame
<1>3. PICK x \in Task : x = Children(Top)[act[Top].i]
  BY <1>1, <1>2, KidFacts DEF IndInv
<1>4. Pc(x) # "none"
  BY <1>1, <1>3 DEF IndInv, StatusInv
<1>5. x # running /\ Busy(x) /\ uid[x] = x /\ Pc(Inner(x)) \in Waits
  BY <1>1, <1>2, <1>3, <1>4, KidSuspended
<1>6. PICK f \in Task : f = Final(x) /\ Pc(f) # "none" /\ uid[f] = x /\ uninterruptable[f]
  BY <1>1, <1>3, <1>5, FinalFacts
<1>7. f # Inner(x) => Pc(f) = "run" /\ Kind(f) = "user"
  BY <1>6, LiveFacts
<1>8. /\ status'[f] = IF f = x THEN status[f] ELSE "canceled"
      /\ \A u \in Task : u # f => status'[u] = status[u]
  BY <1>1, <1>3, <1>6 DEF IndInv, TypeOK
<1> QED
  BY <1>1, <1>2, <1>3, <1>4, <1>5, <1>6, <1>7, <1>8

LEMMA CancelInterruptFx ==
    ASSUME IndInv, CancelInterrupt
    PROVE  \E x \in Task :
            /\ act[Top].i \in DOMAIN Children(Top) /\ x = Children(Top)[act[Top].i]
            /\ x # running /\ x # Top /\ Busy(x) /\ uid[x] = x /\ Pc(x) # "none"
            /\ Inner(x) \in Task /\ Inner(x) # Top
            /\ Pc(Inner(x)) = "wait" /\ block_to[Inner(x)] = Loop
            /\ status[x] = "running" /\ running' = x
            /\ \A t \in Task : Pc(t) # "none" /\ uid[t] = x => status[t] = "running" /\ ~uninterruptable[t]
            /\ ~Doomed(x)
            /\ status'[x] = "canceled" /\ \A u \in Task : u # x => status'[u] = status[u]
<1>1. /\ Keeps /\ Pc(Top) = "cancel" /\ act[Top].i \in DOMAIN Children(Top)
      /\ status[Children(Top)[act[Top].i]] = "running"
      /\ Final(Children(Top)[act[Top].i]) = Loop
      /\ running' = uid[Children(Top)[act[Top].i]]
      /\ status' = [status EXCEPT ![Children(Top)[act[Top].i]] = "canceled"]
  BY CancelInterruptIs
<1>2. Top \in Task /\ running # Loop /\ Busy(running) /\ Top = Inner(running) /\ uid[Top] = running
  BY <1>1, KeepsFrame
<1>3. PICK x \in Task : x = Children(Top)[act[Top].i]
  BY <1>1, <1>2, KidFacts DEF IndInv
<1>4. Pc(x) # "none"
  BY <1>1, <1>3 DEF IndInv, StatusInv
<1>5. x # running /\ Busy(x) /\ uid[x] = x /\ Pc(Inner(x)) \in Waits /\ block_to[Inner(x)] = Loop
  BY <1>1, <1>2, <1>3, <1>4, KidSuspended
<1>6. \A t \in Task : Pc(t) # "none" /\ uid[t] = x => ~uninterruptable[t]
  BY <1>1, <1>3, <1>5, FinalFacts
<1>7. Inner(x) \in Task /\ Pc(Inner(x)) # "none" /\ uid[Inner(x)] = x /\ Inner(x) # Top
  BY <1>2, <1>5, BusyFacts
<1>8. Pc(Inner(x)) = "wait"
  BY <1>5, <1>6, <1>7 DEF IndInv, LevelInv, Waits
<1>9. ~Doomed(x)
  <2>1. ASSUME NEW k \in Task, NEW j \in DOMAIN Children(k), Children(k)[j] = x PROVE ~Visited(k, j)
    <3>1. k = Top /\ j = act[Top].i
      BY <1>1, <1>2, <1>3, <2>1, KidFacts DEF IndInv
    <3>2. act[Top].i \in Nat
      BY <1>2, StackTypes
    <3> QED
      BY <1>1, <3>1, <3>2 DEF Visited
  <2> QED
    BY <2>1 DEF IndInv, DoomInv
<1>10. ASSUME NEW t \in Task, Pc(t) # "none", uid[t] = x PROVE status[t] = "running"
  <2>1. status[t] # "canceled"
    BY <1>5, <1>9, <1>10 DEF Doomed
  <2>2. Pc(t) # "return"
    BY <1>5, <1>8, <1>10, LiveFacts
  <2> QED
    BY <1>10, <2>1, <2>2 DEF IndInv, StatusInv
<1>11. status'[x] = "canceled" /\ \A u \in Task : u # x => status'[u] = status[u]
  BY <1>1, <1>3 DEF IndInv, TypeOK
<1> QED
  BY <1>1, <1>2, <1>3, <1>4, <1>5, <1>6, <1>7, <1>8, <1>9, <1>10, <1>11

\* The beginning and the end of a run().
LEMMA TaskRuntimeFx ==
    ASSUME IndInv, TaskRuntime
    PROVE  /\ status'[running] = "running" /\ \A u \in Task : u # running => status'[u] = status[u]
           /\ Busy(running)' /\ (\A c \in Task : c = running => Inner(c)' = c)
           /\ \A c \in Task : c # running => Busy(c)' = Busy(c) /\ Inner(c)' = Inner(c)
<1>1. /\ running \in Task /\ status' = [status EXCEPT ![running] = "running"]
      /\ stack' = [stack EXCEPT ![running] = <<running>>] /\ running' = running
  BY TaskRuntimeIs DEF Stays
<1>2. /\ stack'[running] = <<running>> /\ \A c \in Task : c # running => stack'[c] = stack[c]
      /\ status'[running] = "running" /\ \A u \in Task : u # running => status'[u] = status[u]
  BY <1>1 DEF IndInv, TypeOK
<1>3. <<running>> # <<>> /\ <<running>>[1] = running
  OBVIOUS
<1> QED
  BY <1>1, <1>2, <1>3 DEF Busy, Inner

LEMMA AwaitFx ==
    ASSUME IndInv, Await
    PROVE  \E t, u \in Task :
            /\ t = Target /\ u = Top /\ t # u /\ u = Inner(running) /\ uid[u] = running
            /\ Untouched(t) /\ status[t] \in {"ready", "limited"} /\ Pc(t) = "none" /\ ~Busy(t)
            /\ t # running /\ ~IsKid(t)
            /\ Pc(u) = "run" /\ Kind(u) = "user" /\ act[u].i \in DOMAIN Body(u)
            /\ Body(u)[act[u].i] = <<"await", t>>
            /\ status'[t] = "running" /\ \A v \in Task : v # t => status'[v] = status[v]
            /\ uid'[t] = running /\ \A v \in Task : v # t => uid'[v] = uid[v]
            /\ finish_to'[t] = running /\ \A v \in Task : v # t => finish_to'[v] = finish_to[v]
            /\ block_to'[t] = block_to[u] /\ block_to'[u] = Loop
            /\ \A v \in Task : v # t /\ v # u => block_to'[v] = block_to[v]
            /\ act'[t].pc = "run" /\ act'[t].i = 1 /\ act'[t].next = "return" /\ act'[t].n = 0
            /\ act'[u].pc = "run" /\ act'[u].i = act[u].i + 1
            /\ \A v \in Task : v # u /\ v # t => act'[v] = act[v]
            /\ \A c \in Task : /\ Busy(c)' = Busy(c) /\ (c # running => Inner(c)' = Inner(c))
                               /\ (c = running => Busy(c) /\ Inner(c)' = t)
            /\ running' = running /\ running # Loop /\ running \in Task
<1>0. PICK r, t, u : r = running /\ t = Target /\ u = Top
  OBVIOUS
<1>1. /\ r \in Task /\ AtCall("await") /\ status[t] \in {"ready", "limited"}
      /\ block_to' = [block_to EXCEPT ![t] = block_to[u], ![u] = Loop]
      /\ finish_to' = [finish_to EXCEPT ![t] = r]
      /\ uid' = [uid EXCEPT ![t] = r]
      /\ status' = [status EXCEPT ![t] = "running"]
      /\ stack' = [stack EXCEPT ![r] = <<t>> \o @]
      /\ act'[t].pc = "run" /\ act'[t].i = 1 /\ act'[t].next = "return" /\ act'[t].n = 0
      /\ act'[u].pc = "run" /\ act'[u].i = act[u].i + 1
      /\ \A v \in Task : v # u /\ v # t => act'[v] = act[v]
      /\ running' = r
  BY <1>0, AwaitIs
<1>2. /\ r # Loop /\ Busy(r) /\ u \in Task /\ u = Inner(r) /\ uid[u] = r
      /\ Pc(u) = "run" /\ Kind(u) = "user"
      /\ act[u].i \in DOMAIN Body(u) /\ Body(u)[act[u].i] = <<"await", t>>
      /\ t \in Task /\ Untouched(t) /\ Pc(t) = "none" /\ ~Busy(t) /\ t # u /\ ~IsKid(t)
  BY <1>0, <1>1, CallIs
<1>3. /\ status'[t] = "running" /\ \A v \in Task : v # t => status'[v] = status[v]
      /\ uid'[t] = r /\ \A v \in Task : v # t => uid'[v] = uid[v]
      /\ finish_to'[t] = r /\ \A v \in Task : v # t => finish_to'[v] = finish_to[v]
  BY <1>1, <1>2 DEF IndInv, TypeOK
<1>4. /\ block_to'[t] = block_to[u] /\ block_to'[u] = Loop
      /\ \A v \in Task : v # t /\ v # u => block_to'[v] = block_to[v]
  BY <1>1, <1>2 DEF IndInv, TypeOK
<1>5. stack'[r] = <<t>> \o stack[r] /\ stack[r] \in Seq(Task) /\ \A c \in Task : c # r => stack'[c] = stack[c]
  BY <1>1 DEF IndInv, TypeOK
<1>6. <<t>> \o stack[r] # <<>> /\ (<<t>> \o stack[r])[1] = t
  BY <1>2, <1>5
<1>7. \A c \in Task : /\ Busy(c)' = Busy(c) /\ (c # r => Inner(c)' = Inner(c))
                      /\ (c = r => Busy(c) /\ Inner(c)' = t)
  BY <1>2, <1>5, <1>6 DEF Busy, Inner
<1>8. t # r
  BY <1>2 DEF Untouched
<1>9. /\ t = Target /\ u = Top /\ u = Inner(running) /\ uid[u] = running /\ t # running
      /\ uid'[t] = running /\ finish_to'[t] = running
      /\ running' = running /\ running # Loop /\ running \in Task
  BY <1>0, <1>1, <1>2, <1>3, <1>8
<1>10. \A c \in Task : /\ Busy(c)' = Busy(c) /\ (c # running => Inner(c)' = Inner(c))
                       /\ (c = running => Busy(c) /\ Inner(c)' = t)
  BY <1>0, <1>7
<1> QED
  BY <1>1, <1>2, <1>3, <1>4, <1>9, <1>10

\* How the end of an awaited run() is passed on.
Ends(t, s, pc) ==
    \/ /\ Pc(t) = "return" \/ (Pc(t) = "run" /\ Kind(t) = "user" /\ act[t].i > Len(Body(t)))
       /\ \/ status[t] \in {"running", "child_unready"} /\ pc = "run"
             /\ s = IF status[t] = "running" THEN "completed" ELSE "child_unready"
          \/ status[t] = "canceled" /\ pc = "throw" /\ s = "completed"
    \/ Pc(t) = "caught" /\ status[t] = "canceled" /\ pc = "throw" /\ s = "canceled"

LEMMA PopsFx ==
    ASSUME IndInv, AwaitReturn \/ AwaitReturnThrow \/ AwaitRethrow
    PROVE  \E t, u \in Task : \E s \in Status, pc \in Points :
            /\ t = Top /\ u = Caller /\ t # u /\ t = Inner(running) /\ t # running
            /\ Ends(t, s, pc) /\ Pops(s, pc)
            /\ uid[t] = running /\ uid[u] = running /\ Pc(t) # "none"
            /\ Pc(u) = "run" /\ Kind(u) = "user" /\ block_to[u] = Loop
            /\ act[u].i - 1 \in DOMAIN Body(u) /\ Body(u)[act[u].i - 1] = <<"await", t>>
            /\ status'[t] = s /\ \A v \in Task : v # t => status'[v] = status[v]
            /\ uid'[t] = Loop /\ \A v \in Task : v # t => uid'[v] = uid[v]
            /\ act'[t].pc = "none" /\ act'[t].i = act[t].i
            /\ act'[u].pc = pc /\ act'[u].i = act[u].i
            /\ \A v \in Task : v # t /\ v # u => act'[v] = act[v]
            /\ block_to'[u] = block_to[t]
            /\ \A v \in Task : v # t /\ v # u => block_to'[v] = block_to[v]
            /\ \A c \in Task : /\ Busy(c)' = Busy(c) /\ (c # running => Inner(c)' = Inner(c))
                               /\ (c = running => Busy(c) /\ Inner(c)' = u)
            /\ running' = running /\ running # Loop /\ running \in Task /\ prog' = prog
            /\ UNCHANGED <<uninterruptable, finish_to, completed_id, global_signal_canceled, armed, cancels>>
<1>0. PICK t, u : t = Top /\ u = Caller
  OBVIOUS
<1>1. \E s, pc : Ends(t, s, pc) /\ Pops(s, pc)
  <2>1. CASE AwaitReturn
    <3>1. CASE status[t] = "running" /\ Pops("completed", "run")
      <4>1. Ends(t, "completed", "run")
        BY <1>0, <2>1, <3>1, AwaitReturnIs DEF Ends
      <4> QED
        BY <3>1, <4>1
    <3>2. CASE status[t] = "child_unready" /\ Pops("child_unready", "run")
      <4>1. Ends(t, "child_unready", "run")
        BY <1>0, <2>1, <3>2, AwaitReturnIs DEF Ends
      <4> QED
        BY <3>2, <4>1
    <3> QED
      BY <1>0, <2>1, <3>1, <3>2, AwaitReturnIs
  <2>2. CASE AwaitReturnThrow
    <3>1. Ends(t, "completed", "throw") /\ Pops("completed", "throw")
      BY <1>0, <2>2, AwaitReturnThrowIs DEF Ends
    <3> QED
      BY <3>1
  <2>3. CASE AwaitRethrow
    <3>1. Ends(t, "canceled", "throw") /\ Pops("canceled", "throw")
      BY <1>0, <2>3, AwaitRethrowIs DEF Ends
    <3> QED
      BY <3>1
  <2> QED
    BY <2>1, <2>2, <2>3
<1>2. PICK s, pc : Ends(t, s, pc) /\ Pops(s, pc)
  BY <1>1
<1>9. s \in Status /\ pc \in Points
  BY <1>2 DEF Ends, Status, Points
<1>3. /\ running # Loop /\ running \in Task /\ Busy(running) /\ ~AtBase /\ running' = running
      /\ Busy(running)'
      /\ \A c \in Task : Busy(c)' = Busy(c) /\ (c # running => Inner(c)' = Inner(c))
  BY PopsBusy
<1>4. \A c \in Task : c = running => Inner(c)' = u
  BY <1>0, PopsBusy
<1>5. /\ u \in Task /\ u # t /\ Pc(u) = "run" /\ Kind(u) = "user" /\ uid[u] = running
      /\ block_to[u] = Loop /\ act[u].i - 1 \in DOMAIN Body(u) /\ t # running
      /\ Body(u)[act[u].i - 1] = <<"await", t>>
  BY <1>0, <1>3, CallerFacts
<1>6. t \in Task /\ t = Inner(running) /\ uid[t] = running /\ Pc(t) # "none"
  BY <1>0, <1>3, TopFacts
<1>7. /\ prog' = prog
      /\ uid' = [uid EXCEPT ![t] = Loop] /\ status' = [status EXCEPT ![t] = s]
      /\ act'[t].pc = "none" /\ act'[t].i = act[t].i /\ act'[u].pc = pc /\ act'[u].i = act[u].i
      /\ \A v \in Task : v # t /\ v # u => act'[v] = act[v]
      /\ block_to'[u] = block_to[t]
      /\ \A v \in Task : v # t /\ v # u => block_to'[v] = block_to[v]
      /\ UNCHANGED <<uninterruptable, finish_to, completed_id, global_signal_canceled, armed, cancels>>
  BY <1>0, <1>2 DEF Pops
<1>8. /\ status'[t] = s /\ \A v \in Task : v # t => status'[v] = status[v]
      /\ uid'[t] = Loop /\ \A v \in Task : v # t => uid'[v] = uid[v]
  BY <1>6, <1>7 DEF IndInv, TypeOK
<1> QED
  BY <1>0, <1>2, <1>3, <1>4, <1>5, <1>6, <1>7, <1>8, <1>9

LEMMA FinishFx ==
    ASSUME IndInv, RuntimeFinish
    PROVE   /\ status'[running] =
                    (IF finish_to[running] = Loop /\ running # TopTask THEN "deleted"
                     ELSE IF status[running] = "running" THEN "completed" ELSE status[running])
            /\ \A u \in Task : u # running => status'[u] = status[u]
            /\ uid[running] = running /\ status[running] \in {"running", "canceled", "child_unready"}
            /\ \A c \in Task : c = running => ~Busy(c)'
            /\ \A c \in Task : c # running => Busy(c)' = Busy(c) /\ Inner(c)' = Inner(c)
<1>1. /\ running \in Task /\ Busy(running)
      /\ status' = [status EXCEPT ![running] = IF finish_to[running] = Loop /\ running # TopTask
                                                      THEN "deleted" ELSE EndStatus(running)]
      /\ stack' = [stack EXCEPT ![running] = <<>>]
  BY RuntimeFinishIs
<1>2. /\ stack'[running] = <<>> /\ \A c \in Task : c # running => stack'[c] = stack[c]
      /\ status'[running] = (IF finish_to[running] = Loop /\ running # TopTask
                                                      THEN "deleted" ELSE EndStatus(running))
      /\ \A u \in Task : u # running => status'[u] = status[u]
  BY <1>1 DEF IndInv, TypeOK
<1>3. uid[running] = running /\ Pc(running) # "none"
  BY <1>1, BusyFacts
<1>4. status[running] \in {"running", "canceled", "child_unready"}
  BY <1>1, <1>3 DEF IndInv, StatusInv
<1>5. /\ \A c \in Task : c = running => ~Busy(c)'
      /\ \A c \in Task : c # running => Busy(c)' = Busy(c) /\ Inner(c)' = Inner(c)
  BY <1>2 DEF Busy, Inner
<1> QED
  BY <1>2, <1>3, <1>4, <1>5 DEF EndStatus

LEMMA YieldsFx ==
    ASSUME IndInv, Keeps, Yields
    PROVE  /\ block_to'[Top] = Loop /\ \A u \in Task : u # Top => block_to'[u] = block_to[u]
           /\ running' = block_to[Top]
<1>1. Top \in Task
  BY KeepsFrame
<1> QED
  BY <1>1 DEF Yields, IndInv, TypeOK

-----------------------------------------------------------------------------
\* Each part of the invariant is preserved.

LEMMA StatusStep ==
    ASSUME IndInv, [Next]_vars
    PROVE  StatusInv'
<1>0. PICK r, t : r = running /\ t = Top
  OBVIOUS
<1>i. StatusInv /\ status \in [Task -> Status]
  BY DEF IndInv, TypeOK
<1>e. \A x \in Task : Entering(x)' => status'[x] = "ready"
  <2>1. UNCHANGED vars => status' = status
    BY DEF vars, objectVars
  <2>2. Start => status[Target] = "ready" /\ status' = status
    BY StartIs
  <2>3. StartChild => status[Children(Top)[act[Top].i]] = "ready" /\ status' = status
    BY StartChildIs, StartChildFx
  <2>4. \A x \in Task : Entering(x) => status[x] = "ready"
    BY <1>i DEF StatusInv
  <2> QED
    BY <2>1, <2>2, <2>3, <2>4, WhoEnters
<1>TaskRuntime. CASE TaskRuntime
  BY <1>0, <1>TaskRuntime, TaskRuntimeIs, <1>i, <1>e, TaskRuntimeFx
     DEF Kind, Moves, Stays, Yields, Pc, StatusInv
<1>Await. CASE Await
  BY <1>0, <1>Await, AwaitIs, <1>i, <1>e, AwaitFx DEF Kind, Moves, Stays, Yields, Pc, StatusInv
<1>Start. CASE Start
  <2>1. /\ t \in Task /\ Pc(t) = "run" /\ act'[t].pc = "run" /\ Kind(t) = "user"
        /\ \A u \in Task : u # t => act'[u] = act[u]
        /\ status' = status /\ uid' = uid /\ prog' = prog
    BY <1>0, <1>Start, StartIs, StartFx, KeepsFrame DEF Moves
  <2> QED
    BY <1>i, <1>e, <2>1 DEF StatusInv, Pc, Kind
<1>StartReject. CASE StartReject
  BY <1>0, <1>StartReject, StartRejectIs, <1>i, <1>e, CallIs, KeepsFrame
     DEF Kind, Moves, Stays, Yields, Pc, StatusInv, StartReject
<1>EventRun. CASE EventRun
  BY <1>0, <1>EventRun, EventRunIs, <1>i, <1>e, KeepsFrame
     DEF Kind, Moves, Stays, Yields, Pc, StatusInv
<1>EventWake. CASE EventWake
  BY <1>0, <1>EventWake, EventWakeIs, <1>i, <1>e, KeepsFrame
     DEF Kind, Moves, Stays, Yields, Pc, StatusInv
<1>ChildrenReady. CASE ChildrenReady
  BY <1>0, <1>ChildrenReady, ChildrenReadyIs, <1>i, <1>e, KeepsFrame
     DEF Kind, Moves, Stays, Yields, Pc, StatusInv
<1>ChildrenUnready. CASE ChildrenUnready
  BY <1>0, <1>ChildrenUnready, ChildrenUnreadyIs, <1>i, <1>e, KeepsFrame
     DEF Kind, Moves, Stays, Yields, Pc, StatusInv
<1>StartChild. CASE StartChild
  BY <1>0, <1>StartChild, StartChildIs, <1>i, <1>e, KeepsFrame, StartChildFx
     DEF Kind, Moves, Stays, Yields, Pc, StatusInv, Waits
<1>AllOfBackYields. CASE AllOfBackYields
  BY <1>0, <1>AllOfBackYields, AllOfBackYieldsIs, <1>i, <1>e, KeepsFrame
     DEF AllOfBackYields, Kind, Moves, Stays, Yields, Pc, StatusInv
<1>AllOfBackGoesOn. CASE AllOfBackGoesOn
  BY <1>0, <1>AllOfBackGoesOn, AllOfBackGoesOnIs, <1>i, <1>e, KeepsFrame
     DEF AllOfBackGoesOn, Kind, Moves, Stays, Yields, Pc, StatusInv
<1>AnyOfBackWins. CASE AnyOfBackWins
  BY <1>0, <1>AnyOfBackWins, AnyOfBackWinsIs, <1>i, <1>e, KeepsFrame
     DEF AnyOfBackWins, Kind, Moves, Stays, Yields, Pc, StatusInv
<1>AnyOfBackGoesOn. CASE AnyOfBackGoesOn
  BY <1>0, <1>AnyOfBackGoesOn, AnyOfBackGoesOnIs, <1>i, <1>e, KeepsFrame
     DEF AnyOfBackGoesOn, Kind, Moves, Stays, Yields, Pc, StatusInv
<1>AnyOfBackYields. CASE AnyOfBackYields
  BY <1>0, <1>AnyOfBackYields, AnyOfBackYieldsIs, <1>i, <1>e, KeepsFrame
     DEF AnyOfBackYields, Kind, Moves, Stays, Yields, Pc, StatusInv
<1>AllOfWakeYields. CASE AllOfWakeYields
  BY <1>0, <1>AllOfWakeYields, AllOfWakeYieldsIs, <1>i, <1>e, KeepsFrame
     DEF AllOfWakeYields, Kind, Moves, Stays, Yields, Pc, StatusInv
<1>AllOfWakeEnds. CASE AllOfWakeEnds
  BY <1>0, <1>AllOfWakeEnds, AllOfWakeEndsIs, <1>i, <1>e, KeepsFrame
     DEF AllOfWakeEnds, Kind, Moves, Stays, Yields, Pc, StatusInv
<1>AnyOfWake. CASE AnyOfWake
  BY <1>0, <1>AnyOfWake, AnyOfWakeIs, <1>i, <1>e, KeepsFrame
     DEF Kind, Moves, Stays, Yields, Pc, StatusInv
<1>CanceledDirectlyLeaf. CASE CanceledDirectlyLeaf
  BY <1>0, <1>CanceledDirectlyLeaf, CanceledDirectlyLeafIs, <1>i, <1>e, KeepsFrame
     DEF CanceledDirectlyLeaf, Kind, Moves, Stays, Yields, Pc, StatusInv
<1>CanceledDirectlyComb. CASE CanceledDirectlyComb
  <2>1. /\ t \in Task /\ Pc(t) = "wait" /\ act'[t].pc = "cancel"
        /\ \A u \in Task : u # t => act'[u] = act[u]
        /\ status' = status /\ uid' = uid /\ prog' = prog
    BY <1>0, <1>CanceledDirectlyComb, CanceledDirectlyCombIs, KeepsFrame DEF CanceledDirectlyComb, Moves
  <2> QED
    BY <1>i, <1>e, <2>1 DEF StatusInv, Pc, Kind
<1>CanceledIndirectly. CASE CanceledIndirectly
  BY <1>0, <1>CanceledIndirectly, CanceledIndirectlyIs, <1>i, <1>e, KeepsFrame
     DEF Kind, Moves, Stays, Yields, Pc, StatusInv
<1>CatchLeaf. CASE CatchLeaf
  BY <1>0, <1>CatchLeaf, CatchLeafIs, <1>i, <1>e, KeepsFrame
     DEF CatchLeaf, Kind, Moves, Stays, Yields, Pc, StatusInv
<1>CatchComb. CASE CatchComb
  BY <1>0, <1>CatchComb, CatchCombIs, <1>i, <1>e, KeepsFrame
     DEF CatchComb, Kind, Moves, Stays, Yields, Pc, StatusInv
<1>CancelSkip. CASE CancelSkip
  BY <1>0, <1>CancelSkip, CancelSkipIs, <1>i, <1>e, KeepsFrame
     DEF Kind, Moves, Stays, Yields, Pc, StatusInv
<1>CancelUnsupport. CASE CancelUnsupport
  BY <1>0, <1>CancelUnsupport, CancelUnsupportIs, <1>i, <1>e, KeepsFrame, CancelUnsupportFx
     DEF Kind, Moves, Stays, Yields, Pc, StatusInv, Waits
<1>CancelInterrupt. CASE CancelInterrupt
  <2>1. /\ t \in Task /\ Pc(t) = "cancel" /\ act'[t].pc = "cancel"
        /\ \A u \in Task : u # t => act'[u] = act[u]
        /\ uid' = uid /\ prog' = prog
    BY <1>0, <1>CancelInterrupt, CancelInterruptIs, KeepsFrame DEF Moves
  <2>2. PICK x \in Task : /\ x # t /\ Pc(x) # "none" /\ Busy(x) /\ Pc(Inner(x)) = "wait" /\ uid[x] = x
                          /\ status'[x] = "canceled" /\ \A u \in Task : u # x => status'[u] = status[u]
    BY <1>0, <1>CancelInterrupt, CancelInterruptFx
  <2>3. Pc(x) = "run" => Kind(x) = "user"
    BY <2>2, LiveFacts
  <2> QED
    BY <1>i, <1>e, <2>1, <2>2, <2>3 DEF StatusInv, Pc, Kind
<1>CancelEndYields. CASE CancelEndYields
  BY <1>0, <1>CancelEndYields, CancelEndYieldsIs, <1>i, <1>e, KeepsFrame
     DEF CancelEndYields, Kind, Moves, Stays, Yields, Pc, StatusInv
<1>CancelEndDone. CASE CancelEndDone
  BY <1>0, <1>CancelEndDone, CancelEndDoneIs, <1>i, <1>e, StackTypes, KeepsFrame
     DEF CancelEndDone, Kind, Moves, Stays, Yields, Pc, StatusInv
<1>UnsupportYields. CASE UnsupportYields
  BY <1>0, <1>UnsupportYields, UnsupportYieldsIs, <1>i, <1>e, KeepsFrame
     DEF UnsupportYields, Kind, Moves, Stays, Yields, Pc, StatusInv
<1>UnsupportDone. CASE UnsupportDone
  <2>1. /\ t \in Task
        /\ Pc(t) = "unsupport"
        /\ act'[t].pc = act[t].next
        /\ \A u \in Task : u # t => act'[u] = act[u]
        /\ uid' = uid /\ prog' = prog /\ stack' = stack /\ reuse' = reuse
        /\ status' = status
        /\ act[t].next \in {"return", "caught"}
    BY <1>0, <1>UnsupportDone, UnsupportDoneIs, KeepsFrame, StackTypes DEF UnsupportDone, Moves
  <2> QED
    BY <1>i, <1>e, <2>1 DEF StatusInv, Pc, Kind
<1>AwaitReturn. CASE AwaitReturn
  <2>1. PICK x \in Task, u \in Task, s \in Status, pc \in Points :
          /\ x # u /\ Ends(x, s, pc) /\ Pc(u) = "run" /\ Kind(u) = "user"
          /\ status'[x] = s /\ \A v \in Task : v # x => status'[v] = status[v]
          /\ uid'[x] = Loop /\ \A v \in Task : v # x => uid'[v] = uid[v]
          /\ act'[x].pc = "none" /\ act'[u].pc = pc
          /\ \A v \in Task : v # x /\ v # u => act'[v] = act[v]
          /\ prog' = prog
    BY <1>AwaitReturn, PopsFx
  <2> QED
    BY <1>i, <1>e, <2>1 DEF StatusInv, Ends, Pc, Kind
<1>AwaitReturnThrow. CASE AwaitReturnThrow
  <2>1. PICK x \in Task, u \in Task, s \in Status, pc \in Points :
          /\ x # u /\ Ends(x, s, pc) /\ Pc(u) = "run" /\ Kind(u) = "user"
          /\ status'[x] = s /\ \A v \in Task : v # x => status'[v] = status[v]
          /\ uid'[x] = Loop /\ \A v \in Task : v # x => uid'[v] = uid[v]
          /\ act'[x].pc = "none" /\ act'[u].pc = pc
          /\ \A v \in Task : v # x /\ v # u => act'[v] = act[v]
          /\ prog' = prog
    BY <1>AwaitReturnThrow, PopsFx
  <2> QED
    BY <1>i, <1>e, <2>1 DEF StatusInv, Ends, Pc, Kind
<1>AwaitRethrow. CASE AwaitRethrow
  <2>1. PICK x \in Task, u \in Task, s \in Status, pc \in Points :
          /\ x # u /\ Ends(x, s, pc) /\ Pc(u) = "run" /\ Kind(u) = "user"
          /\ status'[x] = s /\ \A v \in Task : v # x => status'[v] = status[v]
          /\ uid'[x] = Loop /\ \A v \in Task : v # x => uid'[v] = uid[v]
          /\ act'[x].pc = "none" /\ act'[u].pc = pc
          /\ \A v \in Task : v # x /\ v # u => act'[v] = act[v]
          /\ prog' = prog
    BY <1>AwaitRethrow, PopsFx
  <2> QED
    BY <1>i, <1>e, <2>1 DEF StatusInv, Ends, Pc, Kind
<1>RuntimeFinish. CASE RuntimeFinish
  BY <1>0, <1>RuntimeFinish, RuntimeFinishIs, <1>i, <1>e, FinishFx
     DEF Kind, Moves, Stays, Yields, Pc, StatusInv
<1>EventFires. CASE \E e \in Task : EventFires(e)
  BY <1>0, <1>EventFires, <1>i, <1>e, EventFiresIs DEF Kind, Moves, Stays, Yields, Pc, StatusInv
<1>Stutter. CASE UNCHANGED vars
  BY <1>0, <1>Stutter, <1>i, <1>e
     DEF Kind, Moves, Stays, Yields, Pc, StatusInv, vars, objectVars, controlVars
<1> QED
  BY StepCases, <1>TaskRuntime, <1>Await, <1>Start, <1>StartReject, <1>EventRun, <1>EventWake,
       <1>ChildrenReady, <1>ChildrenUnready, <1>StartChild, <1>AllOfBackYields,
       <1>AllOfBackGoesOn, <1>AnyOfBackWins, <1>AnyOfBackGoesOn, <1>AnyOfBackYields,
       <1>AllOfWakeYields, <1>AllOfWakeEnds, <1>AnyOfWake, <1>CanceledDirectlyLeaf,
       <1>CanceledDirectlyComb, <1>CanceledIndirectly, <1>CatchLeaf, <1>CatchComb, <1>CancelSkip,
       <1>CancelUnsupport, <1>CancelInterrupt, <1>CancelEndYields, <1>CancelEndDone,
       <1>UnsupportYields, <1>UnsupportDone, <1>AwaitReturn, <1>AwaitReturnThrow, <1>AwaitRethrow,
       <1>RuntimeFinish, <1>EventFires, <1>Stutter

LEMMA PcStep ==
    ASSUME IndInv, [Next]_vars
    PROVE  PcInv'
<1>0. PICK r, t : r = running /\ t = Top
  OBVIOUS
<1>i. PcInv
  BY DEF IndInv
<1>n. \A x \in Task : /\ act[x].i \in Nat /\ Len(Children(x)) \in Nat
                      /\ Kind(x) \in Combinators => Len(Children(x)) >= 1
                      /\ DOMAIN Children(x) = 1..Len(Children(x))
                      /\ act[x].next \in {"return", "caught"}
  BY StackTypes, TaskFacts DEF IndInv
<1>TaskRuntime. CASE TaskRuntime
  BY <1>0, <1>TaskRuntime, TaskRuntimeIs, <1>i, <1>n DEF PcInv, Pc, Kind, Children
<1>Await. CASE Await
  <2>1. \E x, u \in Task : /\ x # u /\ Kind(u) = "user" /\ act'[x].pc = "run" /\ act'[x].i = 1
                          /\ act'[u].pc = "run" /\ act'[u].i = act[u].i + 1
                          /\ \A v \in Task : v # u /\ v # x => act'[v] = act[v]
    BY <1>Await, AwaitFx
  <2>2. prog' = prog
    BY <1>Await, AwaitIs
  <2> QED
    BY <1>i, <1>n, <2>1, <2>2 DEF PcInv, Pc, Kind, Children
<1>Start. CASE Start
  <2>1. /\ t \in Task
        /\ Pc(t) = "run"
        /\ act'[t].pc = "run"
        /\ act'[t].i = act[t].i + 1
        /\ \A u \in Task : u # t => act'[u] = act[u]
        /\ uid' = uid /\ prog' = prog /\ stack' = stack /\ reuse' = reuse
        /\ Kind(t) = "user"
    BY <1>0, <1>Start, StartIs, KeepsFrame, StartFx DEF Moves
  <2> QED
    BY <1>i, <1>n, <2>1 DEF PcInv, Pc, Kind, Children, Combinators
<1>StartReject. CASE StartReject
  <2>1. /\ t \in Task
        /\ Pc(t) = "run"
        /\ act'[t].pc = "run"
        /\ act'[t].i = act[t].i + 1
        /\ \A u \in Task : u # t => act'[u] = act[u]
        /\ uid' = uid /\ prog' = prog /\ stack' = stack /\ reuse' = reuse
        /\ Kind(t) = "user"
    BY <1>0, <1>StartReject, StartRejectIs, KeepsFrame, CallIs DEF Moves, StartReject
  <2> QED
    BY <1>i, <1>n, <2>1 DEF PcInv, Pc, Kind, Children, Combinators
<1>EventRun. CASE EventRun
  <2>1. /\ t \in Task
        /\ Pc(t) = "run"
        /\ act'[t].pc = "wait"
        /\ act'[t].i = act[t].i
        /\ \A u \in Task : u # t => act'[u] = act[u]
        /\ uid' = uid /\ prog' = prog /\ stack' = stack /\ reuse' = reuse
        /\ Kind(t) = "event"
    BY <1>0, <1>EventRun, EventRunIs, KeepsFrame DEF Moves
  <2> QED
    BY <1>i, <1>n, <2>1 DEF PcInv, Pc, Kind, Children, Combinators
<1>EventWake. CASE EventWake
  <2>1. /\ t \in Task
        /\ Pc(t) = "wait"
        /\ act'[t].pc = "return"
        /\ act'[t].i = act[t].i
        /\ \A u \in Task : u # t => act'[u] = act[u]
        /\ uid' = uid /\ prog' = prog /\ stack' = stack /\ reuse' = reuse
    BY <1>0, <1>EventWake, EventWakeIs, KeepsFrame DEF Moves
  <2> QED
    BY <1>i, <1>n, <2>1 DEF PcInv, Pc, Kind, Children, Combinators
<1>ChildrenReady. CASE ChildrenReady
  <2>1. /\ t \in Task
        /\ Pc(t) = "run"
        /\ act'[t].pc = "start"
        /\ act'[t].i = 1
        /\ \A u \in Task : u # t => act'[u] = act[u]
        /\ uid' = uid /\ prog' = prog /\ stack' = stack /\ reuse' = reuse
        /\ Kind(t) \in Combinators
    BY <1>0, <1>ChildrenReady, ChildrenReadyIs, KeepsFrame DEF Moves
  <2> QED
    BY <1>i, <1>n, <2>1 DEF PcInv, Pc, Kind, Children, Combinators
<1>ChildrenUnready. CASE ChildrenUnready
  <2>1. /\ t \in Task
        /\ Pc(t) = "run"
        /\ act'[t].pc = "return"
        /\ act'[t].i = act[t].i
        /\ \A u \in Task : u # t => act'[u] = act[u]
        /\ uid' = uid /\ prog' = prog /\ stack' = stack /\ reuse' = reuse
        /\ Kind(t) \in Combinators
    BY <1>0, <1>ChildrenUnready, ChildrenUnreadyIs, KeepsFrame DEF Moves
  <2> QED
    BY <1>i, <1>n, <2>1 DEF PcInv, Pc, Kind, Children, Combinators
<1>StartChild. CASE StartChild
  <2>1. /\ t \in Task
        /\ Pc(t) = "start"
        /\ act'[t].pc = "child"
        /\ act'[t].i = act[t].i
        /\ \A u \in Task : u # t => act'[u] = act[u]
        /\ uid' = uid /\ prog' = prog /\ stack' = stack /\ reuse' = reuse
    BY <1>0, <1>StartChild, StartChildIs, KeepsFrame DEF Moves
  <2> QED
    BY <1>i, <1>n, <2>1 DEF PcInv, Pc, Kind, Children, Combinators
<1>AllOfBackYields. CASE AllOfBackYields
  <2>1. /\ t \in Task
        /\ Pc(t) = "child"
        /\ act'[t].pc = "wait"
        /\ act'[t].i = act[t].i + 1
        /\ \A u \in Task : u # t => act'[u] = act[u]
        /\ uid' = uid /\ prog' = prog /\ stack' = stack /\ reuse' = reuse
    BY <1>0, <1>AllOfBackYields, AllOfBackYieldsIs, KeepsFrame DEF AllOfBackYields, Moves
  <2> QED
    BY <1>i, <1>n, <2>1 DEF PcInv, Pc, Kind, Children, Combinators
<1>AllOfBackGoesOn. CASE AllOfBackGoesOn
  <2>1. /\ t \in Task
        /\ Pc(t) = "child"
        /\ act'[t].pc = (IF act[t].i = Len(Children(t)) THEN "return" ELSE "start")
        /\ act'[t].i = act[t].i + 1
        /\ \A u \in Task : u # t => act'[u] = act[u]
        /\ uid' = uid /\ prog' = prog /\ stack' = stack /\ reuse' = reuse
        /\ Kind(t) = "all_of"
    BY <1>0, <1>AllOfBackGoesOn, AllOfBackGoesOnIs, KeepsFrame DEF AllOfBackGoesOn, Moves
  <2> QED
    BY <1>i, <1>n, <2>1 DEF PcInv, Pc, Kind, Children, Combinators
<1>AnyOfBackWins. CASE AnyOfBackWins
  <2>1. /\ t \in Task
        /\ Pc(t) = "child"
        /\ act'[t].pc = "cancel"
        /\ act'[t].i = 1
        /\ \A u \in Task : u # t => act'[u] = act[u]
        /\ uid' = uid /\ prog' = prog /\ stack' = stack /\ reuse' = reuse
    BY <1>0, <1>AnyOfBackWins, AnyOfBackWinsIs, KeepsFrame DEF AnyOfBackWins, Moves
  <2> QED
    BY <1>i, <1>n, <2>1 DEF PcInv, Pc, Kind, Children, Combinators
<1>AnyOfBackGoesOn. CASE AnyOfBackGoesOn
  <2>1. /\ t \in Task
        /\ Pc(t) = "child"
        /\ act'[t].pc = "start"
        /\ act'[t].i = act[t].i + 1
        /\ \A u \in Task : u # t => act'[u] = act[u]
        /\ uid' = uid /\ prog' = prog /\ stack' = stack /\ reuse' = reuse
        /\ act[t].i < Len(Children(t))
    BY <1>0, <1>AnyOfBackGoesOn, AnyOfBackGoesOnIs, KeepsFrame DEF AnyOfBackGoesOn, Moves
  <2> QED
    BY <1>i, <1>n, <2>1 DEF PcInv, Pc, Kind, Children, Combinators
<1>AnyOfBackYields. CASE AnyOfBackYields
  <2>1. /\ t \in Task
        /\ Pc(t) = "child"
        /\ act'[t].pc = "wait"
        /\ act'[t].i = act[t].i + 1
        /\ \A u \in Task : u # t => act'[u] = act[u]
        /\ uid' = uid /\ prog' = prog /\ stack' = stack /\ reuse' = reuse
    BY <1>0, <1>AnyOfBackYields, AnyOfBackYieldsIs, KeepsFrame DEF AnyOfBackYields, Moves
  <2> QED
    BY <1>i, <1>n, <2>1 DEF PcInv, Pc, Kind, Children, Combinators
<1>AllOfWakeYields. CASE AllOfWakeYields
  <2>1. /\ t \in Task
        /\ Pc(t) = "wait"
        /\ act'[t].pc = "wait"
        /\ act'[t].i = act[t].i
        /\ \A u \in Task : u # t => act'[u] = act[u]
        /\ uid' = uid /\ prog' = prog /\ stack' = stack /\ reuse' = reuse
    BY <1>0, <1>AllOfWakeYields, AllOfWakeYieldsIs, KeepsFrame DEF AllOfWakeYields, Moves
  <2> QED
    BY <1>i, <1>n, <2>1 DEF PcInv, Pc, Kind, Children, Combinators
<1>AllOfWakeEnds. CASE AllOfWakeEnds
  <2>1. /\ t \in Task
        /\ Pc(t) = "wait"
        /\ act'[t].pc = "return"
        /\ act'[t].i = act[t].i
        /\ \A u \in Task : u # t => act'[u] = act[u]
        /\ uid' = uid /\ prog' = prog /\ stack' = stack /\ reuse' = reuse
    BY <1>0, <1>AllOfWakeEnds, AllOfWakeEndsIs, KeepsFrame DEF AllOfWakeEnds, Moves
  <2> QED
    BY <1>i, <1>n, <2>1 DEF PcInv, Pc, Kind, Children, Combinators
<1>AnyOfWake. CASE AnyOfWake
  <2>1. /\ t \in Task
        /\ Pc(t) = "wait"
        /\ act'[t].pc = "cancel"
        /\ act'[t].i = 1
        /\ \A u \in Task : u # t => act'[u] = act[u]
        /\ uid' = uid /\ prog' = prog /\ stack' = stack /\ reuse' = reuse
        /\ Kind(t) = "any_of"
    BY <1>0, <1>AnyOfWake, AnyOfWakeIs, KeepsFrame DEF Moves
  <2> QED
    BY <1>i, <1>n, <2>1 DEF PcInv, Pc, Kind, Children, Combinators
<1>CanceledDirectlyLeaf. CASE CanceledDirectlyLeaf
  <2>1. /\ t \in Task
        /\ Pc(t) = "wait"
        /\ act'[t].pc = "return"
        /\ act'[t].i = act[t].i
        /\ \A u \in Task : u # t => act'[u] = act[u]
        /\ uid' = uid /\ prog' = prog /\ stack' = stack /\ reuse' = reuse
    BY <1>0, <1>CanceledDirectlyLeaf, CanceledDirectlyLeafIs, KeepsFrame
       DEF CanceledDirectlyLeaf, Moves
  <2> QED
    BY <1>i, <1>n, <2>1 DEF PcInv, Pc, Kind, Children, Combinators
<1>CanceledDirectlyComb. CASE CanceledDirectlyComb
  <2>1. /\ t \in Task
        /\ Pc(t) = "wait"
        /\ act'[t].pc = "cancel"
        /\ act'[t].i = 1
        /\ \A u \in Task : u # t => act'[u] = act[u]
        /\ uid' = uid /\ prog' = prog /\ stack' = stack /\ reuse' = reuse
        /\ Kind(t) \in Combinators
    BY <1>0, <1>CanceledDirectlyComb, CanceledDirectlyCombIs, KeepsFrame
       DEF CanceledDirectlyComb, Moves
  <2> QED
    BY <1>i, <1>n, <2>1 DEF PcInv, Pc, Kind, Children, Combinators
<1>CanceledIndirectly. CASE CanceledIndirectly
  <2>1. /\ t \in Task
        /\ Pc(t) = "wait"
        /\ act'[t].pc = "throw"
        /\ act'[t].i = act[t].i
        /\ \A u \in Task : u # t => act'[u] = act[u]
        /\ uid' = uid /\ prog' = prog /\ stack' = stack /\ reuse' = reuse
    BY <1>0, <1>CanceledIndirectly, CanceledIndirectlyIs, KeepsFrame DEF Moves
  <2> QED
    BY <1>i, <1>n, <2>1 DEF PcInv, Pc, Kind, Children, Combinators
<1>CatchLeaf. CASE CatchLeaf
  <2>1. /\ t \in Task
        /\ Pc(t) = "throw"
        /\ act'[t].pc = "caught"
        /\ act'[t].i = act[t].i
        /\ \A u \in Task : u # t => act'[u] = act[u]
        /\ uid' = uid /\ prog' = prog /\ stack' = stack /\ reuse' = reuse
        /\ Kind(t) \notin Combinators
    BY <1>0, <1>CatchLeaf, CatchLeafIs, KeepsFrame DEF CatchLeaf, Moves
  <2> QED
    BY <1>i, <1>n, <2>1 DEF PcInv, Pc, Kind, Children, Combinators
<1>CatchComb. CASE CatchComb
  <2>1. /\ t \in Task
        /\ Pc(t) = "throw"
        /\ act'[t].pc = "cancel"
        /\ act'[t].i = 1
        /\ \A u \in Task : u # t => act'[u] = act[u]
        /\ uid' = uid /\ prog' = prog /\ stack' = stack /\ reuse' = reuse
        /\ Kind(t) \in Combinators
    BY <1>0, <1>CatchComb, CatchCombIs, KeepsFrame DEF CatchComb, Moves
  <2> QED
    BY <1>i, <1>n, <2>1 DEF PcInv, Pc, Kind, Children, Combinators
<1>CancelSkip. CASE CancelSkip
  <2>1. /\ t \in Task
        /\ Pc(t) = "cancel"
        /\ act'[t].pc = "cancel"
        /\ act'[t].i = act[t].i + 1
        /\ \A u \in Task : u # t => act'[u] = act[u]
        /\ uid' = uid /\ prog' = prog /\ stack' = stack /\ reuse' = reuse
        /\ act[t].i \in DOMAIN Children(t)
    BY <1>0, <1>CancelSkip, CancelSkipIs, KeepsFrame DEF Moves
  <2>2. act'[t].i \in Nat /\ act'[t].i >= 1 /\ act'[t].i <= Len(Children(t)) + 1
    BY <1>n, <2>1
  <2> QED
    BY <1>i, <2>1, <2>2 DEF PcInv, Pc, Kind, Children
<1>CancelUnsupport. CASE CancelUnsupport
  <2>1. /\ t \in Task
        /\ Pc(t) = "cancel"
        /\ act'[t].pc = "cancel"
        /\ act'[t].i = act[t].i + 1
        /\ \A u \in Task : u # t => act'[u] = act[u]
        /\ uid' = uid /\ prog' = prog /\ stack' = stack /\ reuse' = reuse
        /\ act[t].i \in DOMAIN Children(t)
    BY <1>0, <1>CancelUnsupport, CancelUnsupportIs, KeepsFrame DEF Moves
  <2>2. act'[t].i \in Nat /\ act'[t].i >= 1 /\ act'[t].i <= Len(Children(t)) + 1
    BY <1>n, <2>1
  <2> QED
    BY <1>i, <2>1, <2>2 DEF PcInv, Pc, Kind, Children
<1>CancelInterrupt. CASE CancelInterrupt
  <2>1. /\ t \in Task
        /\ Pc(t) = "cancel"
        /\ act'[t].pc = "cancel"
        /\ act'[t].i = act[t].i + 1
        /\ \A u \in Task : u # t => act'[u] = act[u]
        /\ uid' = uid /\ prog' = prog /\ stack' = stack /\ reuse' = reuse
        /\ act[t].i \in DOMAIN Children(t)
    BY <1>0, <1>CancelInterrupt, CancelInterruptIs, KeepsFrame DEF Moves
  <2>2. act'[t].i \in Nat /\ act'[t].i >= 1 /\ act'[t].i <= Len(Children(t)) + 1
    BY <1>n, <2>1
  <2> QED
    BY <1>i, <2>1, <2>2 DEF PcInv, Pc, Kind, Children
<1>CancelEndYields. CASE CancelEndYields
  <2>1. /\ t \in Task
        /\ Pc(t) = "cancel"
        /\ act'[t].pc = "unsupport"
        /\ act'[t].i = act[t].i
        /\ \A u \in Task : u # t => act'[u] = act[u]
        /\ uid' = uid /\ prog' = prog /\ stack' = stack /\ reuse' = reuse
    BY <1>0, <1>CancelEndYields, CancelEndYieldsIs, KeepsFrame DEF CancelEndYields, Moves
  <2> QED
    BY <1>i, <1>n, <2>1 DEF PcInv, Pc, Kind, Children, Combinators
<1>CancelEndDone. CASE CancelEndDone
  <2>1. /\ t \in Task
        /\ Pc(t) = "cancel"
        /\ act'[t].pc = act[t].next
        /\ act'[t].i = act[t].i
        /\ \A u \in Task : u # t => act'[u] = act[u]
        /\ uid' = uid /\ prog' = prog /\ stack' = stack /\ reuse' = reuse
    BY <1>0, <1>CancelEndDone, CancelEndDoneIs, KeepsFrame DEF CancelEndDone, Moves
  <2> QED
    BY <1>i, <1>n, <2>1 DEF PcInv, Pc, Kind, Children, Combinators
<1>UnsupportYields. CASE UnsupportYields
  <2>1. /\ t \in Task
        /\ Pc(t) = "unsupport"
        /\ act'[t].pc = "unsupport"
        /\ act'[t].i = act[t].i
        /\ \A u \in Task : u # t => act'[u] = act[u]
        /\ uid' = uid /\ prog' = prog /\ stack' = stack /\ reuse' = reuse
    BY <1>0, <1>UnsupportYields, UnsupportYieldsIs, KeepsFrame DEF UnsupportYields, Moves
  <2> QED
    BY <1>i, <1>n, <2>1 DEF PcInv, Pc, Kind, Children, Combinators
<1>UnsupportDone. CASE UnsupportDone
  <2>1. /\ t \in Task
        /\ Pc(t) = "unsupport"
        /\ act'[t].pc = act[t].next
        /\ act'[t].i = act[t].i
        /\ \A u \in Task : u # t => act'[u] = act[u]
        /\ uid' = uid /\ prog' = prog /\ stack' = stack /\ reuse' = reuse
    BY <1>0, <1>UnsupportDone, UnsupportDoneIs, KeepsFrame DEF UnsupportDone, Moves
  <2> QED
    BY <1>i, <1>n, <2>1 DEF PcInv, Pc, Kind, Children, Combinators
<1>AwaitReturn. CASE AwaitReturn
  <2>1. PICK x \in Task, u \in Task, s \in Status, pc \in Points :
          /\ x # u /\ Ends(x, s, pc) /\ Kind(u) = "user"
          /\ act'[x].pc = "none" /\ act'[x].i = act[x].i
          /\ act'[u].pc = pc /\ act'[u].i = act[u].i
          /\ \A v \in Task : v # x /\ v # u => act'[v] = act[v]
          /\ prog' = prog
    BY <1>AwaitReturn, PopsFx
  <2> QED
    BY <1>i, <1>n, <2>1 DEF PcInv, Ends, Pc, Kind, Children
<1>AwaitReturnThrow. CASE AwaitReturnThrow
  <2>1. PICK x \in Task, u \in Task, s \in Status, pc \in Points :
          /\ x # u /\ Ends(x, s, pc) /\ Kind(u) = "user"
          /\ act'[x].pc = "none" /\ act'[x].i = act[x].i
          /\ act'[u].pc = pc /\ act'[u].i = act[u].i
          /\ \A v \in Task : v # x /\ v # u => act'[v] = act[v]
          /\ prog' = prog
    BY <1>AwaitReturnThrow, PopsFx
  <2> QED
    BY <1>i, <1>n, <2>1 DEF PcInv, Ends, Pc, Kind, Children
<1>AwaitRethrow. CASE AwaitRethrow
  <2>1. PICK x \in Task, u \in Task, s \in Status, pc \in Points :
          /\ x # u /\ Ends(x, s, pc) /\ Kind(u) = "user"
          /\ act'[x].pc = "none" /\ act'[x].i = act[x].i
          /\ act'[u].pc = pc /\ act'[u].i = act[u].i
          /\ \A v \in Task : v # x /\ v # u => act'[v] = act[v]
          /\ prog' = prog
    BY <1>AwaitRethrow, PopsFx
  <2> QED
    BY <1>i, <1>n, <2>1 DEF PcInv, Ends, Pc, Kind, Children
<1>RuntimeFinish. CASE RuntimeFinish
  BY <1>0, <1>RuntimeFinish, RuntimeFinishIs, <1>i, <1>n DEF PcInv, Pc, Kind, Children
<1>EventFires. CASE \E e \in Task : EventFires(e)
  BY <1>0, <1>EventFires, <1>i, <1>n, EventFiresIs DEF PcInv, Pc, Kind, Children
<1>Stutter. CASE UNCHANGED vars
  BY <1>0, <1>Stutter, <1>i, <1>n DEF PcInv, Pc, Kind, Children, vars
<1> QED
  BY StepCases, <1>TaskRuntime, <1>Await, <1>Start, <1>StartReject, <1>EventRun, <1>EventWake,
       <1>ChildrenReady, <1>ChildrenUnready, <1>StartChild, <1>AllOfBackYields,
       <1>AllOfBackGoesOn, <1>AnyOfBackWins, <1>AnyOfBackGoesOn, <1>AnyOfBackYields,
       <1>AllOfWakeYields, <1>AllOfWakeEnds, <1>AnyOfWake, <1>CanceledDirectlyLeaf,
       <1>CanceledDirectlyComb, <1>CanceledIndirectly, <1>CatchLeaf, <1>CatchComb, <1>CancelSkip,
       <1>CancelUnsupport, <1>CancelInterrupt, <1>CancelEndYields, <1>CancelEndDone,
       <1>UnsupportYields, <1>UnsupportDone, <1>AwaitReturn, <1>AwaitReturnThrow, <1>AwaitRethrow,
       <1>RuntimeFinish, <1>EventFires, <1>Stutter

LEMMA SignalStep ==
    ASSUME IndInv, [Next]_vars
    PROVE  SignalInv'
<1>0. PICK r, t : r = running /\ t = Top
  OBVIOUS
<1>i. global_signal_canceled => /\ running # Loop /\ Busy(running) /\ Pc(Inner(running)) = "wait"
                                /\ status[running] = "canceled"
  BY DEF IndInv, SignalInv
<1>TaskRuntime. CASE TaskRuntime
  BY <1>0, <1>TaskRuntime, TaskRuntimeIs, <1>i DEF SignalInv
<1>Await. CASE Await
  BY <1>0, <1>Await, AwaitIs, <1>i, AwaitFx DEF SignalInv
<1>Start. CASE Start
  BY <1>0, <1>Start, StartIs, <1>i, KeepsFrame, StartFx DEF SignalInv
<1>StartReject. CASE StartReject
  BY <1>0, <1>StartReject, StartRejectIs, <1>i, KeepsFrame, CallIs DEF SignalInv, StartReject
<1>EventRun. CASE EventRun
  BY <1>0, <1>EventRun, EventRunIs, <1>i, KeepsFrame DEF SignalInv
<1>EventWake. CASE EventWake
  BY <1>0, <1>EventWake, EventWakeIs, <1>i, KeepsFrame DEF SignalInv
<1>ChildrenReady. CASE ChildrenReady
  BY <1>0, <1>ChildrenReady, ChildrenReadyIs, <1>i, KeepsFrame DEF SignalInv
<1>ChildrenUnready. CASE ChildrenUnready
  BY <1>0, <1>ChildrenUnready, ChildrenUnreadyIs, <1>i, KeepsFrame DEF SignalInv
<1>StartChild. CASE StartChild
  BY <1>0, <1>StartChild, StartChildIs, <1>i, KeepsFrame DEF SignalInv
<1>AllOfBackYields. CASE AllOfBackYields
  BY <1>0, <1>AllOfBackYields, AllOfBackYieldsIs, <1>i, KeepsFrame DEF AllOfBackYields, SignalInv
<1>AllOfBackGoesOn. CASE AllOfBackGoesOn
  BY <1>0, <1>AllOfBackGoesOn, AllOfBackGoesOnIs, <1>i, KeepsFrame DEF AllOfBackGoesOn, SignalInv
<1>AnyOfBackWins. CASE AnyOfBackWins
  BY <1>0, <1>AnyOfBackWins, AnyOfBackWinsIs, <1>i, KeepsFrame DEF AnyOfBackWins, SignalInv
<1>AnyOfBackGoesOn. CASE AnyOfBackGoesOn
  BY <1>0, <1>AnyOfBackGoesOn, AnyOfBackGoesOnIs, <1>i, KeepsFrame DEF AnyOfBackGoesOn, SignalInv
<1>AnyOfBackYields. CASE AnyOfBackYields
  BY <1>0, <1>AnyOfBackYields, AnyOfBackYieldsIs, <1>i, KeepsFrame DEF AnyOfBackYields, SignalInv
<1>AllOfWakeYields. CASE AllOfWakeYields
  BY <1>0, <1>AllOfWakeYields, AllOfWakeYieldsIs, <1>i, KeepsFrame DEF AllOfWakeYields, SignalInv
<1>AllOfWakeEnds. CASE AllOfWakeEnds
  BY <1>0, <1>AllOfWakeEnds, AllOfWakeEndsIs, <1>i, KeepsFrame DEF AllOfWakeEnds, SignalInv
<1>AnyOfWake. CASE AnyOfWake
  BY <1>0, <1>AnyOfWake, AnyOfWakeIs, <1>i, KeepsFrame DEF SignalInv
<1>CanceledDirectlyLeaf. CASE CanceledDirectlyLeaf
  BY <1>0, <1>CanceledDirectlyLeaf, CanceledDirectlyLeafIs DEF CanceledDirectlyLeaf, SignalInv
<1>CanceledDirectlyComb. CASE CanceledDirectlyComb
  BY <1>0, <1>CanceledDirectlyComb, CanceledDirectlyCombIs DEF CanceledDirectlyComb, SignalInv
<1>CanceledIndirectly. CASE CanceledIndirectly
  BY <1>0, <1>CanceledIndirectly, CanceledIndirectlyIs DEF SignalInv
<1>CatchLeaf. CASE CatchLeaf
  BY <1>0, <1>CatchLeaf, CatchLeafIs, <1>i, KeepsFrame DEF CatchLeaf, SignalInv
<1>CatchComb. CASE CatchComb
  BY <1>0, <1>CatchComb, CatchCombIs, <1>i, KeepsFrame DEF CatchComb, SignalInv
<1>CancelSkip. CASE CancelSkip
  BY <1>0, <1>CancelSkip, CancelSkipIs, <1>i, KeepsFrame DEF SignalInv
<1>CancelUnsupport. CASE CancelUnsupport
  BY <1>0, <1>CancelUnsupport, CancelUnsupportIs, <1>i, KeepsFrame DEF SignalInv
<1>CancelInterrupt. CASE CancelInterrupt
  <2>1. PICK x \in Task : /\ Busy(x) /\ Inner(x) # t /\ Inner(x) \in Task /\ Pc(Inner(x)) = "wait" /\ running' = x
                          /\ \A u \in Task : Pc(u) # "none" /\ uid[u] = x => status[u] = "running"
                          /\ status'[x] = "canceled" /\ \A u \in Task : u # x => status'[u] = status[u]
    BY <1>0, <1>CancelInterrupt, CancelInterruptFx
  <2>2. /\ uid' = uid /\ \A u \in Task : (Pc(u)' = "none" <=> Pc(u) = "none") /\ (u # t => Pc(u)' = Pc(u))
        /\ \A c \in Task : Busy(c)' = Busy(c) /\ Inner(c)' = Inner(c)
    BY <1>0, <1>CancelInterrupt, CancelInterruptIs, KeepsFrame
  <2>3. Busy(x)' /\ Pc(Inner(x))' = "wait"
    <3>1. PICK y : y = Inner(x) /\ Inner(x)' = y
      BY <2>2
    <3>2. Pc(y)' = "wait"
      BY <2>1, <2>2, <3>1
    <3> QED
      BY <2>1, <2>2, <3>1, <3>2 DEF Pc
  <2>4. \A u \in Task : Pc(u)' # "none" /\ uid'[u] = x /\ u # x => status'[u] = "running"
    BY <2>1, <2>2
  <2>5. x # Loop
    BY StackTypes
  <2>6. running' # Loop /\ Busy(running)' /\ Pc(Inner(running))' = "wait" /\ status'[running'] = "canceled"
    <3>1. stack'[x] # <<>> /\ act'[stack'[x][1]].pc = "wait"
      BY <2>3 DEF Busy, Inner, Pc
    <3>2. running' = x /\ status'[x] = "canceled"
      BY <2>1
    <3> QED
      BY <2>5, <3>1, <3>2 DEF Busy, Inner, Pc
  <2>7. \A u \in Task : Pc(u)' # "none" /\ uid'[u] = running' /\ u # running' => status'[u] = "running"
    BY <2>1, <2>4
  <2> QED
    BY <2>6, <2>7 DEF SignalInv
<1>CancelEndYields. CASE CancelEndYields
  BY <1>0, <1>CancelEndYields, CancelEndYieldsIs, <1>i, KeepsFrame DEF CancelEndYields, SignalInv
<1>CancelEndDone. CASE CancelEndDone
  BY <1>0, <1>CancelEndDone, CancelEndDoneIs, <1>i, KeepsFrame DEF CancelEndDone, SignalInv
<1>UnsupportYields. CASE UnsupportYields
  BY <1>0, <1>UnsupportYields, UnsupportYieldsIs, <1>i, KeepsFrame DEF UnsupportYields, SignalInv
<1>UnsupportDone. CASE UnsupportDone
  BY <1>0, <1>UnsupportDone, UnsupportDoneIs, <1>i, KeepsFrame DEF UnsupportDone, SignalInv
<1>AwaitReturn. CASE AwaitReturn
  <2>1. ~global_signal_canceled /\ global_signal_canceled' = global_signal_canceled
    BY <1>i, <1>AwaitReturn, PopsFx DEF Ends
  <2> QED
    BY <2>1 DEF SignalInv
<1>AwaitReturnThrow. CASE AwaitReturnThrow
  <2>1. ~global_signal_canceled /\ global_signal_canceled' = global_signal_canceled
    BY <1>i, <1>AwaitReturnThrow, PopsFx DEF Ends
  <2> QED
    BY <2>1 DEF SignalInv
<1>AwaitRethrow. CASE AwaitRethrow
  <2>1. ~global_signal_canceled /\ global_signal_canceled' = global_signal_canceled
    BY <1>i, <1>AwaitRethrow, PopsFx DEF Ends
  <2> QED
    BY <2>1 DEF SignalInv
<1>RuntimeFinish. CASE RuntimeFinish
  BY <1>0, <1>RuntimeFinish, RuntimeFinishIs, <1>i DEF SignalInv
<1>EventFires. CASE \E e \in Task : EventFires(e)
  BY <1>0, <1>EventFires, EventFiresIs DEF SignalInv
<1>Stutter. CASE UNCHANGED vars
  <2> QED
    BY <1>Stutter DEF IndInv, SignalInv, vars, objectVars, controlVars, Busy, Inner, Pc
<1> QED
  BY StepCases, <1>TaskRuntime, <1>Await, <1>Start, <1>StartReject, <1>EventRun, <1>EventWake,
       <1>ChildrenReady, <1>ChildrenUnready, <1>StartChild, <1>AllOfBackYields,
       <1>AllOfBackGoesOn, <1>AnyOfBackWins, <1>AnyOfBackGoesOn, <1>AnyOfBackYields,
       <1>AllOfWakeYields, <1>AllOfWakeEnds, <1>AnyOfWake, <1>CanceledDirectlyLeaf,
       <1>CanceledDirectlyComb, <1>CanceledIndirectly, <1>CatchLeaf, <1>CatchComb, <1>CancelSkip,
       <1>CancelUnsupport, <1>CancelInterrupt, <1>CancelEndYields, <1>CancelEndDone,
       <1>UnsupportYields, <1>UnsupportDone, <1>AwaitReturn, <1>AwaitReturnThrow, <1>AwaitRethrow,
       <1>RuntimeFinish, <1>EventFires, <1>Stutter


LEMMA TypeStep ==
    ASSUME IndInv, [Next]_vars
    PROVE  TypeOK'
<1>1. \/ Start
      \/ StartReject
      \/ EventRun
      \/ EventWake
      \/ ChildrenReady
      \/ ChildrenUnready
      \/ StartChild
      \/ AllOfBackYields
      \/ AllOfBackGoesOn
      \/ AnyOfBackWins
      \/ AnyOfBackGoesOn
      \/ AnyOfBackYields
      \/ AllOfWakeYields
      \/ AllOfWakeEnds
      \/ AnyOfWake
      \/ CanceledDirectlyLeaf
      \/ CanceledDirectlyComb
      \/ CanceledIndirectly
      \/ CatchLeaf
      \/ CatchComb
      \/ CancelSkip
      \/ CancelUnsupport
      \/ CancelInterrupt
      \/ CancelEndYields
      \/ CancelEndDone
      \/ UnsupportYields
      \/ UnsupportDone
      => Keeps
  BY StartIs, StartRejectIs, EventRunIs, EventWakeIs, ChildrenReadyIs, ChildrenUnreadyIs,
       StartChildIs, AllOfBackYieldsIs, AllOfBackGoesOnIs, AnyOfBackWinsIs, AnyOfBackGoesOnIs,
       AnyOfBackYieldsIs, AllOfWakeYieldsIs, AllOfWakeEndsIs, AnyOfWakeIs, CanceledDirectlyLeafIs,
       CanceledDirectlyCombIs, CanceledIndirectlyIs, CatchLeafIs, CatchCombIs, CancelSkipIs,
       CancelUnsupportIs, CancelInterruptIs, CancelEndYieldsIs, CancelEndDoneIs,
       UnsupportYieldsIs, UnsupportDoneIs
     DEF AllOfBackYields, AllOfBackGoesOn, AnyOfBackWins, AnyOfBackGoesOn, AnyOfBackYields,
       AllOfWakeYields, AllOfWakeEnds, CanceledDirectlyLeaf, CanceledDirectlyComb, CatchLeaf,
       CatchComb, CancelEndYields, CancelEndDone, UnsupportYields, UnsupportDone
<1>2. Keeps => TypeOK'
  BY DEF Keeps
<1>3. TaskRuntime => TypeOK'
  BY TaskRuntimeIs
<1>4. Await => TypeOK'
  BY AwaitIs
<1>5. AwaitReturn \/ AwaitReturnThrow \/ AwaitRethrow => TypeOK'
  BY PopsFx DEF Pops
<1>6. RuntimeFinish => TypeOK'
  BY RuntimeFinishIs
<1>7. (\E e \in Task : EventFires(e)) => TypeOK'
  BY EventFiresIs
<1>8. UNCHANGED vars => TypeOK'
  BY DEF IndInv, TypeOK, vars, objectVars, controlVars, Kind, Children
<1> QED
  BY <1>1, <1>2, <1>3, <1>4, <1>5, <1>6, <1>7, <1>8, StepCases

LEMMA CurrentStep ==
    ASSUME IndInv, [Next]_vars
    PROVE  CurrentInv'
<1>0. PICK r, t : r = running /\ t = Top
  OBVIOUS
<1>i. CurrentInv
  BY DEF IndInv
<1>e. running' # Loop /\ ~Busy(running)' => global_current_task' = running'
  <2>1. SUFFICES ASSUME NEW x \in Task, x = running', Entering(x)'
                 PROVE  global_current_task' = x
    <3>1. TypeOK'
      BY TypeStep
    <3> QED
      BY <2>1, <3>1 DEF TypeOK, Entering, Busy
  <2>2. Start => global_current_task' = Target
    BY StartIs
  <2>3. StartChild => global_current_task' = running'
    BY StartChildIs
  <2>4. UNCHANGED vars /\ Entering(x) => global_current_task' = x
    BY <1>i, StackTypes DEF vars, controlVars, Entering, CurrentInv
  <2> QED
    BY <2>1, <2>2, <2>3, <2>4, WhoEnters
<1>g. SUFFICES ASSUME NEW c \in Task, c = running', Busy(c)', NEW y, y = Inner(c)', Pc(y)' = "run"
               PROVE  global_current_task' = y
  BY <1>e, TypeStep DEF CurrentInv, TypeOK, Busy, Inner, Pc
<1>TaskRuntime. CASE TaskRuntime
  <2>1. running' = running /\ global_current_task' = running /\ running \in Task
    BY <1>TaskRuntime, TaskRuntimeIs DEF Stays
  <2>2. c = running /\ Inner(c)' = c
    BY <1>g, <1>TaskRuntime, <2>1, TaskRuntimeFx
  <2> QED
    BY <1>g, <2>1, <2>2
<1>Await. CASE Await
  <2>1. PICK x \in Task : x = Target /\ running' = running /\ \A d \in Task : d = running => Inner(d)' = x
    BY <1>Await, AwaitFx
  <2>2. global_current_task' = x
    BY <1>Await, <2>1, AwaitIs
  <2> QED
    BY <1>g, <2>1, <2>2
<1>Start. CASE Start
  <2>1. running' \in Task /\ ~Busy(running') /\ \A x \in Task : Busy(x)' = Busy(x)
    BY <1>Start, StartIs, StartFx, KeepsFrame
  <2> QED
    BY <1>g, <2>1
<1>StartReject. CASE StartReject
  <2>1. /\ t \in Task
        /\ Pc(t) = "run"
        /\ act'[t].pc = "run"
        /\ \A u \in Task : u # t => act'[u] = act[u]
        /\ uid' = uid /\ prog' = prog /\ stack' = stack /\ reuse' = reuse
        /\ running' = running
        /\ global_current_task' = global_current_task
        /\ global_current_task = t
        /\ r \in Task
        /\ t = Inner(r)
    BY <1>0, <1>StartReject, StartRejectIs, KeepsFrame, CallIs DEF Moves, Stays, StartReject
  <2>2. Inner(r)' = Inner(r)
    BY <2>1 DEF Inner
  <2>3. c = r /\ y = t
    BY <1>0, <1>g, <2>1, <2>2
  <2> QED
    BY <2>1, <2>3
<1>EventRun. CASE EventRun
  <2>1. /\ Keeps /\ running # Loop /\ Busy(running) /\ running' = block_to[t] /\ global_current_task' = block_to[t]
    BY <1>0, <1>EventRun, EventRunIs, KeepsFrame DEF Yields
  <2>2. PICK b : b = block_to[t]
    OBVIOUS
  <2>3. b = c /\ Inner(c)' = Inner(c) /\ Busy(c) /\ \A u \in Task : u # t => Pc(u)' = Pc(u)
    BY <1>0, <1>g, <2>1, <2>2, KeepsFrame
  <2>4. c # Loop
    BY StackTypes
  <2>5. Inner(c) \in Task /\ Inner(c) # t /\ (Pc(Inner(c)) = "run" => Inner(c) = c)
    BY <1>0, <1>EventRun, <2>1, <2>2, <2>3, <2>4, YieldTo, YieldsFreely
  <2>6. y = Inner(c) /\ Pc(y) = "run"
    BY <1>g, <2>3, <2>5
  <2> QED
    BY <2>1, <2>2, <2>3, <2>5, <2>6
<1>EventWake. CASE EventWake
  <2>1. /\ t \in Task
        /\ Pc(t) = "wait"
        /\ act'[t].pc = "return"
        /\ \A u \in Task : u # t => act'[u] = act[u]
        /\ uid' = uid /\ prog' = prog /\ stack' = stack /\ reuse' = reuse
        /\ running' = running
        /\ r \in Task
        /\ t = Inner(r)
    BY <1>0, <1>EventWake, EventWakeIs, KeepsFrame, StackTypes DEF Moves, Stays
  <2>2. Inner(r)' = Inner(r)
    BY <2>1 DEF Inner
  <2>3. c = r /\ y = t
    BY <1>0, <1>g, <2>1, <2>2
  <2> QED
    BY <1>g, <2>1, <2>3, StackTypes DEF Pc
<1>ChildrenReady. CASE ChildrenReady
  <2>1. /\ t \in Task
        /\ Pc(t) = "run"
        /\ act'[t].pc = "start"
        /\ \A u \in Task : u # t => act'[u] = act[u]
        /\ uid' = uid /\ prog' = prog /\ stack' = stack /\ reuse' = reuse
        /\ running' = running
        /\ r \in Task
        /\ t = Inner(r)
    BY <1>0, <1>ChildrenReady, ChildrenReadyIs, KeepsFrame, StackTypes DEF Moves, Stays
  <2>2. Inner(r)' = Inner(r)
    BY <2>1 DEF Inner
  <2>3. c = r /\ y = t
    BY <1>0, <1>g, <2>1, <2>2
  <2> QED
    BY <1>g, <2>1, <2>3, StackTypes DEF Pc
<1>ChildrenUnready. CASE ChildrenUnready
  <2>1. /\ t \in Task
        /\ Pc(t) = "run"
        /\ act'[t].pc = "return"
        /\ \A u \in Task : u # t => act'[u] = act[u]
        /\ uid' = uid /\ prog' = prog /\ stack' = stack /\ reuse' = reuse
        /\ running' = running
        /\ r \in Task
        /\ t = Inner(r)
    BY <1>0, <1>ChildrenUnready, ChildrenUnreadyIs, KeepsFrame, StackTypes DEF Moves, Stays
  <2>2. Inner(r)' = Inner(r)
    BY <2>1 DEF Inner
  <2>3. c = r /\ y = t
    BY <1>0, <1>g, <2>1, <2>2
  <2> QED
    BY <1>g, <2>1, <2>3, StackTypes DEF Pc
<1>StartChild. CASE StartChild
  <2>1. running' \in Task /\ ~Busy(running') /\ \A x \in Task : Busy(x)' = Busy(x)
    BY <1>StartChild, StartChildIs, StartChildFx, KeepsFrame
  <2> QED
    BY <1>g, <2>1
<1>AllOfBackYields. CASE AllOfBackYields
  <2>1. /\ Keeps /\ running # Loop /\ Busy(running) /\ running' = block_to[t] /\ global_current_task' = block_to[t]
    BY <1>0, <1>AllOfBackYields, AllOfBackYieldsIs, KeepsFrame DEF Yields, AllOfBackYields
  <2>2. PICK b : b = block_to[t]
    OBVIOUS
  <2>3. b = c /\ Inner(c)' = Inner(c) /\ Busy(c) /\ \A u \in Task : u # t => Pc(u)' = Pc(u)
    BY <1>0, <1>g, <2>1, <2>2, KeepsFrame
  <2>4. c # Loop
    BY StackTypes
  <2>5. Inner(c) \in Task /\ Inner(c) # t /\ (Pc(Inner(c)) = "run" => Inner(c) = c)
    BY <1>0, <1>AllOfBackYields, <2>1, <2>2, <2>3, <2>4, YieldTo, YieldsFreely
  <2>6. y = Inner(c) /\ Pc(y) = "run"
    BY <1>g, <2>3, <2>5
  <2> QED
    BY <2>1, <2>2, <2>3, <2>5, <2>6
<1>AllOfBackGoesOn. CASE AllOfBackGoesOn
  <2>1. /\ t \in Task
        /\ Pc(t) = "child"
        /\ act'[t].pc = (IF act[t].i = Len(Children(t)) THEN "return" ELSE "start")
        /\ \A u \in Task : u # t => act'[u] = act[u]
        /\ uid' = uid /\ prog' = prog /\ stack' = stack /\ reuse' = reuse
        /\ running' = running
        /\ r \in Task
        /\ t = Inner(r)
    BY <1>0, <1>AllOfBackGoesOn, AllOfBackGoesOnIs, KeepsFrame, StackTypes
       DEF AllOfBackGoesOn, Moves, Stays
  <2>2. Inner(r)' = Inner(r)
    BY <2>1 DEF Inner
  <2>3. c = r /\ y = t
    BY <1>0, <1>g, <2>1, <2>2
  <2> QED
    BY <1>g, <2>1, <2>3, StackTypes DEF Pc
<1>AnyOfBackWins. CASE AnyOfBackWins
  <2>1. /\ t \in Task
        /\ Pc(t) = "child"
        /\ act'[t].pc = "cancel"
        /\ \A u \in Task : u # t => act'[u] = act[u]
        /\ uid' = uid /\ prog' = prog /\ stack' = stack /\ reuse' = reuse
        /\ running' = running
        /\ r \in Task
        /\ t = Inner(r)
    BY <1>0, <1>AnyOfBackWins, AnyOfBackWinsIs, KeepsFrame, StackTypes
       DEF AnyOfBackWins, Moves, Stays
  <2>2. Inner(r)' = Inner(r)
    BY <2>1 DEF Inner
  <2>3. c = r /\ y = t
    BY <1>0, <1>g, <2>1, <2>2
  <2> QED
    BY <1>g, <2>1, <2>3, StackTypes DEF Pc
<1>AnyOfBackGoesOn. CASE AnyOfBackGoesOn
  <2>1. /\ t \in Task
        /\ Pc(t) = "child"
        /\ act'[t].pc = "start"
        /\ \A u \in Task : u # t => act'[u] = act[u]
        /\ uid' = uid /\ prog' = prog /\ stack' = stack /\ reuse' = reuse
        /\ running' = running
        /\ r \in Task
        /\ t = Inner(r)
    BY <1>0, <1>AnyOfBackGoesOn, AnyOfBackGoesOnIs, KeepsFrame, StackTypes
       DEF AnyOfBackGoesOn, Moves, Stays
  <2>2. Inner(r)' = Inner(r)
    BY <2>1 DEF Inner
  <2>3. c = r /\ y = t
    BY <1>0, <1>g, <2>1, <2>2
  <2> QED
    BY <1>g, <2>1, <2>3, StackTypes DEF Pc
<1>AnyOfBackYields. CASE AnyOfBackYields
  <2>1. /\ Keeps /\ running # Loop /\ Busy(running) /\ running' = block_to[t] /\ global_current_task' = block_to[t]
    BY <1>0, <1>AnyOfBackYields, AnyOfBackYieldsIs, KeepsFrame DEF Yields, AnyOfBackYields
  <2>2. PICK b : b = block_to[t]
    OBVIOUS
  <2>3. b = c /\ Inner(c)' = Inner(c) /\ Busy(c) /\ \A u \in Task : u # t => Pc(u)' = Pc(u)
    BY <1>0, <1>g, <2>1, <2>2, KeepsFrame
  <2>4. c # Loop
    BY StackTypes
  <2>5. Inner(c) \in Task /\ Inner(c) # t /\ (Pc(Inner(c)) = "run" => Inner(c) = c)
    BY <1>0, <1>AnyOfBackYields, <2>1, <2>2, <2>3, <2>4, YieldTo, YieldsFreely
  <2>6. y = Inner(c) /\ Pc(y) = "run"
    BY <1>g, <2>3, <2>5
  <2> QED
    BY <2>1, <2>2, <2>3, <2>5, <2>6
<1>AllOfWakeYields. CASE AllOfWakeYields
  <2>1. /\ Keeps /\ running # Loop /\ Busy(running) /\ running' = block_to[t] /\ global_current_task' = block_to[t]
    BY <1>0, <1>AllOfWakeYields, AllOfWakeYieldsIs, KeepsFrame DEF Yields, AllOfWakeYields
  <2>2. PICK b : b = block_to[t]
    OBVIOUS
  <2>3. b = c /\ Inner(c)' = Inner(c) /\ Busy(c) /\ \A u \in Task : u # t => Pc(u)' = Pc(u)
    BY <1>0, <1>g, <2>1, <2>2, KeepsFrame
  <2>4. c # Loop
    BY StackTypes
  <2>5. Inner(c) \in Task /\ Inner(c) # t /\ (Pc(Inner(c)) = "run" => Inner(c) = c)
    BY <1>0, <1>AllOfWakeYields, <2>1, <2>2, <2>3, <2>4, YieldTo, YieldsFreely
  <2>6. y = Inner(c) /\ Pc(y) = "run"
    BY <1>g, <2>3, <2>5
  <2> QED
    BY <2>1, <2>2, <2>3, <2>5, <2>6
<1>AllOfWakeEnds. CASE AllOfWakeEnds
  <2>1. /\ t \in Task
        /\ Pc(t) = "wait"
        /\ act'[t].pc = "return"
        /\ \A u \in Task : u # t => act'[u] = act[u]
        /\ uid' = uid /\ prog' = prog /\ stack' = stack /\ reuse' = reuse
        /\ running' = running
        /\ r \in Task
        /\ t = Inner(r)
    BY <1>0, <1>AllOfWakeEnds, AllOfWakeEndsIs, KeepsFrame, StackTypes
       DEF AllOfWakeEnds, Moves, Stays
  <2>2. Inner(r)' = Inner(r)
    BY <2>1 DEF Inner
  <2>3. c = r /\ y = t
    BY <1>0, <1>g, <2>1, <2>2
  <2> QED
    BY <1>g, <2>1, <2>3, StackTypes DEF Pc
<1>AnyOfWake. CASE AnyOfWake
  <2>1. /\ t \in Task
        /\ Pc(t) = "wait"
        /\ act'[t].pc = "cancel"
        /\ \A u \in Task : u # t => act'[u] = act[u]
        /\ uid' = uid /\ prog' = prog /\ stack' = stack /\ reuse' = reuse
        /\ running' = running
        /\ r \in Task
        /\ t = Inner(r)
    BY <1>0, <1>AnyOfWake, AnyOfWakeIs, KeepsFrame, StackTypes DEF Moves, Stays
  <2>2. Inner(r)' = Inner(r)
    BY <2>1 DEF Inner
  <2>3. c = r /\ y = t
    BY <1>0, <1>g, <2>1, <2>2
  <2> QED
    BY <1>g, <2>1, <2>3, StackTypes DEF Pc
<1>CanceledDirectlyLeaf. CASE CanceledDirectlyLeaf
  <2>1. /\ t \in Task
        /\ Pc(t) = "wait"
        /\ act'[t].pc = "return"
        /\ \A u \in Task : u # t => act'[u] = act[u]
        /\ uid' = uid /\ prog' = prog /\ stack' = stack /\ reuse' = reuse
        /\ running' = running
        /\ r \in Task
        /\ t = Inner(r)
    BY <1>0, <1>CanceledDirectlyLeaf, CanceledDirectlyLeafIs, KeepsFrame, StackTypes
       DEF CanceledDirectlyLeaf, Moves, Stays
  <2>2. Inner(r)' = Inner(r)
    BY <2>1 DEF Inner
  <2>3. c = r /\ y = t
    BY <1>0, <1>g, <2>1, <2>2
  <2> QED
    BY <1>g, <2>1, <2>3, StackTypes DEF Pc
<1>CanceledDirectlyComb. CASE CanceledDirectlyComb
  <2>1. /\ t \in Task
        /\ Pc(t) = "wait"
        /\ act'[t].pc = "cancel"
        /\ \A u \in Task : u # t => act'[u] = act[u]
        /\ uid' = uid /\ prog' = prog /\ stack' = stack /\ reuse' = reuse
        /\ running' = running
        /\ r \in Task
        /\ t = Inner(r)
    BY <1>0, <1>CanceledDirectlyComb, CanceledDirectlyCombIs, KeepsFrame, StackTypes
       DEF CanceledDirectlyComb, Moves, Stays
  <2>2. Inner(r)' = Inner(r)
    BY <2>1 DEF Inner
  <2>3. c = r /\ y = t
    BY <1>0, <1>g, <2>1, <2>2
  <2> QED
    BY <1>g, <2>1, <2>3, StackTypes DEF Pc
<1>CanceledIndirectly. CASE CanceledIndirectly
  <2>1. /\ t \in Task
        /\ Pc(t) = "wait"
        /\ act'[t].pc = "throw"
        /\ \A u \in Task : u # t => act'[u] = act[u]
        /\ uid' = uid /\ prog' = prog /\ stack' = stack /\ reuse' = reuse
        /\ running' = running
        /\ r \in Task
        /\ t = Inner(r)
    BY <1>0, <1>CanceledIndirectly, CanceledIndirectlyIs, KeepsFrame, StackTypes DEF Moves, Stays
  <2>2. Inner(r)' = Inner(r)
    BY <2>1 DEF Inner
  <2>3. c = r /\ y = t
    BY <1>0, <1>g, <2>1, <2>2
  <2> QED
    BY <1>g, <2>1, <2>3, StackTypes DEF Pc
<1>CatchLeaf. CASE CatchLeaf
  <2>1. /\ t \in Task
        /\ Pc(t) = "throw"
        /\ act'[t].pc = "caught"
        /\ \A u \in Task : u # t => act'[u] = act[u]
        /\ uid' = uid /\ prog' = prog /\ stack' = stack /\ reuse' = reuse
        /\ running' = running
        /\ r \in Task
        /\ t = Inner(r)
    BY <1>0, <1>CatchLeaf, CatchLeafIs, KeepsFrame, StackTypes DEF CatchLeaf, Moves, Stays
  <2>2. Inner(r)' = Inner(r)
    BY <2>1 DEF Inner
  <2>3. c = r /\ y = t
    BY <1>0, <1>g, <2>1, <2>2
  <2> QED
    BY <1>g, <2>1, <2>3, StackTypes DEF Pc
<1>CatchComb. CASE CatchComb
  <2>1. /\ t \in Task
        /\ Pc(t) = "throw"
        /\ act'[t].pc = "cancel"
        /\ \A u \in Task : u # t => act'[u] = act[u]
        /\ uid' = uid /\ prog' = prog /\ stack' = stack /\ reuse' = reuse
        /\ running' = running
        /\ r \in Task
        /\ t = Inner(r)
    BY <1>0, <1>CatchComb, CatchCombIs, KeepsFrame, StackTypes DEF CatchComb, Moves, Stays
  <2>2. Inner(r)' = Inner(r)
    BY <2>1 DEF Inner
  <2>3. c = r /\ y = t
    BY <1>0, <1>g, <2>1, <2>2
  <2> QED
    BY <1>g, <2>1, <2>3, StackTypes DEF Pc
<1>CancelSkip. CASE CancelSkip
  <2>1. /\ t \in Task
        /\ Pc(t) = "cancel"
        /\ act'[t].pc = "cancel"
        /\ \A u \in Task : u # t => act'[u] = act[u]
        /\ uid' = uid /\ prog' = prog /\ stack' = stack /\ reuse' = reuse
        /\ running' = running
        /\ r \in Task
        /\ t = Inner(r)
    BY <1>0, <1>CancelSkip, CancelSkipIs, KeepsFrame, StackTypes DEF Moves, Stays
  <2>2. Inner(r)' = Inner(r)
    BY <2>1 DEF Inner
  <2>3. c = r /\ y = t
    BY <1>0, <1>g, <2>1, <2>2
  <2> QED
    BY <1>g, <2>1, <2>3, StackTypes DEF Pc
<1>CancelUnsupport. CASE CancelUnsupport
  <2>1. /\ t \in Task
        /\ Pc(t) = "cancel"
        /\ act'[t].pc = "cancel"
        /\ \A u \in Task : u # t => act'[u] = act[u]
        /\ uid' = uid /\ prog' = prog /\ stack' = stack /\ reuse' = reuse
        /\ running' = running
        /\ r \in Task
        /\ t = Inner(r)
    BY <1>0, <1>CancelUnsupport, CancelUnsupportIs, KeepsFrame, StackTypes DEF Moves, Stays
  <2>2. Inner(r)' = Inner(r)
    BY <2>1 DEF Inner
  <2>3. c = r /\ y = t
    BY <1>0, <1>g, <2>1, <2>2
  <2> QED
    BY <1>g, <2>1, <2>3, StackTypes DEF Pc
<1>CancelInterrupt. CASE CancelInterrupt
  <2>1. PICK x \in Task : Inner(x) # t /\ Inner(x) \in Task /\ Pc(Inner(x)) = "wait" /\ running' = x
    BY <1>0, <1>CancelInterrupt, CancelInterruptFx
  <2>2. /\ \A u \in Task : (u # t => Pc(u)' = Pc(u))
        /\ \A d \in Task : Inner(d)' = Inner(d)
    BY <1>0, <1>CancelInterrupt, CancelInterruptIs, KeepsFrame
  <2>3. y = Inner(x)
    BY <1>g, <2>1, <2>2
  <2> QED
    BY <1>g, <2>1, <2>2, <2>3
<1>CancelEndYields. CASE CancelEndYields
  <2>1. /\ Keeps /\ running # Loop /\ Busy(running) /\ running' = block_to[t] /\ global_current_task' = block_to[t]
    BY <1>0, <1>CancelEndYields, CancelEndYieldsIs, KeepsFrame DEF Yields, CancelEndYields
  <2>2. PICK b : b = block_to[t]
    OBVIOUS
  <2>3. b = c /\ Inner(c)' = Inner(c) /\ Busy(c) /\ \A u \in Task : u # t => Pc(u)' = Pc(u)
    BY <1>0, <1>g, <2>1, <2>2, KeepsFrame
  <2>4. c # Loop
    BY StackTypes
  <2>5. Inner(c) \in Task /\ Inner(c) # t /\ (Pc(Inner(c)) = "run" => Inner(c) = c)
    BY <1>0, <1>CancelEndYields, <2>1, <2>2, <2>3, <2>4, YieldTo, YieldsFreely
  <2>6. y = Inner(c) /\ Pc(y) = "run"
    BY <1>g, <2>3, <2>5
  <2> QED
    BY <2>1, <2>2, <2>3, <2>5, <2>6
<1>CancelEndDone. CASE CancelEndDone
  <2>1. /\ t \in Task
        /\ Pc(t) = "cancel"
        /\ act'[t].pc = act[t].next
        /\ \A u \in Task : u # t => act'[u] = act[u]
        /\ uid' = uid /\ prog' = prog /\ stack' = stack /\ reuse' = reuse
        /\ running' = running
        /\ r \in Task
        /\ t = Inner(r)
    BY <1>0, <1>CancelEndDone, CancelEndDoneIs, KeepsFrame, StackTypes
       DEF CancelEndDone, Moves, Stays
  <2>2. Inner(r)' = Inner(r)
    BY <2>1 DEF Inner
  <2>3. c = r /\ y = t
    BY <1>0, <1>g, <2>1, <2>2
  <2> QED
    BY <1>g, <2>1, <2>3, StackTypes DEF Pc
<1>UnsupportYields. CASE UnsupportYields
  <2>1. /\ Keeps /\ running # Loop /\ Busy(running) /\ running' = block_to[t] /\ global_current_task' = block_to[t]
    BY <1>0, <1>UnsupportYields, UnsupportYieldsIs, KeepsFrame DEF Yields, UnsupportYields
  <2>2. PICK b : b = block_to[t]
    OBVIOUS
  <2>3. b = c /\ Inner(c)' = Inner(c) /\ Busy(c) /\ \A u \in Task : u # t => Pc(u)' = Pc(u)
    BY <1>0, <1>g, <2>1, <2>2, KeepsFrame
  <2>4. c # Loop
    BY StackTypes
  <2>5. Inner(c) \in Task /\ Inner(c) # t /\ (Pc(Inner(c)) = "run" => Inner(c) = c)
    BY <1>0, <1>UnsupportYields, <2>1, <2>2, <2>3, <2>4, YieldTo, YieldsFreely
  <2>6. y = Inner(c) /\ Pc(y) = "run"
    BY <1>g, <2>3, <2>5
  <2> QED
    BY <2>1, <2>2, <2>3, <2>5, <2>6
<1>UnsupportDone. CASE UnsupportDone
  <2>1. /\ t \in Task
        /\ Pc(t) = "unsupport"
        /\ act'[t].pc = act[t].next
        /\ \A u \in Task : u # t => act'[u] = act[u]
        /\ uid' = uid /\ prog' = prog /\ stack' = stack /\ reuse' = reuse
        /\ running' = running
        /\ r \in Task
        /\ t = Inner(r)
    BY <1>0, <1>UnsupportDone, UnsupportDoneIs, KeepsFrame, StackTypes
       DEF UnsupportDone, Moves, Stays
  <2>2. Inner(r)' = Inner(r)
    BY <2>1 DEF Inner
  <2>3. c = r /\ y = t
    BY <1>0, <1>g, <2>1, <2>2
  <2> QED
    BY <1>g, <2>1, <2>3, StackTypes DEF Pc
<1>AwaitReturn. CASE AwaitReturn
  <2>1. PICK u \in Task, s \in Status, pc \in Points : u = Caller /\ Pops(s, pc) /\ running' = running /\ \A d \in Task : d = running => Inner(d)' = u
    BY <1>AwaitReturn, PopsFx
  <2>2. global_current_task' = u
    BY <2>1 DEF Pops
  <2> QED
    BY <1>g, <2>1, <2>2
<1>AwaitReturnThrow. CASE AwaitReturnThrow
  <2>1. PICK u \in Task, s \in Status, pc \in Points : u = Caller /\ Pops(s, pc) /\ running' = running /\ \A d \in Task : d = running => Inner(d)' = u
    BY <1>AwaitReturnThrow, PopsFx
  <2>2. global_current_task' = u
    BY <2>1 DEF Pops
  <2> QED
    BY <1>g, <2>1, <2>2
<1>AwaitRethrow. CASE AwaitRethrow
  <2>1. PICK u \in Task, s \in Status, pc \in Points : u = Caller /\ Pops(s, pc) /\ running' = running /\ \A d \in Task : d = running => Inner(d)' = u
    BY <1>AwaitRethrow, PopsFx
  <2>2. global_current_task' = u
    BY <2>1 DEF Pops
  <2> QED
    BY <1>g, <2>1, <2>2
<1>RuntimeFinish. CASE RuntimeFinish
  <2>1. PICK b \in Task : /\ running' = b /\ b # running /\ Busy(b) /\ Inner(b) \in Task /\ Inner(b) # running
                          /\ (Pc(Inner(b)) = "run" => Inner(b) = b)
    BY <1>RuntimeFinish, <1>g, FinishTo, StackTypes DEF Waits
  <2>2. /\ \A u \in Task : u # running => act'[u] = act[u] /\ global_current_task' = running'
    BY <1>RuntimeFinish, RuntimeFinishIs
  <2>3. Inner(b)' = Inner(b) /\ c = b
    BY <1>RuntimeFinish, <1>g, <2>1, FinishFx
  <2>4. Pc(Inner(b)) = "run" /\ y = Inner(b)
    BY <1>g, <2>1, <2>2, <2>3 DEF Pc
  <2> QED
    BY <2>1, <2>2, <2>4
<1>EventFires. CASE \E e \in Task : EventFires(e)
  <2>1. PICK e \in Task : EventFires(e)
    BY <1>EventFires
  <2>2. Pc(e) = "wait" /\ Inner(uid[e]) = e /\ running' = uid[e] /\ stack' = stack /\ act' = act
    BY <2>1, EventFiresIs
  <2>3. y = e
    BY <1>g, <2>2 DEF Inner
  <2> QED
    BY <1>g, <2>2, <2>3 DEF Pc
<1>Stutter. CASE UNCHANGED vars
  BY <1>0, <1>Stutter, <1>i, <1>g, StackTypes DEF CurrentInv, Busy, Inner, Pc, vars, controlVars
<1> QED
  BY StepCases, <1>TaskRuntime, <1>Await, <1>Start, <1>StartReject, <1>EventRun, <1>EventWake,
       <1>ChildrenReady, <1>ChildrenUnready, <1>StartChild, <1>AllOfBackYields,
       <1>AllOfBackGoesOn, <1>AnyOfBackWins, <1>AnyOfBackGoesOn, <1>AnyOfBackYields,
       <1>AllOfWakeYields, <1>AllOfWakeEnds, <1>AnyOfWake, <1>CanceledDirectlyLeaf,
       <1>CanceledDirectlyComb, <1>CanceledIndirectly, <1>CatchLeaf, <1>CatchComb, <1>CancelSkip,
       <1>CancelUnsupport, <1>CancelInterrupt, <1>CancelEndYields, <1>CancelEndDone,
       <1>UnsupportYields, <1>UnsupportDone, <1>AwaitReturn, <1>AwaitReturnThrow, <1>AwaitRethrow,
       <1>RuntimeFinish, <1>EventFires, <1>Stutter

\* Handles that are active while a coroutine has the thread.
LEMMA ArmedFacts ==
    ASSUME IndInv, NEW e \in armed
    PROVE  /\ e \in Task /\ Kind(e) = "event" /\ Pc(e) \in {"wait", "throw"}
           /\ uid[e] \in Task /\ Busy(uid[e]) /\ e = Inner(uid[e])
           /\ uid[e] = running => e = Inner(running)
           /\ Pc(e) = "throw" => uid[e] = running
           /\ Pc(e) = "wait" /\ uid[e] = running => global_signal_canceled
<1>1. e \in Task /\ Kind(e) = "event" /\ Pc(e) \in {"wait", "throw"}
      /\ (Pc(e) = "throw" => uid[e] = running)
      /\ (Pc(e) = "wait" /\ uid[e] = running => global_signal_canceled)
  BY DEF IndInv, TypeOK, ArmedInv
<1> QED
  BY <1>1, LiveFacts

LEMMA ArmedStep ==
    ASSUME IndInv, [Next]_vars
    PROVE  ArmedInv'
<1>0. PICK r, t : r = running /\ t = Top
  OBVIOUS
<1>i. armed \subseteq Task
  BY DEF IndInv, TypeOK
<1>j. \A e \in armed : /\ Kind(e) = "event" /\ Pc(e) \in {"wait", "throw"}
                       /\ uid[e] \in Task /\ Busy(uid[e]) /\ e = Inner(uid[e])
                       /\ Pc(e) = "throw" => uid[e] = r
                       /\ Pc(e) = "wait" /\ uid[e] = r => global_signal_canceled
  BY <1>0, ArmedFacts
<1>g. SUFFICES ASSUME NEW e \in armed'
               PROVE  /\ Kind(e)' = "event" /\ Pc(e)' \in {"wait", "throw"}
                      /\ Pc(e)' = "throw" => uid'[e] = running'
                      /\ Pc(e)' = "wait" /\ uid'[e] = running' => global_signal_canceled'
  BY DEF ArmedInv
<1>TaskRuntime. CASE TaskRuntime
  <2>1. ~Busy(r) /\ running' = r /\ uid' = uid /\ armed' = armed /\ prog' = prog
        /\ \A u \in Task : u # r => act'[u] = act[u]
    BY <1>0, <1>TaskRuntime, TaskRuntimeIs DEF Stays
  <2>2. uid[r] = r
    BY <1>0, <1>TaskRuntime, TaskRuntimeIs
  <2> QED
    BY <1>g, <1>i, <1>j, <2>1, <2>2 DEF Pc, Kind
<1>Await. CASE Await
  <2>1. PICK x \in Task, u \in Task : /\ Pc(x) = "none" /\ Pc(u) = "run" /\ running' = r
                                      /\ \A v \in Task : v # x => uid'[v] = uid[v]
                                      /\ \A v \in Task : v # x /\ v # u => act'[v] = act[v]
    BY <1>0, <1>Await, AwaitFx
  <2>2. armed' = armed /\ prog' = prog /\ global_signal_canceled' = global_signal_canceled
    BY <1>Await, AwaitIs
  <2> QED
    BY <1>g, <1>i, <1>j, <2>1, <2>2 DEF Pc, Kind
<1>Start. CASE Start
  <2>1. /\ t \in Task
        /\ Pc(t) = "run"
        /\ act'[t].pc = "run"
        /\ \A u \in Task : u # t => act'[u] = act[u]
        /\ uid' = uid /\ prog' = prog /\ stack' = stack /\ reuse' = reuse
        /\ running' \in Task /\ ~Busy(running')
        /\ t = Inner(r)
        /\ uid[t] = r
        /\ armed' = armed
        /\ global_signal_canceled' = global_signal_canceled
    BY <1>0, <1>Start, StartIs, KeepsFrame, StartFx DEF Moves
  <2> QED
    BY <1>g, <1>i, <1>j, <2>1 DEF Pc, Kind
<1>StartReject. CASE StartReject
  <2>1. /\ t \in Task
        /\ Pc(t) = "run"
        /\ act'[t].pc = "run"
        /\ \A u \in Task : u # t => act'[u] = act[u]
        /\ uid' = uid /\ prog' = prog /\ stack' = stack /\ reuse' = reuse
        /\ running' = r
        /\ t = Inner(r)
        /\ uid[t] = r
        /\ armed' = armed
        /\ global_signal_canceled' = global_signal_canceled
    BY <1>0, <1>StartReject, StartRejectIs, KeepsFrame, CallIs DEF Moves, Stays, StartReject
  <2> QED
    BY <1>g, <1>i, <1>j, <2>1 DEF Pc, Kind
<1>EventRun. CASE EventRun
  <2>1. /\ t \in Task
        /\ Pc(t) = "run"
        /\ act'[t].pc = "wait"
        /\ \A u \in Task : u # t => act'[u] = act[u]
        /\ uid' = uid /\ prog' = prog /\ stack' = stack /\ reuse' = reuse
        /\ t = Inner(r)
        /\ uid[t] = r
        /\ running' = block_to[t]
        /\ global_signal_canceled' = global_signal_canceled
        /\ Keeps
        /\ armed' = armed \cup {t}
        /\ Kind(t) = "event"
    BY <1>0, <1>EventRun, EventRunIs, KeepsFrame DEF Moves, Yields
  <2>2. running' = Loop \/ (running' \in Task /\ Pc(Inner(running')) \in {"run", "child"} /\ running' # r)
    BY <1>0, <1>EventRun, <2>1, KeepsFrame, YieldTo, YieldsFreely
  <2>3. CASE e = t
    <3>1. r # Loop
      BY <1>0, <2>1, KeepsFrame
    <3> QED
      BY <2>1, <2>2, <2>3, <3>1 DEF Pc, Kind
  <2>4. CASE e # t
    <3>1. e \in armed /\ e \in Task
      BY <1>g, <1>i, <2>1, <2>4
    <3>2. Kind(e) = "event" /\ Pc(e) = "wait" /\ uid[e] # r /\ uid[e] \in Task /\ e = Inner(uid[e])
      BY <1>j, <2>1, <2>4, <3>1
    <3>3. uid[e] # running'
      BY <2>2, <3>2, StackTypes
    <3> QED
      BY <2>1, <2>4, <3>1, <3>2, <3>3 DEF Pc, Kind
  <2> QED
    BY <2>3, <2>4
<1>EventWake. CASE EventWake
  <2>1. /\ t \in Task
        /\ Pc(t) = "wait"
        /\ act'[t].pc = "return"
        /\ \A u \in Task : u # t => act'[u] = act[u]
        /\ uid' = uid /\ prog' = prog /\ stack' = stack /\ reuse' = reuse
        /\ running' = r
        /\ t = Inner(r)
        /\ uid[t] = r
        /\ armed' = armed
        /\ ~global_signal_canceled
        /\ global_signal_canceled' = global_signal_canceled
    BY <1>0, <1>EventWake, EventWakeIs, KeepsFrame DEF Moves, Stays
  <2> QED
    BY <1>g, <1>i, <1>j, <2>1 DEF Pc, Kind
<1>ChildrenReady. CASE ChildrenReady
  <2>1. /\ t \in Task
        /\ Pc(t) = "run"
        /\ act'[t].pc = "start"
        /\ \A u \in Task : u # t => act'[u] = act[u]
        /\ uid' = uid /\ prog' = prog /\ stack' = stack /\ reuse' = reuse
        /\ running' = r
        /\ t = Inner(r)
        /\ uid[t] = r
        /\ armed' = armed
        /\ global_signal_canceled' = global_signal_canceled
    BY <1>0, <1>ChildrenReady, ChildrenReadyIs, KeepsFrame DEF Moves, Stays
  <2> QED
    BY <1>g, <1>i, <1>j, <2>1 DEF Pc, Kind
<1>ChildrenUnready. CASE ChildrenUnready
  <2>1. /\ t \in Task
        /\ Pc(t) = "run"
        /\ act'[t].pc = "return"
        /\ \A u \in Task : u # t => act'[u] = act[u]
        /\ uid' = uid /\ prog' = prog /\ stack' = stack /\ reuse' = reuse
        /\ running' = r
        /\ t = Inner(r)
        /\ uid[t] = r
        /\ armed' = armed
        /\ global_signal_canceled' = global_signal_canceled
    BY <1>0, <1>ChildrenUnready, ChildrenUnreadyIs, KeepsFrame DEF Moves, Stays
  <2> QED
    BY <1>g, <1>i, <1>j, <2>1 DEF Pc, Kind
<1>StartChild. CASE StartChild
  <2>1. /\ t \in Task
        /\ Pc(t) = "start"
        /\ act'[t].pc = "child"
        /\ \A u \in Task : u # t => act'[u] = act[u]
        /\ uid' = uid /\ prog' = prog /\ stack' = stack /\ reuse' = reuse
        /\ running' \in Task /\ ~Busy(running')
        /\ t = Inner(r)
        /\ uid[t] = r
        /\ armed' = armed
        /\ global_signal_canceled' = global_signal_canceled
    BY <1>0, <1>StartChild, StartChildIs, KeepsFrame, StartChildFx DEF Moves
  <2> QED
    BY <1>g, <1>i, <1>j, <2>1 DEF Pc, Kind
<1>AllOfBackYields. CASE AllOfBackYields
  <2>1. /\ t \in Task
        /\ Pc(t) = "child"
        /\ act'[t].pc = "wait"
        /\ \A u \in Task : u # t => act'[u] = act[u]
        /\ uid' = uid /\ prog' = prog /\ stack' = stack /\ reuse' = reuse
        /\ t = Inner(r)
        /\ uid[t] = r
        /\ running' = block_to[t]
        /\ global_signal_canceled' = global_signal_canceled
        /\ Keeps
        /\ armed' = armed
    BY <1>0, <1>AllOfBackYields, AllOfBackYieldsIs, KeepsFrame DEF AllOfBackYields, Moves, Yields
  <2>2. running' = Loop \/ (running' \in Task /\ Pc(Inner(running')) \in {"run", "child"} /\ running' # r)
    BY <1>0, <1>AllOfBackYields, <2>1, KeepsFrame, YieldTo, YieldsFreely
  <2> QED
    BY <1>g, <1>i, <1>j, <2>1, <2>2, StackTypes DEF Pc, Kind
<1>AllOfBackGoesOn. CASE AllOfBackGoesOn
  <2>1. /\ t \in Task
        /\ Pc(t) = "child"
        /\ act'[t].pc = (IF act[t].i = Len(Children(t)) THEN "return" ELSE "start")
        /\ \A u \in Task : u # t => act'[u] = act[u]
        /\ uid' = uid /\ prog' = prog /\ stack' = stack /\ reuse' = reuse
        /\ running' = r
        /\ t = Inner(r)
        /\ uid[t] = r
        /\ armed' = armed
        /\ global_signal_canceled' = global_signal_canceled
    BY <1>0, <1>AllOfBackGoesOn, AllOfBackGoesOnIs, KeepsFrame DEF AllOfBackGoesOn, Moves, Stays
  <2> QED
    BY <1>g, <1>i, <1>j, <2>1 DEF Pc, Kind
<1>AnyOfBackWins. CASE AnyOfBackWins
  <2>1. /\ t \in Task
        /\ Pc(t) = "child"
        /\ act'[t].pc = "cancel"
        /\ \A u \in Task : u # t => act'[u] = act[u]
        /\ uid' = uid /\ prog' = prog /\ stack' = stack /\ reuse' = reuse
        /\ running' = r
        /\ t = Inner(r)
        /\ uid[t] = r
        /\ armed' = armed
        /\ global_signal_canceled' = global_signal_canceled
    BY <1>0, <1>AnyOfBackWins, AnyOfBackWinsIs, KeepsFrame DEF AnyOfBackWins, Moves, Stays
  <2> QED
    BY <1>g, <1>i, <1>j, <2>1 DEF Pc, Kind
<1>AnyOfBackGoesOn. CASE AnyOfBackGoesOn
  <2>1. /\ t \in Task
        /\ Pc(t) = "child"
        /\ act'[t].pc = "start"
        /\ \A u \in Task : u # t => act'[u] = act[u]
        /\ uid' = uid /\ prog' = prog /\ stack' = stack /\ reuse' = reuse
        /\ running' = r
        /\ t = Inner(r)
        /\ uid[t] = r
        /\ armed' = armed
        /\ global_signal_canceled' = global_signal_canceled
    BY <1>0, <1>AnyOfBackGoesOn, AnyOfBackGoesOnIs, KeepsFrame DEF AnyOfBackGoesOn, Moves, Stays
  <2> QED
    BY <1>g, <1>i, <1>j, <2>1 DEF Pc, Kind
<1>AnyOfBackYields. CASE AnyOfBackYields
  <2>1. /\ t \in Task
        /\ Pc(t) = "child"
        /\ act'[t].pc = "wait"
        /\ \A u \in Task : u # t => act'[u] = act[u]
        /\ uid' = uid /\ prog' = prog /\ stack' = stack /\ reuse' = reuse
        /\ t = Inner(r)
        /\ uid[t] = r
        /\ running' = block_to[t]
        /\ global_signal_canceled' = global_signal_canceled
        /\ Keeps
        /\ armed' = armed
    BY <1>0, <1>AnyOfBackYields, AnyOfBackYieldsIs, KeepsFrame DEF AnyOfBackYields, Moves, Yields
  <2>2. running' = Loop \/ (running' \in Task /\ Pc(Inner(running')) \in {"run", "child"} /\ running' # r)
    BY <1>0, <1>AnyOfBackYields, <2>1, KeepsFrame, YieldTo, YieldsFreely
  <2> QED
    BY <1>g, <1>i, <1>j, <2>1, <2>2, StackTypes DEF Pc, Kind
<1>AllOfWakeYields. CASE AllOfWakeYields
  <2>1. /\ t \in Task
        /\ Pc(t) = "wait"
        /\ act'[t].pc = "wait"
        /\ \A u \in Task : u # t => act'[u] = act[u]
        /\ uid' = uid /\ prog' = prog /\ stack' = stack /\ reuse' = reuse
        /\ t = Inner(r)
        /\ uid[t] = r
        /\ running' = block_to[t]
        /\ global_signal_canceled' = global_signal_canceled
        /\ Keeps
        /\ armed' = armed
        /\ Kind(t) = "all_of"
    BY <1>0, <1>AllOfWakeYields, AllOfWakeYieldsIs, KeepsFrame DEF AllOfWakeYields, Moves, Yields
  <2>2. running' = Loop \/ (running' \in Task /\ Pc(Inner(running')) \in {"run", "child"} /\ running' # r)
    BY <1>0, <1>AllOfWakeYields, <2>1, KeepsFrame, YieldTo, YieldsFreely
  <2> QED
    BY <1>g, <1>i, <1>j, <2>1, <2>2, StackTypes DEF Pc, Kind
<1>AllOfWakeEnds. CASE AllOfWakeEnds
  <2>1. /\ t \in Task
        /\ Pc(t) = "wait"
        /\ act'[t].pc = "return"
        /\ \A u \in Task : u # t => act'[u] = act[u]
        /\ uid' = uid /\ prog' = prog /\ stack' = stack /\ reuse' = reuse
        /\ running' = r
        /\ t = Inner(r)
        /\ Kind(t) # "event"
        /\ armed' = armed
        /\ global_signal_canceled' = global_signal_canceled
    BY <1>0, <1>AllOfWakeEnds, AllOfWakeEndsIs, KeepsFrame DEF AllOfWakeEnds, Moves, Stays
  <2> QED
    BY <1>g, <1>i, <1>j, <2>1 DEF Pc, Kind
<1>AnyOfWake. CASE AnyOfWake
  <2>1. /\ t \in Task
        /\ Pc(t) = "wait"
        /\ act'[t].pc = "cancel"
        /\ \A u \in Task : u # t => act'[u] = act[u]
        /\ uid' = uid /\ prog' = prog /\ stack' = stack /\ reuse' = reuse
        /\ running' = r
        /\ t = Inner(r)
        /\ Kind(t) # "event"
        /\ armed' = armed
        /\ global_signal_canceled' = global_signal_canceled
    BY <1>0, <1>AnyOfWake, AnyOfWakeIs, KeepsFrame DEF Moves, Stays
  <2> QED
    BY <1>g, <1>i, <1>j, <2>1 DEF Pc, Kind
<1>CanceledDirectlyLeaf. CASE CanceledDirectlyLeaf
  <2>1. /\ t \in Task
        /\ Pc(t) = "wait"
        /\ act'[t].pc = "return"
        /\ \A u \in Task : u # t => act'[u] = act[u]
        /\ uid' = uid /\ prog' = prog /\ stack' = stack /\ reuse' = reuse
        /\ running' = r
        /\ t = Inner(r)
        /\ armed' = armed \ {t}
    BY <1>0, <1>CanceledDirectlyLeaf, CanceledDirectlyLeafIs, KeepsFrame
       DEF CanceledDirectlyLeaf, Moves, Stays
  <2> QED
    BY <1>g, <1>i, <1>j, <2>1 DEF Pc, Kind
<1>CanceledDirectlyComb. CASE CanceledDirectlyComb
  <2>1. /\ t \in Task
        /\ Pc(t) = "wait"
        /\ act'[t].pc = "cancel"
        /\ \A u \in Task : u # t => act'[u] = act[u]
        /\ uid' = uid /\ prog' = prog /\ stack' = stack /\ reuse' = reuse
        /\ running' = r
        /\ t = Inner(r)
        /\ armed' = armed \ {t}
    BY <1>0, <1>CanceledDirectlyComb, CanceledDirectlyCombIs, KeepsFrame
       DEF CanceledDirectlyComb, Moves, Stays
  <2> QED
    BY <1>g, <1>i, <1>j, <2>1 DEF Pc, Kind
<1>CanceledIndirectly. CASE CanceledIndirectly
  <2>1. /\ t \in Task
        /\ Pc(t) = "wait"
        /\ act'[t].pc = "throw"
        /\ \A u \in Task : u # t => act'[u] = act[u]
        /\ uid' = uid /\ prog' = prog /\ stack' = stack /\ reuse' = reuse
        /\ running' = r
        /\ t = Inner(r)
        /\ uid[t] = r
        /\ armed' = armed
    BY <1>0, <1>CanceledIndirectly, CanceledIndirectlyIs, KeepsFrame DEF Moves, Stays
  <2> QED
    BY <1>g, <1>i, <1>j, <2>1 DEF Pc, Kind
<1>CatchLeaf. CASE CatchLeaf
  <2>1. /\ t \in Task
        /\ Pc(t) = "throw"
        /\ act'[t].pc = "caught"
        /\ \A u \in Task : u # t => act'[u] = act[u]
        /\ uid' = uid /\ prog' = prog /\ stack' = stack /\ reuse' = reuse
        /\ running' = r
        /\ t = Inner(r)
        /\ armed' = armed \ {t}
        /\ global_signal_canceled' = global_signal_canceled
    BY <1>0, <1>CatchLeaf, CatchLeafIs, KeepsFrame DEF CatchLeaf, Moves, Stays
  <2> QED
    BY <1>g, <1>i, <1>j, <2>1 DEF Pc, Kind
<1>CatchComb. CASE CatchComb
  <2>1. /\ t \in Task
        /\ Pc(t) = "throw"
        /\ act'[t].pc = "cancel"
        /\ \A u \in Task : u # t => act'[u] = act[u]
        /\ uid' = uid /\ prog' = prog /\ stack' = stack /\ reuse' = reuse
        /\ running' = r
        /\ t = Inner(r)
        /\ armed' = armed \ {t}
        /\ global_signal_canceled' = global_signal_canceled
    BY <1>0, <1>CatchComb, CatchCombIs, KeepsFrame DEF CatchComb, Moves, Stays
  <2> QED
    BY <1>g, <1>i, <1>j, <2>1 DEF Pc, Kind
<1>CancelSkip. CASE CancelSkip
  <2>1. /\ t \in Task
        /\ Pc(t) = "cancel"
        /\ act'[t].pc = "cancel"
        /\ \A u \in Task : u # t => act'[u] = act[u]
        /\ uid' = uid /\ prog' = prog /\ stack' = stack /\ reuse' = reuse
        /\ running' = r
        /\ t = Inner(r)
        /\ uid[t] = r
        /\ armed' = armed
        /\ global_signal_canceled' = global_signal_canceled
    BY <1>0, <1>CancelSkip, CancelSkipIs, KeepsFrame DEF Moves, Stays
  <2> QED
    BY <1>g, <1>i, <1>j, <2>1 DEF Pc, Kind
<1>CancelUnsupport. CASE CancelUnsupport
  <2>1. /\ t \in Task
        /\ Pc(t) = "cancel"
        /\ act'[t].pc = "cancel"
        /\ \A u \in Task : u # t => act'[u] = act[u]
        /\ uid' = uid /\ prog' = prog /\ stack' = stack /\ reuse' = reuse
        /\ running' = r
        /\ t = Inner(r)
        /\ uid[t] = r
        /\ armed' = armed
        /\ global_signal_canceled' = global_signal_canceled
    BY <1>0, <1>CancelUnsupport, CancelUnsupportIs, KeepsFrame DEF Moves, Stays
  <2> QED
    BY <1>g, <1>i, <1>j, <2>1 DEF Pc, Kind
<1>CancelInterrupt. CASE CancelInterrupt
  <2>1. /\ t \in Task
        /\ Pc(t) = "cancel"
        /\ act'[t].pc = "cancel"
        /\ \A u \in Task : u # t => act'[u] = act[u]
        /\ uid' = uid /\ prog' = prog /\ stack' = stack /\ reuse' = reuse
        /\ global_signal_canceled' = TRUE
        /\ t = Inner(r)
        /\ uid[t] = r
        /\ armed' = armed
    BY <1>0, <1>CancelInterrupt, CancelInterruptIs, KeepsFrame DEF Moves
  <2> QED
    BY <1>g, <1>i, <1>j, <2>1 DEF Pc, Kind
<1>CancelEndYields. CASE CancelEndYields
  <2>1. /\ t \in Task
        /\ Pc(t) = "cancel"
        /\ act'[t].pc = "unsupport"
        /\ \A u \in Task : u # t => act'[u] = act[u]
        /\ uid' = uid /\ prog' = prog /\ stack' = stack /\ reuse' = reuse
        /\ t = Inner(r)
        /\ uid[t] = r
        /\ running' = block_to[t]
        /\ global_signal_canceled' = global_signal_canceled
        /\ Keeps
        /\ armed' = armed
    BY <1>0, <1>CancelEndYields, CancelEndYieldsIs, KeepsFrame DEF CancelEndYields, Moves, Yields
  <2>2. running' = Loop \/ (running' \in Task /\ Pc(Inner(running')) \in {"run", "child"} /\ running' # r)
    BY <1>0, <1>CancelEndYields, <2>1, KeepsFrame, YieldTo, YieldsFreely
  <2> QED
    BY <1>g, <1>i, <1>j, <2>1, <2>2, StackTypes DEF Pc, Kind
<1>CancelEndDone. CASE CancelEndDone
  <2>1. /\ t \in Task
        /\ Pc(t) = "cancel"
        /\ act'[t].pc = act[t].next
        /\ \A u \in Task : u # t => act'[u] = act[u]
        /\ uid' = uid /\ prog' = prog /\ stack' = stack /\ reuse' = reuse
        /\ running' = r
        /\ t = Inner(r)
        /\ uid[t] = r
        /\ armed' = armed
        /\ global_signal_canceled' = global_signal_canceled
    BY <1>0, <1>CancelEndDone, CancelEndDoneIs, KeepsFrame DEF CancelEndDone, Moves, Stays
  <2> QED
    BY <1>g, <1>i, <1>j, <2>1 DEF Pc, Kind
<1>UnsupportYields. CASE UnsupportYields
  <2>1. /\ t \in Task
        /\ Pc(t) = "unsupport"
        /\ act'[t].pc = "unsupport"
        /\ \A u \in Task : u # t => act'[u] = act[u]
        /\ uid' = uid /\ prog' = prog /\ stack' = stack /\ reuse' = reuse
        /\ t = Inner(r)
        /\ uid[t] = r
        /\ running' = block_to[t]
        /\ global_signal_canceled' = global_signal_canceled
        /\ Keeps
        /\ armed' = armed
    BY <1>0, <1>UnsupportYields, UnsupportYieldsIs, KeepsFrame DEF UnsupportYields, Moves, Yields
  <2>2. running' = Loop \/ (running' \in Task /\ Pc(Inner(running')) \in {"run", "child"} /\ running' # r)
    BY <1>0, <1>UnsupportYields, <2>1, KeepsFrame, YieldTo, YieldsFreely
  <2> QED
    BY <1>g, <1>i, <1>j, <2>1, <2>2, StackTypes DEF Pc, Kind
<1>UnsupportDone. CASE UnsupportDone
  <2>1. /\ t \in Task
        /\ Pc(t) = "unsupport"
        /\ act'[t].pc = act[t].next
        /\ \A u \in Task : u # t => act'[u] = act[u]
        /\ uid' = uid /\ prog' = prog /\ stack' = stack /\ reuse' = reuse
        /\ running' = r
        /\ t = Inner(r)
        /\ uid[t] = r
        /\ armed' = armed
        /\ global_signal_canceled' = global_signal_canceled
    BY <1>0, <1>UnsupportDone, UnsupportDoneIs, KeepsFrame DEF UnsupportDone, Moves, Stays
  <2> QED
    BY <1>g, <1>i, <1>j, <2>1 DEF Pc, Kind
<1>AwaitReturn. CASE AwaitReturn
  <2>1. PICK x \in Task, u \in Task, s \in Status, pc \in Points :
          /\ Ends(x, s, pc) /\ Pc(u) = "run" /\ running' = r
          /\ \A v \in Task : v # x => uid'[v] = uid[v]
          /\ \A v \in Task : v # x /\ v # u => act'[v] = act[v]
          /\ prog' = prog /\ armed' = armed /\ global_signal_canceled' = global_signal_canceled
    BY <1>0, <1>AwaitReturn, PopsFx
  <2>2. Pc(x) \notin {"wait", "throw"}
    BY <2>1 DEF Ends
  <2> QED
    BY <1>g, <1>i, <1>j, <2>1, <2>2 DEF Pc, Kind
<1>AwaitReturnThrow. CASE AwaitReturnThrow
  <2>1. PICK x \in Task, u \in Task, s \in Status, pc \in Points :
          /\ Ends(x, s, pc) /\ Pc(u) = "run" /\ running' = r
          /\ \A v \in Task : v # x => uid'[v] = uid[v]
          /\ \A v \in Task : v # x /\ v # u => act'[v] = act[v]
          /\ prog' = prog /\ armed' = armed /\ global_signal_canceled' = global_signal_canceled
    BY <1>0, <1>AwaitReturnThrow, PopsFx
  <2>2. Pc(x) \notin {"wait", "throw"}
    BY <2>1 DEF Ends
  <2> QED
    BY <1>g, <1>i, <1>j, <2>1, <2>2 DEF Pc, Kind
<1>AwaitRethrow. CASE AwaitRethrow
  <2>1. PICK x \in Task, u \in Task, s \in Status, pc \in Points :
          /\ Ends(x, s, pc) /\ Pc(u) = "run" /\ running' = r
          /\ \A v \in Task : v # x => uid'[v] = uid[v]
          /\ \A v \in Task : v # x /\ v # u => act'[v] = act[v]
          /\ prog' = prog /\ armed' = armed /\ global_signal_canceled' = global_signal_canceled
    BY <1>0, <1>AwaitRethrow, PopsFx
  <2>2. Pc(x) \notin {"wait", "throw"}
    BY <2>1 DEF Ends
  <2> QED
    BY <1>g, <1>i, <1>j, <2>1, <2>2 DEF Pc, Kind
<1>RuntimeFinish. CASE RuntimeFinish
  <2>1. /\ r \in Task /\ uid' = uid /\ armed' = armed /\ prog' = prog /\ Pc(r) \notin {"wait", "throw"}
        /\ r = Inner(r) /\ \A u \in Task : u # r => act'[u] = act[u]
    BY <1>0, <1>RuntimeFinish, RuntimeFinishIs
  <2>2. e \in armed /\ e \in Task /\ e # r /\ uid[e] # r
    BY <1>g, <1>i, <1>j, <2>1
  <2>3. uid[e] # running'
    <3> SUFFICES ASSUME uid[e] = running' PROVE FALSE
      OBVIOUS
    <3>1. e = Inner(running') /\ running' \in Task /\ Kind(e) = "event" /\ Pc(e) \in {"wait", "throw"}
      BY <1>j, <2>2
    <3>2. \E j \in DOMAIN Children(e) : Children(e)[j] = running
      BY <1>RuntimeFinish, <3>1, FinishTo, StackTypes
    <3>3. Kind(e) \in Combinators
      BY <2>2, <3>2, KidFacts DEF IndInv
    <3> QED
      BY <3>1, <3>3 DEF Combinators
  <2> QED
    BY <1>j, <2>1, <2>2, <2>3 DEF Pc, Kind
<1>EventFires. CASE \E ev \in Task : EventFires(ev)
  <2>1. PICK d \in Task : EventFires(d)
    BY <1>EventFires
  <2>2. /\ r = Loop /\ running' = uid[d] /\ armed' = armed \ {d} /\ d = Inner(uid[d])
        /\ prog' = prog /\ uid' = uid /\ act' = act
    BY <1>0, <2>1, EventFiresIs
  <2> QED
    BY <1>g, <1>i, <1>j, <2>2, StackTypes DEF Pc, Kind
<1>Stutter. CASE UNCHANGED vars
  <2>1. running' = r /\ armed' = armed /\ prog' = prog /\ uid' = uid /\ act' = act
        /\ global_signal_canceled' = global_signal_canceled
    BY <1>0, <1>Stutter DEF vars, objectVars, controlVars
  <2> QED
    BY <1>g, <1>i, <1>j, <2>1 DEF Pc, Kind
<1> QED
  BY StepCases, <1>TaskRuntime, <1>Await, <1>Start, <1>StartReject, <1>EventRun, <1>EventWake,
       <1>ChildrenReady, <1>ChildrenUnready, <1>StartChild, <1>AllOfBackYields,
       <1>AllOfBackGoesOn, <1>AnyOfBackWins, <1>AnyOfBackGoesOn, <1>AnyOfBackYields,
       <1>AllOfWakeYields, <1>AllOfWakeEnds, <1>AnyOfWake, <1>CanceledDirectlyLeaf,
       <1>CanceledDirectlyComb, <1>CanceledIndirectly, <1>CatchLeaf, <1>CatchComb, <1>CancelSkip,
       <1>CancelUnsupport, <1>CancelInterrupt, <1>CancelEndYields, <1>CancelEndDone,
       <1>UnsupportYields, <1>UnsupportDone, <1>AwaitReturn, <1>AwaitReturnThrow, <1>AwaitRethrow,
       <1>RuntimeFinish, <1>EventFires, <1>Stutter


LEMMA ProgSame ==
    ASSUME [Next]_vars
    PROVE  prog' = prog
BY DEF Next, Step, TaskRuntime, Await, AwaitReject, Start, StartReject, EventRun, EventWake,
       ChildrenReady, ChildrenUnready, StartChild, AllOfChildBack, AnyOfChildBack, AllOfWake,
       AnyOfWake, CanceledDirectly, CanceledIndirectly, Catch, CancelSkip, CancelUnsupport,
       CancelInterrupt, CancelEnd, UnsupportWake, AwaitReturn, AwaitReturnThrow, AwaitRethrow,
       RuntimeFinish, EventFires, Exit, vars

LEMMA LevelStep ==
    ASSUME IndInv, [Next]_vars
    PROVE  LevelInv'
<1>0. PICK r, t : r = running /\ t = Top
  OBVIOUS
<1>i. \A x \in Task : /\ uninterruptable[x] => Level(x) = 0 \/ (Level(x) = 1 /\ prog[x].un)
                      /\ prog[x].un => uninterruptable[x]
                      /\ Pc(x) = "unsupport" => uninterruptable[x] /\ Level(x) = 0
                      /\ Pc(x) = "cancel" /\ act[x].n > 0 => Level(x) = 0
  BY DEF IndInv, LevelInv
<1>p. prog' = prog /\ \A x \in Task : Level(x)' = Level(x)
  <2>1. prog' = prog
    BY StepCases, ProgSame
  <2> QED
    BY <2>1, SameProgram
<1>TaskRuntime. CASE TaskRuntime
  BY <1>0, <1>TaskRuntime, TaskRuntimeIs, <1>i, <1>p DEF LevelInv, Pc
<1>Await. CASE Await
  <2>1. PICK x \in Task, u \in Task : /\ act'[x].pc = "run" /\ act'[u].pc = "run"
                                     /\ \A v \in Task : v # x /\ v # u => act'[v] = act[v]
    BY <1>Await, AwaitFx
  <2>2. uninterruptable' = uninterruptable
    BY <1>Await, AwaitIs
  <2> QED
    BY <1>i, <1>p, <2>1, <2>2 DEF LevelInv, Pc
<1>Start. CASE Start
  <2>1. /\ t \in Task
        /\ Pc(t) = "run"
        /\ act'[t].pc = "run"
        /\ act'[t].n = act[t].n
        /\ \A u \in Task : u # t => act'[u] = act[u]
        /\ uid' = uid /\ prog' = prog /\ stack' = stack /\ reuse' = reuse
        /\ uninterruptable' = uninterruptable
    BY <1>0, <1>Start, StartIs, KeepsFrame, StartFx DEF Moves
  <2> QED
    BY <1>i, <1>p, <2>1 DEF LevelInv, Pc
<1>StartReject. CASE StartReject
  <2>1. /\ t \in Task
        /\ Pc(t) = "run"
        /\ act'[t].pc = "run"
        /\ act'[t].n = act[t].n
        /\ \A u \in Task : u # t => act'[u] = act[u]
        /\ uid' = uid /\ prog' = prog /\ stack' = stack /\ reuse' = reuse
        /\ uninterruptable' = uninterruptable
    BY <1>0, <1>StartReject, StartRejectIs, KeepsFrame, CallIs DEF Moves, StartReject
  <2> QED
    BY <1>i, <1>p, <2>1 DEF LevelInv, Pc
<1>EventRun. CASE EventRun
  <2>1. /\ t \in Task
        /\ Pc(t) = "run"
        /\ act'[t].pc = "wait"
        /\ act'[t].n = act[t].n
        /\ \A u \in Task : u # t => act'[u] = act[u]
        /\ uid' = uid /\ prog' = prog /\ stack' = stack /\ reuse' = reuse
        /\ uninterruptable' = uninterruptable
    BY <1>0, <1>EventRun, EventRunIs, KeepsFrame DEF Moves
  <2> QED
    BY <1>i, <1>p, <2>1 DEF LevelInv, Pc
<1>EventWake. CASE EventWake
  <2>1. /\ t \in Task
        /\ Pc(t) = "wait"
        /\ act'[t].pc = "return"
        /\ act'[t].n = act[t].n
        /\ \A u \in Task : u # t => act'[u] = act[u]
        /\ uid' = uid /\ prog' = prog /\ stack' = stack /\ reuse' = reuse
        /\ uninterruptable' = uninterruptable
    BY <1>0, <1>EventWake, EventWakeIs, KeepsFrame DEF Moves
  <2> QED
    BY <1>i, <1>p, <2>1 DEF LevelInv, Pc
<1>ChildrenReady. CASE ChildrenReady
  <2>1. /\ t \in Task
        /\ Pc(t) = "run"
        /\ act'[t].pc = "start"
        /\ act'[t].n = Len(Children(t))
        /\ \A u \in Task : u # t => act'[u] = act[u]
        /\ uid' = uid /\ prog' = prog /\ stack' = stack /\ reuse' = reuse
        /\ uninterruptable' = uninterruptable
    BY <1>0, <1>ChildrenReady, ChildrenReadyIs, KeepsFrame DEF Moves
  <2> QED
    BY <1>i, <1>p, <2>1 DEF LevelInv, Pc
<1>ChildrenUnready. CASE ChildrenUnready
  <2>1. /\ t \in Task
        /\ Pc(t) = "run"
        /\ act'[t].pc = "return"
        /\ act'[t].n = act[t].n
        /\ \A u \in Task : u # t => act'[u] = act[u]
        /\ uid' = uid /\ prog' = prog /\ stack' = stack /\ reuse' = reuse
        /\ uninterruptable' = uninterruptable
    BY <1>0, <1>ChildrenUnready, ChildrenUnreadyIs, KeepsFrame DEF Moves
  <2> QED
    BY <1>i, <1>p, <2>1 DEF LevelInv, Pc
<1>StartChild. CASE StartChild
  <2>1. /\ t \in Task
        /\ Pc(t) = "start"
        /\ act'[t].pc = "child"
        /\ act'[t].n = act[t].n
        /\ \A u \in Task : u # t => act'[u] = act[u]
        /\ uid' = uid /\ prog' = prog /\ stack' = stack /\ reuse' = reuse
        /\ uninterruptable' = uninterruptable
    BY <1>0, <1>StartChild, StartChildIs, KeepsFrame DEF Moves
  <2> QED
    BY <1>i, <1>p, <2>1 DEF LevelInv, Pc
<1>AllOfBackYields. CASE AllOfBackYields
  <2>1. /\ t \in Task
        /\ Pc(t) = "child"
        /\ act'[t].pc = "wait"
        /\ act'[t].n = Count(Here)
        /\ \A u \in Task : u # t => act'[u] = act[u]
        /\ uid' = uid /\ prog' = prog /\ stack' = stack /\ reuse' = reuse
        /\ uninterruptable' = uninterruptable
    BY <1>0, <1>AllOfBackYields, AllOfBackYieldsIs, KeepsFrame DEF AllOfBackYields, Moves
  <2> QED
    BY <1>i, <1>p, <2>1 DEF LevelInv, Pc
<1>AllOfBackGoesOn. CASE AllOfBackGoesOn
  <2>1. /\ t \in Task
        /\ Pc(t) = "child"
        /\ act'[t].pc = (IF act[t].i = Len(Children(t)) THEN "return" ELSE "start")
        /\ act'[t].n = Count(Here)
        /\ \A u \in Task : u # t => act'[u] = act[u]
        /\ uid' = uid /\ prog' = prog /\ stack' = stack /\ reuse' = reuse
        /\ uninterruptable' = uninterruptable
    BY <1>0, <1>AllOfBackGoesOn, AllOfBackGoesOnIs, KeepsFrame DEF AllOfBackGoesOn, Moves
  <2> QED
    BY <1>i, <1>p, <2>1 DEF LevelInv, Pc
<1>AnyOfBackWins. CASE AnyOfBackWins
  <2>1. /\ t \in Task
        /\ Pc(t) = "child"
        /\ act'[t].pc = "cancel"
        /\ act'[t].n = 0
        /\ \A u \in Task : u # t => act'[u] = act[u]
        /\ uid' = uid /\ prog' = prog /\ stack' = stack /\ reuse' = reuse
        /\ uninterruptable' = uninterruptable
    BY <1>0, <1>AnyOfBackWins, AnyOfBackWinsIs, KeepsFrame DEF AnyOfBackWins, Moves
  <2> QED
    BY <1>i, <1>p, <2>1 DEF LevelInv, Pc
<1>AnyOfBackGoesOn. CASE AnyOfBackGoesOn
  <2>1. /\ t \in Task
        /\ Pc(t) = "child"
        /\ act'[t].pc = "start"
        /\ act'[t].n = act[t].n
        /\ \A u \in Task : u # t => act'[u] = act[u]
        /\ uid' = uid /\ prog' = prog /\ stack' = stack /\ reuse' = reuse
        /\ uninterruptable' = uninterruptable
    BY <1>0, <1>AnyOfBackGoesOn, AnyOfBackGoesOnIs, KeepsFrame DEF AnyOfBackGoesOn, Moves
  <2> QED
    BY <1>i, <1>p, <2>1 DEF LevelInv, Pc
<1>AnyOfBackYields. CASE AnyOfBackYields
  <2>1. /\ t \in Task
        /\ Pc(t) = "child"
        /\ act'[t].pc = "wait"
        /\ act'[t].n = act[t].n
        /\ \A u \in Task : u # t => act'[u] = act[u]
        /\ uid' = uid /\ prog' = prog /\ stack' = stack /\ reuse' = reuse
        /\ uninterruptable' = uninterruptable
    BY <1>0, <1>AnyOfBackYields, AnyOfBackYieldsIs, KeepsFrame DEF AnyOfBackYields, Moves
  <2> QED
    BY <1>i, <1>p, <2>1 DEF LevelInv, Pc
<1>AllOfWakeYields. CASE AllOfWakeYields
  <2>1. /\ t \in Task
        /\ Pc(t) = "wait"
        /\ act'[t].pc = "wait"
        /\ act'[t].n = act[t].n - 1
        /\ \A u \in Task : u # t => act'[u] = act[u]
        /\ uid' = uid /\ prog' = prog /\ stack' = stack /\ reuse' = reuse
        /\ uninterruptable' = uninterruptable
    BY <1>0, <1>AllOfWakeYields, AllOfWakeYieldsIs, KeepsFrame DEF AllOfWakeYields, Moves
  <2> QED
    BY <1>i, <1>p, <2>1 DEF LevelInv, Pc
<1>AllOfWakeEnds. CASE AllOfWakeEnds
  <2>1. /\ t \in Task
        /\ Pc(t) = "wait"
        /\ act'[t].pc = "return"
        /\ act'[t].n = 0
        /\ \A u \in Task : u # t => act'[u] = act[u]
        /\ uid' = uid /\ prog' = prog /\ stack' = stack /\ reuse' = reuse
        /\ uninterruptable' = uninterruptable
    BY <1>0, <1>AllOfWakeEnds, AllOfWakeEndsIs, KeepsFrame DEF AllOfWakeEnds, Moves
  <2> QED
    BY <1>i, <1>p, <2>1 DEF LevelInv, Pc
<1>AnyOfWake. CASE AnyOfWake
  <2>1. /\ t \in Task
        /\ Pc(t) = "wait"
        /\ act'[t].pc = "cancel"
        /\ act'[t].n = 0
        /\ \A u \in Task : u # t => act'[u] = act[u]
        /\ uid' = uid /\ prog' = prog /\ stack' = stack /\ reuse' = reuse
        /\ uninterruptable' = uninterruptable
    BY <1>0, <1>AnyOfWake, AnyOfWakeIs, KeepsFrame DEF Moves
  <2> QED
    BY <1>i, <1>p, <2>1 DEF LevelInv, Pc
<1>CanceledDirectlyLeaf. CASE CanceledDirectlyLeaf
  <2>1. /\ t \in Task
        /\ Pc(t) = "wait"
        /\ act'[t].pc = "return"
        /\ act'[t].n = act[t].n
        /\ \A u \in Task : u # t => act'[u] = act[u]
        /\ uid' = uid /\ prog' = prog /\ stack' = stack /\ reuse' = reuse
        /\ uninterruptable' = uninterruptable
    BY <1>0, <1>CanceledDirectlyLeaf, CanceledDirectlyLeafIs, KeepsFrame
       DEF CanceledDirectlyLeaf, Moves
  <2> QED
    BY <1>i, <1>p, <2>1 DEF LevelInv, Pc
<1>CanceledDirectlyComb. CASE CanceledDirectlyComb
  <2>1. /\ t \in Task
        /\ Pc(t) = "wait"
        /\ act'[t].pc = "cancel"
        /\ act'[t].n = 0
        /\ \A u \in Task : u # t => act'[u] = act[u]
        /\ uid' = uid /\ prog' = prog /\ stack' = stack /\ reuse' = reuse
        /\ uninterruptable' = uninterruptable
    BY <1>0, <1>CanceledDirectlyComb, CanceledDirectlyCombIs, KeepsFrame
       DEF CanceledDirectlyComb, Moves
  <2> QED
    BY <1>i, <1>p, <2>1 DEF LevelInv, Pc
<1>CanceledIndirectly. CASE CanceledIndirectly
  <2>1. /\ t \in Task
        /\ Pc(t) = "wait"
        /\ act'[t].pc = "throw"
        /\ act'[t].n = act[t].n
        /\ \A u \in Task : u # t => act'[u] = act[u]
        /\ uid' = uid /\ prog' = prog /\ stack' = stack /\ reuse' = reuse
        /\ uninterruptable' = uninterruptable
    BY <1>0, <1>CanceledIndirectly, CanceledIndirectlyIs, KeepsFrame DEF Moves
  <2> QED
    BY <1>i, <1>p, <2>1 DEF LevelInv, Pc
<1>CatchLeaf. CASE CatchLeaf
  <2>1. /\ t \in Task
        /\ Pc(t) = "throw"
        /\ act'[t].pc = "caught"
        /\ act'[t].n = act[t].n
        /\ \A u \in Task : u # t => act'[u] = act[u]
        /\ uid' = uid /\ prog' = prog /\ stack' = stack /\ reuse' = reuse
        /\ uninterruptable' = uninterruptable
    BY <1>0, <1>CatchLeaf, CatchLeafIs, KeepsFrame DEF CatchLeaf, Moves
  <2> QED
    BY <1>i, <1>p, <2>1 DEF LevelInv, Pc
<1>CatchComb. CASE CatchComb
  <2>1. /\ t \in Task
        /\ Pc(t) = "throw"
        /\ act'[t].pc = "cancel"
        /\ act'[t].n = 0
        /\ \A u \in Task : u # t => act'[u] = act[u]
        /\ uid' = uid /\ prog' = prog /\ stack' = stack /\ reuse' = reuse
        /\ uninterruptable' = uninterruptable
    BY <1>0, <1>CatchComb, CatchCombIs, KeepsFrame DEF CatchComb, Moves
  <2> QED
    BY <1>i, <1>p, <2>1 DEF LevelInv, Pc
<1>CancelSkip. CASE CancelSkip
  <2>1. /\ t \in Task
        /\ Pc(t) = "cancel"
        /\ act'[t].pc = "cancel"
        /\ act'[t].n = act[t].n
        /\ \A u \in Task : u # t => act'[u] = act[u]
        /\ uid' = uid /\ prog' = prog /\ stack' = stack /\ reuse' = reuse
        /\ uninterruptable' = uninterruptable
    BY <1>0, <1>CancelSkip, CancelSkipIs, KeepsFrame DEF Moves
  <2> QED
    BY <1>i, <1>p, <2>1 DEF LevelInv, Pc
<1>CancelUnsupport. CASE CancelUnsupport
  <2>1. /\ t \in Task
        /\ Pc(t) = "cancel"
        /\ act'[t].pc = "cancel"
        /\ act'[t].n = act[t].n + 1
        /\ \A u \in Task : u # t => act'[u] = act[u]
        /\ uid' = uid /\ prog' = prog /\ stack' = stack /\ reuse' = reuse
        /\ uninterruptable' = uninterruptable
    BY <1>0, <1>CancelUnsupport, CancelUnsupportIs, KeepsFrame DEF Moves
  <2>2. Level(t) = 0
    <3>1. PICK x \in Task, f \in Task : /\ act[t].i \in DOMAIN Children(t) /\ x = Children(t)[act[t].i]
                                        /\ Pc(f) # "none" /\ uid[f] = x /\ uninterruptable[f]
      BY <1>0, <1>CancelUnsupport, CancelUnsupportFx
    <3>2. Level(f) = Level(x) /\ Level(x) = IF Level(t) = 0 THEN 1 ELSE 2
      BY <2>1, <3>1, LiveFacts, KidFacts DEF IndInv
    <3> QED
      BY <1>i, <3>1, <3>2
  <2> QED
    BY <1>i, <1>p, <2>1, <2>2 DEF LevelInv, Pc
<1>CancelInterrupt. CASE CancelInterrupt
  <2>1. /\ t \in Task
        /\ Pc(t) = "cancel"
        /\ act'[t].pc = "cancel"
        /\ act'[t].n = act[t].n
        /\ \A u \in Task : u # t => act'[u] = act[u]
        /\ uid' = uid /\ prog' = prog /\ stack' = stack /\ reuse' = reuse
        /\ uninterruptable' = uninterruptable
    BY <1>0, <1>CancelInterrupt, CancelInterruptIs, KeepsFrame DEF Moves
  <2> QED
    BY <1>i, <1>p, <2>1 DEF LevelInv, Pc
<1>CancelEndYields. CASE CancelEndYields
  <2>1. /\ t \in Task
        /\ Pc(t) = "cancel"
        /\ act'[t].pc = "unsupport"
        /\ act'[t].n = act[t].n
        /\ \A u \in Task : u # t => act'[u] = act[u]
        /\ uid' = uid /\ prog' = prog /\ stack' = stack /\ reuse' = reuse
        /\ act[t].n > 0
        /\ uninterruptable' = [uninterruptable EXCEPT ![t] = TRUE]
    BY <1>0, <1>CancelEndYields, CancelEndYieldsIs, KeepsFrame DEF CancelEndYields, Moves
  <2>2. uninterruptable'[t] /\ \A x \in Task : x # t => uninterruptable'[x] = uninterruptable[x]
    BY <2>1 DEF IndInv, TypeOK
  <2> QED
    BY <1>i, <1>p, <2>1, <2>2 DEF LevelInv, Pc
<1>CancelEndDone. CASE CancelEndDone
  <2>1. /\ t \in Task
        /\ Pc(t) = "cancel"
        /\ act'[t].pc = act[t].next
        /\ act'[t].n = act[t].n
        /\ \A u \in Task : u # t => act'[u] = act[u]
        /\ uid' = uid /\ prog' = prog /\ stack' = stack /\ reuse' = reuse
        /\ uninterruptable' = uninterruptable
    BY <1>0, <1>CancelEndDone, CancelEndDoneIs, KeepsFrame DEF CancelEndDone, Moves
  <2> QED
    BY <1>i, <1>p, <2>1, StackTypes DEF LevelInv, Pc
<1>UnsupportYields. CASE UnsupportYields
  <2>1. /\ t \in Task
        /\ Pc(t) = "unsupport"
        /\ act'[t].pc = "unsupport"
        /\ act'[t].n = act[t].n - 1
        /\ \A u \in Task : u # t => act'[u] = act[u]
        /\ uid' = uid /\ prog' = prog /\ stack' = stack /\ reuse' = reuse
        /\ uninterruptable' = uninterruptable
    BY <1>0, <1>UnsupportYields, UnsupportYieldsIs, KeepsFrame DEF UnsupportYields, Moves
  <2> QED
    BY <1>i, <1>p, <2>1 DEF LevelInv, Pc
<1>UnsupportDone. CASE UnsupportDone
  <2>1. /\ t \in Task
        /\ Pc(t) = "unsupport"
        /\ act'[t].pc = act[t].next
        /\ act'[t].n = 0
        /\ \A u \in Task : u # t => act'[u] = act[u]
        /\ uid' = uid /\ prog' = prog /\ stack' = stack /\ reuse' = reuse
        /\ uninterruptable' = uninterruptable
    BY <1>0, <1>UnsupportDone, UnsupportDoneIs, KeepsFrame DEF UnsupportDone, Moves
  <2> QED
    BY <1>i, <1>p, <2>1, StackTypes DEF LevelInv, Pc
<1>AwaitReturn. CASE AwaitReturn
  <2>1. PICK x \in Task, u \in Task, s \in Status, pc \in Points :
          /\ Ends(x, s, pc) /\ act'[x].pc = "none" /\ act'[u].pc = pc
          /\ \A v \in Task : v # x /\ v # u => act'[v] = act[v]
          /\ uninterruptable' = uninterruptable
    BY <1>AwaitReturn, PopsFx
  <2>2. pc \in {"run", "throw"}
    BY <2>1 DEF Ends
  <2> QED
    BY <1>i, <1>p, <2>1, <2>2 DEF LevelInv, Pc
<1>AwaitReturnThrow. CASE AwaitReturnThrow
  <2>1. PICK x \in Task, u \in Task, s \in Status, pc \in Points :
          /\ Ends(x, s, pc) /\ act'[x].pc = "none" /\ act'[u].pc = pc
          /\ \A v \in Task : v # x /\ v # u => act'[v] = act[v]
          /\ uninterruptable' = uninterruptable
    BY <1>AwaitReturnThrow, PopsFx
  <2>2. pc \in {"run", "throw"}
    BY <2>1 DEF Ends
  <2> QED
    BY <1>i, <1>p, <2>1, <2>2 DEF LevelInv, Pc
<1>AwaitRethrow. CASE AwaitRethrow
  <2>1. PICK x \in Task, u \in Task, s \in Status, pc \in Points :
          /\ Ends(x, s, pc) /\ act'[x].pc = "none" /\ act'[u].pc = pc
          /\ \A v \in Task : v # x /\ v # u => act'[v] = act[v]
          /\ uninterruptable' = uninterruptable
    BY <1>AwaitRethrow, PopsFx
  <2>2. pc \in {"run", "throw"}
    BY <2>1 DEF Ends
  <2> QED
    BY <1>i, <1>p, <2>1, <2>2 DEF LevelInv, Pc
<1>RuntimeFinish. CASE RuntimeFinish
  BY <1>0, <1>RuntimeFinish, RuntimeFinishIs, <1>i, <1>p DEF LevelInv, Pc
<1>EventFires. CASE \E e \in Task : EventFires(e)
  BY <1>0, <1>EventFires, <1>i, <1>p, EventFiresIs DEF LevelInv, Pc
<1>Stutter. CASE UNCHANGED vars
  BY <1>0, <1>Stutter, <1>i, <1>p DEF LevelInv, Pc, vars, objectVars
<1> QED
  BY StepCases, <1>TaskRuntime, <1>Await, <1>Start, <1>StartReject, <1>EventRun, <1>EventWake,
       <1>ChildrenReady, <1>ChildrenUnready, <1>StartChild, <1>AllOfBackYields,
       <1>AllOfBackGoesOn, <1>AnyOfBackWins, <1>AnyOfBackGoesOn, <1>AnyOfBackYields,
       <1>AllOfWakeYields, <1>AllOfWakeEnds, <1>AnyOfWake, <1>CanceledDirectlyLeaf,
       <1>CanceledDirectlyComb, <1>CanceledIndirectly, <1>CatchLeaf, <1>CatchComb, <1>CancelSkip,
       <1>CancelUnsupport, <1>CancelInterrupt, <1>CancelEndYields, <1>CancelEndDone,
       <1>UnsupportYields, <1>UnsupportDone, <1>AwaitReturn, <1>AwaitReturnThrow, <1>AwaitRethrow,
       <1>RuntimeFinish, <1>EventFires, <1>Stutter


\* The task of a coroutine that is at work and not being left is not canceled.
LEMMA CanceledTop ==
    ASSUME IndInv, Keeps, Pc(Top) \in {"run", "start", "child", "wait", "unsupport"},
           Pc(Top) = "wait" => ~global_signal_canceled
    PROVE  ~(status[Top] = "canceled" /\ uid[Top] = Top)
<1>1. running \in Task /\ Busy(running) /\ Top = Inner(running) /\ uid[Top] = running
  BY KeepsFrame
<1>2. status[running] = "canceled" => Unwinds(running)
  BY <1>1 DEF IndInv, DoomInv
<1> QED
  BY <1>1, <1>2 DEF Unwinds, Leaving

LEMMA CancelsStep ==
    ASSUME IndInv, [Next]_vars
    PROVE  CancelsInv'
<1>0. PICK r, t : r = running /\ t = Top
  OBVIOUS
<1>i. cancels \in [Task -> Nat] /\ \A x \in Task : cancels[x] = IF WasCanceled(x) THEN 1 ELSE 0
  BY DEF IndInv, TypeOK, CancelsInv
<1>g. SUFFICES ASSUME NEW x \in Task PROVE cancels'[x] = IF WasCanceled(x)' THEN 1 ELSE 0
  BY DEF CancelsInv
<1>TaskRuntime. CASE TaskRuntime
  BY <1>0, <1>TaskRuntime, TaskRuntimeIs, <1>i, TaskRuntimeFx DEF WasCanceled, Pc
<1>Await. CASE Await
  <2>1. PICK y \in Task, u \in Task : /\ act'[y].pc = "run" /\ act'[u].pc = "run" /\ y # u
                                      /\ Pc(y) = "none" /\ status[y] \in {"ready", "limited"} /\ Pc(u) = "run"
                                      /\ \A v \in Task : v # y => uid'[v] = uid[v] /\ status'[v] = status[v]
                                      /\ \A v \in Task : v # y /\ v # u => act'[v] = act[v]
    BY <1>Await, AwaitFx
  <2>2. cancels' = cancels
    BY <1>Await, AwaitIs
  <2> QED
    BY <1>i, <2>1, <2>2 DEF WasCanceled, Pc
<1>Start. CASE Start
  <2>1. /\ t \in Task
        /\ Pc(t) = "run"
        /\ act'[t].pc = "run"
        /\ act'[t].next = act[t].next
        /\ \A u \in Task : u # t => act'[u] = act[u]
        /\ uid' = uid /\ prog' = prog /\ stack' = stack /\ reuse' = reuse
        /\ cancels' = cancels
        /\ status' = status
    BY <1>0, <1>Start, StartIs, KeepsFrame, StartFx DEF Moves
  <2> QED
    BY <1>i, <2>1 DEF WasCanceled, Pc
<1>StartReject. CASE StartReject
  <2>1. PICK y \in Task : /\ Pc(y) = "none" /\ status[y] = "limited" /\ status' = [status EXCEPT ![y] = "deleted"]
                          /\ y # t /\ t \in Task
    BY <1>0, <1>StartReject, StartRejectIs, CallIs DEF StartReject
  <2>2. /\ Pc(t) = "run" /\ act'[t].pc = "run" /\ uid' = uid /\ cancels' = cancels
        /\ \A u \in Task : u # t => act'[u] = act[u]
    BY <1>0, <1>StartReject, StartRejectIs, KeepsFrame, CallIs DEF StartReject, Moves
  <2>3. status'[y] = "deleted" /\ \A u \in Task : u # y => status'[u] = status[u]
    BY <2>1 DEF IndInv, TypeOK
  <2> QED
    BY <1>i, <2>1, <2>2, <2>3 DEF WasCanceled, Pc
<1>EventRun. CASE EventRun
  <2>1. /\ t \in Task
        /\ Pc(t) = "run"
        /\ act'[t].pc = "wait"
        /\ act'[t].next = act[t].next
        /\ \A u \in Task : u # t => act'[u] = act[u]
        /\ uid' = uid /\ prog' = prog /\ stack' = stack /\ reuse' = reuse
        /\ cancels' = cancels
        /\ status' = status
    BY <1>0, <1>EventRun, EventRunIs, KeepsFrame DEF Moves
  <2> QED
    BY <1>i, <2>1 DEF WasCanceled, Pc
<1>EventWake. CASE EventWake
  <2>1. /\ t \in Task
        /\ Pc(t) = "wait"
        /\ act'[t].pc = "return"
        /\ act'[t].next = act[t].next
        /\ \A u \in Task : u # t => act'[u] = act[u]
        /\ uid' = uid /\ prog' = prog /\ stack' = stack /\ reuse' = reuse
        /\ cancels' = cancels
        /\ status' = status
        /\ Keeps
        /\ ~global_signal_canceled
    BY <1>0, <1>EventWake, EventWakeIs, KeepsFrame DEF Moves
  <2>2. ~(status[t] = "canceled" /\ uid[t] = t)
    BY <1>0, <2>1, CanceledTop
  <2> QED
    BY <1>i, <2>1, <2>2 DEF WasCanceled, Pc
<1>ChildrenReady. CASE ChildrenReady
  <2>1. /\ t \in Task
        /\ Pc(t) = "run"
        /\ act'[t].pc = "start"
        /\ act'[t].next = act[t].next
        /\ \A u \in Task : u # t => act'[u] = act[u]
        /\ uid' = uid /\ prog' = prog /\ stack' = stack /\ reuse' = reuse
        /\ cancels' = cancels
        /\ status' = status
    BY <1>0, <1>ChildrenReady, ChildrenReadyIs, KeepsFrame DEF Moves
  <2> QED
    BY <1>i, <2>1 DEF WasCanceled, Pc
<1>ChildrenUnready. CASE ChildrenUnready
  <2>1. /\ t \in Task
        /\ Pc(t) = "run"
        /\ act'[t].pc = "return"
        /\ act'[t].next = act[t].next
        /\ \A u \in Task : u # t => act'[u] = act[u]
        /\ uid' = uid /\ prog' = prog /\ stack' = stack /\ reuse' = reuse
        /\ cancels' = cancels
        /\ status' = [status EXCEPT ![t] = "child_unready"]
    BY <1>0, <1>ChildrenUnready, ChildrenUnreadyIs, KeepsFrame DEF Moves
  <2>2. status'[t] = "child_unready" /\ \A u \in Task : u # t => status'[u] = status[u]
    BY <2>1 DEF IndInv, TypeOK
  <2> QED
    BY <1>i, <2>1, <2>2 DEF WasCanceled, Pc
<1>StartChild. CASE StartChild
  <2>1. /\ t \in Task
        /\ Pc(t) = "start"
        /\ act'[t].pc = "child"
        /\ act'[t].next = act[t].next
        /\ \A u \in Task : u # t => act'[u] = act[u]
        /\ uid' = uid /\ prog' = prog /\ stack' = stack /\ reuse' = reuse
        /\ cancels' = cancels
        /\ status' = status
    BY <1>0, <1>StartChild, StartChildIs, KeepsFrame DEF Moves
  <2> QED
    BY <1>i, <2>1 DEF WasCanceled, Pc
<1>AllOfBackYields. CASE AllOfBackYields
  <2>1. /\ t \in Task
        /\ Pc(t) = "child"
        /\ act'[t].pc = "wait"
        /\ act'[t].next = act[t].next
        /\ \A u \in Task : u # t => act'[u] = act[u]
        /\ uid' = uid /\ prog' = prog /\ stack' = stack /\ reuse' = reuse
        /\ cancels' = cancels
        /\ status' = status
    BY <1>0, <1>AllOfBackYields, AllOfBackYieldsIs, KeepsFrame DEF AllOfBackYields, Moves
  <2> QED
    BY <1>i, <2>1 DEF WasCanceled, Pc
<1>AllOfBackGoesOn. CASE AllOfBackGoesOn
  <2>1. /\ t \in Task
        /\ Pc(t) = "child"
        /\ act'[t].pc = (IF act[t].i = Len(Children(t)) THEN "return" ELSE "start")
        /\ act'[t].next = act[t].next
        /\ \A u \in Task : u # t => act'[u] = act[u]
        /\ uid' = uid /\ prog' = prog /\ stack' = stack /\ reuse' = reuse
        /\ cancels' = cancels
        /\ status' = status
        /\ Keeps
    BY <1>0, <1>AllOfBackGoesOn, AllOfBackGoesOnIs, KeepsFrame DEF AllOfBackGoesOn, Moves
  <2>2. ~(status[t] = "canceled" /\ uid[t] = t)
    BY <1>0, <2>1, CanceledTop
  <2> QED
    BY <1>i, <2>1, <2>2 DEF WasCanceled, Pc
<1>AnyOfBackWins. CASE AnyOfBackWins
  <2>1. /\ t \in Task
        /\ Pc(t) = "child"
        /\ act'[t].pc = "cancel"
        /\ act'[t].next = "return"
        /\ \A u \in Task : u # t => act'[u] = act[u]
        /\ uid' = uid /\ prog' = prog /\ stack' = stack /\ reuse' = reuse
        /\ cancels' = cancels
        /\ status' = status
        /\ Keeps
    BY <1>0, <1>AnyOfBackWins, AnyOfBackWinsIs, KeepsFrame DEF AnyOfBackWins, Moves
  <2>2. ~(status[t] = "canceled" /\ uid[t] = t)
    BY <1>0, <2>1, CanceledTop
  <2> QED
    BY <1>i, <2>1, <2>2 DEF WasCanceled, Pc
<1>AnyOfBackGoesOn. CASE AnyOfBackGoesOn
  <2>1. /\ t \in Task
        /\ Pc(t) = "child"
        /\ act'[t].pc = "start"
        /\ act'[t].next = act[t].next
        /\ \A u \in Task : u # t => act'[u] = act[u]
        /\ uid' = uid /\ prog' = prog /\ stack' = stack /\ reuse' = reuse
        /\ cancels' = cancels
        /\ status' = status
    BY <1>0, <1>AnyOfBackGoesOn, AnyOfBackGoesOnIs, KeepsFrame DEF AnyOfBackGoesOn, Moves
  <2> QED
    BY <1>i, <2>1 DEF WasCanceled, Pc
<1>AnyOfBackYields. CASE AnyOfBackYields
  <2>1. /\ t \in Task
        /\ Pc(t) = "child"
        /\ act'[t].pc = "wait"
        /\ act'[t].next = act[t].next
        /\ \A u \in Task : u # t => act'[u] = act[u]
        /\ uid' = uid /\ prog' = prog /\ stack' = stack /\ reuse' = reuse
        /\ cancels' = cancels
        /\ status' = status
    BY <1>0, <1>AnyOfBackYields, AnyOfBackYieldsIs, KeepsFrame DEF AnyOfBackYields, Moves
  <2> QED
    BY <1>i, <2>1 DEF WasCanceled, Pc
<1>AllOfWakeYields. CASE AllOfWakeYields
  <2>1. /\ t \in Task
        /\ Pc(t) = "wait"
        /\ act'[t].pc = "wait"
        /\ act'[t].next = act[t].next
        /\ \A u \in Task : u # t => act'[u] = act[u]
        /\ uid' = uid /\ prog' = prog /\ stack' = stack /\ reuse' = reuse
        /\ cancels' = cancels
        /\ status' = status
    BY <1>0, <1>AllOfWakeYields, AllOfWakeYieldsIs, KeepsFrame DEF AllOfWakeYields, Moves
  <2> QED
    BY <1>i, <2>1 DEF WasCanceled, Pc
<1>AllOfWakeEnds. CASE AllOfWakeEnds
  <2>1. /\ t \in Task
        /\ Pc(t) = "wait"
        /\ act'[t].pc = "return"
        /\ act'[t].next = act[t].next
        /\ \A u \in Task : u # t => act'[u] = act[u]
        /\ uid' = uid /\ prog' = prog /\ stack' = stack /\ reuse' = reuse
        /\ cancels' = cancels
        /\ status' = status
        /\ Keeps
        /\ ~global_signal_canceled
    BY <1>0, <1>AllOfWakeEnds, AllOfWakeEndsIs, KeepsFrame DEF AllOfWakeEnds, Moves
  <2>2. ~(status[t] = "canceled" /\ uid[t] = t)
    BY <1>0, <2>1, CanceledTop
  <2> QED
    BY <1>i, <2>1, <2>2 DEF WasCanceled, Pc
<1>AnyOfWake. CASE AnyOfWake
  <2>1. /\ t \in Task
        /\ Pc(t) = "wait"
        /\ act'[t].pc = "cancel"
        /\ act'[t].next = "return"
        /\ \A u \in Task : u # t => act'[u] = act[u]
        /\ uid' = uid /\ prog' = prog /\ stack' = stack /\ reuse' = reuse
        /\ cancels' = cancels
        /\ status' = status
        /\ Keeps
        /\ ~global_signal_canceled
    BY <1>0, <1>AnyOfWake, AnyOfWakeIs, KeepsFrame DEF Moves
  <2>2. ~(status[t] = "canceled" /\ uid[t] = t)
    BY <1>0, <2>1, CanceledTop
  <2> QED
    BY <1>i, <2>1, <2>2 DEF WasCanceled, Pc
<1>CanceledDirectlyLeaf. CASE CanceledDirectlyLeaf
  <2>1. /\ t \in Task
        /\ Pc(t) = "wait"
        /\ act'[t].pc = "return"
        /\ act'[t].next = act[t].next
        /\ \A u \in Task : u # t => act'[u] = act[u]
        /\ uid' = uid /\ prog' = prog /\ stack' = stack /\ reuse' = reuse
        /\ cancels' = [cancels EXCEPT ![t] = @ + 1]
        /\ status' = status
        /\ status[t] = "canceled"
        /\ global_signal_canceled
        /\ uid[t] = r
        /\ Pc(t) # "none"
    BY <1>0, <1>CanceledDirectlyLeaf, CanceledDirectlyLeafIs, KeepsFrame
       DEF CanceledDirectlyLeaf, Moves
  <2>2. /\ \A u \in Task : u # t => cancels'[u] = cancels[u]
        /\ cancels'[t] = cancels[t] + 1
    BY <1>i, <2>1
  <2>3. cancels[t] = 0
    BY <1>i, <2>1 DEF WasCanceled
  <2>4. t = r
    BY <1>0, <2>1 DEF IndInv, SignalInv
  <2> QED
    BY <1>i, <2>1, <2>2, <2>3, <2>4 DEF WasCanceled, Pc
<1>CanceledDirectlyComb. CASE CanceledDirectlyComb
  <2>1. /\ t \in Task
        /\ Pc(t) = "wait"
        /\ act'[t].pc = "cancel"
        /\ act'[t].next = "return"
        /\ \A u \in Task : u # t => act'[u] = act[u]
        /\ uid' = uid /\ prog' = prog /\ stack' = stack /\ reuse' = reuse
        /\ cancels' = [cancels EXCEPT ![t] = @ + 1]
        /\ status' = status
        /\ status[t] = "canceled"
        /\ global_signal_canceled
        /\ uid[t] = r
        /\ Pc(t) # "none"
    BY <1>0, <1>CanceledDirectlyComb, CanceledDirectlyCombIs, KeepsFrame
       DEF CanceledDirectlyComb, Moves
  <2>2. /\ \A u \in Task : u # t => cancels'[u] = cancels[u]
        /\ cancels'[t] = cancels[t] + 1
    BY <1>i, <2>1
  <2>3. cancels[t] = 0
    BY <1>i, <2>1 DEF WasCanceled
  <2>4. t = r
    BY <1>0, <2>1 DEF IndInv, SignalInv
  <2> QED
    BY <1>i, <2>1, <2>2, <2>3, <2>4 DEF WasCanceled, Pc
<1>CanceledIndirectly. CASE CanceledIndirectly
  <2>1. /\ t \in Task
        /\ Pc(t) = "wait"
        /\ act'[t].pc = "throw"
        /\ act'[t].next = act[t].next
        /\ \A u \in Task : u # t => act'[u] = act[u]
        /\ uid' = uid /\ prog' = prog /\ stack' = stack /\ reuse' = reuse
        /\ cancels' = cancels
        /\ status' = [status EXCEPT ![t] = "canceled"]
    BY <1>0, <1>CanceledIndirectly, CanceledIndirectlyIs, KeepsFrame DEF Moves
  <2>2. \A u \in Task : u # t => status'[u] = status[u]
    BY <2>1 DEF IndInv, TypeOK
  <2> QED
    BY <1>i, <2>1, <2>2 DEF WasCanceled, Pc
<1>CatchLeaf. CASE CatchLeaf
  <2>1. /\ t \in Task
        /\ Pc(t) = "throw"
        /\ act'[t].pc = "caught"
        /\ act'[t].next = act[t].next
        /\ \A u \in Task : u # t => act'[u] = act[u]
        /\ uid' = uid /\ prog' = prog /\ stack' = stack /\ reuse' = reuse
        /\ cancels' = [cancels EXCEPT ![t] = @ + 1]
        /\ status' = [status EXCEPT ![t] = "canceled"]
    BY <1>0, <1>CatchLeaf, CatchLeafIs, KeepsFrame DEF CatchLeaf, Moves
  <2>2. /\ \A u \in Task : u # t => status'[u] = status[u] /\ cancels'[u] = cancels[u]
        /\ cancels'[t] = cancels[t] + 1
    BY <1>i, <2>1 DEF IndInv, TypeOK
  <2>3. cancels[t] = 0
    BY <1>i, <2>1 DEF WasCanceled
  <2> QED
    BY <1>i, <2>1, <2>2, <2>3 DEF WasCanceled, Pc
<1>CatchComb. CASE CatchComb
  <2>1. /\ t \in Task
        /\ Pc(t) = "throw"
        /\ act'[t].pc = "cancel"
        /\ act'[t].next = "caught"
        /\ \A u \in Task : u # t => act'[u] = act[u]
        /\ uid' = uid /\ prog' = prog /\ stack' = stack /\ reuse' = reuse
        /\ cancels' = [cancels EXCEPT ![t] = @ + 1]
        /\ status' = [status EXCEPT ![t] = "canceled"]
    BY <1>0, <1>CatchComb, CatchCombIs, KeepsFrame DEF CatchComb, Moves
  <2>2. /\ \A u \in Task : u # t => status'[u] = status[u] /\ cancels'[u] = cancels[u]
        /\ cancels'[t] = cancels[t] + 1
    BY <1>i, <2>1 DEF IndInv, TypeOK
  <2>3. cancels[t] = 0
    BY <1>i, <2>1 DEF WasCanceled
  <2> QED
    BY <1>i, <2>1, <2>2, <2>3 DEF WasCanceled, Pc
<1>CancelSkip. CASE CancelSkip
  <2>1. /\ t \in Task
        /\ Pc(t) = "cancel"
        /\ act'[t].pc = "cancel"
        /\ act'[t].next = act[t].next
        /\ \A u \in Task : u # t => act'[u] = act[u]
        /\ uid' = uid /\ prog' = prog /\ stack' = stack /\ reuse' = reuse
        /\ cancels' = cancels
        /\ status' = status
    BY <1>0, <1>CancelSkip, CancelSkipIs, KeepsFrame DEF Moves
  <2> QED
    BY <1>i, <2>1 DEF WasCanceled, Pc
<1>CancelUnsupport. CASE CancelUnsupport
  <2>1. /\ t \in Task
        /\ Pc(t) = "cancel"
        /\ act'[t].pc = "cancel"
        /\ act'[t].next = act[t].next
        /\ \A u \in Task : u # t => act'[u] = act[u]
        /\ uid' = uid /\ prog' = prog /\ stack' = stack /\ reuse' = reuse
        /\ cancels' = cancels
    BY <1>0, <1>CancelUnsupport, CancelUnsupportIs, KeepsFrame DEF Moves
  <2>2. PICK f \in Task : /\ f # t /\ Pc(f) \in {"run", "wait", "unsupport"}
                          /\ \A u \in Task : u # f => status'[u] = status[u]
    BY <1>0, <1>CancelUnsupport, CancelUnsupportFx DEF Waits
  <2> QED
    BY <1>i, <2>1, <2>2 DEF WasCanceled, Pc
<1>CancelInterrupt. CASE CancelInterrupt
  <2>1. /\ t \in Task
        /\ Pc(t) = "cancel"
        /\ act'[t].pc = "cancel"
        /\ act'[t].next = act[t].next
        /\ \A u \in Task : u # t => act'[u] = act[u]
        /\ uid' = uid /\ prog' = prog /\ stack' = stack /\ reuse' = reuse
        /\ cancels' = cancels
    BY <1>0, <1>CancelInterrupt, CancelInterruptIs, KeepsFrame DEF Moves
  <2>2. PICK y \in Task : /\ y # t /\ Pc(y) # "none" /\ uid[y] = y /\ Pc(Inner(y)) = "wait"
                          /\ \A u \in Task : u # y => status'[u] = status[u]
    BY <1>0, <1>CancelInterrupt, CancelInterruptFx
  <2>3. Pc(y) \in {"run", "wait"}
    BY <2>2, LiveFacts
  <2> QED
    BY <1>i, <2>1, <2>2, <2>3 DEF WasCanceled, Pc
<1>CancelEndYields. CASE CancelEndYields
  <2>1. /\ t \in Task
        /\ Pc(t) = "cancel"
        /\ act'[t].pc = "unsupport"
        /\ act'[t].next = act[t].next
        /\ \A u \in Task : u # t => act'[u] = act[u]
        /\ uid' = uid /\ prog' = prog /\ stack' = stack /\ reuse' = reuse
        /\ cancels' = cancels
        /\ status' = status
        /\ Keeps
    BY <1>0, <1>CancelEndYields, CancelEndYieldsIs, KeepsFrame DEF CancelEndYields, Moves
  <2>2. ~Unwinds(running) /\ running # Loop /\ Busy(running) /\ t = Inner(running) /\ uid[t] = running
    BY <1>0, <1>CancelEndYields, <2>1, YieldsFreely, KeepsFrame
  <2>3. ~WasCanceled(t)
    BY <2>1, <2>2 DEF WasCanceled, Unwinds, Leaving
  <2> QED
    BY <1>i, <2>1, <2>3 DEF WasCanceled, Pc
<1>CancelEndDone. CASE CancelEndDone
  <2>1. /\ t \in Task
        /\ Pc(t) = "cancel"
        /\ act'[t].pc = act[t].next
        /\ act'[t].next = act[t].next
        /\ \A u \in Task : u # t => act'[u] = act[u]
        /\ uid' = uid /\ prog' = prog /\ stack' = stack /\ reuse' = reuse
        /\ cancels' = cancels
        /\ status' = status
    BY <1>0, <1>CancelEndDone, CancelEndDoneIs, KeepsFrame DEF CancelEndDone, Moves
  <2> QED
    BY <1>i, <2>1, StackTypes DEF WasCanceled, Pc
<1>UnsupportYields. CASE UnsupportYields
  <2>1. /\ t \in Task
        /\ Pc(t) = "unsupport"
        /\ act'[t].pc = "unsupport"
        /\ act'[t].next = act[t].next
        /\ \A u \in Task : u # t => act'[u] = act[u]
        /\ uid' = uid /\ prog' = prog /\ stack' = stack /\ reuse' = reuse
        /\ cancels' = cancels
        /\ status' = status
    BY <1>0, <1>UnsupportYields, UnsupportYieldsIs, KeepsFrame DEF UnsupportYields, Moves
  <2> QED
    BY <1>i, <2>1 DEF WasCanceled, Pc
<1>UnsupportDone. CASE UnsupportDone
  <2>1. /\ t \in Task
        /\ Pc(t) = "unsupport"
        /\ act'[t].pc = act[t].next
        /\ act'[t].next = act[t].next
        /\ \A u \in Task : u # t => act'[u] = act[u]
        /\ uid' = uid /\ prog' = prog /\ stack' = stack /\ reuse' = reuse
        /\ cancels' = cancels
        /\ status' = status
        /\ Keeps
        /\ ~global_signal_canceled
    BY <1>0, <1>UnsupportDone, UnsupportDoneIs, KeepsFrame DEF UnsupportDone, Moves
  <2>2. ~(status[t] = "canceled" /\ uid[t] = t)
    BY <1>0, <2>1, CanceledTop
  <2>3. act[t].next = "return"
    BY <2>1 DEF IndInv, DoomInv
  <2> QED
    BY <1>i, <2>1, <2>2, <2>3 DEF WasCanceled, Pc
<1>AwaitReturn. CASE AwaitReturn
  <2>1. PICK y \in Task, u \in Task, s \in Status, pc \in Points :
          /\ Ends(y, s, pc) /\ act'[y].pc = "none" /\ act'[u].pc = pc /\ Pc(u) = "run" /\ y # u
          /\ uid[y] = running /\ y # running
          /\ status'[y] = s /\ \A v \in Task : v # y => uid'[v] = uid[v] /\ status'[v] = status[v]
          /\ \A v \in Task : v # y /\ v # u => act'[v] = act[v]
          /\ cancels' = cancels
    BY <1>AwaitReturn, PopsFx
  <2>2. pc \in {"run", "throw"} /\ (Pc(y) = "caught" <=> s = "canceled") /\ (Pc(y) \in {"run", "caught", "return"})
    BY <2>1 DEF Ends
  <2> QED
    BY <1>i, <2>1, <2>2 DEF WasCanceled, Pc
<1>AwaitReturnThrow. CASE AwaitReturnThrow
  <2>1. PICK y \in Task, u \in Task, s \in Status, pc \in Points :
          /\ Ends(y, s, pc) /\ act'[y].pc = "none" /\ act'[u].pc = pc /\ Pc(u) = "run" /\ y # u
          /\ uid[y] = running /\ y # running
          /\ status'[y] = s /\ \A v \in Task : v # y => uid'[v] = uid[v] /\ status'[v] = status[v]
          /\ \A v \in Task : v # y /\ v # u => act'[v] = act[v]
          /\ cancels' = cancels
    BY <1>AwaitReturnThrow, PopsFx
  <2>2. pc \in {"run", "throw"} /\ (Pc(y) = "caught" <=> s = "canceled") /\ (Pc(y) \in {"run", "caught", "return"})
    BY <2>1 DEF Ends
  <2> QED
    BY <1>i, <2>1, <2>2 DEF WasCanceled, Pc
<1>AwaitRethrow. CASE AwaitRethrow
  <2>1. PICK y \in Task, u \in Task, s \in Status, pc \in Points :
          /\ Ends(y, s, pc) /\ act'[y].pc = "none" /\ act'[u].pc = pc /\ Pc(u) = "run" /\ y # u
          /\ uid[y] = running /\ y # running
          /\ status'[y] = s /\ \A v \in Task : v # y => uid'[v] = uid[v] /\ status'[v] = status[v]
          /\ \A v \in Task : v # y /\ v # u => act'[v] = act[v]
          /\ cancels' = cancels
    BY <1>AwaitRethrow, PopsFx
  <2>2. pc \in {"run", "throw"} /\ (Pc(y) = "caught" <=> s = "canceled") /\ (Pc(y) \in {"run", "caught", "return"})
    BY <2>1 DEF Ends
  <2> QED
    BY <1>i, <2>1, <2>2 DEF WasCanceled, Pc
<1>RuntimeFinish. CASE RuntimeFinish
  <2>1. /\ r \in Task /\ r # Loop /\ Busy(r) /\ t = r /\ Inner(r) = r
        /\ Pc(r) \in {"return", "caught", "run"} /\ uid' = uid /\ cancels' = cancels
        /\ act'[r].pc = "none" /\ \A u \in Task : u # r => act'[u] = act[u]
    BY <1>0, <1>RuntimeFinish, RuntimeFinishIs
  <2>2. /\ status'[r] = (IF finish_to[r] = Loop /\ r # TopTask THEN "deleted"
                         ELSE IF status[r] = "running" THEN "completed" ELSE status[r])
        /\ \A u \in Task : u # r => status'[u] = status[u]
        /\ uid[r] = r
    BY <1>0, <1>RuntimeFinish, FinishFx
  <2>3. status[r] = "canceled" => Unwinds(r) /\ Pc(r) # "run"
    <3>1. status[r] = "canceled" => Unwinds(r)
      BY <2>1 DEF IndInv, DoomInv
    <3> QED
      BY <2>1, <3>1 DEF Unwinds, Leaving
  <2>4. Pc(r) = "caught" => status[r] = "canceled"
    BY <2>1 DEF IndInv, DoomInv
  <2>5. status[r] = "canceled" => finish_to[r] # Loop
    <3> SUFFICES ASSUME status[r] = "canceled" PROVE finish_to[r] # Loop
      OBVIOUS
    <3>1. IsKid(r)
      BY <1>0, <2>1, <2>3, UnwindingKid
    <3>2. PICK k \in Task : \E j \in DOMAIN Children(k) : Children(k)[j] = r
      BY <3>1 DEF IsKid
    <3>3. Pc(k) \in AtWork /\ finish_to[r] = uid[k]
      BY <1>0, <2>1, <3>2 DEF IndInv, FinishInv, Begun
    <3> QED
      BY <3>3, LiveFacts, StackTypes DEF AtWork
  <2> QED
    BY <1>i, <2>1, <2>2, <2>3, <2>4, <2>5 DEF WasCanceled, Pc
<1>EventFires. CASE \E e \in Task : EventFires(e)
  BY <1>0, <1>EventFires, <1>i, EventFiresIs DEF WasCanceled, Pc
<1>Stutter. CASE UNCHANGED vars
  BY <1>0, <1>Stutter, <1>i DEF WasCanceled, Pc, vars, objectVars
<1> QED
  BY StepCases, <1>TaskRuntime, <1>Await, <1>Start, <1>StartReject, <1>EventRun, <1>EventWake,
       <1>ChildrenReady, <1>ChildrenUnready, <1>StartChild, <1>AllOfBackYields,
       <1>AllOfBackGoesOn, <1>AnyOfBackWins, <1>AnyOfBackGoesOn, <1>AnyOfBackYields,
       <1>AllOfWakeYields, <1>AllOfWakeEnds, <1>AnyOfWake, <1>CanceledDirectlyLeaf,
       <1>CanceledDirectlyComb, <1>CanceledIndirectly, <1>CatchLeaf, <1>CatchComb, <1>CancelSkip,
       <1>CancelUnsupport, <1>CancelInterrupt, <1>CancelEndYields, <1>CancelEndDone,
       <1>UnsupportYields, <1>UnsupportDone, <1>AwaitReturn, <1>AwaitReturnThrow, <1>AwaitRethrow,
       <1>RuntimeFinish, <1>EventFires, <1>Stutter

\* Steps that touch at most the task N among those nobody has touched yet.
LEMMA NotYetTouch ==
    ASSUME IndInv, prog' = prog, NEW N,
           \A x \in Task : status[x] \in {"ready", "limited"} /\ x # N => status'[x] = status[x],
           \A x \in Task : status[x] \notin {"ready", "limited"} => status'[x] \notin {"ready", "limited"},
           \A x \in Task : x = running' /\ x # N /\ x # running => status[x] \notin {"ready", "limited"},
           \A k \in Task : \A j \in DOMAIN Children(k) :
                Pc(k)' \in {"start", "child"} /\ Told(Children(k)[j], k) /\ Children(k)[j] # N =>
                    /\ block_to'[Children(k)[j]] = block_to[Children(k)[j]]
                    /\ finish_to'[Children(k)[j]] = finish_to[Children(k)[j]]
                    /\ uid'[k] = uid[k],
           \A t \in Task : Pc(t)' = "run" =>
                \/ Pc(t) = "run" /\ \A i \in DOMAIN Body(t) : i >= act'[t].i => i >= act[t].i
                \/ status[t] \in {"ready", "limited"},
           \A k \in Task : Pc(k)' \in {"start", "child"} =>
                Pc(k) \in {"start", "child"} /\ \A j \in DOMAIN Children(k) : j \in Later(k)' => j \in Later(k),
           \A t \in Task : status'[t] \in {"ready", "limited"} \/ Pc(t)' = "run" =>
                \A j \in DOMAIN Children(t) : Children(t)[j] # N,
           \A t \in Task : Kind(t) = "user" => \A i \in DOMAIN Body(t) :
                status'[t] \in {"ready", "limited"} \/ (Pc(t)' = "run" /\ i >= act'[t].i) => Body(t)[i][2] # N,
           \A k \in Task : Pc(k)' \in {"start", "child"} =>
                \A j \in DOMAIN Children(k) : j \in Later(k)' => Children(k)[j] # N
    PROVE  NotYet'
<1>1. \A t \in Task : Kind(t)' = Kind(t) /\ Children(t)' = Children(t) /\ Body(t)' = Body(t)
  BY SameProgram
<1>2. \A t \in Task : \A j \in DOMAIN Children(t) : Children(t)[j] \in Task
  BY KidFacts DEF IndInv
<1>3. \A t \in Task : Kind(t) = "user" => \A i \in DOMAIN Body(t) : Body(t)[i][2] \in Task
  BY CallFacts DEF IndInv
<1>4. ASSUME NEW x \in Task, Untouched(x), x # N PROVE Untouched(x)'
  BY <1>4 DEF Untouched
<1>5. ASSUME NEW t \in Task, status'[t] \in {"ready", "limited"}
      PROVE  /\ Kind(t) = "user" => \A i \in DOMAIN Body(t) : Untouched(Body(t)[i][2])'
             /\ \A j \in DOMAIN Children(t) : Untouched(Children(t)[j])'
  <2>1. status[t] \in {"ready", "limited"}
    BY <1>5
  <2>2. ASSUME Kind(t) = "user", NEW i \in DOMAIN Body(t) PROVE Untouched(Body(t)[i][2])'
    <3>1. PICK x \in Task : x = Body(t)[i][2] /\ Untouched(x) /\ x # N
      BY <1>3, <1>5, <2>1, <2>2 DEF IndInv, NotYet
    <3>2. Body(t)'[i] = Body(t)[i]
      BY <1>1
    <3> QED
      BY <1>4, <3>1, <3>2
  <2>3. ASSUME NEW j \in DOMAIN Children(t) PROVE Untouched(Children(t)[j])'
    <3>1. PICK x \in Task : x = Children(t)[j] /\ Untouched(x) /\ x # N
      BY <1>2, <1>5, <2>1, <2>3 DEF IndInv, NotYet
    <3>2. Children(t)'[j] = Children(t)[j]
      BY <1>1
    <3> QED
      BY <1>4, <3>1, <3>2
  <2> QED
    BY <2>2, <2>3
<1>6. ASSUME NEW t \in Task, Pc(t)' = "run"
      PROVE  /\ Kind(t) = "user" => \A i \in DOMAIN Body(t) : i >= act'[t].i => Untouched(Body(t)[i][2])'
             /\ \A j \in DOMAIN Children(t) : Untouched(Children(t)[j])'
  <2>1. ASSUME Kind(t) = "user", NEW i \in DOMAIN Body(t), i >= act'[t].i PROVE Untouched(Body(t)[i][2])'
    <3>1. PICK x \in Task : x = Body(t)[i][2] /\ x # N
      BY <1>3, <1>6, <2>1
    <3>2. Untouched(x)
      BY <1>6, <2>1, <3>1 DEF IndInv, NotYet
    <3>3. Body(t)'[i] = Body(t)[i]
      BY <1>1
    <3> QED
      BY <1>4, <3>1, <3>2, <3>3
  <2>2. ASSUME NEW j \in DOMAIN Children(t) PROVE Untouched(Children(t)[j])'
    <3>1. PICK x \in Task : x = Children(t)[j] /\ x # N
      BY <1>2, <1>6, <2>2
    <3>2. Untouched(x)
      BY <1>6, <2>2, <3>1 DEF IndInv, NotYet
    <3>3. Children(t)'[j] = Children(t)[j]
      BY <1>1
    <3> QED
      BY <1>4, <3>1, <3>2, <3>3
  <2> QED
    BY <2>1, <2>2
<1>7. ASSUME NEW k \in Task, Pc(k)' \in {"start", "child"}, NEW j \in DOMAIN Children(k), j \in Later(k)'
      PROVE  Told(Children(k)[j], k)'
  <2>1. Pc(k) \in {"start", "child"} /\ j \in Later(k)
    BY <1>7
  <2>2. PICK x \in Task : x = Children(k)[j] /\ x # N /\ Told(x, k)
    BY <1>2, <1>7, <2>1 DEF IndInv, NotYet
  <2>3. block_to'[x] = block_to[x] /\ finish_to'[x] = finish_to[x] /\ uid'[k] = uid[k]
    BY <1>7, <2>2
  <2>4. status[x] = "ready" /\ x # running /\ block_to[x] = uid[k] /\ finish_to[x] = uid[k]
    BY <2>2 DEF Told
  <2>5. status'[x] = "ready" /\ x # running'
    BY <2>2, <2>4
  <2>6. Told(x, k)'
    BY <2>3, <2>4, <2>5 DEF Told
  <2>7. Children(k)'[j] = Children(k)[j]
    BY <1>1
  <2> QED
    BY <2>2, <2>6, <2>7
<1>8. ASSUME NEW k \in Task, NEW j, j \in Later(k)' PROVE j \in DOMAIN Children(k)
  BY <1>1, <1>8 DEF Later
<1>9. /\ \A t \in Task : status'[t] \in {"ready", "limited"} =>
            /\ Kind(t)' = "user" => \A i \in DOMAIN Body(t)' : Untouched(Body(t)[i][2])'
            /\ \A j \in DOMAIN Children(t)' : Untouched(Children(t)[j])'
      /\ \A t \in Task : Pc(t)' = "run" =>
            /\ Kind(t)' = "user" => \A i \in DOMAIN Body(t)' : i >= act'[t].i => Untouched(Body(t)[i][2])'
            /\ \A j \in DOMAIN Children(t)' : Untouched(Children(t)[j])'
  BY <1>1, <1>5, <1>6
<1>10. \A t \in Task : Pc(t)' \in {"start", "child"} => \A j \in Later(t)' : Told(Children(t)[j], t)'
  BY <1>7, <1>8
<1> QED
  BY <1>9, <1>10 DEF NotYet

LEMMA NotYetQuiet ==
    ASSUME IndInv, prog' = prog,
           \A x \in Task : status[x] \in {"ready", "limited"} => status'[x] = status[x],
           \A x \in Task : status[x] \notin {"ready", "limited"} => status'[x] \notin {"ready", "limited"},
           \A x \in Task : x = running' /\ x # running => status[x] \notin {"ready", "limited"},
           \A k \in Task : \A j \in DOMAIN Children(k) :
                Pc(k)' \in {"start", "child"} /\ Told(Children(k)[j], k) =>
                    /\ block_to'[Children(k)[j]] = block_to[Children(k)[j]]
                    /\ finish_to'[Children(k)[j]] = finish_to[Children(k)[j]]
                    /\ uid'[k] = uid[k],
           \A t \in Task : Pc(t)' = "run" =>
                Pc(t) = "run" /\ \A i \in DOMAIN Body(t) : i >= act'[t].i => i >= act[t].i,
           \A k \in Task : Pc(k)' \in {"start", "child"} =>
                Pc(k) \in {"start", "child"} /\ \A j \in DOMAIN Children(k) : j \in Later(k)' => j \in Later(k)
    PROVE  NotYet'
<1>1. PICK N : N = Loop /\ N \notin Task
  BY TopAssumption
<1>2. \A t \in Task : \A j \in DOMAIN Children(t) : Children(t)[j] # N
  BY <1>1, KidFacts DEF IndInv
<1>3. \A t \in Task : Kind(t) = "user" => \A i \in DOMAIN Body(t) : Body(t)[i][2] # N
  BY <1>1, CallFacts DEF IndInv
<1>4. \A x \in Task : status[x] \in {"ready", "limited"} /\ x # N => status'[x] = status[x]
  OBVIOUS
<1>5. \A x \in Task : x = running' /\ x # N /\ x # running => status[x] \notin {"ready", "limited"}
  OBVIOUS
<1>6. \A k \in Task : \A j \in DOMAIN Children(k) :
                Pc(k)' \in {"start", "child"} /\ Told(Children(k)[j], k) /\ Children(k)[j] # N =>
                    /\ block_to'[Children(k)[j]] = block_to[Children(k)[j]]
                    /\ finish_to'[Children(k)[j]] = finish_to[Children(k)[j]]
                    /\ uid'[k] = uid[k]
  OBVIOUS
<1>7. \A t \in Task : Pc(t)' = "run" =>
                \/ Pc(t) = "run" /\ \A i \in DOMAIN Body(t) : i >= act'[t].i => i >= act[t].i
                \/ status[t] \in {"ready", "limited"}
  OBVIOUS
<1>8. \A t \in Task : status'[t] \in {"ready", "limited"} \/ Pc(t)' = "run" =>
                \A j \in DOMAIN Children(t) : Children(t)[j] # N
  BY <1>2
<1>9. \A t \in Task : Kind(t) = "user" => \A i \in DOMAIN Body(t) :
                status'[t] \in {"ready", "limited"} \/ (Pc(t)' = "run" /\ i >= act'[t].i) => Body(t)[i][2] # N
  BY <1>3
<1>10. \A k \in Task : Pc(k)' \in {"start", "child"} =>
                \A j \in DOMAIN Children(k) : j \in Later(k)' => Children(k)[j] # N
  BY <1>2
<1> QED
  BY <1>4, <1>5, <1>6, <1>7, <1>8, <1>9, <1>10, NotYetTouch


\* A coroutine with a stack runs no task that is ready.
LEMMA BusyTouched ==
    ASSUME IndInv, NEW c \in Task, Busy(c)
    PROVE  status[c] \notin {"ready", "limited"}
BY BusyFacts DEF IndInv, StatusInv

LEMMA NotYetKeeps ==
    ASSUME IndInv, Keeps, finish_to' = finish_to,
           \A x \in Task : status[x] \in {"ready", "limited"} => status'[x] = status[x],
           \A x \in Task : status[x] \notin {"ready", "limited"} => status'[x] \notin {"ready", "limited"},
           \A x \in Task : status[x] = "ready" => block_to'[x] = block_to[x],
           running' \in Task => running' = running \/ Busy(running'),
           \/ act'[Top].pc \notin {"run", "start", "child"}
           \/ act'[Top].pc = "start" /\ act'[Top].i = act[Top].i + 1 /\ Pc(Top) = "child"
    PROVE  NotYet'
<1>1. PICK t \in Task : t = Top /\ Pc(t) # "none"
  BY KeepsFrame
<1>2. /\ prog' = prog /\ uid' = uid /\ \A u \in Task : u # t => act'[u] = act[u]
      /\ \A u \in Task : u # t => Pc(u)' = Pc(u)
  BY <1>1, KeepsFrame
<1>3. \A x \in Task : x = running' /\ x # running => status[x] \notin {"ready", "limited"}
  BY BusyTouched
<1>4. \A k \in Task : \A j \in DOMAIN Children(k) :
                Pc(k)' \in {"start", "child"} /\ Told(Children(k)[j], k) =>
                    /\ block_to'[Children(k)[j]] = block_to[Children(k)[j]]
                    /\ finish_to'[Children(k)[j]] = finish_to[Children(k)[j]]
                    /\ uid'[k] = uid[k]
  BY <1>2, KidFacts DEF Told, IndInv
<1>5. \A u \in Task : Pc(u)' = "run" =>
                Pc(u) = "run" /\ \A i \in DOMAIN Body(u) : i >= act'[u].i => i >= act[u].i
  BY <1>1, <1>2 DEF Pc
<1>6. ASSUME NEW k \in Task, Pc(k)' \in {"start", "child"}
      PROVE  Pc(k) \in {"start", "child"} /\ \A j \in DOMAIN Children(k) : j \in Later(k)' => j \in Later(k)
  <2>1. Children(k)' = Children(k) /\ act[k].i \in Nat /\ DOMAIN Children(k) \subseteq Nat
    BY <1>2, SameProgram, StackTypes, TaskFacts DEF IndInv
  <2>2. CASE k # t
    BY <1>2, <1>6, <2>1, <2>2 DEF Later, Pc
  <2>3. CASE k = t
    <3>1. act'[t].pc = "start" /\ act'[t].i = act[t].i + 1 /\ Pc(t) = "child"
      BY <1>1, <1>6, <2>3 DEF Pc
    <3>2. ASSUME NEW j \in DOMAIN Children(t), j \in Later(t)' PROVE j \in Later(t)
      <4>1. j >= act'[t].i
        BY <3>2, <3>1, <2>1, <2>3 DEF Later
      <4>2. j > act[t].i
        BY <4>1, <3>1, <2>1, <2>3
      <4> QED
        BY <4>2 DEF Later
    <3> QED
      BY <2>3, <3>1, <3>2
  <2> QED
    BY <2>2, <2>3
<1> QED
  BY <1>2, <1>3, <1>4, <1>5, <1>6, NotYetQuiet

LEMMA NotYetStep ==
    ASSUME IndInv, [Next]_vars
    PROVE  NotYet'
<1>0. PICK r, t : r = running /\ t = Top
  OBVIOUS
<1>s. \A x \in Task : Pc(x) # "none" => status[x] \notin {"ready", "limited"}
  BY DEF IndInv, StatusInv
<1>t. status \in [Task -> Status]
  BY DEF IndInv, TypeOK
<1>TaskRuntime. CASE TaskRuntime
  <2>1. /\ r \in Task /\ status[r] = "ready" /\ Pc(r) = "none" /\ prog' = prog /\ running' = r
        /\ act'[r].pc = "run" /\ act'[r].i = 1 /\ \A u \in Task : u # r => act'[u] = act[u]
        /\ UNCHANGED <<uid, block_to, finish_to>>
    BY <1>0, <1>TaskRuntime, TaskRuntimeIs DEF Stays
  <2>2. status'[r] = "running" /\ \A u \in Task : u # r => status'[u] = status[u]
    BY <1>0, <1>TaskRuntime, TaskRuntimeFx
  <2>3. /\ \A x \in Task : status[x] \in {"ready", "limited"} /\ x # r => status'[x] = status[x]
        /\ \A x \in Task : status[x] \notin {"ready", "limited"} => status'[x] \notin {"ready", "limited"}
        /\ \A x \in Task : x = running' /\ x # r /\ x # running => status[x] \notin {"ready", "limited"}
    BY <1>0, <2>1, <2>2
  <2>4. ASSUME NEW u \in Task, Pc(u)' \in {"run", "start", "child"}
        PROVE  (Pc(u) = Pc(u)' /\ act'[u].i = act[u].i) \/ u = r
    BY <2>1, <2>4 DEF Pc
  <2>5. \A x \in Task : status[x] \in {"ready", "limited"} \/ Pc(x) = "run" =>
            /\ \A j \in DOMAIN Children(x) : Children(x)[j] # r
            /\ Kind(x) = "user" => \A i \in DOMAIN Body(x) :
                  status[x] \in {"ready", "limited"} \/ i >= act[x].i => Body(x)[i][2] # r
    BY <1>0 DEF IndInv, NotYet, Untouched
  <2>6. \A k \in Task : Pc(k) \in {"start", "child"} => \A j \in Later(k) : Children(k)[j] # r
    BY <1>0 DEF IndInv, NotYet, Told
  <2>7. \A k \in Task : Pc(k)' \in {"start", "child"} =>
            Pc(k) \in {"start", "child"} /\ \A j \in DOMAIN Children(k) : j \in Later(k)' => j \in Later(k)
    BY <2>1 DEF Later, Pc, Children
  <2>8. \A u \in Task : Pc(u)' = "run" =>
                  \/ Pc(u) = "run" /\ \A i \in DOMAIN Body(u) : i >= act'[u].i => i >= act[u].i
                  \/ status[u] \in {"ready", "limited"}
    BY <2>1 DEF Pc
  <2>9. \A u \in Task : status'[u] \in {"ready", "limited"} \/ Pc(u)' = "run" =>
                  \A j \in DOMAIN Children(u) : Children(u)[j] # r
    BY <2>1, <2>2, <2>5 DEF Pc
  <2>10. \A u \in Task : Kind(u) = "user" => \A i \in DOMAIN Body(u) :
                  status'[u] \in {"ready", "limited"} \/ (Pc(u)' = "run" /\ i >= act'[u].i) => Body(u)[i][2] # r
    BY <2>1, <2>2, <2>5 DEF Pc
  <2>11. \A k \in Task : Pc(k)' \in {"start", "child"} =>
                  \A j \in DOMAIN Children(k) : j \in Later(k)' => Children(k)[j] # r
    BY <2>6, <2>7
  <2>12. \A k \in Task : \A j \in DOMAIN Children(k) :
                  Pc(k)' \in {"start", "child"} /\ Told(Children(k)[j], k) /\ Children(k)[j] # r =>
                      /\ block_to'[Children(k)[j]] = block_to[Children(k)[j]]
                      /\ finish_to'[Children(k)[j]] = finish_to[Children(k)[j]]
                      /\ uid'[k] = uid[k]
    BY <2>1
  <2> QED
    BY <2>1, <2>3, <2>7, <2>8, <2>9, <2>10, <2>11, <2>12, NotYetTouch
<1>Await. CASE Await
  <2>1. PICK x \in Task, u \in Task :
              /\ u = t /\ t \in Task /\ x # t
              /\ status[x] \in {"ready", "limited"} /\ Pc(x) = "none"
              /\ Pc(t) = "run" /\ Kind(t) = "user" /\ act[t].i \in DOMAIN Body(t)
              /\ Body(t)[act[t].i] = <<"await", x>>
              /\ status'[x] = "running" /\ \A v \in Task : v # x => status'[v] = status[v]
              /\ \A v \in Task : v # x => uid'[v] = uid[v]
              /\ \A v \in Task : v # x => finish_to'[v] = finish_to[v]
              /\ \A v \in Task : v # x /\ v # t => block_to'[v] = block_to[v]
              /\ act'[x].pc = "run"
              /\ act'[t].pc = "run" /\ act'[t].i = act[t].i + 1
              /\ \A v \in Task : v # t /\ v # x => act'[v] = act[v]
              /\ running' = running
    BY <1>0, <1>Await, AwaitFx
  <2>2. prog' = prog
    BY <1>Await, AwaitIs
  <2>3. /\ \A v \in Task : \A j \in DOMAIN Body(v) : Kind(v) = "user" /\ Body(v)[j][2] = x => v = t /\ j = act[t].i
        /\ \A k \in Task : \A j \in DOMAIN Children(k) : Children(k)[j] # x
    <3>1. Body(t)[act[t].i][2] = x
      BY <2>1
    <3> QED
      BY <2>1, <3>1, CallFacts DEF IndInv
  <2>4. status[t] \notin {"ready", "limited"} /\ act[t].i \in Nat /\ DOMAIN Body(t) \subseteq Nat
    <3>1. DOMAIN Body(t) = 1..Len(Body(t)) /\ Len(Body(t)) \in Nat
      BY <2>1, TaskFacts DEF IndInv
    <3> QED
      BY <1>s, <2>1, <3>1, StackTypes
  <2>5. \A v \in Task : Pc(v)' = "run" =>
                  \/ Pc(v) = "run" /\ \A i \in DOMAIN Body(v) : i >= act'[v].i => i >= act[v].i
                  \/ status[v] \in {"ready", "limited"}
    <3>1. \A i \in DOMAIN Body(t) : i >= act[t].i + 1 => i >= act[t].i
      BY <2>4
    <3> QED
      BY <2>1, <2>2, <3>1 DEF Pc
  <2>6. \A k \in Task : Pc(k)' \in {"start", "child"} =>
            Pc(k) \in {"start", "child"} /\ \A j \in DOMAIN Children(k) : j \in Later(k)' => j \in Later(k)
    BY <2>1, <2>2 DEF Later, Pc, Children
  <2>7. /\ \A v \in Task : status[v] \in {"ready", "limited"} /\ v # x => status'[v] = status[v]
        /\ \A v \in Task : status[v] \notin {"ready", "limited"} => status'[v] \notin {"ready", "limited"}
        /\ \A v \in Task : v = running' /\ v # x /\ v # running => status[v] \notin {"ready", "limited"}
    BY <1>0, <2>1, <2>2
  <2>8. \A v \in Task : Kind(v) = "user" => \A i \in DOMAIN Body(v) :
                  status'[v] \in {"ready", "limited"} \/ (Pc(v)' = "run" /\ i >= act'[v].i) => Body(v)[i][2] # x
    <3>1. act'[t].i > act[t].i /\ status'[t] \notin {"ready", "limited"}
      BY <2>1, <2>2, <2>4, <2>7
    <3>2. ~(act[t].i >= act'[t].i)
      BY <3>1, <2>1, <2>4, <2>2
    <3> QED
      BY <2>3, <3>1, <3>2
  <2>9. \A k \in Task : \A j \in DOMAIN Children(k) :
                  Pc(k)' \in {"start", "child"} /\ Told(Children(k)[j], k) /\ Children(k)[j] # x =>
                      /\ block_to'[Children(k)[j]] = block_to[Children(k)[j]]
                      /\ finish_to'[Children(k)[j]] = finish_to[Children(k)[j]]
                      /\ uid'[k] = uid[k]
    <3>1. \A y \in Task : y # x /\ status[y] = "ready" => block_to'[y] = block_to[y] /\ finish_to'[y] = finish_to[y]
      BY <1>s, <2>1, <2>2
    <3>2. \A k \in Task : Pc(k)' \in {"start", "child"} => uid'[k] = uid[k]
      BY <2>1, <2>2 DEF Pc
    <3>3. \A k \in Task : \A j \in DOMAIN Children(k) : Children(k)[j] \in Task
      BY KidFacts DEF IndInv
    <3> QED
      BY <3>1, <3>2, <3>3 DEF Told
  <2>10. prog' = prog
    BY <2>2
  <2>11. /\ \A v \in Task : status'[v] \in {"ready", "limited"} \/ Pc(v)' = "run" =>
                  \A j \in DOMAIN Children(v) : Children(v)[j] # x
         /\ \A k \in Task : Pc(k)' \in {"start", "child"} =>
                  \A j \in DOMAIN Children(k) : j \in Later(k)' => Children(k)[j] # x
    BY <2>3
  <2> QED
    BY <2>5, <2>6, <2>7, <2>8, <2>9, <2>10, <2>11, NotYetTouch
<1>Start. CASE Start
  <2>1. PICK x \in Task :
              /\ t \in Task /\ x # t /\ status[x] = "ready" /\ running' = x
              /\ act[t].i \in DOMAIN Body(t) /\ Body(t)[act[t].i] = <<"start", x>>
              /\ Pc(t) = "run" /\ Kind(t) = "user"
              /\ \A u \in Task : u # x => block_to'[u] = block_to[u] /\ finish_to'[u] = finish_to[u]
    BY <1>0, <1>Start, StartFx, StartIs, KeepsFrame
  <2>2. /\ act'[t].pc = "run" /\ act'[t].i = act[t].i + 1
        /\ \A u \in Task : u # t => act'[u] = act[u]
        /\ uid' = uid /\ prog' = prog /\ status' = status
    BY <1>0, <1>Start, StartIs, KeepsFrame DEF Moves
  <2>3. /\ \A v \in Task : \A j \in DOMAIN Body(v) : Kind(v) = "user" /\ Body(v)[j][2] = x => v = t /\ j = act[t].i
        /\ \A k \in Task : \A j \in DOMAIN Children(k) : Children(k)[j] # x
    <3>1. Body(t)[act[t].i][2] = x
      BY <2>1
    <3> QED
      BY <2>1, <3>1, CallFacts DEF IndInv
  <2>4. status[t] \notin {"ready", "limited"} /\ act[t].i \in Nat /\ DOMAIN Body(t) \subseteq Nat
    <3>1. DOMAIN Body(t) = 1..Len(Body(t)) /\ Len(Body(t)) \in Nat
      BY <2>1, TaskFacts DEF IndInv
    <3> QED
      BY <1>s, <2>1, <3>1, StackTypes
  <2>5. \A v \in Task : Pc(v)' = "run" =>
                  \/ Pc(v) = "run" /\ \A i \in DOMAIN Body(v) : i >= act'[v].i => i >= act[v].i
                  \/ status[v] \in {"ready", "limited"}
    <3>1. \A i \in DOMAIN Body(t) : i >= act[t].i + 1 => i >= act[t].i
      BY <2>4
    <3> QED
      BY <2>1, <2>2, <3>1 DEF Pc
  <2>6. \A k \in Task : Pc(k)' \in {"start", "child"} =>
            Pc(k) \in {"start", "child"} /\ \A j \in DOMAIN Children(k) : j \in Later(k)' => j \in Later(k)
    BY <2>1, <2>2 DEF Later, Pc, Children
  <2>7. /\ \A v \in Task : status[v] \in {"ready", "limited"} /\ v # x => status'[v] = status[v]
        /\ \A v \in Task : status[v] \notin {"ready", "limited"} => status'[v] \notin {"ready", "limited"}
        /\ \A v \in Task : v = running' /\ v # x /\ v # running => status[v] \notin {"ready", "limited"}
    BY <1>0, <2>1, <2>2
  <2>8. \A v \in Task : Kind(v) = "user" => \A i \in DOMAIN Body(v) :
                  status'[v] \in {"ready", "limited"} \/ (Pc(v)' = "run" /\ i >= act'[v].i) => Body(v)[i][2] # x
    <3>1. act'[t].i > act[t].i /\ status'[t] \notin {"ready", "limited"}
      BY <2>1, <2>2, <2>4, <2>7
    <3>2. ~(act[t].i >= act'[t].i)
      BY <3>1, <2>1, <2>4, <2>2
    <3> QED
      BY <2>3, <3>1, <3>2
  <2>9. \A k \in Task : \A j \in DOMAIN Children(k) :
                  Pc(k)' \in {"start", "child"} /\ Told(Children(k)[j], k) /\ Children(k)[j] # x =>
                      /\ block_to'[Children(k)[j]] = block_to[Children(k)[j]]
                      /\ finish_to'[Children(k)[j]] = finish_to[Children(k)[j]]
                      /\ uid'[k] = uid[k]
    <3>1. \A y \in Task : y # x /\ status[y] = "ready" => block_to'[y] = block_to[y] /\ finish_to'[y] = finish_to[y]
      BY <1>s, <2>1, <2>2
    <3>2. \A k \in Task : Pc(k)' \in {"start", "child"} => uid'[k] = uid[k]
      BY <2>1, <2>2 DEF Pc
    <3>3. \A k \in Task : \A j \in DOMAIN Children(k) : Children(k)[j] \in Task
      BY KidFacts DEF IndInv
    <3> QED
      BY <3>1, <3>2, <3>3 DEF Told
  <2>10. prog' = prog
    BY <2>2
  <2>11. /\ \A v \in Task : status'[v] \in {"ready", "limited"} \/ Pc(v)' = "run" =>
                  \A j \in DOMAIN Children(v) : Children(v)[j] # x
         /\ \A k \in Task : Pc(k)' \in {"start", "child"} =>
                  \A j \in DOMAIN Children(k) : j \in Later(k)' => Children(k)[j] # x
    BY <2>3
  <2> QED
    BY <2>5, <2>6, <2>7, <2>8, <2>9, <2>10, <2>11, NotYetTouch
<1>StartReject. CASE StartReject
  <2>1. PICK x \in Task :
              /\ t \in Task /\ x # t /\ x = Target /\ running' = running
              /\ act[t].i \in DOMAIN Body(t) /\ Body(t)[act[t].i] = <<"start", x>>
              /\ Pc(t) = "run" /\ Kind(t) = "user" /\ status' = [status EXCEPT ![x] = "deleted"]
    BY <1>0, <1>StartReject, CallIs, StartRejectIs DEF StartReject, Stays
  <2>2. /\ act'[t].pc = "run" /\ act'[t].i = act[t].i + 1
        /\ \A u \in Task : u # t => act'[u] = act[u]
        /\ uid' = uid /\ prog' = prog /\ block_to' = block_to /\ finish_to' = finish_to
        /\ status'[x] = "deleted" /\ \A u \in Task : u # x => status'[u] = status[u]
    BY <1>0, <1>t, <1>StartReject, <2>1, StartRejectIs, KeepsFrame DEF Moves
  <2>3. /\ \A v \in Task : \A j \in DOMAIN Body(v) : Kind(v) = "user" /\ Body(v)[j][2] = x => v = t /\ j = act[t].i
        /\ \A k \in Task : \A j \in DOMAIN Children(k) : Children(k)[j] # x
    <3>1. Body(t)[act[t].i][2] = x
      BY <2>1
    <3> QED
      BY <2>1, <3>1, CallFacts DEF IndInv
  <2>4. status[t] \notin {"ready", "limited"} /\ act[t].i \in Nat /\ DOMAIN Body(t) \subseteq Nat
    <3>1. DOMAIN Body(t) = 1..Len(Body(t)) /\ Len(Body(t)) \in Nat
      BY <2>1, TaskFacts DEF IndInv
    <3> QED
      BY <1>s, <2>1, <3>1, StackTypes
  <2>5. \A v \in Task : Pc(v)' = "run" =>
                  \/ Pc(v) = "run" /\ \A i \in DOMAIN Body(v) : i >= act'[v].i => i >= act[v].i
                  \/ status[v] \in {"ready", "limited"}
    <3>1. \A i \in DOMAIN Body(t) : i >= act[t].i + 1 => i >= act[t].i
      BY <2>4
    <3> QED
      BY <2>1, <2>2, <3>1 DEF Pc
  <2>6. \A k \in Task : Pc(k)' \in {"start", "child"} =>
            Pc(k) \in {"start", "child"} /\ \A j \in DOMAIN Children(k) : j \in Later(k)' => j \in Later(k)
    BY <2>1, <2>2 DEF Later, Pc, Children
  <2>7. /\ \A v \in Task : status[v] \in {"ready", "limited"} /\ v # x => status'[v] = status[v]
        /\ \A v \in Task : status[v] \notin {"ready", "limited"} => status'[v] \notin {"ready", "limited"}
        /\ \A v \in Task : v = running' /\ v # x /\ v # running => status[v] \notin {"ready", "limited"}
    BY <1>0, <2>1, <2>2
  <2>8. \A v \in Task : Kind(v) = "user" => \A i \in DOMAIN Body(v) :
                  status'[v] \in {"ready", "limited"} \/ (Pc(v)' = "run" /\ i >= act'[v].i) => Body(v)[i][2] # x
    <3>1. act'[t].i > act[t].i /\ status'[t] \notin {"ready", "limited"}
      BY <2>1, <2>2, <2>4, <2>7
    <3>2. ~(act[t].i >= act'[t].i)
      BY <3>1, <2>1, <2>4, <2>2
    <3> QED
      BY <2>3, <3>1, <3>2
  <2>9. \A k \in Task : \A j \in DOMAIN Children(k) :
                  Pc(k)' \in {"start", "child"} /\ Told(Children(k)[j], k) /\ Children(k)[j] # x =>
                      /\ block_to'[Children(k)[j]] = block_to[Children(k)[j]]
                      /\ finish_to'[Children(k)[j]] = finish_to[Children(k)[j]]
                      /\ uid'[k] = uid[k]
    <3>1. \A y \in Task : y # x /\ status[y] = "ready" => block_to'[y] = block_to[y] /\ finish_to'[y] = finish_to[y]
      BY <1>s, <2>1, <2>2
    <3>2. \A k \in Task : Pc(k)' \in {"start", "child"} => uid'[k] = uid[k]
      BY <2>1, <2>2 DEF Pc
    <3>3. \A k \in Task : \A j \in DOMAIN Children(k) : Children(k)[j] \in Task
      BY KidFacts DEF IndInv
    <3> QED
      BY <3>1, <3>2, <3>3 DEF Told
  <2>10. prog' = prog
    BY <2>2
  <2>11. /\ \A v \in Task : status'[v] \in {"ready", "limited"} \/ Pc(v)' = "run" =>
                  \A j \in DOMAIN Children(v) : Children(v)[j] # x
         /\ \A k \in Task : Pc(k)' \in {"start", "child"} =>
                  \A j \in DOMAIN Children(k) : j \in Later(k)' => Children(k)[j] # x
    BY <2>3
  <2> QED
    BY <2>5, <2>6, <2>7, <2>8, <2>9, <2>10, <2>11, NotYetTouch
<1>EventRun. CASE EventRun
  <2>1. /\ t \in Task
        /\ Pc(t) = "run"
        /\ act'[t].pc = "wait"
        /\ act'[t].i = act[t].i
        /\ \A u \in Task : u # t => act'[u] = act[u]
        /\ uid' = uid /\ prog' = prog /\ stack' = stack /\ reuse' = reuse
        /\ finish_to' = finish_to /\ act[t].next \in {"return", "caught"}
        /\ status' = status
        /\ Yields
    BY <1>0, <1>EventRun, EventRunIs, KeepsFrame, StackTypes DEF Moves
  <2>3. /\ \A x \in Task : status[x] \in {"ready", "limited"} => status'[x] = status[x]
        /\ \A x \in Task : status[x] \notin {"ready", "limited"} => status'[x] \notin {"ready", "limited"}
    BY <2>1
  <2>4. Keeps
    BY <1>EventRun, EventRunIs
  <2>5. \A x \in Task : status[x] = "ready" => block_to'[x] = block_to[x]
    BY <1>0, <1>s, <2>1, <2>4, YieldsFx
  <2>6. running' \in Task => running' = running \/ Busy(running')
    <3>1. ~Unwinds(running)
      BY <1>EventRun, YieldsFreely
    <3> QED
      BY <2>1, <2>4, <3>1, YieldTo, YieldsFx, KeepsFrame, StackTypes
  <2>7. act'[Top].pc \notin {"run", "start", "child"}
    BY <1>0, <2>1
  <2> QED
    BY <2>1, <2>3, <2>4, <2>5, <2>6, <2>7, NotYetKeeps
<1>EventWake. CASE EventWake
  <2>1. /\ t \in Task
        /\ Pc(t) = "wait"
        /\ act'[t].pc = "return"
        /\ act'[t].i = act[t].i
        /\ \A u \in Task : u # t => act'[u] = act[u]
        /\ uid' = uid /\ prog' = prog /\ stack' = stack /\ reuse' = reuse
        /\ finish_to' = finish_to /\ act[t].next \in {"return", "caught"}
        /\ status' = status
        /\ running' = running /\ block_to' = block_to
    BY <1>0, <1>EventWake, EventWakeIs, KeepsFrame, StackTypes DEF Moves, Stays
  <2>3. /\ \A x \in Task : status[x] \in {"ready", "limited"} => status'[x] = status[x]
        /\ \A x \in Task : status[x] \notin {"ready", "limited"} => status'[x] \notin {"ready", "limited"}
    BY <2>1
  <2>4. Keeps
    BY <1>EventWake, EventWakeIs
  <2>5. \A x \in Task : status[x] = "ready" => block_to'[x] = block_to[x]
    BY <2>1
  <2>6. running' \in Task => running' = running \/ Busy(running')
    BY <2>1
  <2>7. act'[Top].pc \notin {"run", "start", "child"}
    BY <1>0, <2>1
  <2> QED
    BY <2>1, <2>3, <2>4, <2>5, <2>6, <2>7, NotYetKeeps
<1>ChildrenReady. CASE ChildrenReady
  <2>1. /\ t \in Task
        /\ Pc(t) = "run"
        /\ act'[t].pc = "start"
        /\ act'[t].i = 1
        /\ \A u \in Task : u # t => act'[u] = act[u]
        /\ uid' = uid /\ prog' = prog /\ stack' = stack /\ reuse' = reuse
        /\ running' = running /\ status' = status
        /\ \A q \in Task : ~(\E j \in DOMAIN Children(t) : Children(t)[j] = q) =>
               block_to'[q] = block_to[q] /\ finish_to'[q] = finish_to[q]
        /\ \A j \in DOMAIN Children(t) :
             /\ status[Children(t)[j]] = "ready" /\ Children(t)[j] # running
             /\ block_to'[Children(t)[j]] = running /\ finish_to'[Children(t)[j]] = running
        /\ uid[t] = running
    BY <1>0, <1>ChildrenReady, ChildrenReadyIs, KeepsFrame DEF Moves, Stays
  <2>2. \A k \in Task : \A j \in DOMAIN Children(k) : k # t =>
           /\ block_to'[Children(k)[j]] = block_to[Children(k)[j]]
           /\ finish_to'[Children(k)[j]] = finish_to[Children(k)[j]]
    BY <2>1, KidFacts DEF IndInv
  <2>3. Pc(t)' = "start"
    BY <2>1 DEF Pc
  <2>4. \A u \in Task : Kind(u)' = Kind(u) /\ Children(u)' = Children(u) /\ Body(u)' = Body(u)
    BY <2>1, SameProgram
  <2>5. \A x \in Task : Untouched(x)' = Untouched(x)
    BY <2>1 DEF Untouched
  <2>6. ASSUME NEW k \in Task, Pc(k)' \in {"start", "child"}, NEW j \in Later(k)' PROVE Told(Children(k)[j], k)'
    <3>1. j \in DOMAIN Children(k)
      BY <2>4, <2>6 DEF Later
    <3>2. PICK x \in Task : x = Children(k)[j]
      BY <3>1, KidFacts DEF IndInv
    <3>3. CASE k = t
      BY <2>1, <2>4, <3>1, <3>2, <3>3 DEF Told
    <3>4. CASE k # t
      <4>1. Pc(k) \in {"start", "child"} /\ j \in Later(k)
        BY <2>1, <2>4, <2>6, <3>4 DEF Later, Pc
      <4>2. Told(x, k)
        BY <3>1, <3>2, <4>1 DEF IndInv, NotYet
      <4>3. Told(x, k)'
        BY <2>1, <2>2, <3>1, <3>2, <3>4, <4>2 DEF Told
      <4> QED
        BY <2>4, <3>2, <4>3
    <3> QED
      BY <3>3, <3>4
  <2>7. ASSUME NEW u \in Task, status'[u] \in {"ready", "limited"}
        PROVE  /\ Kind(u)' = "user" => \A i \in DOMAIN Body(u)' : Untouched(Body(u)[i][2])'
               /\ \A j \in DOMAIN Children(u)' : Untouched(Children(u)[j])'
    <3>1. /\ Kind(u) = "user" => \A i \in DOMAIN Body(u) : Untouched(Body(u)[i][2])
          /\ \A j \in DOMAIN Children(u) : Untouched(Children(u)[j])
      BY <2>1, <2>7 DEF IndInv, NotYet
    <3> QED
      BY <2>1, <2>4, <3>1 DEF Untouched
  <2>8. ASSUME NEW u \in Task, Pc(u)' = "run"
        PROVE  /\ Kind(u)' = "user" => \A i \in DOMAIN Body(u)' : i >= act'[u].i => Untouched(Body(u)[i][2])'
               /\ \A j \in DOMAIN Children(u)' : Untouched(Children(u)[j])'
    <3>1. u # t /\ Pc(u) = "run" /\ act'[u] = act[u]
      BY <2>1, <2>3, <2>8 DEF Pc
    <3>2. /\ Kind(u) = "user" => \A i \in DOMAIN Body(u) : i >= act[u].i => Untouched(Body(u)[i][2])
          /\ \A j \in DOMAIN Children(u) : Untouched(Children(u)[j])
      BY <3>1 DEF IndInv, NotYet
    <3> QED
      BY <2>1, <2>4, <3>1, <3>2 DEF Untouched
  <2> QED
    BY <2>6, <2>7, <2>8 DEF NotYet
<1>ChildrenUnready. CASE ChildrenUnready
  <2>1. /\ t \in Task
        /\ Pc(t) = "run"
        /\ act'[t].pc = "return"
        /\ act'[t].i = act[t].i
        /\ \A u \in Task : u # t => act'[u] = act[u]
        /\ uid' = uid /\ prog' = prog /\ stack' = stack /\ reuse' = reuse
        /\ running' = running
        /\ status' = [status EXCEPT ![t] = "child_unready"]
        /\ \A q \in Task : ~(\E j \in DOMAIN Children(t) : Children(t)[j] = q) =>
               block_to'[q] = block_to[q] /\ finish_to'[q] = finish_to[q]
    BY <1>0, <1>ChildrenUnready, ChildrenUnreadyIs, KeepsFrame DEF Moves, Stays
  <2>2. status'[t] = "child_unready" /\ \A u \in Task : u # t => status'[u] = status[u]
    BY <1>t, <2>1
  <2>3. /\ \A x \in Task : status[x] \in {"ready", "limited"} => status'[x] = status[x]
        /\ \A x \in Task : status[x] \notin {"ready", "limited"} => status'[x] \notin {"ready", "limited"}
        /\ \A x \in Task : x = running' /\ x # running => status[x] \notin {"ready", "limited"}
    BY <1>s, <2>1, <2>2
  <2>4. \A k \in Task : \A j \in DOMAIN Children(k) : k # t =>
           /\ block_to'[Children(k)[j]] = block_to[Children(k)[j]]
           /\ finish_to'[Children(k)[j]] = finish_to[Children(k)[j]]
    BY <2>1, KidFacts DEF IndInv
  <2>5. Pc(t)' = "return"
    BY <2>1 DEF Pc
  <2>6. \A k \in Task : \A j \in DOMAIN Children(k) :
                  Pc(k)' \in {"start", "child"} /\ Told(Children(k)[j], k) =>
                      /\ block_to'[Children(k)[j]] = block_to[Children(k)[j]]
                      /\ finish_to'[Children(k)[j]] = finish_to[Children(k)[j]]
                      /\ uid'[k] = uid[k]
    BY <2>1, <2>4, <2>5
  <2>7. \A u \in Task : Pc(u)' = "run" =>
                  Pc(u) = "run" /\ \A i \in DOMAIN Body(u) : i >= act'[u].i => i >= act[u].i
    BY <2>1, <2>5 DEF Pc
  <2>8. \A k \in Task : Pc(k)' \in {"start", "child"} =>
                  Pc(k) \in {"start", "child"} /\ \A j \in DOMAIN Children(k) : j \in Later(k)' => j \in Later(k)
    BY <2>1, <2>5 DEF Pc, Later, Children
  <2> QED
    BY <2>1, <2>3, <2>6, <2>7, <2>8, NotYetQuiet
<1>StartChild. CASE StartChild
  <2>1. /\ t \in Task
        /\ Pc(t) = "start"
        /\ act'[t].pc = "child"
        /\ act'[t].i = act[t].i
        /\ \A u \in Task : u # t => act'[u] = act[u]
        /\ uid' = uid /\ prog' = prog /\ stack' = stack /\ reuse' = reuse
        /\ finish_to' = finish_to /\ block_to' = block_to /\ status' = status
    BY <1>0, <1>StartChild, StartChildIs, KeepsFrame DEF Moves
  <2>2. PICK x \in Task : /\ act[t].i \in DOMAIN Children(t) /\ x = Children(t)[act[t].i]
                          /\ running' = x /\ status[x] = "ready"
    BY <1>0, <1>StartChild, StartChildFx
  <2>3. /\ \A k \in Task : \A j \in DOMAIN Children(k) : Children(k)[j] = x => k = t /\ j = act[t].i
        /\ \A u \in Task : \A i \in DOMAIN Body(u) : Kind(u) = "user" => Body(u)[i][2] # x
    BY <2>1, <2>2, KidFacts DEF IndInv
  <2>4. status[t] \notin {"ready", "limited"}
    BY <1>s, <2>1
  <2>5. \A k \in Task : Pc(k)' \in {"start", "child"} =>
            Pc(k) \in {"start", "child"} /\ \A j \in DOMAIN Children(k) : j \in Later(k)' => j \in Later(k)
    BY <2>1 DEF Later, Pc, Children
  <2>6. \A k \in Task : Pc(k)' \in {"start", "child"} =>
                  \A j \in DOMAIN Children(k) : j \in Later(k)' => Children(k)[j] # x
    <3>1. act[t].i \notin Later(t)'
      <4>1. act[t].i \in Nat /\ act'[t].i = act[t].i
        BY <2>1, StackTypes
      <4> QED
        BY <2>1, <4>1 DEF Later, Pc
    <3> QED
      BY <2>3, <3>1
  <2>7. /\ \A v \in Task : status[v] \in {"ready", "limited"} /\ v # x => status'[v] = status[v]
        /\ \A v \in Task : status[v] \notin {"ready", "limited"} => status'[v] \notin {"ready", "limited"}
        /\ \A v \in Task : v = running' /\ v # x /\ v # running => status[v] \notin {"ready", "limited"}
    BY <2>1, <2>2
  <2>8. \A v \in Task : Pc(v)' = "run" =>
                  \/ Pc(v) = "run" /\ \A i \in DOMAIN Body(v) : i >= act'[v].i => i >= act[v].i
                  \/ status[v] \in {"ready", "limited"}
    BY <2>1 DEF Pc
  <2>9. \A v \in Task : status'[v] \in {"ready", "limited"} \/ Pc(v)' = "run" =>
                  \A j \in DOMAIN Children(v) : Children(v)[j] # x
    BY <2>1, <2>3, <2>4 DEF Pc
  <2>10. \A v \in Task : Kind(v) = "user" => \A i \in DOMAIN Body(v) :
                  status'[v] \in {"ready", "limited"} \/ (Pc(v)' = "run" /\ i >= act'[v].i) => Body(v)[i][2] # x
    BY <2>3
  <2>11. \A k \in Task : \A j \in DOMAIN Children(k) :
                  Pc(k)' \in {"start", "child"} /\ Told(Children(k)[j], k) /\ Children(k)[j] # x =>
                      /\ block_to'[Children(k)[j]] = block_to[Children(k)[j]]
                      /\ finish_to'[Children(k)[j]] = finish_to[Children(k)[j]]
                      /\ uid'[k] = uid[k]
    BY <2>1
  <2> QED
    BY <2>1, <2>5, <2>6, <2>7, <2>8, <2>9, <2>10, <2>11, NotYetTouch
<1>AllOfBackYields. CASE AllOfBackYields
  <2>1. /\ t \in Task
        /\ Pc(t) = "child"
        /\ act'[t].pc = "wait"
        /\ act'[t].i = act[t].i + 1
        /\ \A u \in Task : u # t => act'[u] = act[u]
        /\ uid' = uid /\ prog' = prog /\ stack' = stack /\ reuse' = reuse
        /\ finish_to' = finish_to /\ act[t].next \in {"return", "caught"}
        /\ status' = status
        /\ Yields
    BY <1>0, <1>AllOfBackYields, AllOfBackYieldsIs, KeepsFrame, StackTypes
       DEF AllOfBackYields, Moves
  <2>3. /\ \A x \in Task : status[x] \in {"ready", "limited"} => status'[x] = status[x]
        /\ \A x \in Task : status[x] \notin {"ready", "limited"} => status'[x] \notin {"ready", "limited"}
    BY <2>1
  <2>4. Keeps
    BY <1>AllOfBackYields, AllOfBackYieldsIs DEF AllOfBackYields
  <2>5. \A x \in Task : status[x] = "ready" => block_to'[x] = block_to[x]
    BY <1>0, <1>s, <2>1, <2>4, YieldsFx
  <2>6. running' \in Task => running' = running \/ Busy(running')
    <3>1. ~Unwinds(running)
      BY <1>AllOfBackYields, YieldsFreely
    <3> QED
      BY <2>1, <2>4, <3>1, YieldTo, YieldsFx, KeepsFrame, StackTypes
  <2>7. act'[Top].pc \notin {"run", "start", "child"}
    BY <1>0, <2>1
  <2> QED
    BY <2>1, <2>3, <2>4, <2>5, <2>6, <2>7, NotYetKeeps
<1>AllOfBackGoesOn. CASE AllOfBackGoesOn
  <2>1. /\ t \in Task
        /\ Pc(t) = "child"
        /\ act'[t].pc = (IF act[t].i = Len(Children(t)) THEN "return" ELSE "start")
        /\ act'[t].i = act[t].i + 1
        /\ \A u \in Task : u # t => act'[u] = act[u]
        /\ uid' = uid /\ prog' = prog /\ stack' = stack /\ reuse' = reuse
        /\ finish_to' = finish_to /\ act[t].next \in {"return", "caught"}
        /\ status' = status
        /\ running' = running /\ block_to' = block_to
    BY <1>0, <1>AllOfBackGoesOn, AllOfBackGoesOnIs, KeepsFrame, StackTypes
       DEF AllOfBackGoesOn, Moves, Stays
  <2>3. /\ \A x \in Task : status[x] \in {"ready", "limited"} => status'[x] = status[x]
        /\ \A x \in Task : status[x] \notin {"ready", "limited"} => status'[x] \notin {"ready", "limited"}
    BY <2>1
  <2>4. Keeps
    BY <1>AllOfBackGoesOn, AllOfBackGoesOnIs DEF AllOfBackGoesOn
  <2>5. \A x \in Task : status[x] = "ready" => block_to'[x] = block_to[x]
    BY <2>1
  <2>6. running' \in Task => running' = running \/ Busy(running')
    BY <2>1
  <2>7. \/ act'[Top].pc \notin {"run", "start", "child"}
        \/ act'[Top].pc = "start" /\ act'[Top].i = act[Top].i + 1 /\ Pc(Top) = "child"
    BY <1>0, <2>1
  <2> QED
    BY <2>1, <2>3, <2>4, <2>5, <2>6, <2>7, NotYetKeeps
<1>AnyOfBackWins. CASE AnyOfBackWins
  <2>1. /\ t \in Task
        /\ Pc(t) = "child"
        /\ act'[t].pc = "cancel"
        /\ act'[t].i = 1
        /\ \A u \in Task : u # t => act'[u] = act[u]
        /\ uid' = uid /\ prog' = prog /\ stack' = stack /\ reuse' = reuse
        /\ finish_to' = finish_to /\ act[t].next \in {"return", "caught"}
        /\ status' = status
        /\ running' = running /\ block_to' = block_to
    BY <1>0, <1>AnyOfBackWins, AnyOfBackWinsIs, KeepsFrame, StackTypes
       DEF AnyOfBackWins, Moves, Stays
  <2>3. /\ \A x \in Task : status[x] \in {"ready", "limited"} => status'[x] = status[x]
        /\ \A x \in Task : status[x] \notin {"ready", "limited"} => status'[x] \notin {"ready", "limited"}
    BY <2>1
  <2>4. Keeps
    BY <1>AnyOfBackWins, AnyOfBackWinsIs DEF AnyOfBackWins
  <2>5. \A x \in Task : status[x] = "ready" => block_to'[x] = block_to[x]
    BY <2>1
  <2>6. running' \in Task => running' = running \/ Busy(running')
    BY <2>1
  <2>7. act'[Top].pc \notin {"run", "start", "child"}
    BY <1>0, <2>1
  <2> QED
    BY <2>1, <2>3, <2>4, <2>5, <2>6, <2>7, NotYetKeeps
<1>AnyOfBackGoesOn. CASE AnyOfBackGoesOn
  <2>1. /\ t \in Task
        /\ Pc(t) = "child"
        /\ act'[t].pc = "start"
        /\ act'[t].i = act[t].i + 1
        /\ \A u \in Task : u # t => act'[u] = act[u]
        /\ uid' = uid /\ prog' = prog /\ stack' = stack /\ reuse' = reuse
        /\ finish_to' = finish_to /\ act[t].next \in {"return", "caught"}
        /\ status' = status
        /\ running' = running /\ block_to' = block_to
    BY <1>0, <1>AnyOfBackGoesOn, AnyOfBackGoesOnIs, KeepsFrame, StackTypes
       DEF AnyOfBackGoesOn, Moves, Stays
  <2>3. /\ \A x \in Task : status[x] \in {"ready", "limited"} => status'[x] = status[x]
        /\ \A x \in Task : status[x] \notin {"ready", "limited"} => status'[x] \notin {"ready", "limited"}
    BY <2>1
  <2>4. Keeps
    BY <1>AnyOfBackGoesOn, AnyOfBackGoesOnIs DEF AnyOfBackGoesOn
  <2>5. \A x \in Task : status[x] = "ready" => block_to'[x] = block_to[x]
    BY <2>1
  <2>6. running' \in Task => running' = running \/ Busy(running')
    BY <2>1
  <2>7. \/ act'[Top].pc \notin {"run", "start", "child"}
        \/ act'[Top].pc = "start" /\ act'[Top].i = act[Top].i + 1 /\ Pc(Top) = "child"
    BY <1>0, <2>1
  <2> QED
    BY <2>1, <2>3, <2>4, <2>5, <2>6, <2>7, NotYetKeeps
<1>AnyOfBackYields. CASE AnyOfBackYields
  <2>1. /\ t \in Task
        /\ Pc(t) = "child"
        /\ act'[t].pc = "wait"
        /\ act'[t].i = act[t].i + 1
        /\ \A u \in Task : u # t => act'[u] = act[u]
        /\ uid' = uid /\ prog' = prog /\ stack' = stack /\ reuse' = reuse
        /\ finish_to' = finish_to /\ act[t].next \in {"return", "caught"}
        /\ status' = status
        /\ Yields
    BY <1>0, <1>AnyOfBackYields, AnyOfBackYieldsIs, KeepsFrame, StackTypes
       DEF AnyOfBackYields, Moves
  <2>3. /\ \A x \in Task : status[x] \in {"ready", "limited"} => status'[x] = status[x]
        /\ \A x \in Task : status[x] \notin {"ready", "limited"} => status'[x] \notin {"ready", "limited"}
    BY <2>1
  <2>4. Keeps
    BY <1>AnyOfBackYields, AnyOfBackYieldsIs DEF AnyOfBackYields
  <2>5. \A x \in Task : status[x] = "ready" => block_to'[x] = block_to[x]
    BY <1>0, <1>s, <2>1, <2>4, YieldsFx
  <2>6. running' \in Task => running' = running \/ Busy(running')
    <3>1. ~Unwinds(running)
      BY <1>AnyOfBackYields, YieldsFreely
    <3> QED
      BY <2>1, <2>4, <3>1, YieldTo, YieldsFx, KeepsFrame, StackTypes
  <2>7. act'[Top].pc \notin {"run", "start", "child"}
    BY <1>0, <2>1
  <2> QED
    BY <2>1, <2>3, <2>4, <2>5, <2>6, <2>7, NotYetKeeps
<1>AllOfWakeYields. CASE AllOfWakeYields
  <2>1. /\ t \in Task
        /\ Pc(t) = "wait"
        /\ act'[t].pc = "wait"
        /\ act'[t].i = act[t].i
        /\ \A u \in Task : u # t => act'[u] = act[u]
        /\ uid' = uid /\ prog' = prog /\ stack' = stack /\ reuse' = reuse
        /\ finish_to' = finish_to /\ act[t].next \in {"return", "caught"}
        /\ status' = status
        /\ Yields
    BY <1>0, <1>AllOfWakeYields, AllOfWakeYieldsIs, KeepsFrame, StackTypes
       DEF AllOfWakeYields, Moves
  <2>3. /\ \A x \in Task : status[x] \in {"ready", "limited"} => status'[x] = status[x]
        /\ \A x \in Task : status[x] \notin {"ready", "limited"} => status'[x] \notin {"ready", "limited"}
    BY <2>1
  <2>4. Keeps
    BY <1>AllOfWakeYields, AllOfWakeYieldsIs DEF AllOfWakeYields
  <2>5. \A x \in Task : status[x] = "ready" => block_to'[x] = block_to[x]
    BY <1>0, <1>s, <2>1, <2>4, YieldsFx
  <2>6. running' \in Task => running' = running \/ Busy(running')
    <3>1. ~Unwinds(running)
      BY <1>AllOfWakeYields, YieldsFreely
    <3> QED
      BY <2>1, <2>4, <3>1, YieldTo, YieldsFx, KeepsFrame, StackTypes
  <2>7. act'[Top].pc \notin {"run", "start", "child"}
    BY <1>0, <2>1
  <2> QED
    BY <2>1, <2>3, <2>4, <2>5, <2>6, <2>7, NotYetKeeps
<1>AllOfWakeEnds. CASE AllOfWakeEnds
  <2>1. /\ t \in Task
        /\ Pc(t) = "wait"
        /\ act'[t].pc = "return"
        /\ act'[t].i = act[t].i
        /\ \A u \in Task : u # t => act'[u] = act[u]
        /\ uid' = uid /\ prog' = prog /\ stack' = stack /\ reuse' = reuse
        /\ finish_to' = finish_to /\ act[t].next \in {"return", "caught"}
        /\ status' = status
        /\ running' = running /\ block_to' = block_to
    BY <1>0, <1>AllOfWakeEnds, AllOfWakeEndsIs, KeepsFrame, StackTypes
       DEF AllOfWakeEnds, Moves, Stays
  <2>3. /\ \A x \in Task : status[x] \in {"ready", "limited"} => status'[x] = status[x]
        /\ \A x \in Task : status[x] \notin {"ready", "limited"} => status'[x] \notin {"ready", "limited"}
    BY <2>1
  <2>4. Keeps
    BY <1>AllOfWakeEnds, AllOfWakeEndsIs DEF AllOfWakeEnds
  <2>5. \A x \in Task : status[x] = "ready" => block_to'[x] = block_to[x]
    BY <2>1
  <2>6. running' \in Task => running' = running \/ Busy(running')
    BY <2>1
  <2>7. act'[Top].pc \notin {"run", "start", "child"}
    BY <1>0, <2>1
  <2> QED
    BY <2>1, <2>3, <2>4, <2>5, <2>6, <2>7, NotYetKeeps
<1>AnyOfWake. CASE AnyOfWake
  <2>1. /\ t \in Task
        /\ Pc(t) = "wait"
        /\ act'[t].pc = "cancel"
        /\ act'[t].i = 1
        /\ \A u \in Task : u # t => act'[u] = act[u]
        /\ uid' = uid /\ prog' = prog /\ stack' = stack /\ reuse' = reuse
        /\ finish_to' = finish_to /\ act[t].next \in {"return", "caught"}
        /\ status' = status
        /\ running' = running /\ block_to' = block_to
    BY <1>0, <1>AnyOfWake, AnyOfWakeIs, KeepsFrame, StackTypes DEF Moves, Stays
  <2>3. /\ \A x \in Task : status[x] \in {"ready", "limited"} => status'[x] = status[x]
        /\ \A x \in Task : status[x] \notin {"ready", "limited"} => status'[x] \notin {"ready", "limited"}
    BY <2>1
  <2>4. Keeps
    BY <1>AnyOfWake, AnyOfWakeIs
  <2>5. \A x \in Task : status[x] = "ready" => block_to'[x] = block_to[x]
    BY <2>1
  <2>6. running' \in Task => running' = running \/ Busy(running')
    BY <2>1
  <2>7. act'[Top].pc \notin {"run", "start", "child"}
    BY <1>0, <2>1
  <2> QED
    BY <2>1, <2>3, <2>4, <2>5, <2>6, <2>7, NotYetKeeps
<1>CanceledDirectlyLeaf. CASE CanceledDirectlyLeaf
  <2>1. /\ t \in Task
        /\ Pc(t) = "wait"
        /\ act'[t].pc = "return"
        /\ act'[t].i = act[t].i
        /\ \A u \in Task : u # t => act'[u] = act[u]
        /\ uid' = uid /\ prog' = prog /\ stack' = stack /\ reuse' = reuse
        /\ finish_to' = finish_to /\ act[t].next \in {"return", "caught"}
        /\ status' = status
        /\ running' = running /\ block_to' = block_to
    BY <1>0, <1>CanceledDirectlyLeaf, CanceledDirectlyLeafIs, KeepsFrame, StackTypes
       DEF CanceledDirectlyLeaf, Moves, Stays
  <2>3. /\ \A x \in Task : status[x] \in {"ready", "limited"} => status'[x] = status[x]
        /\ \A x \in Task : status[x] \notin {"ready", "limited"} => status'[x] \notin {"ready", "limited"}
    BY <2>1
  <2>4. Keeps
    BY <1>CanceledDirectlyLeaf, CanceledDirectlyLeafIs DEF CanceledDirectlyLeaf
  <2>5. \A x \in Task : status[x] = "ready" => block_to'[x] = block_to[x]
    BY <2>1
  <2>6. running' \in Task => running' = running \/ Busy(running')
    BY <2>1
  <2>7. act'[Top].pc \notin {"run", "start", "child"}
    BY <1>0, <2>1
  <2> QED
    BY <2>1, <2>3, <2>4, <2>5, <2>6, <2>7, NotYetKeeps
<1>CanceledDirectlyComb. CASE CanceledDirectlyComb
  <2>1. /\ t \in Task
        /\ Pc(t) = "wait"
        /\ act'[t].pc = "cancel"
        /\ act'[t].i = 1
        /\ \A u \in Task : u # t => act'[u] = act[u]
        /\ uid' = uid /\ prog' = prog /\ stack' = stack /\ reuse' = reuse
        /\ finish_to' = finish_to /\ act[t].next \in {"return", "caught"}
        /\ status' = status
        /\ running' = running /\ block_to' = block_to
    BY <1>0, <1>CanceledDirectlyComb, CanceledDirectlyCombIs, KeepsFrame, StackTypes
       DEF CanceledDirectlyComb, Moves, Stays
  <2>3. /\ \A x \in Task : status[x] \in {"ready", "limited"} => status'[x] = status[x]
        /\ \A x \in Task : status[x] \notin {"ready", "limited"} => status'[x] \notin {"ready", "limited"}
    BY <2>1
  <2>4. Keeps
    BY <1>CanceledDirectlyComb, CanceledDirectlyCombIs DEF CanceledDirectlyComb
  <2>5. \A x \in Task : status[x] = "ready" => block_to'[x] = block_to[x]
    BY <2>1
  <2>6. running' \in Task => running' = running \/ Busy(running')
    BY <2>1
  <2>7. act'[Top].pc \notin {"run", "start", "child"}
    BY <1>0, <2>1
  <2> QED
    BY <2>1, <2>3, <2>4, <2>5, <2>6, <2>7, NotYetKeeps
<1>CanceledIndirectly. CASE CanceledIndirectly
  <2>1. /\ t \in Task
        /\ Pc(t) = "wait"
        /\ act'[t].pc = "throw"
        /\ act'[t].i = act[t].i
        /\ \A u \in Task : u # t => act'[u] = act[u]
        /\ uid' = uid /\ prog' = prog /\ stack' = stack /\ reuse' = reuse
        /\ finish_to' = finish_to /\ act[t].next \in {"return", "caught"}
        /\ running' = running /\ block_to' = block_to
    BY <1>0, <1>CanceledIndirectly, CanceledIndirectlyIs, KeepsFrame, StackTypes DEF Moves, Stays
  <2>2. /\ status'[t] = "canceled" /\ \A u \in Task : u # t => status'[u] = status[u]
    BY <1>0, <1>t, <1>CanceledIndirectly, CanceledIndirectlyIs, <2>1
  <2>3. /\ \A x \in Task : status[x] \in {"ready", "limited"} => status'[x] = status[x]
        /\ \A x \in Task : status[x] \notin {"ready", "limited"} => status'[x] \notin {"ready", "limited"}
    BY <1>s, <2>1, <2>2
  <2>4. Keeps
    BY <1>CanceledIndirectly, CanceledIndirectlyIs
  <2>5. \A x \in Task : status[x] = "ready" => block_to'[x] = block_to[x]
    BY <2>1
  <2>6. running' \in Task => running' = running \/ Busy(running')
    BY <2>1
  <2>7. act'[Top].pc \notin {"run", "start", "child"}
    BY <1>0, <2>1
  <2> QED
    BY <2>1, <2>3, <2>4, <2>5, <2>6, <2>7, NotYetKeeps
<1>CatchLeaf. CASE CatchLeaf
  <2>1. /\ t \in Task
        /\ Pc(t) = "throw"
        /\ act'[t].pc = "caught"
        /\ act'[t].i = act[t].i
        /\ \A u \in Task : u # t => act'[u] = act[u]
        /\ uid' = uid /\ prog' = prog /\ stack' = stack /\ reuse' = reuse
        /\ finish_to' = finish_to /\ act[t].next \in {"return", "caught"}
        /\ running' = running /\ block_to' = block_to
    BY <1>0, <1>CatchLeaf, CatchLeafIs, KeepsFrame, StackTypes DEF CatchLeaf, Moves, Stays
  <2>2. /\ status'[t] = "canceled" /\ \A u \in Task : u # t => status'[u] = status[u]
    BY <1>0, <1>t, <1>CatchLeaf, CatchLeafIs, <2>1 DEF CatchLeaf
  <2>3. /\ \A x \in Task : status[x] \in {"ready", "limited"} => status'[x] = status[x]
        /\ \A x \in Task : status[x] \notin {"ready", "limited"} => status'[x] \notin {"ready", "limited"}
    BY <1>s, <2>1, <2>2
  <2>4. Keeps
    BY <1>CatchLeaf, CatchLeafIs DEF CatchLeaf
  <2>5. \A x \in Task : status[x] = "ready" => block_to'[x] = block_to[x]
    BY <2>1
  <2>6. running' \in Task => running' = running \/ Busy(running')
    BY <2>1
  <2>7. act'[Top].pc \notin {"run", "start", "child"}
    BY <1>0, <2>1
  <2> QED
    BY <2>1, <2>3, <2>4, <2>5, <2>6, <2>7, NotYetKeeps
<1>CatchComb. CASE CatchComb
  <2>1. /\ t \in Task
        /\ Pc(t) = "throw"
        /\ act'[t].pc = "cancel"
        /\ act'[t].i = 1
        /\ \A u \in Task : u # t => act'[u] = act[u]
        /\ uid' = uid /\ prog' = prog /\ stack' = stack /\ reuse' = reuse
        /\ finish_to' = finish_to /\ act[t].next \in {"return", "caught"}
        /\ running' = running /\ block_to' = block_to
    BY <1>0, <1>CatchComb, CatchCombIs, KeepsFrame, StackTypes DEF CatchComb, Moves, Stays
  <2>2. /\ status'[t] = "canceled" /\ \A u \in Task : u # t => status'[u] = status[u]
    BY <1>0, <1>t, <1>CatchComb, CatchCombIs, <2>1 DEF CatchComb
  <2>3. /\ \A x \in Task : status[x] \in {"ready", "limited"} => status'[x] = status[x]
        /\ \A x \in Task : status[x] \notin {"ready", "limited"} => status'[x] \notin {"ready", "limited"}
    BY <1>s, <2>1, <2>2
  <2>4. Keeps
    BY <1>CatchComb, CatchCombIs DEF CatchComb
  <2>5. \A x \in Task : status[x] = "ready" => block_to'[x] = block_to[x]
    BY <2>1
  <2>6. running' \in Task => running' = running \/ Busy(running')
    BY <2>1
  <2>7. act'[Top].pc \notin {"run", "start", "child"}
    BY <1>0, <2>1
  <2> QED
    BY <2>1, <2>3, <2>4, <2>5, <2>6, <2>7, NotYetKeeps
<1>CancelSkip. CASE CancelSkip
  <2>1. /\ t \in Task
        /\ Pc(t) = "cancel"
        /\ act'[t].pc = "cancel"
        /\ act'[t].i = act[t].i + 1
        /\ \A u \in Task : u # t => act'[u] = act[u]
        /\ uid' = uid /\ prog' = prog /\ stack' = stack /\ reuse' = reuse
        /\ finish_to' = finish_to /\ act[t].next \in {"return", "caught"}
        /\ status' = status
        /\ running' = running /\ block_to' = block_to
    BY <1>0, <1>CancelSkip, CancelSkipIs, KeepsFrame, StackTypes DEF Moves, Stays
  <2>3. /\ \A x \in Task : status[x] \in {"ready", "limited"} => status'[x] = status[x]
        /\ \A x \in Task : status[x] \notin {"ready", "limited"} => status'[x] \notin {"ready", "limited"}
    BY <2>1
  <2>4. Keeps
    BY <1>CancelSkip, CancelSkipIs
  <2>5. \A x \in Task : status[x] = "ready" => block_to'[x] = block_to[x]
    BY <2>1
  <2>6. running' \in Task => running' = running \/ Busy(running')
    BY <2>1
  <2>7. act'[Top].pc \notin {"run", "start", "child"}
    BY <1>0, <2>1
  <2> QED
    BY <2>1, <2>3, <2>4, <2>5, <2>6, <2>7, NotYetKeeps
<1>CancelUnsupport. CASE CancelUnsupport
  <2>1. /\ t \in Task
        /\ Pc(t) = "cancel"
        /\ act'[t].pc = "cancel"
        /\ act'[t].i = act[t].i + 1
        /\ \A u \in Task : u # t => act'[u] = act[u]
        /\ uid' = uid /\ prog' = prog /\ stack' = stack /\ reuse' = reuse
        /\ finish_to' = finish_to /\ act[t].next \in {"return", "caught"}
        /\ running' = running /\ block_to' = block_to
    BY <1>0, <1>CancelUnsupport, CancelUnsupportIs, KeepsFrame, StackTypes DEF Moves, Stays
  <2>2. PICK f \in Task : /\ Pc(f) # "none" /\ status'[f] \in {status[f], "canceled"}
                          /\ \A u \in Task : u # f => status'[u] = status[u]
    BY <1>CancelUnsupport, CancelUnsupportFx
  <2>3. /\ \A x \in Task : status[x] \in {"ready", "limited"} => status'[x] = status[x]
        /\ \A x \in Task : status[x] \notin {"ready", "limited"} => status'[x] \notin {"ready", "limited"}
    BY <1>s, <2>1, <2>2
  <2>4. Keeps
    BY <1>CancelUnsupport, CancelUnsupportIs
  <2>5. \A x \in Task : status[x] = "ready" => block_to'[x] = block_to[x]
    BY <2>1
  <2>6. running' \in Task => running' = running \/ Busy(running')
    BY <2>1
  <2>7. act'[Top].pc \notin {"run", "start", "child"}
    BY <1>0, <2>1
  <2> QED
    BY <2>1, <2>3, <2>4, <2>5, <2>6, <2>7, NotYetKeeps
<1>CancelInterrupt. CASE CancelInterrupt
  <2>1. /\ t \in Task
        /\ Pc(t) = "cancel"
        /\ act'[t].pc = "cancel"
        /\ act'[t].i = act[t].i + 1
        /\ \A u \in Task : u # t => act'[u] = act[u]
        /\ uid' = uid /\ prog' = prog /\ stack' = stack /\ reuse' = reuse
        /\ finish_to' = finish_to /\ act[t].next \in {"return", "caught"}
        /\ block_to' = block_to
    BY <1>0, <1>CancelInterrupt, CancelInterruptIs, KeepsFrame, StackTypes DEF Moves
  <2>2. PICK f \in Task : /\ Pc(f) # "none" /\ status'[f] \in {status[f], "canceled"}
                          /\ \A u \in Task : u # f => status'[u] = status[u]
                          /\ running' = f /\ Busy(f)
    BY <1>CancelInterrupt, CancelInterruptFx
  <2>3. /\ \A x \in Task : status[x] \in {"ready", "limited"} => status'[x] = status[x]
        /\ \A x \in Task : status[x] \notin {"ready", "limited"} => status'[x] \notin {"ready", "limited"}
    BY <1>s, <2>1, <2>2
  <2>4. Keeps
    BY <1>CancelInterrupt, CancelInterruptIs
  <2>5. \A x \in Task : status[x] = "ready" => block_to'[x] = block_to[x]
    BY <2>1
  <2>6. running' \in Task => running' = running \/ Busy(running')
    <3>1. running' = f /\ Busy(f)
      BY <2>2
    <3> QED
      BY <3>1
  <2>7. act'[Top].pc \notin {"run", "start", "child"}
    BY <1>0, <2>1
  <2> QED
    BY <2>1, <2>3, <2>4, <2>5, <2>6, <2>7, NotYetKeeps
<1>CancelEndYields. CASE CancelEndYields
  <2>1. /\ t \in Task
        /\ Pc(t) = "cancel"
        /\ act'[t].pc = "unsupport"
        /\ act'[t].i = act[t].i
        /\ \A u \in Task : u # t => act'[u] = act[u]
        /\ uid' = uid /\ prog' = prog /\ stack' = stack /\ reuse' = reuse
        /\ finish_to' = finish_to /\ act[t].next \in {"return", "caught"}
        /\ status' = status
        /\ Yields
    BY <1>0, <1>CancelEndYields, CancelEndYieldsIs, KeepsFrame, StackTypes
       DEF CancelEndYields, Moves
  <2>3. /\ \A x \in Task : status[x] \in {"ready", "limited"} => status'[x] = status[x]
        /\ \A x \in Task : status[x] \notin {"ready", "limited"} => status'[x] \notin {"ready", "limited"}
    BY <2>1
  <2>4. Keeps
    BY <1>CancelEndYields, CancelEndYieldsIs DEF CancelEndYields
  <2>5. \A x \in Task : status[x] = "ready" => block_to'[x] = block_to[x]
    BY <1>0, <1>s, <2>1, <2>4, YieldsFx
  <2>6. running' \in Task => running' = running \/ Busy(running')
    <3>1. ~Unwinds(running)
      BY <1>CancelEndYields, YieldsFreely
    <3> QED
      BY <2>1, <2>4, <3>1, YieldTo, YieldsFx, KeepsFrame, StackTypes
  <2>7. act'[Top].pc \notin {"run", "start", "child"}
    BY <1>0, <2>1
  <2> QED
    BY <2>1, <2>3, <2>4, <2>5, <2>6, <2>7, NotYetKeeps
<1>CancelEndDone. CASE CancelEndDone
  <2>1. /\ t \in Task
        /\ Pc(t) = "cancel"
        /\ act'[t].pc = act[t].next
        /\ act'[t].i = act[t].i
        /\ \A u \in Task : u # t => act'[u] = act[u]
        /\ uid' = uid /\ prog' = prog /\ stack' = stack /\ reuse' = reuse
        /\ finish_to' = finish_to /\ act[t].next \in {"return", "caught"}
        /\ status' = status
        /\ running' = running /\ block_to' = block_to
    BY <1>0, <1>CancelEndDone, CancelEndDoneIs, KeepsFrame, StackTypes
       DEF CancelEndDone, Moves, Stays
  <2>3. /\ \A x \in Task : status[x] \in {"ready", "limited"} => status'[x] = status[x]
        /\ \A x \in Task : status[x] \notin {"ready", "limited"} => status'[x] \notin {"ready", "limited"}
    BY <2>1
  <2>4. Keeps
    BY <1>CancelEndDone, CancelEndDoneIs DEF CancelEndDone
  <2>5. \A x \in Task : status[x] = "ready" => block_to'[x] = block_to[x]
    BY <2>1
  <2>6. running' \in Task => running' = running \/ Busy(running')
    BY <2>1
  <2>7. act'[Top].pc \notin {"run", "start", "child"}
    BY <1>0, <2>1
  <2> QED
    BY <2>1, <2>3, <2>4, <2>5, <2>6, <2>7, NotYetKeeps
<1>UnsupportYields. CASE UnsupportYields
  <2>1. /\ t \in Task
        /\ Pc(t) = "unsupport"
        /\ act'[t].pc = "unsupport"
        /\ act'[t].i = act[t].i
        /\ \A u \in Task : u # t => act'[u] = act[u]
        /\ uid' = uid /\ prog' = prog /\ stack' = stack /\ reuse' = reuse
        /\ finish_to' = finish_to /\ act[t].next \in {"return", "caught"}
        /\ status' = status
        /\ Yields
    BY <1>0, <1>UnsupportYields, UnsupportYieldsIs, KeepsFrame, StackTypes
       DEF UnsupportYields, Moves
  <2>3. /\ \A x \in Task : status[x] \in {"ready", "limited"} => status'[x] = status[x]
        /\ \A x \in Task : status[x] \notin {"ready", "limited"} => status'[x] \notin {"ready", "limited"}
    BY <2>1
  <2>4. Keeps
    BY <1>UnsupportYields, UnsupportYieldsIs DEF UnsupportYields
  <2>5. \A x \in Task : status[x] = "ready" => block_to'[x] = block_to[x]
    BY <1>0, <1>s, <2>1, <2>4, YieldsFx
  <2>6. running' \in Task => running' = running \/ Busy(running')
    <3>1. ~Unwinds(running)
      BY <1>UnsupportYields, YieldsFreely
    <3> QED
      BY <2>1, <2>4, <3>1, YieldTo, YieldsFx, KeepsFrame, StackTypes
  <2>7. act'[Top].pc \notin {"run", "start", "child"}
    BY <1>0, <2>1
  <2> QED
    BY <2>1, <2>3, <2>4, <2>5, <2>6, <2>7, NotYetKeeps
<1>UnsupportDone. CASE UnsupportDone
  <2>1. /\ t \in Task
        /\ Pc(t) = "unsupport"
        /\ act'[t].pc = act[t].next
        /\ act'[t].i = act[t].i
        /\ \A u \in Task : u # t => act'[u] = act[u]
        /\ uid' = uid /\ prog' = prog /\ stack' = stack /\ reuse' = reuse
        /\ finish_to' = finish_to /\ act[t].next \in {"return", "caught"}
        /\ status' = status
        /\ running' = running /\ block_to' = block_to
    BY <1>0, <1>UnsupportDone, UnsupportDoneIs, KeepsFrame, StackTypes
       DEF UnsupportDone, Moves, Stays
  <2>3. /\ \A x \in Task : status[x] \in {"ready", "limited"} => status'[x] = status[x]
        /\ \A x \in Task : status[x] \notin {"ready", "limited"} => status'[x] \notin {"ready", "limited"}
    BY <2>1
  <2>4. Keeps
    BY <1>UnsupportDone, UnsupportDoneIs DEF UnsupportDone
  <2>5. \A x \in Task : status[x] = "ready" => block_to'[x] = block_to[x]
    BY <2>1
  <2>6. running' \in Task => running' = running \/ Busy(running')
    BY <2>1
  <2>7. act'[Top].pc \notin {"run", "start", "child"}
    BY <1>0, <2>1
  <2> QED
    BY <2>1, <2>3, <2>4, <2>5, <2>6, <2>7, NotYetKeeps
<1>AwaitReturn. CASE AwaitReturn
  <2>1. PICK y \in Task, u \in Task, s \in Status, pc \in Points :
          /\ Ends(y, s, pc) /\ act'[y].pc = "none" /\ act'[u].pc = pc /\ Pc(u) = "run" /\ y # u
          /\ Pc(y) # "none" /\ act'[u].i = act[u].i
          /\ status'[y] = s /\ \A v \in Task : v # y => uid'[v] = uid[v] /\ status'[v] = status[v]
          /\ \A v \in Task : v # y /\ v # u => act'[v] = act[v] /\ block_to'[v] = block_to[v]
          /\ finish_to' = finish_to /\ running' = running /\ prog' = prog
    BY <1>AwaitReturn, PopsFx
  <2>2. pc \in {"run", "throw"} /\ s \in {"completed", "canceled", "child_unready"}
    BY <2>1 DEF Ends
  <2>3. \A k \in Task : \A j \in DOMAIN Children(k) :
                  Pc(k)' \in {"start", "child"} /\ Told(Children(k)[j], k) =>
                      /\ block_to'[Children(k)[j]] = block_to[Children(k)[j]]
                      /\ finish_to'[Children(k)[j]] = finish_to[Children(k)[j]]
                      /\ uid'[k] = uid[k]
    <3>1. \A x0 \in Task : status[x0] = "ready" => block_to'[x0] = block_to[x0] /\ finish_to'[x0] = finish_to[x0]
      BY <1>s, <2>1, <2>2
    <3>2. \A k \in Task : Pc(k)' \in {"start", "child"} => uid'[k] = uid[k]
      BY <2>1, <2>2 DEF Pc
    <3>3. \A k \in Task : \A j \in DOMAIN Children(k) : Children(k)[j] \in Task
      BY KidFacts DEF IndInv
    <3> QED
      BY <3>1, <3>2, <3>3 DEF Told
  <2>4. /\ \A v \in Task : status[v] \in {"ready", "limited"} => status'[v] = status[v]
        /\ \A v \in Task : status[v] \notin {"ready", "limited"} => status'[v] \notin {"ready", "limited"}
        /\ \A v \in Task : v = running' /\ v # running => status[v] \notin {"ready", "limited"}
    BY <1>s, <2>1, <2>2
  <2>5. \A u0 \in Task : Pc(u0)' = "run" =>
                  Pc(u0) = "run" /\ \A i \in DOMAIN Body(u0) : i >= act'[u0].i => i >= act[u0].i
    BY <2>1, <2>2 DEF Pc
  <2>6. \A k \in Task : Pc(k)' \in {"start", "child"} =>
                  Pc(k) \in {"start", "child"} /\ \A j \in DOMAIN Children(k) : j \in Later(k)' => j \in Later(k)
    BY <2>1, <2>2 DEF Pc, Later, Children
  <2> QED
    BY <2>1, <2>2, <2>3, <2>4, <2>5, <2>6, NotYetQuiet
<1>AwaitReturnThrow. CASE AwaitReturnThrow
  <2>1. PICK y \in Task, u \in Task, s \in Status, pc \in Points :
          /\ Ends(y, s, pc) /\ act'[y].pc = "none" /\ act'[u].pc = pc /\ Pc(u) = "run" /\ y # u
          /\ Pc(y) # "none" /\ act'[u].i = act[u].i
          /\ status'[y] = s /\ \A v \in Task : v # y => uid'[v] = uid[v] /\ status'[v] = status[v]
          /\ \A v \in Task : v # y /\ v # u => act'[v] = act[v] /\ block_to'[v] = block_to[v]
          /\ finish_to' = finish_to /\ running' = running /\ prog' = prog
    BY <1>AwaitReturnThrow, PopsFx
  <2>2. pc \in {"run", "throw"} /\ s \in {"completed", "canceled", "child_unready"}
    BY <2>1 DEF Ends
  <2>3. \A k \in Task : \A j \in DOMAIN Children(k) :
                  Pc(k)' \in {"start", "child"} /\ Told(Children(k)[j], k) =>
                      /\ block_to'[Children(k)[j]] = block_to[Children(k)[j]]
                      /\ finish_to'[Children(k)[j]] = finish_to[Children(k)[j]]
                      /\ uid'[k] = uid[k]
    <3>1. \A x0 \in Task : status[x0] = "ready" => block_to'[x0] = block_to[x0] /\ finish_to'[x0] = finish_to[x0]
      BY <1>s, <2>1, <2>2
    <3>2. \A k \in Task : Pc(k)' \in {"start", "child"} => uid'[k] = uid[k]
      BY <2>1, <2>2 DEF Pc
    <3>3. \A k \in Task : \A j \in DOMAIN Children(k) : Children(k)[j] \in Task
      BY KidFacts DEF IndInv
    <3> QED
      BY <3>1, <3>2, <3>3 DEF Told
  <2>4. /\ \A v \in Task : status[v] \in {"ready", "limited"} => status'[v] = status[v]
        /\ \A v \in Task : status[v] \notin {"ready", "limited"} => status'[v] \notin {"ready", "limited"}
        /\ \A v \in Task : v = running' /\ v # running => status[v] \notin {"ready", "limited"}
    BY <1>s, <2>1, <2>2
  <2>5. \A u0 \in Task : Pc(u0)' = "run" =>
                  Pc(u0) = "run" /\ \A i \in DOMAIN Body(u0) : i >= act'[u0].i => i >= act[u0].i
    BY <2>1, <2>2 DEF Pc
  <2>6. \A k \in Task : Pc(k)' \in {"start", "child"} =>
                  Pc(k) \in {"start", "child"} /\ \A j \in DOMAIN Children(k) : j \in Later(k)' => j \in Later(k)
    BY <2>1, <2>2 DEF Pc, Later, Children
  <2> QED
    BY <2>1, <2>2, <2>3, <2>4, <2>5, <2>6, NotYetQuiet
<1>AwaitRethrow. CASE AwaitRethrow
  <2>1. PICK y \in Task, u \in Task, s \in Status, pc \in Points :
          /\ Ends(y, s, pc) /\ act'[y].pc = "none" /\ act'[u].pc = pc /\ Pc(u) = "run" /\ y # u
          /\ Pc(y) # "none" /\ act'[u].i = act[u].i
          /\ status'[y] = s /\ \A v \in Task : v # y => uid'[v] = uid[v] /\ status'[v] = status[v]
          /\ \A v \in Task : v # y /\ v # u => act'[v] = act[v] /\ block_to'[v] = block_to[v]
          /\ finish_to' = finish_to /\ running' = running /\ prog' = prog
    BY <1>AwaitRethrow, PopsFx
  <2>2. pc \in {"run", "throw"} /\ s \in {"completed", "canceled", "child_unready"}
    BY <2>1 DEF Ends
  <2>3. \A k \in Task : \A j \in DOMAIN Children(k) :
                  Pc(k)' \in {"start", "child"} /\ Told(Children(k)[j], k) =>
                      /\ block_to'[Children(k)[j]] = block_to[Children(k)[j]]
                      /\ finish_to'[Children(k)[j]] = finish_to[Children(k)[j]]
                      /\ uid'[k] = uid[k]
    <3>1. \A x0 \in Task : status[x0] = "ready" => block_to'[x0] = block_to[x0] /\ finish_to'[x0] = finish_to[x0]
      BY <1>s, <2>1, <2>2
    <3>2. \A k \in Task : Pc(k)' \in {"start", "child"} => uid'[k] = uid[k]
      BY <2>1, <2>2 DEF Pc
    <3>3. \A k \in Task : \A j \in DOMAIN Children(k) : Children(k)[j] \in Task
      BY KidFacts DEF IndInv
    <3> QED
      BY <3>1, <3>2, <3>3 DEF Told
  <2>4. /\ \A v \in Task : status[v] \in {"ready", "limited"} => status'[v] = status[v]
        /\ \A v \in Task : status[v] \notin {"ready", "limited"} => status'[v] \notin {"ready", "limited"}
        /\ \A v \in Task : v = running' /\ v # running => status[v] \notin {"ready", "limited"}
    BY <1>s, <2>1, <2>2
  <2>5. \A u0 \in Task : Pc(u0)' = "run" =>
                  Pc(u0) = "run" /\ \A i \in DOMAIN Body(u0) : i >= act'[u0].i => i >= act[u0].i
    BY <2>1, <2>2 DEF Pc
  <2>6. \A k \in Task : Pc(k)' \in {"start", "child"} =>
                  Pc(k) \in {"start", "child"} /\ \A j \in DOMAIN Children(k) : j \in Later(k)' => j \in Later(k)
    BY <2>1, <2>2 DEF Pc, Later, Children
  <2> QED
    BY <2>1, <2>2, <2>3, <2>4, <2>5, <2>6, NotYetQuiet
<1>RuntimeFinish. CASE RuntimeFinish
  <2>1. /\ r \in Task /\ Pc(r) # "none" /\ act'[r].pc = "none"
        /\ \A u \in Task : u # r => act'[u] = act[u]
        /\ UNCHANGED <<prog, block_to, finish_to, uid>>
    BY <1>0, <1>RuntimeFinish, RuntimeFinishIs, BusyFacts
  <2>2. /\ \A u \in Task : u # r => status'[u] = status[u]
        /\ status'[r] \notin {"ready", "limited"} /\ \A v \in Task : v = running' => status[v] \notin {"ready", "limited"}
    <3>1. \A v \in Task : v = running' => Busy(v)
      BY <1>RuntimeFinish, FinishTo, StackTypes
    <3>2. /\ \A u \in Task : u # r => status'[u] = status[u]
          /\ status'[r] \notin {"ready", "limited"}
      BY <1>0, <1>RuntimeFinish, FinishFx
    <3> QED
      BY <3>1, <3>2, BusyTouched
  <2>3. \A k \in Task : \A j \in DOMAIN Children(k) :
                  Pc(k)' \in {"start", "child"} /\ Told(Children(k)[j], k) =>
                      /\ block_to'[Children(k)[j]] = block_to[Children(k)[j]]
                      /\ finish_to'[Children(k)[j]] = finish_to[Children(k)[j]]
                      /\ uid'[k] = uid[k]
    <3>1. \A y \in Task : status[y] = "ready" => block_to'[y] = block_to[y] /\ finish_to'[y] = finish_to[y]
      BY <1>s, <2>1, <2>2
    <3>2. \A k \in Task : Pc(k)' \in {"start", "child"} => uid'[k] = uid[k]
      BY <2>1, <2>2 DEF Pc
    <3>3. \A k \in Task : \A j \in DOMAIN Children(k) : Children(k)[j] \in Task
      BY KidFacts DEF IndInv
    <3> QED
      BY <3>1, <3>2, <3>3 DEF Told
  <2>4. /\ \A v \in Task : status[v] \in {"ready", "limited"} => status'[v] = status[v]
        /\ \A v \in Task : status[v] \notin {"ready", "limited"} => status'[v] \notin {"ready", "limited"}
        /\ \A v \in Task : v = running' /\ v # running => status[v] \notin {"ready", "limited"}
    BY <1>s, <2>1, <2>2
  <2>5. \A u \in Task : Pc(u)' = "run" =>
                  Pc(u) = "run" /\ \A i \in DOMAIN Body(u) : i >= act'[u].i => i >= act[u].i
    BY <2>1, <2>2 DEF Pc
  <2>6. \A k \in Task : Pc(k)' \in {"start", "child"} =>
                  Pc(k) \in {"start", "child"} /\ \A j \in DOMAIN Children(k) : j \in Later(k)' => j \in Later(k)
    BY <2>1, <2>2 DEF Pc, Later, Children
  <2> QED
    BY <2>1, <2>2, <2>3, <2>4, <2>5, <2>6, NotYetQuiet
<1>EventFires. CASE \E e \in Task : EventFires(e)
  <2>1. UNCHANGED <<prog, block_to, finish_to, uid, act, status>>
    BY <1>EventFires, EventFiresIs
  <2>2. \A v \in Task : v = running' => status[v] \notin {"ready", "limited"}
    BY <1>EventFires, EventFiresIs, BusyTouched
  <2>3. \A k \in Task : \A j \in DOMAIN Children(k) :
                  Pc(k)' \in {"start", "child"} /\ Told(Children(k)[j], k) =>
                      /\ block_to'[Children(k)[j]] = block_to[Children(k)[j]]
                      /\ finish_to'[Children(k)[j]] = finish_to[Children(k)[j]]
                      /\ uid'[k] = uid[k]
    <3>1. \A y \in Task : status[y] = "ready" => block_to'[y] = block_to[y] /\ finish_to'[y] = finish_to[y]
      BY <1>s, <2>1, <2>2
    <3>2. \A k \in Task : Pc(k)' \in {"start", "child"} => uid'[k] = uid[k]
      BY <2>1, <2>2 DEF Pc
    <3>3. \A k \in Task : \A j \in DOMAIN Children(k) : Children(k)[j] \in Task
      BY KidFacts DEF IndInv
    <3> QED
      BY <3>1, <3>2, <3>3 DEF Told
  <2>4. /\ \A v \in Task : status[v] \in {"ready", "limited"} => status'[v] = status[v]
        /\ \A v \in Task : status[v] \notin {"ready", "limited"} => status'[v] \notin {"ready", "limited"}
        /\ \A v \in Task : v = running' /\ v # running => status[v] \notin {"ready", "limited"}
    BY <1>s, <2>1, <2>2
  <2>5. \A u \in Task : Pc(u)' = "run" =>
                  Pc(u) = "run" /\ \A i \in DOMAIN Body(u) : i >= act'[u].i => i >= act[u].i
    BY <2>1, <2>2 DEF Pc
  <2>6. \A k \in Task : Pc(k)' \in {"start", "child"} =>
                  Pc(k) \in {"start", "child"} /\ \A j \in DOMAIN Children(k) : j \in Later(k)' => j \in Later(k)
    BY <2>1, <2>2 DEF Pc, Later, Children
  <2> QED
    BY <2>1, <2>2, <2>3, <2>4, <2>5, <2>6, NotYetQuiet
<1>Stutter. CASE UNCHANGED vars
  <2>1. UNCHANGED <<prog, block_to, finish_to, uid, act, status>>
    BY <1>Stutter DEF vars, objectVars
  <2>2. running' = running
    BY <1>Stutter DEF vars, controlVars
  <2>3. \A k \in Task : \A j \in DOMAIN Children(k) :
                  Pc(k)' \in {"start", "child"} /\ Told(Children(k)[j], k) =>
                      /\ block_to'[Children(k)[j]] = block_to[Children(k)[j]]
                      /\ finish_to'[Children(k)[j]] = finish_to[Children(k)[j]]
                      /\ uid'[k] = uid[k]
    <3>1. \A y \in Task : status[y] = "ready" => block_to'[y] = block_to[y] /\ finish_to'[y] = finish_to[y]
      BY <1>s, <2>1, <2>2
    <3>2. \A k \in Task : Pc(k)' \in {"start", "child"} => uid'[k] = uid[k]
      BY <2>1, <2>2 DEF Pc
    <3>3. \A k \in Task : \A j \in DOMAIN Children(k) : Children(k)[j] \in Task
      BY KidFacts DEF IndInv
    <3> QED
      BY <3>1, <3>2, <3>3 DEF Told
  <2>4. /\ \A v \in Task : status[v] \in {"ready", "limited"} => status'[v] = status[v]
        /\ \A v \in Task : status[v] \notin {"ready", "limited"} => status'[v] \notin {"ready", "limited"}
        /\ \A v \in Task : v = running' /\ v # running => status[v] \notin {"ready", "limited"}
    BY <1>s, <2>1, <2>2
  <2>5. \A u \in Task : Pc(u)' = "run" =>
                  Pc(u) = "run" /\ \A i \in DOMAIN Body(u) : i >= act'[u].i => i >= act[u].i
    BY <2>1, <2>2 DEF Pc
  <2>6. \A k \in Task : Pc(k)' \in {"start", "child"} =>
                  Pc(k) \in {"start", "child"} /\ \A j \in DOMAIN Children(k) : j \in Later(k)' => j \in Later(k)
    BY <2>1, <2>2 DEF Pc, Later, Children
  <2> QED
    BY <2>1, <2>2, <2>3, <2>4, <2>5, <2>6, NotYetQuiet
<1> QED
  BY StepCases, <1>TaskRuntime, <1>Await, <1>Start, <1>StartReject, <1>EventRun, <1>EventWake,
       <1>ChildrenReady, <1>ChildrenUnready, <1>StartChild, <1>AllOfBackYields,
       <1>AllOfBackGoesOn, <1>AnyOfBackWins, <1>AnyOfBackGoesOn, <1>AnyOfBackYields,
       <1>AllOfWakeYields, <1>AllOfWakeEnds, <1>AnyOfWake, <1>CanceledDirectlyLeaf,
       <1>CanceledDirectlyComb, <1>CanceledIndirectly, <1>CatchLeaf, <1>CatchComb, <1>CancelSkip,
       <1>CancelUnsupport, <1>CancelInterrupt, <1>CancelEndYields, <1>CancelEndDone,
       <1>UnsupportYields, <1>UnsupportDone, <1>AwaitReturn, <1>AwaitReturnThrow, <1>AwaitRethrow,
       <1>RuntimeFinish, <1>EventFires, <1>Stutter
=============================================================================
