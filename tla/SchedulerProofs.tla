--------------------------- MODULE SchedulerProofs --------------------------
(***************************************************************************)
(* Every step of Scheduler preserves the invariant of SchedulerSteps: the  *)
(* parts about the coroutines, the stacks and the children of combinators; *)
(* and the theorems that follow.                                           *)
(***************************************************************************)
EXTENDS SchedulerSteps

\* The tasks that begin and end.
LEMMA LifeStep ==
    ASSUME IndInv, [Next]_vars
    PROVE  \A x \in Task :
             \/ Pc(x) # "none" <=> Pc(x)' # "none"
             \/ TaskRuntime /\ x = running
             \/ Await /\ x = Target
             \/ (AwaitReturn \/ AwaitReturnThrow \/ AwaitRethrow) /\ x = Top
             \/ RuntimeFinish /\ x = running
<1>0. PICK r, t : r = running /\ t = Top
  OBVIOUS
<1>TaskRuntime. CASE TaskRuntime
  BY <1>0, <1>TaskRuntime, TaskRuntimeIs DEF Pc
<1>Await. CASE Await
  <2>1. PICK x \in Task, u \in Task : x = Target /\ Pc(u) = "run" /\ act'[u].pc = "run"
               /\ \A v \in Task : v # u /\ v # x => act'[v] = act[v]
    BY <1>Await, AwaitFx
  <2> QED
    BY <1>Await, <2>1 DEF Pc
<1>Start. CASE Start
  BY <1>0, <1>Start, StartIs, KeepsFrame
<1>StartReject. CASE StartReject
  BY <1>0, <1>StartReject, StartRejectIs, KeepsFrame
<1>EventRun. CASE EventRun
  BY <1>0, <1>EventRun, EventRunIs, KeepsFrame
<1>EventWake. CASE EventWake
  BY <1>0, <1>EventWake, EventWakeIs, KeepsFrame
<1>ChildrenReady. CASE ChildrenReady
  BY <1>0, <1>ChildrenReady, ChildrenReadyIs, KeepsFrame
<1>ChildrenUnready. CASE ChildrenUnready
  BY <1>0, <1>ChildrenUnready, ChildrenUnreadyIs, KeepsFrame
<1>StartChild. CASE StartChild
  BY <1>0, <1>StartChild, StartChildIs, KeepsFrame
<1>AllOfBackYields. CASE AllOfBackYields
  BY <1>0, <1>AllOfBackYields, AllOfBackYieldsIs, KeepsFrame DEF AllOfBackYields
<1>AllOfBackGoesOn. CASE AllOfBackGoesOn
  BY <1>0, <1>AllOfBackGoesOn, AllOfBackGoesOnIs, KeepsFrame DEF AllOfBackGoesOn
<1>AnyOfBackWins. CASE AnyOfBackWins
  BY <1>0, <1>AnyOfBackWins, AnyOfBackWinsIs, KeepsFrame DEF AnyOfBackWins
<1>AnyOfBackGoesOn. CASE AnyOfBackGoesOn
  BY <1>0, <1>AnyOfBackGoesOn, AnyOfBackGoesOnIs, KeepsFrame DEF AnyOfBackGoesOn
<1>AnyOfBackYields. CASE AnyOfBackYields
  BY <1>0, <1>AnyOfBackYields, AnyOfBackYieldsIs, KeepsFrame DEF AnyOfBackYields
<1>AllOfWakeYields. CASE AllOfWakeYields
  BY <1>0, <1>AllOfWakeYields, AllOfWakeYieldsIs, KeepsFrame DEF AllOfWakeYields
<1>AllOfWakeEnds. CASE AllOfWakeEnds
  BY <1>0, <1>AllOfWakeEnds, AllOfWakeEndsIs, KeepsFrame DEF AllOfWakeEnds
<1>AnyOfWake. CASE AnyOfWake
  BY <1>0, <1>AnyOfWake, AnyOfWakeIs, KeepsFrame
<1>CanceledDirectlyLeaf. CASE CanceledDirectlyLeaf
  BY <1>0, <1>CanceledDirectlyLeaf, CanceledDirectlyLeafIs, KeepsFrame DEF CanceledDirectlyLeaf
<1>CanceledDirectlyComb. CASE CanceledDirectlyComb
  BY <1>0, <1>CanceledDirectlyComb, CanceledDirectlyCombIs, KeepsFrame DEF CanceledDirectlyComb
<1>CanceledIndirectly. CASE CanceledIndirectly
  BY <1>0, <1>CanceledIndirectly, CanceledIndirectlyIs, KeepsFrame
<1>CatchLeaf. CASE CatchLeaf
  BY <1>0, <1>CatchLeaf, CatchLeafIs, KeepsFrame DEF CatchLeaf
<1>CatchComb. CASE CatchComb
  BY <1>0, <1>CatchComb, CatchCombIs, KeepsFrame DEF CatchComb
<1>CancelSkip. CASE CancelSkip
  BY <1>0, <1>CancelSkip, CancelSkipIs, KeepsFrame
<1>CancelUnsupport. CASE CancelUnsupport
  BY <1>0, <1>CancelUnsupport, CancelUnsupportIs, KeepsFrame
<1>CancelInterrupt. CASE CancelInterrupt
  BY <1>0, <1>CancelInterrupt, CancelInterruptIs, KeepsFrame
<1>CancelEndYields. CASE CancelEndYields
  BY <1>0, <1>CancelEndYields, CancelEndYieldsIs, KeepsFrame DEF CancelEndYields
<1>CancelEndDone. CASE CancelEndDone
  BY <1>0, <1>CancelEndDone, CancelEndDoneIs, KeepsFrame DEF CancelEndDone
<1>UnsupportYields. CASE UnsupportYields
  BY <1>0, <1>UnsupportYields, UnsupportYieldsIs, KeepsFrame DEF UnsupportYields
<1>UnsupportDone. CASE UnsupportDone
  BY <1>0, <1>UnsupportDone, UnsupportDoneIs, KeepsFrame DEF UnsupportDone
<1>AwaitReturn. CASE AwaitReturn
  <2>1. PICK x \in Task, u \in Task, s \in Status, pc \in Points : x = Top /\ Pc(u) = "run" /\ act'[u].pc = pc /\ Ends(x, s, pc)
               /\ \A v \in Task : v # u /\ v # x => act'[v] = act[v]
    BY <1>AwaitReturn, PopsFx
  <2>2. pc # "none"
    BY <2>1 DEF Ends
  <2> QED
    BY <1>AwaitReturn, <2>1, <2>2 DEF Pc
<1>AwaitReturnThrow. CASE AwaitReturnThrow
  <2>1. PICK x \in Task, u \in Task, s \in Status, pc \in Points : x = Top /\ Pc(u) = "run" /\ act'[u].pc = pc /\ Ends(x, s, pc)
               /\ \A v \in Task : v # u /\ v # x => act'[v] = act[v]
    BY <1>AwaitReturnThrow, PopsFx
  <2>2. pc # "none"
    BY <2>1 DEF Ends
  <2> QED
    BY <1>AwaitReturnThrow, <2>1, <2>2 DEF Pc
<1>AwaitRethrow. CASE AwaitRethrow
  <2>1. PICK x \in Task, u \in Task, s \in Status, pc \in Points : x = Top /\ Pc(u) = "run" /\ act'[u].pc = pc /\ Ends(x, s, pc)
               /\ \A v \in Task : v # u /\ v # x => act'[v] = act[v]
    BY <1>AwaitRethrow, PopsFx
  <2>2. pc # "none"
    BY <2>1 DEF Ends
  <2> QED
    BY <1>AwaitRethrow, <2>1, <2>2 DEF Pc
<1>RuntimeFinish. CASE RuntimeFinish
  BY <1>0, <1>RuntimeFinish, RuntimeFinishIs DEF Pc
<1>EventFires. CASE \E e \in Task : EventFires(e)
  BY <1>0, <1>EventFires, EventFiresIs DEF Pc
<1>Stutter. CASE UNCHANGED vars
  BY <1>0, <1>Stutter DEF Pc, vars
<1> QED
  BY StepCases, <1>TaskRuntime, <1>Await, <1>Start, <1>StartReject, <1>EventRun, <1>EventWake,
       <1>ChildrenReady, <1>ChildrenUnready, <1>StartChild, <1>AllOfBackYields,
       <1>AllOfBackGoesOn, <1>AnyOfBackWins, <1>AnyOfBackGoesOn, <1>AnyOfBackYields,
       <1>AllOfWakeYields, <1>AllOfWakeEnds, <1>AnyOfWake, <1>CanceledDirectlyLeaf,
       <1>CanceledDirectlyComb, <1>CanceledIndirectly, <1>CatchLeaf, <1>CatchComb, <1>CancelSkip,
       <1>CancelUnsupport, <1>CancelInterrupt, <1>CancelEndYields, <1>CancelEndDone,
       <1>UnsupportYields, <1>UnsupportDone, <1>AwaitReturn, <1>AwaitReturnThrow, <1>AwaitRethrow,
       <1>RuntimeFinish, <1>EventFires, <1>Stutter

LEMMA BusyStep ==
    ASSUME IndInv, [Next]_vars
    PROVE  \A c \in Task :
             \/ Busy(c)' = Busy(c)
             \/ TaskRuntime /\ c = running
             \/ RuntimeFinish /\ c = running /\ ~Busy(c)'
<1>0. PICK r, t : r = running /\ t = Top
  OBVIOUS
<1>TaskRuntime. CASE TaskRuntime
  BY <1>0, <1>TaskRuntime, TaskRuntimeIs, TaskRuntimeFx
<1>Await. CASE Await
  BY <1>0, <1>Await, AwaitIs, AwaitFx
<1>Start. CASE Start
  BY <1>0, <1>Start, StartIs, KeepsFrame
<1>StartReject. CASE StartReject
  BY <1>0, <1>StartReject, StartRejectIs, KeepsFrame
<1>EventRun. CASE EventRun
  BY <1>0, <1>EventRun, EventRunIs, KeepsFrame
<1>EventWake. CASE EventWake
  BY <1>0, <1>EventWake, EventWakeIs, KeepsFrame
<1>ChildrenReady. CASE ChildrenReady
  BY <1>0, <1>ChildrenReady, ChildrenReadyIs, KeepsFrame
<1>ChildrenUnready. CASE ChildrenUnready
  BY <1>0, <1>ChildrenUnready, ChildrenUnreadyIs, KeepsFrame
<1>StartChild. CASE StartChild
  BY <1>0, <1>StartChild, StartChildIs, KeepsFrame
<1>AllOfBackYields. CASE AllOfBackYields
  BY <1>0, <1>AllOfBackYields, AllOfBackYieldsIs, KeepsFrame DEF AllOfBackYields
<1>AllOfBackGoesOn. CASE AllOfBackGoesOn
  BY <1>0, <1>AllOfBackGoesOn, AllOfBackGoesOnIs, KeepsFrame DEF AllOfBackGoesOn
<1>AnyOfBackWins. CASE AnyOfBackWins
  BY <1>0, <1>AnyOfBackWins, AnyOfBackWinsIs, KeepsFrame DEF AnyOfBackWins
<1>AnyOfBackGoesOn. CASE AnyOfBackGoesOn
  BY <1>0, <1>AnyOfBackGoesOn, AnyOfBackGoesOnIs, KeepsFrame DEF AnyOfBackGoesOn
<1>AnyOfBackYields. CASE AnyOfBackYields
  BY <1>0, <1>AnyOfBackYields, AnyOfBackYieldsIs, KeepsFrame DEF AnyOfBackYields
<1>AllOfWakeYields. CASE AllOfWakeYields
  BY <1>0, <1>AllOfWakeYields, AllOfWakeYieldsIs, KeepsFrame DEF AllOfWakeYields
<1>AllOfWakeEnds. CASE AllOfWakeEnds
  BY <1>0, <1>AllOfWakeEnds, AllOfWakeEndsIs, KeepsFrame DEF AllOfWakeEnds
<1>AnyOfWake. CASE AnyOfWake
  BY <1>0, <1>AnyOfWake, AnyOfWakeIs, KeepsFrame
<1>CanceledDirectlyLeaf. CASE CanceledDirectlyLeaf
  BY <1>0, <1>CanceledDirectlyLeaf, CanceledDirectlyLeafIs, KeepsFrame DEF CanceledDirectlyLeaf
<1>CanceledDirectlyComb. CASE CanceledDirectlyComb
  BY <1>0, <1>CanceledDirectlyComb, CanceledDirectlyCombIs, KeepsFrame DEF CanceledDirectlyComb
<1>CanceledIndirectly. CASE CanceledIndirectly
  BY <1>0, <1>CanceledIndirectly, CanceledIndirectlyIs, KeepsFrame
<1>CatchLeaf. CASE CatchLeaf
  BY <1>0, <1>CatchLeaf, CatchLeafIs, KeepsFrame DEF CatchLeaf
<1>CatchComb. CASE CatchComb
  BY <1>0, <1>CatchComb, CatchCombIs, KeepsFrame DEF CatchComb
<1>CancelSkip. CASE CancelSkip
  BY <1>0, <1>CancelSkip, CancelSkipIs, KeepsFrame
<1>CancelUnsupport. CASE CancelUnsupport
  BY <1>0, <1>CancelUnsupport, CancelUnsupportIs, KeepsFrame
<1>CancelInterrupt. CASE CancelInterrupt
  BY <1>0, <1>CancelInterrupt, CancelInterruptIs, KeepsFrame
<1>CancelEndYields. CASE CancelEndYields
  BY <1>0, <1>CancelEndYields, CancelEndYieldsIs, KeepsFrame DEF CancelEndYields
<1>CancelEndDone. CASE CancelEndDone
  BY <1>0, <1>CancelEndDone, CancelEndDoneIs, KeepsFrame DEF CancelEndDone
<1>UnsupportYields. CASE UnsupportYields
  BY <1>0, <1>UnsupportYields, UnsupportYieldsIs, KeepsFrame DEF UnsupportYields
<1>UnsupportDone. CASE UnsupportDone
  BY <1>0, <1>UnsupportDone, UnsupportDoneIs, KeepsFrame DEF UnsupportDone
<1>AwaitReturn. CASE AwaitReturn
  BY <1>0, <1>AwaitReturn, AwaitReturnIs, PopsBusy
<1>AwaitReturnThrow. CASE AwaitReturnThrow
  BY <1>0, <1>AwaitReturnThrow, AwaitReturnThrowIs, PopsBusy
<1>AwaitRethrow. CASE AwaitRethrow
  BY <1>0, <1>AwaitRethrow, AwaitRethrowIs, PopsBusy
<1>RuntimeFinish. CASE RuntimeFinish
  BY <1>0, <1>RuntimeFinish, RuntimeFinishIs, FinishFx
<1>EventFires. CASE \E e \in Task : EventFires(e)
  BY <1>0, <1>EventFires, EventFiresIs DEF Busy
<1>Stutter. CASE UNCHANGED vars
  BY <1>0, <1>Stutter DEF Busy, vars
<1> QED
  BY StepCases, <1>TaskRuntime, <1>Await, <1>Start, <1>StartReject, <1>EventRun, <1>EventWake,
       <1>ChildrenReady, <1>ChildrenUnready, <1>StartChild, <1>AllOfBackYields,
       <1>AllOfBackGoesOn, <1>AnyOfBackWins, <1>AnyOfBackGoesOn, <1>AnyOfBackYields,
       <1>AllOfWakeYields, <1>AllOfWakeEnds, <1>AnyOfWake, <1>CanceledDirectlyLeaf,
       <1>CanceledDirectlyComb, <1>CanceledIndirectly, <1>CatchLeaf, <1>CatchComb, <1>CancelSkip,
       <1>CancelUnsupport, <1>CancelInterrupt, <1>CancelEndYields, <1>CancelEndDone,
       <1>UnsupportYields, <1>UnsupportDone, <1>AwaitReturn, <1>AwaitReturnThrow, <1>AwaitRethrow,
       <1>RuntimeFinish, <1>EventFires, <1>Stutter

LEMMA FinishToSame ==
    ASSUME IndInv, [Next]_vars
    PROVE  \A x \in Task : Begun(x) => finish_to'[x] = finish_to[x]
<1>0. PICK r, t : r = running /\ t = Top
  OBVIOUS
<1>TaskRuntime. CASE TaskRuntime
  BY <1>0, <1>TaskRuntime, TaskRuntimeIs
<1>Await. CASE Await
  BY <1>0, <1>Await, AwaitIs, AwaitFx DEF Begun
<1>Start. CASE Start
  BY <1>0, <1>Start, StartIs, StartFx DEF Begun
<1>StartReject. CASE StartReject
  BY <1>0, <1>StartReject, StartRejectIs, KeepsFrame
<1>EventRun. CASE EventRun
  BY <1>0, <1>EventRun, EventRunIs, KeepsFrame
<1>EventWake. CASE EventWake
  BY <1>0, <1>EventWake, EventWakeIs, KeepsFrame
<1>ChildrenReady. CASE ChildrenReady
  BY <1>0, <1>ChildrenReady, ChildrenReadyIs, KeepsFrame DEF Begun
<1>ChildrenUnready. CASE ChildrenUnready
  BY <1>0, <1>ChildrenUnready, ChildrenUnreadyIs, KeepsFrame DEF Begun, Untouched
<1>StartChild. CASE StartChild
  BY <1>0, <1>StartChild, StartChildIs, KeepsFrame
<1>AllOfBackYields. CASE AllOfBackYields
  BY <1>0, <1>AllOfBackYields, AllOfBackYieldsIs, KeepsFrame DEF AllOfBackYields
<1>AllOfBackGoesOn. CASE AllOfBackGoesOn
  BY <1>0, <1>AllOfBackGoesOn, AllOfBackGoesOnIs, KeepsFrame DEF AllOfBackGoesOn
<1>AnyOfBackWins. CASE AnyOfBackWins
  BY <1>0, <1>AnyOfBackWins, AnyOfBackWinsIs, KeepsFrame DEF AnyOfBackWins
<1>AnyOfBackGoesOn. CASE AnyOfBackGoesOn
  BY <1>0, <1>AnyOfBackGoesOn, AnyOfBackGoesOnIs, KeepsFrame DEF AnyOfBackGoesOn
<1>AnyOfBackYields. CASE AnyOfBackYields
  BY <1>0, <1>AnyOfBackYields, AnyOfBackYieldsIs, KeepsFrame DEF AnyOfBackYields
<1>AllOfWakeYields. CASE AllOfWakeYields
  BY <1>0, <1>AllOfWakeYields, AllOfWakeYieldsIs, KeepsFrame DEF AllOfWakeYields
<1>AllOfWakeEnds. CASE AllOfWakeEnds
  BY <1>0, <1>AllOfWakeEnds, AllOfWakeEndsIs, KeepsFrame DEF AllOfWakeEnds
<1>AnyOfWake. CASE AnyOfWake
  BY <1>0, <1>AnyOfWake, AnyOfWakeIs, KeepsFrame
<1>CanceledDirectlyLeaf. CASE CanceledDirectlyLeaf
  BY <1>0, <1>CanceledDirectlyLeaf, CanceledDirectlyLeafIs, KeepsFrame DEF CanceledDirectlyLeaf
<1>CanceledDirectlyComb. CASE CanceledDirectlyComb
  BY <1>0, <1>CanceledDirectlyComb, CanceledDirectlyCombIs, KeepsFrame DEF CanceledDirectlyComb
<1>CanceledIndirectly. CASE CanceledIndirectly
  BY <1>0, <1>CanceledIndirectly, CanceledIndirectlyIs, KeepsFrame
<1>CatchLeaf. CASE CatchLeaf
  BY <1>0, <1>CatchLeaf, CatchLeafIs, KeepsFrame DEF CatchLeaf
<1>CatchComb. CASE CatchComb
  BY <1>0, <1>CatchComb, CatchCombIs, KeepsFrame DEF CatchComb
<1>CancelSkip. CASE CancelSkip
  BY <1>0, <1>CancelSkip, CancelSkipIs, KeepsFrame
<1>CancelUnsupport. CASE CancelUnsupport
  BY <1>0, <1>CancelUnsupport, CancelUnsupportIs, KeepsFrame
<1>CancelInterrupt. CASE CancelInterrupt
  BY <1>0, <1>CancelInterrupt, CancelInterruptIs, KeepsFrame
<1>CancelEndYields. CASE CancelEndYields
  BY <1>0, <1>CancelEndYields, CancelEndYieldsIs, KeepsFrame DEF CancelEndYields
<1>CancelEndDone. CASE CancelEndDone
  BY <1>0, <1>CancelEndDone, CancelEndDoneIs, KeepsFrame DEF CancelEndDone
<1>UnsupportYields. CASE UnsupportYields
  BY <1>0, <1>UnsupportYields, UnsupportYieldsIs, KeepsFrame DEF UnsupportYields
<1>UnsupportDone. CASE UnsupportDone
  BY <1>0, <1>UnsupportDone, UnsupportDoneIs, KeepsFrame DEF UnsupportDone
<1>AwaitReturn. CASE AwaitReturn
  BY <1>0, <1>AwaitReturn, AwaitReturnIs, PopsFx
<1>AwaitReturnThrow. CASE AwaitReturnThrow
  BY <1>0, <1>AwaitReturnThrow, AwaitReturnThrowIs, PopsFx
<1>AwaitRethrow. CASE AwaitRethrow
  BY <1>0, <1>AwaitRethrow, AwaitRethrowIs, PopsFx
<1>RuntimeFinish. CASE RuntimeFinish
  BY <1>0, <1>RuntimeFinish, RuntimeFinishIs
<1>EventFires. CASE \E e \in Task : EventFires(e)
  BY <1>0, <1>EventFires, EventFiresIs
<1>Stutter. CASE UNCHANGED vars
  BY <1>0, <1>Stutter DEF vars, objectVars
<1> QED
  BY StepCases, <1>TaskRuntime, <1>Await, <1>Start, <1>StartReject, <1>EventRun, <1>EventWake,
       <1>ChildrenReady, <1>ChildrenUnready, <1>StartChild, <1>AllOfBackYields,
       <1>AllOfBackGoesOn, <1>AnyOfBackWins, <1>AnyOfBackGoesOn, <1>AnyOfBackYields,
       <1>AllOfWakeYields, <1>AllOfWakeEnds, <1>AnyOfWake, <1>CanceledDirectlyLeaf,
       <1>CanceledDirectlyComb, <1>CanceledIndirectly, <1>CatchLeaf, <1>CatchComb, <1>CancelSkip,
       <1>CancelUnsupport, <1>CancelInterrupt, <1>CancelEndYields, <1>CancelEndDone,
       <1>UnsupportYields, <1>UnsupportDone, <1>AwaitReturn, <1>AwaitReturnThrow, <1>AwaitRethrow,
       <1>RuntimeFinish, <1>EventFires, <1>Stutter

LEMMA UidSame ==
    ASSUME IndInv, [Next]_vars
    PROVE  \A k \in Task : Pc(k) \in AtWork => uid'[k] = uid[k]
<1>0. PICK r, t : r = running /\ t = Top
  OBVIOUS
<1>TaskRuntime. CASE TaskRuntime
  BY <1>0, <1>TaskRuntime, TaskRuntimeIs
<1>Await. CASE Await
  BY <1>0, <1>Await, AwaitIs, AwaitFx DEF AtWork
<1>Start. CASE Start
  BY <1>0, <1>Start, StartIs, KeepsFrame
<1>StartReject. CASE StartReject
  BY <1>0, <1>StartReject, StartRejectIs, KeepsFrame
<1>EventRun. CASE EventRun
  BY <1>0, <1>EventRun, EventRunIs, KeepsFrame
<1>EventWake. CASE EventWake
  BY <1>0, <1>EventWake, EventWakeIs, KeepsFrame
<1>ChildrenReady. CASE ChildrenReady
  BY <1>0, <1>ChildrenReady, ChildrenReadyIs, KeepsFrame
<1>ChildrenUnready. CASE ChildrenUnready
  BY <1>0, <1>ChildrenUnready, ChildrenUnreadyIs, KeepsFrame
<1>StartChild. CASE StartChild
  BY <1>0, <1>StartChild, StartChildIs, KeepsFrame
<1>AllOfBackYields. CASE AllOfBackYields
  BY <1>0, <1>AllOfBackYields, AllOfBackYieldsIs, KeepsFrame DEF AllOfBackYields
<1>AllOfBackGoesOn. CASE AllOfBackGoesOn
  BY <1>0, <1>AllOfBackGoesOn, AllOfBackGoesOnIs, KeepsFrame DEF AllOfBackGoesOn
<1>AnyOfBackWins. CASE AnyOfBackWins
  BY <1>0, <1>AnyOfBackWins, AnyOfBackWinsIs, KeepsFrame DEF AnyOfBackWins
<1>AnyOfBackGoesOn. CASE AnyOfBackGoesOn
  BY <1>0, <1>AnyOfBackGoesOn, AnyOfBackGoesOnIs, KeepsFrame DEF AnyOfBackGoesOn
<1>AnyOfBackYields. CASE AnyOfBackYields
  BY <1>0, <1>AnyOfBackYields, AnyOfBackYieldsIs, KeepsFrame DEF AnyOfBackYields
<1>AllOfWakeYields. CASE AllOfWakeYields
  BY <1>0, <1>AllOfWakeYields, AllOfWakeYieldsIs, KeepsFrame DEF AllOfWakeYields
<1>AllOfWakeEnds. CASE AllOfWakeEnds
  BY <1>0, <1>AllOfWakeEnds, AllOfWakeEndsIs, KeepsFrame DEF AllOfWakeEnds
<1>AnyOfWake. CASE AnyOfWake
  BY <1>0, <1>AnyOfWake, AnyOfWakeIs, KeepsFrame
<1>CanceledDirectlyLeaf. CASE CanceledDirectlyLeaf
  BY <1>0, <1>CanceledDirectlyLeaf, CanceledDirectlyLeafIs, KeepsFrame DEF CanceledDirectlyLeaf
<1>CanceledDirectlyComb. CASE CanceledDirectlyComb
  BY <1>0, <1>CanceledDirectlyComb, CanceledDirectlyCombIs, KeepsFrame DEF CanceledDirectlyComb
<1>CanceledIndirectly. CASE CanceledIndirectly
  BY <1>0, <1>CanceledIndirectly, CanceledIndirectlyIs, KeepsFrame
<1>CatchLeaf. CASE CatchLeaf
  BY <1>0, <1>CatchLeaf, CatchLeafIs, KeepsFrame DEF CatchLeaf
<1>CatchComb. CASE CatchComb
  BY <1>0, <1>CatchComb, CatchCombIs, KeepsFrame DEF CatchComb
<1>CancelSkip. CASE CancelSkip
  BY <1>0, <1>CancelSkip, CancelSkipIs, KeepsFrame
<1>CancelUnsupport. CASE CancelUnsupport
  BY <1>0, <1>CancelUnsupport, CancelUnsupportIs, KeepsFrame
<1>CancelInterrupt. CASE CancelInterrupt
  BY <1>0, <1>CancelInterrupt, CancelInterruptIs, KeepsFrame
<1>CancelEndYields. CASE CancelEndYields
  BY <1>0, <1>CancelEndYields, CancelEndYieldsIs, KeepsFrame DEF CancelEndYields
<1>CancelEndDone. CASE CancelEndDone
  BY <1>0, <1>CancelEndDone, CancelEndDoneIs, KeepsFrame DEF CancelEndDone
<1>UnsupportYields. CASE UnsupportYields
  BY <1>0, <1>UnsupportYields, UnsupportYieldsIs, KeepsFrame DEF UnsupportYields
<1>UnsupportDone. CASE UnsupportDone
  BY <1>0, <1>UnsupportDone, UnsupportDoneIs, KeepsFrame DEF UnsupportDone
<1>AwaitReturn. CASE AwaitReturn
  <2>1. PICK x \in Task, u \in Task, s \in Status, pc \in Points : Ends(x, s, pc) /\ \A v \in Task : v # x => uid'[v] = uid[v]
    BY <1>AwaitReturn, PopsFx
  <2> QED
    BY <2>1 DEF Ends, AtWork
<1>AwaitReturnThrow. CASE AwaitReturnThrow
  <2>1. PICK x \in Task, u \in Task, s \in Status, pc \in Points : Ends(x, s, pc) /\ \A v \in Task : v # x => uid'[v] = uid[v]
    BY <1>AwaitReturnThrow, PopsFx
  <2> QED
    BY <2>1 DEF Ends, AtWork
<1>AwaitRethrow. CASE AwaitRethrow
  <2>1. PICK x \in Task, u \in Task, s \in Status, pc \in Points : Ends(x, s, pc) /\ \A v \in Task : v # x => uid'[v] = uid[v]
    BY <1>AwaitRethrow, PopsFx
  <2> QED
    BY <2>1 DEF Ends, AtWork
<1>RuntimeFinish. CASE RuntimeFinish
  BY <1>0, <1>RuntimeFinish, RuntimeFinishIs
<1>EventFires. CASE \E e \in Task : EventFires(e)
  BY <1>0, <1>EventFires, EventFiresIs
<1>Stutter. CASE UNCHANGED vars
  BY <1>0, <1>Stutter DEF vars, objectVars
<1> QED
  BY StepCases, <1>TaskRuntime, <1>Await, <1>Start, <1>StartReject, <1>EventRun, <1>EventWake,
       <1>ChildrenReady, <1>ChildrenUnready, <1>StartChild, <1>AllOfBackYields,
       <1>AllOfBackGoesOn, <1>AnyOfBackWins, <1>AnyOfBackGoesOn, <1>AnyOfBackYields,
       <1>AllOfWakeYields, <1>AllOfWakeEnds, <1>AnyOfWake, <1>CanceledDirectlyLeaf,
       <1>CanceledDirectlyComb, <1>CanceledIndirectly, <1>CatchLeaf, <1>CatchComb, <1>CancelSkip,
       <1>CancelUnsupport, <1>CancelInterrupt, <1>CancelEndYields, <1>CancelEndDone,
       <1>UnsupportYields, <1>UnsupportDone, <1>AwaitReturn, <1>AwaitReturnThrow, <1>AwaitRethrow,
       <1>RuntimeFinish, <1>EventFires, <1>Stutter


\* The same for the children of combinators.
LEMMA KidLife ==
    ASSUME IndInv, [Next]_vars, NEW k \in Task, NEW j \in DOMAIN Children(k)
    PROVE  /\ \/ Pc(Children(k)[j]) # "none" <=> Pc(Children(k)[j])' # "none"
              \/ TaskRuntime /\ Children(k)[j] = running
              \/ RuntimeFinish /\ Children(k)[j] = running
           /\ Begun(Children(k)[j])' => \/ Begun(Children(k)[j])
                                        \/ StartChild /\ k = Top /\ j = act[Top].i
           /\ Children(k)[j] \in Task /\ Children(k)' = Children(k)
<1>1. PICK x \in Task : x = Children(k)[j] /\ IsKid(x)
  BY KidFacts DEF IndInv, IsKid
<1>2. ~(Await /\ x = Target)
  BY <1>1, AwaitFx
<1>3. ~((AwaitReturn \/ AwaitReturnThrow \/ AwaitRethrow) /\ x = Top)
  <2> SUFFICES ASSUME AwaitReturn \/ AwaitReturnThrow \/ AwaitRethrow, x = Top PROVE FALSE
    OBVIOUS
  <2>1. Pc(x) # "none" /\ uid[x] = running /\ x # running
    BY PopsFx
  <2> QED
    BY <1>1, <2>1, KidBase
<1>4. Children(k)' = Children(k)
  BY ProgSame, SameProgram
<1>5. \/ Pc(x) # "none" <=> Pc(x)' # "none"
      \/ TaskRuntime /\ x = running
      \/ RuntimeFinish /\ x = running
  BY <1>2, <1>3, LifeStep
<1>6. ASSUME Begun(x)', ~Begun(x) PROVE StartChild /\ k = Top /\ j = act[Top].i
  <2>1. Pc(x) = "none" /\ x # running /\ Pc(x)' = "none" /\ x = running'
    BY <1>5, <1>6 DEF Begun
  <2>2. ~Busy(x)
    BY <2>1, BusyFacts
  <2>3. ~Busy(x)'
    BY <2>1, <2>2, BusyStep
  <2>4. Entering(x)'
    BY <2>1, <2>3 DEF Entering
  <2>5. StartChild /\ x = Children(Top)[act[Top].i]
    <3>1. ~(Start /\ x = Target)
      BY <1>1, StartFx
    <3>2. ~(UNCHANGED vars /\ Entering(x))
      BY <2>1 DEF Entering
    <3> QED
      BY <2>4, <3>1, <3>2, WhoEnters
  <2>6. PICK t \in Task : t = Top /\ act[t].i \in DOMAIN Children(t) /\ Children(t)[act[t].i] = x
    BY <2>5, StartChildIs, KeepsFrame, StartChildFx
  <2>7. k = t /\ j = act[t].i
    BY <1>1, <2>6, KidFacts DEF IndInv
  <2> QED
    BY <2>5, <2>6, <2>7
<1>7. \/ Pc(x) # "none" <=> (Pc(Children(k)[j])' # "none")
      \/ TaskRuntime /\ x = running
      \/ RuntimeFinish /\ x = running
  BY <1>1, <1>4, <1>5
<1>8. Begun(Children(k)[j])' => Begun(x) \/ (StartChild /\ k = Top /\ j = act[Top].i)
  BY <1>1, <1>4, <1>6
<1> QED
  BY <1>1, <1>4, <1>7, <1>8

\* When all_of ends by itself all its children have completed.
LEMMA AllOfDone ==
    ASSUME IndInv, NEW t \in Task, t = Top,
           (AllOfBackGoesOn /\ act[t].i = Len(Children(t))) \/ AllOfWakeEnds
    PROVE  Completed(t) = DOMAIN Children(t)
<1>1. CASE AllOfBackGoesOn /\ act[t].i = Len(Children(t))
  <2>1. /\ Pc(t) = "child" /\ Kind(t) = "all_of" /\ Here = act[t] /\ Count(Here) = 0 /\ Keeps
        /\ act[t].n \in Nat
    BY <1>1, AllOfBackGoesOnIs, StackTypes DEF AllOfBackGoesOn, Here
  <2>2. PICK j \in DOMAIN Children(t) : j = act[t].i
    BY <2>1, StartsKid
  <2>3. AwaitedButOne(t) \in SUBSET DOMAIN Children(t) /\ j \in AwaitedButOne(t)
    BY <2>2 DEF AwaitedButOne
  <2>4. act[t].n = Cardinality(AwaitedButOne(t))
    BY <2>1 DEF IndInv, CountInv, CountOf
  <2>5. act[t].n # 0
    BY <2>3, <2>4, KidSets
  <2>6. status[Children(t)[j]] = "completed" /\ act[t].n = 1
    BY <2>1, <2>2, <2>5 DEF Count
  <2>7. Cardinality(AwaitedButOne(t) \ {j}) = 0
    <3>1. Cardinality(AwaitedButOne(t) \ {j}) = Cardinality(AwaitedButOne(t)) - 1
      BY <2>3, KidSets
    <3> QED
      BY <2>4, <2>6, <3>1
  <2>8. AwaitedButOne(t) \ {j} \in SUBSET DOMAIN Children(t)
    BY <2>3
  <2>9. AwaitedButOne(t) \ {j} = {}
    BY <2>7, <2>8, KidSets
  <2> QED
    BY <2>2, <2>6, <2>9 DEF AwaitedButOne, Completed
<1>2. CASE AllOfWakeEnds
  <2>1. /\ Pc(t) = "wait" /\ Kind(t) = "all_of" /\ ~global_signal_canceled /\ act[t].n <= 1
        /\ uid[t] = running /\ act[t].n \in Nat
    BY <1>2, AllOfWakeEndsIs, KeepsFrame, StackTypes DEF AllOfWakeEnds
  <2>2. act[t].n >= 1 /\ act[t].n = Cardinality(Awaited(t)) + 1
    BY <2>1 DEF IndInv, CountInv, CountOf, Woken
  <2>3. Awaited(t) \in SUBSET DOMAIN Children(t)
    BY DEF Awaited
  <2>4. Cardinality(Awaited(t)) \in Nat
    BY <2>3, KidSets
  <2>5. Cardinality(Awaited(t)) = 0
    BY <2>1, <2>2, <2>4
  <2>6. Awaited(t) = {}
    BY <2>3, <2>5, KidSets
  <2> QED
    BY <2>6 DEF Awaited, Completed
<1> QED
  BY <1>1, <1>2

\* When __task_cancel_children ends no child is active any more.
LEMMA CancelDone ==
    ASSUME IndInv, NEW t \in Task, t = Top, CancelEndDone \/ UnsupportDone
    PROVE  LiveKids(t) = {}
<1>1. CASE CancelEndDone
  <2>1. /\ Pc(t) = "cancel" /\ act[t].i > Len(Children(t)) /\ act[t].n = 0 /\ uid[t] = running
        /\ act[t].i \in Nat /\ DOMAIN Children(t) = 1..Len(Children(t)) /\ Len(Children(t)) \in Nat
    BY <1>1, CancelEndDoneIs, KeepsFrame, StackTypes, TaskFacts DEF CancelEndDone, IndInv
  <2>2. Cardinality(Kept(t)) = 0
    BY <2>1 DEF IndInv, CountInv, CountOf
  <2>3. Kept(t) \in SUBSET DOMAIN Children(t)
    BY DEF Kept, LiveKids
  <2>4. Kept(t) = {}
    BY <2>2, <2>3, KidSets
  <2>5. \A j \in DOMAIN Children(t) : j < act[t].i
    BY <2>1
  <2> QED
    BY <2>1, <2>4, <2>5 DEF Kept, LiveKids
<1>2. CASE UnsupportDone
  <2>1. /\ Pc(t) = "unsupport" /\ ~global_signal_canceled /\ act[t].n <= 1 /\ uid[t] = running
        /\ act[t].n \in Nat
    BY <1>2, UnsupportDoneIs, KeepsFrame, StackTypes DEF UnsupportDone
  <2>2. act[t].n >= 1 /\ act[t].n = Cardinality(LiveKids(t)) + 1
    BY <2>1 DEF IndInv, CountInv, CountOf, Woken
  <2>3. LiveKids(t) \in SUBSET DOMAIN Children(t)
    BY DEF LiveKids
  <2>4. Cardinality(LiveKids(t)) \in Nat
    BY <2>3, KidSets
  <2>5. Cardinality(LiveKids(t)) = 0
    BY <2>1, <2>2, <2>4
  <2> QED
    BY <2>3, <2>5, KidSets
<1> QED
  BY <1>1, <1>2

\* A combinator does not leave its children behind.
LEMMA NoneLeft ==
    ASSUME IndInv, NEW t \in Task, t = Top,
           \/ (AllOfBackGoesOn /\ act[t].i = Len(Children(t))) \/ AllOfWakeEnds
           \/ CancelEndDone \/ UnsupportDone
    PROVE  \A j \in DOMAIN Children(t) : ~Begun(Children(t)[j])
<1> SUFFICES ASSUME NEW j \in DOMAIN Children(t) PROVE ~Begun(Children(t)[j])
  OBVIOUS
<1>1. running # Loop /\ Busy(running)
  BY AllOfBackGoesOnIs, AllOfWakeEndsIs, CancelEndDoneIs, UnsupportDoneIs
     DEF AllOfBackGoesOn, AllOfWakeEnds, CancelEndDone, UnsupportDone, Keeps
<1>2. PICK x \in Task : x = Children(t)[j] /\ x # running
  BY <1>1, KidSuspended
<1>3. CASE (AllOfBackGoesOn /\ act[t].i = Len(Children(t))) \/ AllOfWakeEnds
  <2>1. Completed(t) = DOMAIN Children(t)
    BY <1>3, AllOfDone
  <2>2. status[x] = "completed"
    BY <1>2, <2>1 DEF Completed
  <2>3. Pc(x) = "none"
    BY <2>2 DEF IndInv, StatusInv
  <2> QED
    BY <1>2, <2>3 DEF Begun
<1>4. CASE CancelEndDone \/ UnsupportDone
  <2>1. LiveKids(t) = {}
    BY <1>4, CancelDone
  <2>2. Pc(x) = "none"
    BY <1>2, <2>1 DEF LiveKids
  <2> QED
    BY <1>2, <2>2 DEF Begun
<1> QED
  BY <1>3, <1>4

LEMMA WorkStep ==
    ASSUME IndInv, [Next]_vars
    PROVE  \A k \in Task : Pc(k) \in AtWork =>
             Pc(k)' \in AtWork \/ \A j \in DOMAIN Children(k) : ~Begun(Children(k)[j])
<1>0. PICK r, t : r = running /\ t = Top
  OBVIOUS
<1>k. \A k \in Task : \A j \in DOMAIN Children(k) : Kind(k) \in Combinators
  BY KidFacts DEF IndInv
<1>TaskRuntime. CASE TaskRuntime
  BY <1>0, <1>TaskRuntime, TaskRuntimeIs DEF Pc, AtWork
<1>Await. CASE Await
  <2>1. PICK x \in Task, u \in Task : Pc(u) = "run" /\ Pc(x) = "none" /\ \A v \in Task : v # u /\ v # x => act'[v] = act[v]
    BY <1>Await, AwaitFx
  <2> QED
    BY <2>1 DEF Pc, AtWork
<1>Start. CASE Start
  <2>1. /\ t \in Task
        /\ Pc(t) = "run"
        /\ act'[t].pc = "run"
        /\ \A u \in Task : u # t => act'[u] = act[u]
        /\ uid' = uid /\ prog' = prog /\ stack' = stack /\ reuse' = reuse
    BY <1>0, <1>Start, StartIs, KeepsFrame, StartFx DEF Moves
  <2> QED
    BY <2>1 DEF Pc, AtWork
<1>StartReject. CASE StartReject
  <2>1. /\ t \in Task
        /\ Pc(t) = "run"
        /\ act'[t].pc = "run"
        /\ \A u \in Task : u # t => act'[u] = act[u]
        /\ uid' = uid /\ prog' = prog /\ stack' = stack /\ reuse' = reuse
    BY <1>0, <1>StartReject, StartRejectIs, KeepsFrame, CallIs DEF Moves, StartReject
  <2> QED
    BY <2>1 DEF Pc, AtWork
<1>EventRun. CASE EventRun
  <2>1. /\ t \in Task
        /\ Pc(t) = "run"
        /\ act'[t].pc = "wait"
        /\ \A u \in Task : u # t => act'[u] = act[u]
        /\ uid' = uid /\ prog' = prog /\ stack' = stack /\ reuse' = reuse
    BY <1>0, <1>EventRun, EventRunIs, KeepsFrame DEF Moves
  <2> QED
    BY <2>1 DEF Pc, AtWork
<1>EventWake. CASE EventWake
  <2>1. /\ t \in Task
        /\ Pc(t) = "wait"
        /\ act'[t].pc = "return"
        /\ \A u \in Task : u # t => act'[u] = act[u]
        /\ uid' = uid /\ prog' = prog /\ stack' = stack /\ reuse' = reuse
        /\ Kind(t) = "event"
    BY <1>0, <1>EventWake, EventWakeIs, KeepsFrame DEF Moves
  <2> QED
    BY <1>k, <2>1 DEF Pc, Combinators
<1>ChildrenReady. CASE ChildrenReady
  <2>1. /\ t \in Task
        /\ Pc(t) = "run"
        /\ act'[t].pc = "start"
        /\ \A u \in Task : u # t => act'[u] = act[u]
        /\ uid' = uid /\ prog' = prog /\ stack' = stack /\ reuse' = reuse
    BY <1>0, <1>ChildrenReady, ChildrenReadyIs, KeepsFrame DEF Moves
  <2> QED
    BY <2>1 DEF Pc, AtWork
<1>ChildrenUnready. CASE ChildrenUnready
  <2>1. /\ t \in Task
        /\ Pc(t) = "run"
        /\ act'[t].pc = "return"
        /\ \A u \in Task : u # t => act'[u] = act[u]
        /\ uid' = uid /\ prog' = prog /\ stack' = stack /\ reuse' = reuse
    BY <1>0, <1>ChildrenUnready, ChildrenUnreadyIs, KeepsFrame DEF Moves
  <2> QED
    BY <2>1 DEF Pc, AtWork
<1>StartChild. CASE StartChild
  <2>1. /\ t \in Task
        /\ Pc(t) = "start"
        /\ act'[t].pc = "child"
        /\ \A u \in Task : u # t => act'[u] = act[u]
        /\ uid' = uid /\ prog' = prog /\ stack' = stack /\ reuse' = reuse
    BY <1>0, <1>StartChild, StartChildIs, KeepsFrame DEF Moves
  <2> QED
    BY <2>1 DEF Pc, AtWork
<1>AllOfBackYields. CASE AllOfBackYields
  <2>1. /\ t \in Task
        /\ Pc(t) = "child"
        /\ act'[t].pc = "wait"
        /\ \A u \in Task : u # t => act'[u] = act[u]
        /\ uid' = uid /\ prog' = prog /\ stack' = stack /\ reuse' = reuse
    BY <1>0, <1>AllOfBackYields, AllOfBackYieldsIs, KeepsFrame DEF AllOfBackYields, Moves
  <2> QED
    BY <2>1 DEF Pc, AtWork
<1>AllOfBackGoesOn. CASE AllOfBackGoesOn
  <2>1. /\ t \in Task
        /\ Pc(t) = "child"
        /\ act'[t].pc = (IF act[t].i = Len(Children(t)) THEN "return" ELSE "start")
        /\ \A u \in Task : u # t => act'[u] = act[u]
        /\ uid' = uid /\ prog' = prog /\ stack' = stack /\ reuse' = reuse
    BY <1>0, <1>AllOfBackGoesOn, AllOfBackGoesOnIs, KeepsFrame DEF AllOfBackGoesOn, Moves
  <2>2. CASE act[t].i = Len(Children(t))
    BY <1>0, <1>AllOfBackGoesOn, <2>1, <2>2, NoneLeft DEF Pc
  <2>3. CASE act[t].i # Len(Children(t))
    BY <2>1, <2>3 DEF Pc, AtWork
  <2> QED
    BY <2>2, <2>3
<1>AnyOfBackWins. CASE AnyOfBackWins
  <2>1. /\ t \in Task
        /\ Pc(t) = "child"
        /\ act'[t].pc = "cancel"
        /\ \A u \in Task : u # t => act'[u] = act[u]
        /\ uid' = uid /\ prog' = prog /\ stack' = stack /\ reuse' = reuse
    BY <1>0, <1>AnyOfBackWins, AnyOfBackWinsIs, KeepsFrame DEF AnyOfBackWins, Moves
  <2> QED
    BY <2>1 DEF Pc, AtWork
<1>AnyOfBackGoesOn. CASE AnyOfBackGoesOn
  <2>1. /\ t \in Task
        /\ Pc(t) = "child"
        /\ act'[t].pc = "start"
        /\ \A u \in Task : u # t => act'[u] = act[u]
        /\ uid' = uid /\ prog' = prog /\ stack' = stack /\ reuse' = reuse
    BY <1>0, <1>AnyOfBackGoesOn, AnyOfBackGoesOnIs, KeepsFrame DEF AnyOfBackGoesOn, Moves
  <2> QED
    BY <2>1 DEF Pc, AtWork
<1>AnyOfBackYields. CASE AnyOfBackYields
  <2>1. /\ t \in Task
        /\ Pc(t) = "child"
        /\ act'[t].pc = "wait"
        /\ \A u \in Task : u # t => act'[u] = act[u]
        /\ uid' = uid /\ prog' = prog /\ stack' = stack /\ reuse' = reuse
    BY <1>0, <1>AnyOfBackYields, AnyOfBackYieldsIs, KeepsFrame DEF AnyOfBackYields, Moves
  <2> QED
    BY <2>1 DEF Pc, AtWork
<1>AllOfWakeYields. CASE AllOfWakeYields
  <2>1. /\ t \in Task
        /\ Pc(t) = "wait"
        /\ act'[t].pc = "wait"
        /\ \A u \in Task : u # t => act'[u] = act[u]
        /\ uid' = uid /\ prog' = prog /\ stack' = stack /\ reuse' = reuse
    BY <1>0, <1>AllOfWakeYields, AllOfWakeYieldsIs, KeepsFrame DEF AllOfWakeYields, Moves
  <2> QED
    BY <2>1 DEF Pc, AtWork
<1>AllOfWakeEnds. CASE AllOfWakeEnds
  <2>1. /\ t \in Task
        /\ Pc(t) = "wait"
        /\ act'[t].pc = "return"
        /\ \A u \in Task : u # t => act'[u] = act[u]
        /\ uid' = uid /\ prog' = prog /\ stack' = stack /\ reuse' = reuse
    BY <1>0, <1>AllOfWakeEnds, AllOfWakeEndsIs, KeepsFrame DEF AllOfWakeEnds, Moves
  <2> QED
    BY <1>0, <1>AllOfWakeEnds, <2>1, NoneLeft DEF Pc
<1>AnyOfWake. CASE AnyOfWake
  <2>1. /\ t \in Task
        /\ Pc(t) = "wait"
        /\ act'[t].pc = "cancel"
        /\ \A u \in Task : u # t => act'[u] = act[u]
        /\ uid' = uid /\ prog' = prog /\ stack' = stack /\ reuse' = reuse
    BY <1>0, <1>AnyOfWake, AnyOfWakeIs, KeepsFrame DEF Moves
  <2> QED
    BY <2>1 DEF Pc, AtWork
<1>CanceledDirectlyLeaf. CASE CanceledDirectlyLeaf
  <2>1. /\ t \in Task
        /\ Pc(t) = "wait"
        /\ act'[t].pc = "return"
        /\ \A u \in Task : u # t => act'[u] = act[u]
        /\ uid' = uid /\ prog' = prog /\ stack' = stack /\ reuse' = reuse
        /\ Kind(t) \notin Combinators
    BY <1>0, <1>CanceledDirectlyLeaf, CanceledDirectlyLeafIs, KeepsFrame
       DEF CanceledDirectlyLeaf, Moves
  <2> QED
    BY <1>k, <2>1 DEF Pc, Combinators
<1>CanceledDirectlyComb. CASE CanceledDirectlyComb
  <2>1. /\ t \in Task
        /\ Pc(t) = "wait"
        /\ act'[t].pc = "cancel"
        /\ \A u \in Task : u # t => act'[u] = act[u]
        /\ uid' = uid /\ prog' = prog /\ stack' = stack /\ reuse' = reuse
    BY <1>0, <1>CanceledDirectlyComb, CanceledDirectlyCombIs, KeepsFrame
       DEF CanceledDirectlyComb, Moves
  <2> QED
    BY <2>1 DEF Pc, AtWork
<1>CanceledIndirectly. CASE CanceledIndirectly
  <2>1. /\ t \in Task
        /\ Pc(t) = "wait"
        /\ act'[t].pc = "throw"
        /\ \A u \in Task : u # t => act'[u] = act[u]
        /\ uid' = uid /\ prog' = prog /\ stack' = stack /\ reuse' = reuse
    BY <1>0, <1>CanceledIndirectly, CanceledIndirectlyIs, KeepsFrame DEF Moves
  <2> QED
    BY <2>1 DEF Pc, AtWork
<1>CatchLeaf. CASE CatchLeaf
  <2>1. /\ t \in Task
        /\ Pc(t) = "throw"
        /\ act'[t].pc = "caught"
        /\ \A u \in Task : u # t => act'[u] = act[u]
        /\ uid' = uid /\ prog' = prog /\ stack' = stack /\ reuse' = reuse
        /\ Kind(t) \notin Combinators
    BY <1>0, <1>CatchLeaf, CatchLeafIs, KeepsFrame DEF CatchLeaf, Moves
  <2> QED
    BY <1>k, <2>1 DEF Pc, Combinators
<1>CatchComb. CASE CatchComb
  <2>1. /\ t \in Task
        /\ Pc(t) = "throw"
        /\ act'[t].pc = "cancel"
        /\ \A u \in Task : u # t => act'[u] = act[u]
        /\ uid' = uid /\ prog' = prog /\ stack' = stack /\ reuse' = reuse
    BY <1>0, <1>CatchComb, CatchCombIs, KeepsFrame DEF CatchComb, Moves
  <2> QED
    BY <2>1 DEF Pc, AtWork
<1>CancelSkip. CASE CancelSkip
  <2>1. /\ t \in Task
        /\ Pc(t) = "cancel"
        /\ act'[t].pc = "cancel"
        /\ \A u \in Task : u # t => act'[u] = act[u]
        /\ uid' = uid /\ prog' = prog /\ stack' = stack /\ reuse' = reuse
    BY <1>0, <1>CancelSkip, CancelSkipIs, KeepsFrame DEF Moves
  <2> QED
    BY <2>1 DEF Pc, AtWork
<1>CancelUnsupport. CASE CancelUnsupport
  <2>1. /\ t \in Task
        /\ Pc(t) = "cancel"
        /\ act'[t].pc = "cancel"
        /\ \A u \in Task : u # t => act'[u] = act[u]
        /\ uid' = uid /\ prog' = prog /\ stack' = stack /\ reuse' = reuse
    BY <1>0, <1>CancelUnsupport, CancelUnsupportIs, KeepsFrame DEF Moves
  <2> QED
    BY <2>1 DEF Pc, AtWork
<1>CancelInterrupt. CASE CancelInterrupt
  <2>1. /\ t \in Task
        /\ Pc(t) = "cancel"
        /\ act'[t].pc = "cancel"
        /\ \A u \in Task : u # t => act'[u] = act[u]
        /\ uid' = uid /\ prog' = prog /\ stack' = stack /\ reuse' = reuse
    BY <1>0, <1>CancelInterrupt, CancelInterruptIs, KeepsFrame DEF Moves
  <2> QED
    BY <2>1 DEF Pc, AtWork
<1>CancelEndYields. CASE CancelEndYields
  <2>1. /\ t \in Task
        /\ Pc(t) = "cancel"
        /\ act'[t].pc = "unsupport"
        /\ \A u \in Task : u # t => act'[u] = act[u]
        /\ uid' = uid /\ prog' = prog /\ stack' = stack /\ reuse' = reuse
    BY <1>0, <1>CancelEndYields, CancelEndYieldsIs, KeepsFrame DEF CancelEndYields, Moves
  <2> QED
    BY <2>1 DEF Pc, AtWork
<1>CancelEndDone. CASE CancelEndDone
  <2>1. /\ t \in Task
        /\ Pc(t) = "cancel"
        /\ act'[t].pc = act[t].next
        /\ \A u \in Task : u # t => act'[u] = act[u]
        /\ uid' = uid /\ prog' = prog /\ stack' = stack /\ reuse' = reuse
    BY <1>0, <1>CancelEndDone, CancelEndDoneIs, KeepsFrame DEF CancelEndDone, Moves
  <2> QED
    BY <1>0, <1>CancelEndDone, <2>1, NoneLeft DEF Pc
<1>UnsupportYields. CASE UnsupportYields
  <2>1. /\ t \in Task
        /\ Pc(t) = "unsupport"
        /\ act'[t].pc = "unsupport"
        /\ \A u \in Task : u # t => act'[u] = act[u]
        /\ uid' = uid /\ prog' = prog /\ stack' = stack /\ reuse' = reuse
    BY <1>0, <1>UnsupportYields, UnsupportYieldsIs, KeepsFrame DEF UnsupportYields, Moves
  <2> QED
    BY <2>1 DEF Pc, AtWork
<1>UnsupportDone. CASE UnsupportDone
  <2>1. /\ t \in Task
        /\ Pc(t) = "unsupport"
        /\ act'[t].pc = act[t].next
        /\ \A u \in Task : u # t => act'[u] = act[u]
        /\ uid' = uid /\ prog' = prog /\ stack' = stack /\ reuse' = reuse
    BY <1>0, <1>UnsupportDone, UnsupportDoneIs, KeepsFrame DEF UnsupportDone, Moves
  <2> QED
    BY <1>0, <1>UnsupportDone, <2>1, NoneLeft DEF Pc
<1>AwaitReturn. CASE AwaitReturn
  <2>1. PICK x \in Task, u \in Task, s \in Status, pc \in Points : /\ Pc(u) = "run" /\ Ends(x, s, pc)
               /\ \A v \in Task : v # u /\ v # x => act'[v] = act[v]
    BY <1>AwaitReturn, PopsFx
  <2>2. Pc(x) \notin AtWork
    BY <2>1 DEF Ends, AtWork
  <2> QED
    BY <2>1, <2>2 DEF Pc, AtWork
<1>AwaitReturnThrow. CASE AwaitReturnThrow
  <2>1. PICK x \in Task, u \in Task, s \in Status, pc \in Points : /\ Pc(u) = "run" /\ Ends(x, s, pc)
               /\ \A v \in Task : v # u /\ v # x => act'[v] = act[v]
    BY <1>AwaitReturnThrow, PopsFx
  <2>2. Pc(x) \notin AtWork
    BY <2>1 DEF Ends, AtWork
  <2> QED
    BY <2>1, <2>2 DEF Pc, AtWork
<1>AwaitRethrow. CASE AwaitRethrow
  <2>1. PICK x \in Task, u \in Task, s \in Status, pc \in Points : /\ Pc(u) = "run" /\ Ends(x, s, pc)
               /\ \A v \in Task : v # u /\ v # x => act'[v] = act[v]
    BY <1>AwaitRethrow, PopsFx
  <2>2. Pc(x) \notin AtWork
    BY <2>1 DEF Ends, AtWork
  <2> QED
    BY <2>1, <2>2 DEF Pc, AtWork
<1>RuntimeFinish. CASE RuntimeFinish
  BY <1>0, <1>RuntimeFinish, RuntimeFinishIs DEF Pc, AtWork
<1>EventFires. CASE \E e \in Task : EventFires(e)
  BY <1>0, <1>EventFires, EventFiresIs DEF Pc
<1>Stutter. CASE UNCHANGED vars
  BY <1>0, <1>Stutter DEF Pc, vars
<1> QED
  BY StepCases, <1>TaskRuntime, <1>Await, <1>Start, <1>StartReject, <1>EventRun, <1>EventWake,
       <1>ChildrenReady, <1>ChildrenUnready, <1>StartChild, <1>AllOfBackYields,
       <1>AllOfBackGoesOn, <1>AnyOfBackWins, <1>AnyOfBackGoesOn, <1>AnyOfBackYields,
       <1>AllOfWakeYields, <1>AllOfWakeEnds, <1>AnyOfWake, <1>CanceledDirectlyLeaf,
       <1>CanceledDirectlyComb, <1>CanceledIndirectly, <1>CatchLeaf, <1>CatchComb, <1>CancelSkip,
       <1>CancelUnsupport, <1>CancelInterrupt, <1>CancelEndYields, <1>CancelEndDone,
       <1>UnsupportYields, <1>UnsupportDone, <1>AwaitReturn, <1>AwaitReturnThrow, <1>AwaitRethrow,
       <1>RuntimeFinish, <1>EventFires, <1>Stutter


LEMMA FinishStep ==
    ASSUME IndInv, [Next]_vars
    PROVE  FinishInv'
<1>1. prog' = prog
  BY ProgSame
<1>2. \A k \in Task : Children(k)' = Children(k)
  BY <1>1, SameProgram
<1>3. ASSUME NEW k \in Task, NEW j \in DOMAIN Children(k), Begun(Children(k)[j])'
      PROVE  Pc(k)' \in AtWork /\ finish_to'[Children(k)[j]] = uid'[k]
  <2>1. PICK x \in Task : x = Children(k)[j]
    BY KidLife
  <2>2. CASE Begun(x)
    <3>1. Pc(k) \in AtWork /\ finish_to[x] = uid[k]
      BY <2>1, <2>2 DEF IndInv, FinishInv
    <3>2. Pc(k)' \in AtWork
      BY <2>1, <2>2, <3>1, WorkStep
    <3>3. finish_to'[x] = finish_to[x] /\ uid'[k] = uid[k]
      BY <2>2, <3>1, FinishToSame, UidSame
    <3> QED
      BY <2>1, <3>1, <3>2, <3>3
  <2>3. CASE ~Begun(x)
    <3>1. StartChild /\ k = Top /\ j = act[Top].i
      BY <1>3, <2>1, <2>3, KidLife
    <3>2. /\ Pc(k)' = "child" /\ uid' = uid /\ uid[k] = running
          /\ finish_to' = finish_to
      BY <3>1, StartChildIs, KeepsFrame DEF Moves, Pc
    <3>3. finish_to[x] = running
      BY <2>1, <3>1, StartChildFx
    <3> QED
      BY <2>1, <3>2, <3>3 DEF AtWork
  <2> QED
    BY <2>2, <2>3
<1>4. ASSUME NEW x \in Task, (x = running' \/ Busy(x)') /\ ~IsKid(x)' PROVE finish_to'[x] = Loop
  <2>1. ~IsKid(x)
    BY <1>2, <1>4 DEF IsKid
  <2>2. CASE x = running \/ Busy(x)
    <3>1. Begun(x) /\ finish_to[x] = Loop
      BY <2>1, <2>2, BusyFacts DEF IndInv, FinishInv, Begun
    <3> QED
      BY <3>1, FinishToSame
  <2>3. CASE ~(x = running \/ Busy(x))
    <3>1. ~Busy(x)'
      BY <2>3, BusyStep
    <3>2. Entering(x)'
      BY <1>4, <3>1 DEF Entering
    <3>3. ~(UNCHANGED vars /\ Entering(x))
      BY <2>3 DEF Entering
    <3>4. ~(StartChild /\ x = Children(Top)[act[Top].i])
      <4>1. StartChild /\ x = Children(Top)[act[Top].i] => Top \in Task /\ act[Top].i \in DOMAIN Children(Top)
        BY StartChildIs, KeepsFrame, StartChildFx
      <4> QED
        BY <2>1, <4>1 DEF IsKid
    <3>5. Start /\ x = Target
      BY <3>2, <3>3, <3>4, WhoEnters
    <3> QED
      BY <3>5, StartFx
  <2> QED
    BY <2>2, <2>3
<1>5. \A k \in Task : \A j \in DOMAIN Children(k)' : Begun(Children(k)[j])' =>
        Pc(k)' \in AtWork /\ (finish_to[Children(k)[j]])' = uid'[k]
  BY <1>2, <1>3
<1> QED
  BY <1>4, <1>5 DEF FinishInv

\* A step leaves the coroutines alone that do not have the thread.
LEMMA OtherStep ==
    ASSUME IndInv, [Next]_vars
    PROVE  \A c \in Task : c # running /\ Busy(c) => \A y \in Task : y = Inner(c) =>
             /\ Busy(c)' /\ Inner(c)' = y /\ act'[y] = act[y] /\ block_to'[y] = block_to[y]
             /\ status[c] = "canceled" => status'[c] = "canceled"
<1> SUFFICES ASSUME NEW c \in Task, c # running, Busy(c), NEW y \in Task, y = Inner(c)
             PROVE  /\ Busy(c)' /\ Inner(c)' = y /\ act'[y] = act[y] /\ block_to'[y] = block_to[y]
                    /\ status[c] = "canceled" => status'[c] = "canceled"
  OBVIOUS
<1>0. PICK r, t : r = running /\ t = Top
  OBVIOUS
<1>i. Pc(y) # "none" /\ uid[y] = c /\ Pc(c) # "none" /\ uid[c] = c
  BY BusyFacts
<1>t. status \in [Task -> Status]
  BY DEF IndInv, TypeOK
<1>TaskRuntime. CASE TaskRuntime
  <2>1. /\ r \in Task /\ block_to' = block_to /\ Pc(r) = "none" /\ \A u \in Task : u # r => act'[u] = act[u]
    BY <1>0, <1>TaskRuntime, TaskRuntimeIs
  <2>2. /\ \A u \in Task : u # r => status'[u] = status[u]
        /\ Busy(c)' /\ Inner(c)' = y
    BY <1>0, <1>TaskRuntime, TaskRuntimeFx
  <2> QED
    BY <1>0, <1>i, <2>1, <2>2
<1>Await. CASE Await
  <2>1. PICK x \in Task, u \in Task :
          /\ uid[u] = running /\ Pc(x) = "none" /\ Busy(c)' /\ Inner(c)' = y
          /\ \A v \in Task : v # u /\ v # x => act'[v] = act[v]
          /\ \A v \in Task : v # x => status'[v] = status[v]
          /\ \A v \in Task : v # x /\ v # u => block_to'[v] = block_to[v]
    BY <1>Await, AwaitFx
  <2> QED
    BY <1>0, <1>i, <2>1
<1>Start. CASE Start
  <2>1. /\ t \in Task /\ Busy(c)' /\ Inner(c)' = y /\ y # t /\ act'[y] = act[y]
        /\ block_to'[y] = block_to[y] /\ Keeps
    BY <1>0, <1>i, <1>Start, StartIs, KeepsFrame DEF Keeps
  <2>2. status' = status
    BY <1>Start, StartIs
  <2> QED
    BY <1>t, <2>1, <2>2
<1>StartReject. CASE StartReject
  <2>1. /\ t \in Task /\ Busy(c)' /\ Inner(c)' = y /\ y # t /\ act'[y] = act[y]
        /\ block_to'[y] = block_to[y] /\ Keeps
    BY <1>0, <1>i, <1>StartReject, StartRejectIs, KeepsFrame DEF Keeps
  <2>2. status[c] = "canceled" => status'[c] = "canceled"
    <3>1. Target \in Task /\ Pc(Target) = "none" /\ status' = [status EXCEPT ![Target] = "deleted"]
      BY <1>StartReject, StartRejectIs, CallIs DEF StartReject
    <3> QED
      BY <1>i, <1>t, <3>1
  <2> QED
    BY <1>t, <2>1, <2>2
<1>EventRun. CASE EventRun
  <2>1. /\ t \in Task /\ Busy(c)' /\ Inner(c)' = y /\ y # t /\ act'[y] = act[y]
        /\ block_to'[y] = block_to[y] /\ Keeps
    BY <1>0, <1>i, <1>EventRun, EventRunIs, KeepsFrame DEF Keeps
  <2>2. status' = status
    BY <1>EventRun, EventRunIs
  <2> QED
    BY <1>t, <2>1, <2>2
<1>EventWake. CASE EventWake
  <2>1. /\ t \in Task /\ Busy(c)' /\ Inner(c)' = y /\ y # t /\ act'[y] = act[y]
        /\ block_to'[y] = block_to[y] /\ Keeps
    BY <1>0, <1>i, <1>EventWake, EventWakeIs, KeepsFrame DEF Keeps
  <2>2. status' = status
    BY <1>EventWake, EventWakeIs
  <2> QED
    BY <1>t, <2>1, <2>2
<1>ChildrenReady. CASE ChildrenReady
  <2>1. /\ t \in Task /\ Busy(c)' /\ Inner(c)' = y /\ y # t /\ act'[y] = act[y]
        /\ block_to'[y] = block_to[y] /\ Keeps
    BY <1>0, <1>i, <1>ChildrenReady, ChildrenReadyIs, KeepsFrame DEF Keeps
  <2>2. status' = status
    BY <1>ChildrenReady, ChildrenReadyIs
  <2> QED
    BY <1>t, <2>1, <2>2
<1>ChildrenUnready. CASE ChildrenUnready
  <2>1. /\ t \in Task /\ Busy(c)' /\ Inner(c)' = y /\ y # t /\ act'[y] = act[y]
        /\ block_to'[y] = block_to[y] /\ Keeps
    BY <1>0, <1>i, <1>ChildrenUnready, ChildrenUnreadyIs, KeepsFrame DEF Keeps
  <2>2. status'[c] = status[c]
    <3>1. status' = [status EXCEPT ![t] = "child_unready"] /\ uid[t] = r
      BY <1>0, <1>ChildrenUnready, ChildrenUnreadyIs, KeepsFrame
    <3> QED
      BY <1>0, <1>i, <1>t, <2>1, <3>1
  <2> QED
    BY <1>t, <2>1, <2>2
<1>StartChild. CASE StartChild
  <2>1. /\ t \in Task /\ Busy(c)' /\ Inner(c)' = y /\ y # t /\ act'[y] = act[y]
        /\ block_to'[y] = block_to[y] /\ Keeps
    BY <1>0, <1>i, <1>StartChild, StartChildIs, KeepsFrame DEF Keeps
  <2>2. status' = status
    BY <1>StartChild, StartChildIs
  <2> QED
    BY <1>t, <2>1, <2>2
<1>AllOfBackYields. CASE AllOfBackYields
  <2>1. /\ t \in Task /\ Busy(c)' /\ Inner(c)' = y /\ y # t /\ act'[y] = act[y]
        /\ block_to'[y] = block_to[y] /\ Keeps
    BY <1>0, <1>i, <1>AllOfBackYields, AllOfBackYieldsIs, KeepsFrame DEF AllOfBackYields, Keeps
  <2>2. status' = status
    BY <1>AllOfBackYields, AllOfBackYieldsIs DEF AllOfBackYields
  <2> QED
    BY <1>t, <2>1, <2>2
<1>AllOfBackGoesOn. CASE AllOfBackGoesOn
  <2>1. /\ t \in Task /\ Busy(c)' /\ Inner(c)' = y /\ y # t /\ act'[y] = act[y]
        /\ block_to'[y] = block_to[y] /\ Keeps
    BY <1>0, <1>i, <1>AllOfBackGoesOn, AllOfBackGoesOnIs, KeepsFrame DEF AllOfBackGoesOn, Keeps
  <2>2. status' = status
    BY <1>AllOfBackGoesOn, AllOfBackGoesOnIs DEF AllOfBackGoesOn
  <2> QED
    BY <1>t, <2>1, <2>2
<1>AnyOfBackWins. CASE AnyOfBackWins
  <2>1. /\ t \in Task /\ Busy(c)' /\ Inner(c)' = y /\ y # t /\ act'[y] = act[y]
        /\ block_to'[y] = block_to[y] /\ Keeps
    BY <1>0, <1>i, <1>AnyOfBackWins, AnyOfBackWinsIs, KeepsFrame DEF AnyOfBackWins, Keeps
  <2>2. status' = status
    BY <1>AnyOfBackWins, AnyOfBackWinsIs DEF AnyOfBackWins
  <2> QED
    BY <1>t, <2>1, <2>2
<1>AnyOfBackGoesOn. CASE AnyOfBackGoesOn
  <2>1. /\ t \in Task /\ Busy(c)' /\ Inner(c)' = y /\ y # t /\ act'[y] = act[y]
        /\ block_to'[y] = block_to[y] /\ Keeps
    BY <1>0, <1>i, <1>AnyOfBackGoesOn, AnyOfBackGoesOnIs, KeepsFrame DEF AnyOfBackGoesOn, Keeps
  <2>2. status' = status
    BY <1>AnyOfBackGoesOn, AnyOfBackGoesOnIs DEF AnyOfBackGoesOn
  <2> QED
    BY <1>t, <2>1, <2>2
<1>AnyOfBackYields. CASE AnyOfBackYields
  <2>1. /\ t \in Task /\ Busy(c)' /\ Inner(c)' = y /\ y # t /\ act'[y] = act[y]
        /\ block_to'[y] = block_to[y] /\ Keeps
    BY <1>0, <1>i, <1>AnyOfBackYields, AnyOfBackYieldsIs, KeepsFrame DEF AnyOfBackYields, Keeps
  <2>2. status' = status
    BY <1>AnyOfBackYields, AnyOfBackYieldsIs DEF AnyOfBackYields
  <2> QED
    BY <1>t, <2>1, <2>2
<1>AllOfWakeYields. CASE AllOfWakeYields
  <2>1. /\ t \in Task /\ Busy(c)' /\ Inner(c)' = y /\ y # t /\ act'[y] = act[y]
        /\ block_to'[y] = block_to[y] /\ Keeps
    BY <1>0, <1>i, <1>AllOfWakeYields, AllOfWakeYieldsIs, KeepsFrame DEF AllOfWakeYields, Keeps
  <2>2. status' = status
    BY <1>AllOfWakeYields, AllOfWakeYieldsIs DEF AllOfWakeYields
  <2> QED
    BY <1>t, <2>1, <2>2
<1>AllOfWakeEnds. CASE AllOfWakeEnds
  <2>1. /\ t \in Task /\ Busy(c)' /\ Inner(c)' = y /\ y # t /\ act'[y] = act[y]
        /\ block_to'[y] = block_to[y] /\ Keeps
    BY <1>0, <1>i, <1>AllOfWakeEnds, AllOfWakeEndsIs, KeepsFrame DEF AllOfWakeEnds, Keeps
  <2>2. status' = status
    BY <1>AllOfWakeEnds, AllOfWakeEndsIs DEF AllOfWakeEnds
  <2> QED
    BY <1>t, <2>1, <2>2
<1>AnyOfWake. CASE AnyOfWake
  <2>1. /\ t \in Task /\ Busy(c)' /\ Inner(c)' = y /\ y # t /\ act'[y] = act[y]
        /\ block_to'[y] = block_to[y] /\ Keeps
    BY <1>0, <1>i, <1>AnyOfWake, AnyOfWakeIs, KeepsFrame DEF Keeps
  <2>2. status' = status
    BY <1>AnyOfWake, AnyOfWakeIs
  <2> QED
    BY <1>t, <2>1, <2>2
<1>CanceledDirectlyLeaf. CASE CanceledDirectlyLeaf
  <2>1. /\ t \in Task /\ Busy(c)' /\ Inner(c)' = y /\ y # t /\ act'[y] = act[y]
        /\ block_to'[y] = block_to[y] /\ Keeps
    BY <1>0, <1>i, <1>CanceledDirectlyLeaf, CanceledDirectlyLeafIs, KeepsFrame
       DEF CanceledDirectlyLeaf, Keeps
  <2>2. status' = status
    BY <1>CanceledDirectlyLeaf, CanceledDirectlyLeafIs DEF CanceledDirectlyLeaf
  <2> QED
    BY <1>t, <2>1, <2>2
<1>CanceledDirectlyComb. CASE CanceledDirectlyComb
  <2>1. /\ t \in Task /\ Busy(c)' /\ Inner(c)' = y /\ y # t /\ act'[y] = act[y]
        /\ block_to'[y] = block_to[y] /\ Keeps
    BY <1>0, <1>i, <1>CanceledDirectlyComb, CanceledDirectlyCombIs, KeepsFrame
       DEF CanceledDirectlyComb, Keeps
  <2>2. status' = status
    BY <1>CanceledDirectlyComb, CanceledDirectlyCombIs DEF CanceledDirectlyComb
  <2> QED
    BY <1>t, <2>1, <2>2
<1>CanceledIndirectly. CASE CanceledIndirectly
  <2>1. /\ t \in Task /\ Busy(c)' /\ Inner(c)' = y /\ y # t /\ act'[y] = act[y]
        /\ block_to'[y] = block_to[y] /\ Keeps
    BY <1>0, <1>i, <1>CanceledIndirectly, CanceledIndirectlyIs, KeepsFrame DEF Keeps
  <2>2. status' = [status EXCEPT ![t] = "canceled"]
    BY <1>0, <1>CanceledIndirectly, CanceledIndirectlyIs
  <2> QED
    BY <1>t, <2>1, <2>2
<1>CatchLeaf. CASE CatchLeaf
  <2>1. /\ t \in Task /\ Busy(c)' /\ Inner(c)' = y /\ y # t /\ act'[y] = act[y]
        /\ block_to'[y] = block_to[y] /\ Keeps
    BY <1>0, <1>i, <1>CatchLeaf, CatchLeafIs, KeepsFrame DEF CatchLeaf, Keeps
  <2>2. status' = [status EXCEPT ![t] = "canceled"]
    BY <1>0, <1>CatchLeaf, CatchLeafIs DEF CatchLeaf
  <2> QED
    BY <1>t, <2>1, <2>2
<1>CatchComb. CASE CatchComb
  <2>1. /\ t \in Task /\ Busy(c)' /\ Inner(c)' = y /\ y # t /\ act'[y] = act[y]
        /\ block_to'[y] = block_to[y] /\ Keeps
    BY <1>0, <1>i, <1>CatchComb, CatchCombIs, KeepsFrame DEF CatchComb, Keeps
  <2>2. status' = [status EXCEPT ![t] = "canceled"]
    BY <1>0, <1>CatchComb, CatchCombIs DEF CatchComb
  <2> QED
    BY <1>t, <2>1, <2>2
<1>CancelSkip. CASE CancelSkip
  <2>1. /\ t \in Task /\ Busy(c)' /\ Inner(c)' = y /\ y # t /\ act'[y] = act[y]
        /\ block_to'[y] = block_to[y] /\ Keeps
    BY <1>0, <1>i, <1>CancelSkip, CancelSkipIs, KeepsFrame DEF Keeps
  <2>2. status' = status
    BY <1>CancelSkip, CancelSkipIs
  <2> QED
    BY <1>t, <2>1, <2>2
<1>CancelUnsupport. CASE CancelUnsupport
  <2>1. /\ t \in Task /\ Busy(c)' /\ Inner(c)' = y /\ y # t /\ act'[y] = act[y]
        /\ block_to'[y] = block_to[y] /\ Keeps
    BY <1>0, <1>i, <1>CancelUnsupport, CancelUnsupportIs, KeepsFrame DEF Keeps
  <2>2. status[c] = "canceled" => status'[c] = "canceled"
    <3>1. PICK f \in Task : /\ status'[f] \in {status[f], "canceled"}
                          /\ \A u \in Task : u # f => status'[u] = status[u]
      BY <1>CancelUnsupport, CancelUnsupportFx
    <3> QED
      BY <3>1
  <2> QED
    BY <1>t, <2>1, <2>2
<1>CancelInterrupt. CASE CancelInterrupt
  <2>1. /\ t \in Task /\ Busy(c)' /\ Inner(c)' = y /\ y # t /\ act'[y] = act[y]
        /\ block_to'[y] = block_to[y] /\ Keeps
    BY <1>0, <1>i, <1>CancelInterrupt, CancelInterruptIs, KeepsFrame DEF Keeps
  <2>2. status[c] = "canceled" => status'[c] = "canceled"
    BY <1>CancelInterrupt, CancelInterruptFx
  <2> QED
    BY <1>t, <2>1, <2>2
<1>CancelEndYields. CASE CancelEndYields
  <2>1. /\ t \in Task /\ Busy(c)' /\ Inner(c)' = y /\ y # t /\ act'[y] = act[y]
        /\ block_to'[y] = block_to[y] /\ Keeps
    BY <1>0, <1>i, <1>CancelEndYields, CancelEndYieldsIs, KeepsFrame DEF CancelEndYields, Keeps
  <2>2. status' = status
    BY <1>CancelEndYields, CancelEndYieldsIs DEF CancelEndYields
  <2> QED
    BY <1>t, <2>1, <2>2
<1>CancelEndDone. CASE CancelEndDone
  <2>1. /\ t \in Task /\ Busy(c)' /\ Inner(c)' = y /\ y # t /\ act'[y] = act[y]
        /\ block_to'[y] = block_to[y] /\ Keeps
    BY <1>0, <1>i, <1>CancelEndDone, CancelEndDoneIs, KeepsFrame DEF CancelEndDone, Keeps
  <2>2. status' = status
    BY <1>CancelEndDone, CancelEndDoneIs DEF CancelEndDone
  <2> QED
    BY <1>t, <2>1, <2>2
<1>UnsupportYields. CASE UnsupportYields
  <2>1. /\ t \in Task /\ Busy(c)' /\ Inner(c)' = y /\ y # t /\ act'[y] = act[y]
        /\ block_to'[y] = block_to[y] /\ Keeps
    BY <1>0, <1>i, <1>UnsupportYields, UnsupportYieldsIs, KeepsFrame DEF UnsupportYields, Keeps
  <2>2. status' = status
    BY <1>UnsupportYields, UnsupportYieldsIs DEF UnsupportYields
  <2> QED
    BY <1>t, <2>1, <2>2
<1>UnsupportDone. CASE UnsupportDone
  <2>1. /\ t \in Task /\ Busy(c)' /\ Inner(c)' = y /\ y # t /\ act'[y] = act[y]
        /\ block_to'[y] = block_to[y] /\ Keeps
    BY <1>0, <1>i, <1>UnsupportDone, UnsupportDoneIs, KeepsFrame DEF UnsupportDone, Keeps
  <2>2. status' = status
    BY <1>UnsupportDone, UnsupportDoneIs DEF UnsupportDone
  <2> QED
    BY <1>t, <2>1, <2>2
<1>AwaitReturn. CASE AwaitReturn
  <2>1. PICK x \in Task, u \in Task, s \in Status, pc \in Points :
          /\ uid[u] = running /\ uid[x] = running /\ Busy(c)' /\ Inner(c)' = y
          /\ \A v \in Task : v # x /\ v # u => act'[v] = act[v]
          /\ \A v \in Task : v # x => status'[v] = status[v]
          /\ \A v \in Task : v # x /\ v # u => block_to'[v] = block_to[v]
    BY <1>AwaitReturn, PopsFx
  <2> QED
    BY <1>0, <1>i, <2>1
<1>AwaitReturnThrow. CASE AwaitReturnThrow
  <2>1. PICK x \in Task, u \in Task, s \in Status, pc \in Points :
          /\ uid[u] = running /\ uid[x] = running /\ Busy(c)' /\ Inner(c)' = y
          /\ \A v \in Task : v # x /\ v # u => act'[v] = act[v]
          /\ \A v \in Task : v # x => status'[v] = status[v]
          /\ \A v \in Task : v # x /\ v # u => block_to'[v] = block_to[v]
    BY <1>AwaitReturnThrow, PopsFx
  <2> QED
    BY <1>0, <1>i, <2>1
<1>AwaitRethrow. CASE AwaitRethrow
  <2>1. PICK x \in Task, u \in Task, s \in Status, pc \in Points :
          /\ uid[u] = running /\ uid[x] = running /\ Busy(c)' /\ Inner(c)' = y
          /\ \A v \in Task : v # x /\ v # u => act'[v] = act[v]
          /\ \A v \in Task : v # x => status'[v] = status[v]
          /\ \A v \in Task : v # x /\ v # u => block_to'[v] = block_to[v]
    BY <1>AwaitRethrow, PopsFx
  <2> QED
    BY <1>0, <1>i, <2>1
<1>RuntimeFinish. CASE RuntimeFinish
  <2>1. /\ r \in Task /\ block_to' = block_to /\ \A u \in Task : u # r => act'[u] = act[u]
    BY <1>0, <1>RuntimeFinish, RuntimeFinishIs
  <2>2. /\ \A u \in Task : u # r => status'[u] = status[u]
        /\ Busy(c)' /\ Inner(c)' = y /\ uid[r] = r
    BY <1>0, <1>RuntimeFinish, FinishFx
  <2> QED
    BY <1>0, <1>i, <2>1, <2>2
<1>EventFires. CASE \E e \in Task : EventFires(e)
  BY <1>0, <1>EventFires, EventFiresIs DEF Busy, Inner
<1>Stutter. CASE UNCHANGED vars
  BY <1>0, <1>Stutter DEF Busy, Inner, vars, objectVars
<1> QED
  BY StepCases, <1>TaskRuntime, <1>Await, <1>Start, <1>StartReject, <1>EventRun, <1>EventWake,
       <1>ChildrenReady, <1>ChildrenUnready, <1>StartChild, <1>AllOfBackYields,
       <1>AllOfBackGoesOn, <1>AnyOfBackWins, <1>AnyOfBackGoesOn, <1>AnyOfBackYields,
       <1>AllOfWakeYields, <1>AllOfWakeEnds, <1>AnyOfWake, <1>CanceledDirectlyLeaf,
       <1>CanceledDirectlyComb, <1>CanceledIndirectly, <1>CatchLeaf, <1>CatchComb, <1>CancelSkip,
       <1>CancelUnsupport, <1>CancelInterrupt, <1>CancelEndYields, <1>CancelEndDone,
       <1>UnsupportYields, <1>UnsupportDone, <1>AwaitReturn, <1>AwaitReturnThrow, <1>AwaitRethrow,
       <1>RuntimeFinish, <1>EventFires, <1>Stutter

\* A coroutine that an interrupt is leaving is left.
LEMMA UnwindsStep ==
    ASSUME IndInv, [Next]_vars
    PROVE  \A c \in Task : Unwinds(c) /\ Busy(c)' => Unwinds(c)'
<1> SUFFICES ASSUME NEW c \in Task, Unwinds(c), Busy(c)' PROVE Unwinds(c)'
  OBVIOUS
<1>0. PICK r, t : r = running /\ t = Top
  OBVIOUS
<1>i. Busy(c) /\ Inner(c) \in Task
  BY BusyFacts DEF Unwinds
<1>o. CASE c # running
  <2>1. PICK y \in Task : /\ y = Inner(c) /\ Inner(c)' = y /\ act'[y] = act[y]
                          /\ status[c] = "canceled" => status'[c] = "canceled"
    BY <1>i, <1>o, OtherStep
  <2>2. \/ Leaving(y)
        \/ Pc(y) \in {"cancel", "return"} /\ y = c /\ status[c] = "canceled"
    BY <1>o, <2>1 DEF Unwinds
  <2>3. \/ Leaving(y)'
        \/ Pc(y)' \in {"cancel", "return"} /\ y = c /\ status'[c] = "canceled"
    BY <2>1, <2>2 DEF Leaving, Pc
  <2> QED
    BY <2>1, <2>3 DEF Unwinds
<1> SUFFICES ASSUME c = running PROVE Unwinds(c)'
  BY <1>o
<1>r. /\ running # Loop /\ r \in Task /\ c = r /\ t \in Task /\ t = Inner(r) /\ uid[t] = r
      /\ \/ Leaving(t)
         \/ Pc(t) = "wait" /\ global_signal_canceled
         \/ Pc(t) \in {"cancel", "return"} /\ t = r /\ status[r] = "canceled"
  <2>1. running # Loop /\ running \in Task
    BY StackTypes
  <2> QED
    BY <1>0, <1>i, <2>1, TopFacts DEF Unwinds
<1>TaskRuntime. CASE TaskRuntime
  BY <1>0, <1>TaskRuntime, TaskRuntimeIs, <1>i, <1>r
<1>Await. CASE Await
  <2>1. Pc(t) = "run"
    BY <1>0, <1>Await, AwaitFx
  <2> QED
    BY <1>r, <2>1 DEF Leaving
<1>Start. CASE Start
  <2>1. /\ t \in Task
        /\ Pc(t) = "run"
        /\ act'[t].pc = "run"
        /\ act'[t].next = act[t].next
        /\ \A u \in Task : u # t => act'[u] = act[u]
        /\ uid' = uid /\ prog' = prog /\ stack' = stack /\ reuse' = reuse
    BY <1>0, <1>Start, StartIs, KeepsFrame, StartFx DEF Moves
  <2> QED
    BY <1>r, <2>1 DEF Leaving
<1>StartReject. CASE StartReject
  <2>1. /\ t \in Task
        /\ Pc(t) = "run"
        /\ act'[t].pc = "run"
        /\ act'[t].next = act[t].next
        /\ \A u \in Task : u # t => act'[u] = act[u]
        /\ uid' = uid /\ prog' = prog /\ stack' = stack /\ reuse' = reuse
    BY <1>0, <1>StartReject, StartRejectIs, KeepsFrame, CallIs DEF Moves, StartReject
  <2> QED
    BY <1>r, <2>1 DEF Leaving
<1>EventRun. CASE EventRun
  <2>1. ~Unwinds(running)
    BY <1>EventRun, YieldsFreely
  <2> QED
    BY <2>1
<1>EventWake. CASE EventWake
  <2>1. /\ t \in Task
        /\ Pc(t) = "wait"
        /\ act'[t].pc = "return"
        /\ act'[t].next = act[t].next
        /\ \A u \in Task : u # t => act'[u] = act[u]
        /\ uid' = uid /\ prog' = prog /\ stack' = stack /\ reuse' = reuse
        /\ ~global_signal_canceled
    BY <1>0, <1>EventWake, EventWakeIs, KeepsFrame DEF Moves
  <2> QED
    BY <1>r, <2>1 DEF Leaving
<1>ChildrenReady. CASE ChildrenReady
  <2>1. /\ t \in Task
        /\ Pc(t) = "run"
        /\ act'[t].pc = "start"
        /\ act'[t].next = act[t].next
        /\ \A u \in Task : u # t => act'[u] = act[u]
        /\ uid' = uid /\ prog' = prog /\ stack' = stack /\ reuse' = reuse
    BY <1>0, <1>ChildrenReady, ChildrenReadyIs, KeepsFrame DEF Moves
  <2> QED
    BY <1>r, <2>1 DEF Leaving
<1>ChildrenUnready. CASE ChildrenUnready
  <2>1. /\ t \in Task
        /\ Pc(t) = "run"
        /\ act'[t].pc = "return"
        /\ act'[t].next = act[t].next
        /\ \A u \in Task : u # t => act'[u] = act[u]
        /\ uid' = uid /\ prog' = prog /\ stack' = stack /\ reuse' = reuse
    BY <1>0, <1>ChildrenUnready, ChildrenUnreadyIs, KeepsFrame DEF Moves
  <2> QED
    BY <1>r, <2>1 DEF Leaving
<1>StartChild. CASE StartChild
  <2>1. /\ t \in Task
        /\ Pc(t) = "start"
        /\ act'[t].pc = "child"
        /\ act'[t].next = act[t].next
        /\ \A u \in Task : u # t => act'[u] = act[u]
        /\ uid' = uid /\ prog' = prog /\ stack' = stack /\ reuse' = reuse
    BY <1>0, <1>StartChild, StartChildIs, KeepsFrame DEF Moves
  <2> QED
    BY <1>r, <2>1 DEF Leaving
<1>AllOfBackYields. CASE AllOfBackYields
  <2>1. ~Unwinds(running)
    BY <1>AllOfBackYields, YieldsFreely
  <2> QED
    BY <2>1
<1>AllOfBackGoesOn. CASE AllOfBackGoesOn
  <2>1. /\ t \in Task
        /\ Pc(t) = "child"
        /\ act'[t].pc = (IF act[t].i = Len(Children(t)) THEN "return" ELSE "start")
        /\ act'[t].next = act[t].next
        /\ \A u \in Task : u # t => act'[u] = act[u]
        /\ uid' = uid /\ prog' = prog /\ stack' = stack /\ reuse' = reuse
    BY <1>0, <1>AllOfBackGoesOn, AllOfBackGoesOnIs, KeepsFrame DEF AllOfBackGoesOn, Moves
  <2> QED
    BY <1>r, <2>1 DEF Leaving
<1>AnyOfBackWins. CASE AnyOfBackWins
  <2>1. /\ t \in Task
        /\ Pc(t) = "child"
        /\ act'[t].pc = "cancel"
        /\ act'[t].next = "return"
        /\ \A u \in Task : u # t => act'[u] = act[u]
        /\ uid' = uid /\ prog' = prog /\ stack' = stack /\ reuse' = reuse
    BY <1>0, <1>AnyOfBackWins, AnyOfBackWinsIs, KeepsFrame DEF AnyOfBackWins, Moves
  <2> QED
    BY <1>r, <2>1 DEF Leaving
<1>AnyOfBackGoesOn. CASE AnyOfBackGoesOn
  <2>1. /\ t \in Task
        /\ Pc(t) = "child"
        /\ act'[t].pc = "start"
        /\ act'[t].next = act[t].next
        /\ \A u \in Task : u # t => act'[u] = act[u]
        /\ uid' = uid /\ prog' = prog /\ stack' = stack /\ reuse' = reuse
    BY <1>0, <1>AnyOfBackGoesOn, AnyOfBackGoesOnIs, KeepsFrame DEF AnyOfBackGoesOn, Moves
  <2> QED
    BY <1>r, <2>1 DEF Leaving
<1>AnyOfBackYields. CASE AnyOfBackYields
  <2>1. ~Unwinds(running)
    BY <1>AnyOfBackYields, YieldsFreely
  <2> QED
    BY <2>1
<1>AllOfWakeYields. CASE AllOfWakeYields
  <2>1. ~Unwinds(running)
    BY <1>AllOfWakeYields, YieldsFreely
  <2> QED
    BY <2>1
<1>AllOfWakeEnds. CASE AllOfWakeEnds
  <2>1. /\ t \in Task
        /\ Pc(t) = "wait"
        /\ act'[t].pc = "return"
        /\ act'[t].next = act[t].next
        /\ \A u \in Task : u # t => act'[u] = act[u]
        /\ uid' = uid /\ prog' = prog /\ stack' = stack /\ reuse' = reuse
        /\ ~global_signal_canceled
    BY <1>0, <1>AllOfWakeEnds, AllOfWakeEndsIs, KeepsFrame DEF AllOfWakeEnds, Moves
  <2> QED
    BY <1>r, <2>1 DEF Leaving
<1>AnyOfWake. CASE AnyOfWake
  <2>1. /\ t \in Task
        /\ Pc(t) = "wait"
        /\ act'[t].pc = "cancel"
        /\ act'[t].next = "return"
        /\ \A u \in Task : u # t => act'[u] = act[u]
        /\ uid' = uid /\ prog' = prog /\ stack' = stack /\ reuse' = reuse
        /\ ~global_signal_canceled
    BY <1>0, <1>AnyOfWake, AnyOfWakeIs, KeepsFrame DEF Moves
  <2> QED
    BY <1>r, <2>1 DEF Leaving
<1>CanceledDirectlyLeaf. CASE CanceledDirectlyLeaf
  <2>1. /\ t \in Task
        /\ Pc(t) = "wait"
        /\ act'[t].pc = "return"
        /\ act'[t].next = act[t].next
        /\ \A u \in Task : u # t => act'[u] = act[u]
        /\ uid' = uid /\ prog' = prog /\ stack' = stack /\ reuse' = reuse
        /\ global_signal_canceled
        /\ status[t] = "canceled" /\ status' = status
    BY <1>0, <1>CanceledDirectlyLeaf, CanceledDirectlyLeafIs, KeepsFrame
       DEF CanceledDirectlyLeaf, Moves
  <2>2. t = r
    <3>1. \A u \in Task : Pc(u) # "none" /\ uid[u] = running /\ u # running => status[u] = "running"
      BY <2>1 DEF IndInv, SignalInv
    <3> QED
      BY <1>0, <1>r, <2>1, <3>1
  <2>3. \/ Leaving(t)'
        \/ Pc(t)' \in {"cancel", "return"} /\ t = r /\ status'[r] = "canceled"
    BY <1>r, <2>1, <2>2, StackTypes DEF Leaving, Pc
  <2>4. Inner(r)' = t
    BY <1>r, <2>1 DEF Inner
  <2> QED
    BY <1>r, <2>3, <2>4 DEF Unwinds
<1>CanceledDirectlyComb. CASE CanceledDirectlyComb
  <2>1. /\ t \in Task
        /\ Pc(t) = "wait"
        /\ act'[t].pc = "cancel"
        /\ act'[t].next = "return"
        /\ \A u \in Task : u # t => act'[u] = act[u]
        /\ uid' = uid /\ prog' = prog /\ stack' = stack /\ reuse' = reuse
        /\ global_signal_canceled
        /\ status[t] = "canceled" /\ status' = status
    BY <1>0, <1>CanceledDirectlyComb, CanceledDirectlyCombIs, KeepsFrame
       DEF CanceledDirectlyComb, Moves
  <2>2. t = r
    <3>1. \A u \in Task : Pc(u) # "none" /\ uid[u] = running /\ u # running => status[u] = "running"
      BY <2>1 DEF IndInv, SignalInv
    <3> QED
      BY <1>0, <1>r, <2>1, <3>1
  <2>3. \/ Leaving(t)'
        \/ Pc(t)' \in {"cancel", "return"} /\ t = r /\ status'[r] = "canceled"
    BY <1>r, <2>1, <2>2, StackTypes DEF Leaving, Pc
  <2>4. Inner(r)' = t
    BY <1>r, <2>1 DEF Inner
  <2> QED
    BY <1>r, <2>3, <2>4 DEF Unwinds
<1>CanceledIndirectly. CASE CanceledIndirectly
  <2>1. /\ t \in Task
        /\ Pc(t) = "wait"
        /\ act'[t].pc = "throw"
        /\ act'[t].next = act[t].next
        /\ \A u \in Task : u # t => act'[u] = act[u]
        /\ uid' = uid /\ prog' = prog /\ stack' = stack /\ reuse' = reuse
        /\ global_signal_canceled
    BY <1>0, <1>CanceledIndirectly, CanceledIndirectlyIs, KeepsFrame DEF Moves
  <2>3. \/ Leaving(t)'
        \/ Pc(t)' \in {"cancel", "return"} /\ t = r /\ status'[r] = "canceled"
    BY <1>r, <2>1, StackTypes DEF Leaving, Pc
  <2>4. Inner(r)' = t
    BY <1>r, <2>1 DEF Inner
  <2> QED
    BY <1>r, <2>3, <2>4 DEF Unwinds
<1>CatchLeaf. CASE CatchLeaf
  <2>1. /\ t \in Task
        /\ Pc(t) = "throw"
        /\ act'[t].pc = "caught"
        /\ act'[t].next = act[t].next
        /\ \A u \in Task : u # t => act'[u] = act[u]
        /\ uid' = uid /\ prog' = prog /\ stack' = stack /\ reuse' = reuse
    BY <1>0, <1>CatchLeaf, CatchLeafIs, KeepsFrame DEF CatchLeaf, Moves
  <2>3. \/ Leaving(t)'
        \/ Pc(t)' \in {"cancel", "return"} /\ t = r /\ status'[r] = "canceled"
    BY <1>r, <2>1, StackTypes DEF Leaving, Pc
  <2>4. Inner(r)' = t
    BY <1>r, <2>1 DEF Inner
  <2> QED
    BY <1>r, <2>3, <2>4 DEF Unwinds
<1>CatchComb. CASE CatchComb
  <2>1. /\ t \in Task
        /\ Pc(t) = "throw"
        /\ act'[t].pc = "cancel"
        /\ act'[t].next = "caught"
        /\ \A u \in Task : u # t => act'[u] = act[u]
        /\ uid' = uid /\ prog' = prog /\ stack' = stack /\ reuse' = reuse
    BY <1>0, <1>CatchComb, CatchCombIs, KeepsFrame DEF CatchComb, Moves
  <2>3. \/ Leaving(t)'
        \/ Pc(t)' \in {"cancel", "return"} /\ t = r /\ status'[r] = "canceled"
    BY <1>r, <2>1, StackTypes DEF Leaving, Pc
  <2>4. Inner(r)' = t
    BY <1>r, <2>1 DEF Inner
  <2> QED
    BY <1>r, <2>3, <2>4 DEF Unwinds
<1>CancelSkip. CASE CancelSkip
  <2>1. /\ t \in Task
        /\ Pc(t) = "cancel"
        /\ act'[t].pc = "cancel"
        /\ act'[t].next = act[t].next
        /\ \A u \in Task : u # t => act'[u] = act[u]
        /\ uid' = uid /\ prog' = prog /\ stack' = stack /\ reuse' = reuse
        /\ status' = status
    BY <1>0, <1>CancelSkip, CancelSkipIs, KeepsFrame DEF Moves
  <2>3. \/ Leaving(t)'
        \/ Pc(t)' \in {"cancel", "return"} /\ t = r /\ status'[r] = "canceled"
    BY <1>r, <2>1, StackTypes DEF Leaving, Pc
  <2>4. Inner(r)' = t
    BY <1>r, <2>1 DEF Inner
  <2> QED
    BY <1>r, <2>3, <2>4 DEF Unwinds
<1>CancelUnsupport. CASE CancelUnsupport
  <2>1. /\ t \in Task
        /\ Pc(t) = "cancel"
        /\ act'[t].pc = "cancel"
        /\ act'[t].next = act[t].next
        /\ \A u \in Task : u # t => act'[u] = act[u]
        /\ uid' = uid /\ prog' = prog /\ stack' = stack /\ reuse' = reuse
    BY <1>0, <1>CancelUnsupport, CancelUnsupportIs, KeepsFrame DEF Moves
  <2>2. status[r] = "canceled" => status'[r] = "canceled"
    <3>1. PICK f \in Task : /\ status'[f] \in {status[f], "canceled"}
                            /\ \A u \in Task : u # f => status'[u] = status[u]
      BY <1>CancelUnsupport, CancelUnsupportFx
    <3> QED
      BY <1>r, <3>1
  <2>3. \/ Leaving(t)'
        \/ Pc(t)' \in {"cancel", "return"} /\ t = r /\ status'[r] = "canceled"
    BY <1>r, <2>1, <2>2, StackTypes DEF Leaving, Pc
  <2>4. Inner(r)' = t
    BY <1>r, <2>1 DEF Inner
  <2> QED
    BY <1>r, <2>3, <2>4 DEF Unwinds
<1>CancelInterrupt. CASE CancelInterrupt
  <2>1. /\ t \in Task
        /\ Pc(t) = "cancel"
        /\ act'[t].pc = "cancel"
        /\ act'[t].next = act[t].next
        /\ \A u \in Task : u # t => act'[u] = act[u]
        /\ uid' = uid /\ prog' = prog /\ stack' = stack /\ reuse' = reuse
    BY <1>0, <1>CancelInterrupt, CancelInterruptIs, KeepsFrame DEF Moves
  <2>2. status[r] = "canceled" => status'[r] = "canceled"
    BY <1>r, <1>CancelInterrupt, CancelInterruptFx
  <2>3. \/ Leaving(t)'
        \/ Pc(t)' \in {"cancel", "return"} /\ t = r /\ status'[r] = "canceled"
    BY <1>r, <2>1, <2>2, StackTypes DEF Leaving, Pc
  <2>4. Inner(r)' = t
    BY <1>r, <2>1 DEF Inner
  <2> QED
    BY <1>r, <2>3, <2>4 DEF Unwinds
<1>CancelEndYields. CASE CancelEndYields
  <2>1. ~Unwinds(running)
    BY <1>CancelEndYields, YieldsFreely
  <2> QED
    BY <2>1
<1>CancelEndDone. CASE CancelEndDone
  <2>1. /\ t \in Task
        /\ Pc(t) = "cancel"
        /\ act'[t].pc = act[t].next
        /\ act'[t].next = act[t].next
        /\ \A u \in Task : u # t => act'[u] = act[u]
        /\ uid' = uid /\ prog' = prog /\ stack' = stack /\ reuse' = reuse
        /\ status' = status
    BY <1>0, <1>CancelEndDone, CancelEndDoneIs, KeepsFrame DEF CancelEndDone, Moves
  <2>3. \/ Leaving(t)'
        \/ Pc(t)' \in {"cancel", "return"} /\ t = r /\ status'[r] = "canceled"
    BY <1>r, <2>1, StackTypes DEF Leaving, Pc
  <2>4. Inner(r)' = t
    BY <1>r, <2>1 DEF Inner
  <2> QED
    BY <1>r, <2>3, <2>4 DEF Unwinds
<1>UnsupportYields. CASE UnsupportYields
  <2>1. ~Unwinds(running)
    BY <1>UnsupportYields, YieldsFreely
  <2> QED
    BY <2>1
<1>UnsupportDone. CASE UnsupportDone
  <2>1. /\ t \in Task
        /\ Pc(t) = "unsupport"
        /\ act'[t].pc = act[t].next
        /\ act'[t].next = act[t].next
        /\ \A u \in Task : u # t => act'[u] = act[u]
        /\ uid' = uid /\ prog' = prog /\ stack' = stack /\ reuse' = reuse
    BY <1>0, <1>UnsupportDone, UnsupportDoneIs, KeepsFrame DEF UnsupportDone, Moves
  <2> QED
    BY <1>r, <2>1 DEF Leaving
<1>AwaitReturn. CASE AwaitReturn
  <2>1. PICK u \in Task, s \in Status, pc \in Points : Ends(t, s, pc) /\ t # running /\ act'[u].pc = pc /\ Inner(r)' = u
    BY <1>0, <1>r, <1>AwaitReturn, PopsFx
  <2>2. Leaving(t)
    BY <1>0, <1>r, <2>1 DEF Ends
  <2>3. Leaving(u)'
    BY <2>1, <2>2 DEF Leaving, Pc, Ends
  <2> QED
    BY <1>r, <2>1, <2>3 DEF Unwinds
<1>AwaitReturnThrow. CASE AwaitReturnThrow
  <2>1. PICK u \in Task, s \in Status, pc \in Points : Ends(t, s, pc) /\ t # running /\ act'[u].pc = pc /\ Inner(r)' = u
    BY <1>0, <1>r, <1>AwaitReturnThrow, PopsFx
  <2>2. Leaving(t)
    BY <1>0, <1>r, <2>1 DEF Ends
  <2>3. Leaving(u)'
    BY <2>1, <2>2 DEF Leaving, Pc, Ends
  <2> QED
    BY <1>r, <2>1, <2>3 DEF Unwinds
<1>AwaitRethrow. CASE AwaitRethrow
  <2>1. PICK u \in Task, s \in Status, pc \in Points : Ends(t, s, pc) /\ t # running /\ act'[u].pc = pc /\ Inner(r)' = u
    BY <1>0, <1>r, <1>AwaitRethrow, PopsFx
  <2>2. Leaving(t)
    BY <1>0, <1>r, <2>1 DEF Ends
  <2>3. Leaving(u)'
    BY <2>1, <2>2 DEF Leaving, Pc, Ends
  <2> QED
    BY <1>r, <2>1, <2>3 DEF Unwinds
<1>RuntimeFinish. CASE RuntimeFinish
  BY <1>0, <1>RuntimeFinish, RuntimeFinishIs, <1>r, FinishFx
<1>EventFires. CASE \E e \in Task : EventFires(e)
  BY <1>0, <1>EventFires, <1>r, EventFiresIs
<1>Stutter. CASE UNCHANGED vars
  BY <1>0, <1>Stutter, <1>r DEF Unwinds, Leaving, Inner, Pc, vars, objectVars, controlVars
<1> QED
  BY StepCases, <1>TaskRuntime, <1>Await, <1>Start, <1>StartReject, <1>EventRun, <1>EventWake,
       <1>ChildrenReady, <1>ChildrenUnready, <1>StartChild, <1>AllOfBackYields,
       <1>AllOfBackGoesOn, <1>AnyOfBackWins, <1>AnyOfBackGoesOn, <1>AnyOfBackYields,
       <1>AllOfWakeYields, <1>AllOfWakeEnds, <1>AnyOfWake, <1>CanceledDirectlyLeaf,
       <1>CanceledDirectlyComb, <1>CanceledIndirectly, <1>CatchLeaf, <1>CatchComb, <1>CancelSkip,
       <1>CancelUnsupport, <1>CancelInterrupt, <1>CancelEndYields, <1>CancelEndDone,
       <1>UnsupportYields, <1>UnsupportDone, <1>AwaitReturn, <1>AwaitReturnThrow, <1>AwaitRethrow,
       <1>RuntimeFinish, <1>EventFires, <1>Stutter

\* The calls of the coroutines that do not have the thread.
LEMMA CallOther ==
    ASSUME IndInv, [Next]_vars
    PROVE  \A c \in Task : c # running =>
             /\ Busy(c)' <=> Busy(c)
             /\ Calling(c)' <=> c # running' /\ Calling(c)
             /\ Busy(c) => \A y \in Task : y = Inner(c) =>
                  /\ Inner(c)' = y /\ Pc(y)' = Pc(y) /\ Blk(c)' = Blk(c)
                  /\ \A d \in Task : Calls(y, d)' <=> Calls(y, d)
<1> SUFFICES ASSUME NEW c \in Task, c # running
             PROVE  /\ Busy(c)' <=> Busy(c)
                    /\ Calling(c)' <=> c # running' /\ Calling(c)
                    /\ Busy(c) => \A y \in Task : y = Inner(c) =>
                         /\ Inner(c)' = y /\ Pc(y)' = Pc(y) /\ Blk(c)' = Blk(c)
                         /\ \A d \in Task : Calls(y, d)' <=> Calls(y, d)
  OBVIOUS
<1>1. Busy(c)' <=> Busy(c)
  BY BusyStep
<1>2. ASSUME NEW y \in Task, y = Inner(c), Busy(c)
      PROVE  /\ Inner(c)' = y /\ Pc(y)' = Pc(y) /\ Blk(c)' = Blk(c)
             /\ \A d \in Task : Calls(y, d)' <=> Calls(y, d)
  <2>1. Busy(c)' /\ Inner(c)' = y /\ act'[y] = act[y] /\ block_to'[y] = block_to[y]
    BY <1>2, OtherStep
  <2>2. Kind(y)' = Kind(y) /\ Children(y)' = Children(y) /\ Body(y)' = Body(y)
    BY ProgSame, SameProgram
  <2>3. Pc(y)' = Pc(y)
    BY <2>1 DEF Pc
  <2>4. \A d \in Task : Calls(y, d)' <=> Calls(y, d)
    BY <2>1, <2>2, <2>3 DEF Calls
  <2>5. Blk(c) = block_to[y]
    BY <1>2 DEF Blk
  <2>6. Blk(c)' = block_to'[y]
    BY <2>1 DEF Blk
  <2> QED
    BY <2>1, <2>3, <2>4, <2>5, <2>6
<1>3. Calling(c)' <=> c # running' /\ Calling(c)
  <2>1. CASE ~Busy(c)
    BY <1>1, <2>1 DEF Calling
  <2>2. CASE Busy(c)
    <3>1. PICK y \in Task : y = Inner(c)
      BY <2>2, BusyFacts
    <3>2. Inner(c)' = y /\ Pc(y)' = Pc(y)
      BY <1>2, <2>2, <3>1
    <3> QED
      BY <1>1, <2>2, <3>1, <3>2 DEF Calling, Waits
  <2> QED
    BY <2>1, <2>2
<1> QED
  BY <1>1, <1>2, <1>3

LEMMA CallFrom ==
    ASSUME \A c \in Task : Calling(c)' => \E y, d \in Task :
              /\ y = Inner(c)' /\ Calls(y, d)' /\ (d = running' \/ Calling(d)')
              /\ Pc(y)' = "run" => y = c
              /\ Pc(y)' # "cancel" => Blk(d)' = c
              /\ Pc(y)' = "cancel" => Blk(d)' = Loop /\ Unwinds(d)',
           \A d \in Task : (d = running' \/ Calling(d)') /\ Blk(d)' # Loop => \E e, y \in Task :
              e = Blk(d)' /\ y = Inner(e)' /\ Calling(e)' /\ Calls(y, d)'
    PROVE  CallInv'
<1>1. ASSUME NEW c \in Task, Calling(c)'
      PROVE  (\E d \in Task :
            /\ Calls(Inner(c), d) /\ (d = running \/ Calling(d))
            /\ Pc(Inner(c)) = "run" => Inner(c) = c
            /\ Pc(Inner(c)) # "cancel" => Blk(d) = c
            /\ Pc(Inner(c)) = "cancel" => Blk(d) = Loop /\ Unwinds(d))'
  <2>1. PICK y \in Task, d \in Task :
              /\ y = Inner(c)' /\ Calls(y, d)' /\ (d = running' \/ Calling(d)')
              /\ Pc(y)' = "run" => y = c
              /\ Pc(y)' # "cancel" => Blk(d)' = c
              /\ Pc(y)' = "cancel" => Blk(d)' = Loop /\ Unwinds(d)'
    BY <1>1
  <2> QED
    BY <2>1
<1>2. ASSUME NEW d \in Task, (d = running' \/ Calling(d)') /\ Blk(d)' # Loop
      PROVE  (Blk(d) \in Task /\ Calling(Blk(d)) /\ Calls(Inner(Blk(d)), d))'
  <2>1. PICK e \in Task, y \in Task : e = Blk(d)' /\ y = Inner(e)' /\ Calling(e)' /\ Calls(y, d)'
    BY <1>2
  <2> QED
    BY <2>1
<1> QED
  BY <1>1, <1>2 DEF CallInv

\* The same about the state before the step.
LEMMA CallNow ==
    ASSUME IndInv
    PROVE  /\ \A c \in Task : Calling(c) => \E y, d \in Task :
                /\ y = Inner(c) /\ Calls(y, d) /\ (d = running \/ Calling(d))
                /\ Pc(y) = "run" => y = c
                /\ Pc(y) # "cancel" => Blk(d) = c
                /\ Pc(y) = "cancel" => Blk(d) = Loop /\ Unwinds(d)
                /\ Busy(c) /\ c # running /\ Rank(d) < Rank(c) /\ Rank(c) \in Nat
           /\ \A d \in Task : (d = running \/ Calling(d)) /\ Blk(d) # Loop => \E e, y \in Task :
                /\ e = Blk(d) /\ y = Inner(e) /\ Calling(e) /\ Calls(y, d)
                /\ Busy(e) /\ e # running /\ e # d
<1>1. \A c \in Task : Calling(c) => Busy(c) /\ c # running /\ Inner(c) \in Task
  BY BusyFacts DEF Calling
<1>2. ASSUME NEW c \in Task, Calling(c)
      PROVE  \E y, d \in Task :
                /\ y = Inner(c) /\ Calls(y, d) /\ (d = running \/ Calling(d))
                /\ Pc(y) = "run" => y = c
                /\ Pc(y) # "cancel" => Blk(d) = c
                /\ Pc(y) = "cancel" => Blk(d) = Loop /\ Unwinds(d)
                /\ Busy(c) /\ c # running /\ Rank(d) < Rank(c) /\ Rank(c) \in Nat
  <2>1. PICK d \in Task :
            /\ Calls(Inner(c), d) /\ (d = running \/ Calling(d))
            /\ Pc(Inner(c)) = "run" => Inner(c) = c
            /\ Pc(Inner(c)) # "cancel" => Blk(d) = c
            /\ Pc(Inner(c)) = "cancel" => Blk(d) = Loop /\ Unwinds(d)
            /\ Rank(d) < Rank(c) /\ Rank(c) \in Nat
    BY <1>2, CallingFacts
  <2> QED
    BY <1>1, <1>2, <2>1
<1>3. ASSUME NEW d \in Task, d = running \/ Calling(d), Blk(d) # Loop
      PROVE  \E e, y \in Task :
                /\ e = Blk(d) /\ y = Inner(e) /\ Calling(e) /\ Calls(y, d)
                /\ Busy(e) /\ e # running /\ e # d
  <2>1. PICK e \in Task, y \in Task : /\ e = Blk(d) /\ y = Inner(e) /\ Calling(e) /\ Calls(y, d)
                                      /\ Busy(e) /\ e # running
    BY <1>1, <1>3 DEF IndInv, CallInv
  <2>2. Rank(y) <= Rank(e) /\ Rank(e) \in Nat
    BY <2>1, BusyFacts, TaskFacts DEF IndInv
  <2>3. Rank(d) < Rank(y) /\ Rank(d) \in Nat /\ Rank(y) \in Nat
    BY <2>1, CallsWhat
  <2>4. e # d
    BY <2>2, <2>3
  <2> QED
    BY <2>1, <2>4
<1> QED
  BY <1>2, <1>3

\* The thread stays where it is.
LEMMA CallStays ==
    ASSUME IndInv, [Next]_vars, NEW r \in Task, r = running, running' = r, Busy(r)', Blk(r)' = Blk(r)
    PROVE  CallInv'
<1>1. \A c \in Task : Calling(c)' <=> Calling(c)
  BY CallOther DEF Calling
<1>2. ASSUME NEW c \in Task, Calling(c)'
      PROVE  \E y, d \in Task :
              /\ y = Inner(c)' /\ Calls(y, d)' /\ (d = running' \/ Calling(d)')
              /\ Pc(y)' = "run" => y = c
              /\ Pc(y)' # "cancel" => Blk(d)' = c
              /\ Pc(y)' = "cancel" => Blk(d)' = Loop /\ Unwinds(d)'
  <2>1. PICK y \in Task, d \in Task :
                /\ y = Inner(c) /\ Calls(y, d) /\ (d = running \/ Calling(d))
                /\ Pc(y) = "run" => y = c
                /\ Pc(y) # "cancel" => Blk(d) = c
                /\ Pc(y) = "cancel" => Blk(d) = Loop /\ Unwinds(d)
                /\ Busy(c) /\ c # running
    BY <1>1, <1>2, CallNow
  <2>2. Inner(c)' = y /\ Pc(y)' = Pc(y) /\ (Calls(y, d)' <=> Calls(y, d))
    BY <2>1, CallOther
  <2>3. Blk(d)' = Blk(d) /\ Busy(d)'
    <3>1. CASE d = r
      BY <3>1
    <3>2. CASE d # r
      <4>1. Calling(d) /\ Busy(d) /\ d # running /\ Inner(d) \in Task
        BY <2>1, <3>2, BusyFacts DEF Calling
      <4> QED
        BY <4>1, CallOther
    <3> QED
      BY <3>1, <3>2
  <2>4. Unwinds(d) => Unwinds(d)'
    BY <2>3, UnwindsStep
  <2>5. d = running' \/ Calling(d)'
    BY <1>1, <2>1
  <2> QED
    BY <2>1, <2>2, <2>3, <2>4, <2>5
<1>3. ASSUME NEW d \in Task, d = running' \/ Calling(d)', Blk(d)' # Loop
      PROVE  \E e, y \in Task : e = Blk(d)' /\ y = Inner(e)' /\ Calling(e)' /\ Calls(y, d)'
  <2>1. d = running \/ Calling(d)
    BY <1>1, <1>3
  <2>2. Blk(d)' = Blk(d)
    <3>1. CASE d = r
      BY <3>1
    <3>2. CASE d # r
      <4>1. Busy(d) /\ d # running /\ Inner(d) \in Task
        BY <2>1, <3>2, BusyFacts DEF Calling
      <4> QED
        BY <4>1, CallOther
    <3> QED
      BY <3>1, <3>2
  <2>3. PICK e \in Task, y \in Task : /\ e = Blk(d) /\ y = Inner(e) /\ Calling(e) /\ Calls(y, d)
                                      /\ Busy(e) /\ e # running
    BY <1>3, <2>1, <2>2, CallNow
  <2>4. Inner(e)' = y /\ (Calls(y, d)' <=> Calls(y, d))
    BY <2>3, CallOther
  <2> QED
    BY <1>1, <2>2, <2>3, <2>4
<1> QED
  BY <1>2, <1>3, CallFrom

\* Nobody waits to get the thread back.
LEMMA CallNone ==
    ASSUME IndInv, [Next]_vars, \A c \in Task : ~Calling(c),
           \A c \in Task : c = running => ~Calling(c)',
           \A c \in Task : c = running' => Blk(c)' = Loop
    PROVE  CallInv'
<1>1. \A c \in Task : ~Calling(c)'
  BY CallOther
<1> QED
  BY <1>1, CallFrom

\* It goes back to a coroutine that waits to get it back.
LEMMA CallBack ==
    ASSUME IndInv, [Next]_vars, NEW r \in Task, r = running, NEW b \in Task, running' = b,
           NEW z \in Task, z = Inner(b), Calling(b), Calls(z, r), ~Calling(r)'
    PROVE  CallInv'
<1>1. b # r /\ Busy(b) /\ uid[z] = b
  BY BusyFacts DEF Calling
<1>2. \A c \in Task : Calling(c)' <=> Calling(c) /\ c # b
  BY CallOther DEF Calling
<1>3. ASSUME NEW c \in Task, Calling(c)'
      PROVE  \E y, d \in Task :
              /\ y = Inner(c)' /\ Calls(y, d)' /\ (d = running' \/ Calling(d)')
              /\ Pc(y)' = "run" => y = c
              /\ Pc(y)' # "cancel" => Blk(d)' = c
              /\ Pc(y)' = "cancel" => Blk(d)' = Loop /\ Unwinds(d)'
  <2>1. PICK y \in Task, d \in Task :
                /\ y = Inner(c) /\ Calls(y, d) /\ (d = running \/ Calling(d))
                /\ Pc(y) = "run" => y = c
                /\ Pc(y) # "cancel" => Blk(d) = c
                /\ Pc(y) = "cancel" => Blk(d) = Loop /\ Unwinds(d)
                /\ Busy(c) /\ c # running
    BY <1>2, <1>3, CallNow
  <2>2. Inner(c)' = y /\ Pc(y)' = Pc(y) /\ (Calls(y, d)' <=> Calls(y, d))
    BY <2>1, CallOther
  <2>3. d # r
    <3>1. d = r => y = z
      BY <2>1, CallsWhat
    <3>2. uid[y] = c /\ c # b
      BY <1>2, <1>3, <2>1, BusyFacts
    <3> QED
      BY <1>1, <3>1, <3>2
  <2>4. Calling(d) /\ Busy(d) /\ d # running /\ Inner(d) \in Task
    BY <2>1, <2>3, BusyFacts DEF Calling
  <2>5. Blk(d)' = Blk(d) /\ Busy(d)'
    BY <2>4, CallOther
  <2>6. Unwinds(d) => Unwinds(d)'
    BY <2>5, UnwindsStep
  <2>7. d = running' \/ Calling(d)'
    BY <1>2, <2>4
  <2> QED
    BY <2>1, <2>2, <2>5, <2>6, <2>7
<1>4. ASSUME NEW d \in Task, d = running' \/ Calling(d)', Blk(d)' # Loop
      PROVE  \E e, y \in Task : e = Blk(d)' /\ y = Inner(e)' /\ Calling(e)' /\ Calls(y, d)'
  <2>1. Calling(d) /\ Busy(d) /\ d # running /\ Inner(d) \in Task
    BY <1>2, <1>4, BusyFacts DEF Calling
  <2>2. Blk(d)' = Blk(d)
    BY <2>1, CallOther
  <2>3. PICK e \in Task, y \in Task : /\ e = Blk(d) /\ y = Inner(e) /\ Calling(e) /\ Calls(y, d)
                                      /\ Busy(e) /\ e # running /\ e # d
    BY <1>4, <2>1, <2>2, CallNow
  <2>4. Inner(e)' = y /\ (Calls(y, d)' <=> Calls(y, d))
    BY <2>3, CallOther
  <2>5. e # b
    <3>1. e = b => y = z
      BY <2>3
    <3>2. y = z => d = r
      BY <2>3, CallsWhat
    <3> QED
      BY <2>1, <3>1, <3>2
  <2> QED
    BY <1>2, <2>2, <2>3, <2>4, <2>5
<1> QED
  BY <1>3, <1>4, CallFrom

\* A coroutine gives the thread to another one, which did not have it.
LEMMA CallOut ==
    ASSUME IndInv, [Next]_vars, NEW r \in Task, r = running, NEW x \in Task, running' = x, x # r,
           ~Calling(x), NEW t \in Task, Inner(r)' = t, Calls(t, x)', Calling(r)', Busy(r),
           Blk(r)' = Blk(r),
           Pc(t)' = "run" => t = r,
           Pc(t)' # "cancel" => Blk(x)' = r,
           Pc(t)' = "cancel" => Blk(x)' = Loop /\ Unwinds(x)'
    PROVE  CallInv'
<1>1. \A c \in Task : Calling(c)' <=> Calling(c) \/ c = r
  <2>1. \A c \in Task : c # running => (Calling(c)' <=> c # running' /\ Calling(c))
    BY CallOther
  <2>2. \A c \in Task : Calling(c) => c # running /\ c # x
    BY DEF Calling
  <2> QED
    BY <2>1, <2>2
<1>b. Busy(r)'
  BY DEF Calling
<1>2. ASSUME NEW c \in Task, Calling(c)'
      PROVE  \E y, d \in Task :
              /\ y = Inner(c)' /\ Calls(y, d)' /\ (d = running' \/ Calling(d)')
              /\ Pc(y)' = "run" => y = c
              /\ Pc(y)' # "cancel" => Blk(d)' = c
              /\ Pc(y)' = "cancel" => Blk(d)' = Loop /\ Unwinds(d)'
  <2>1. CASE c = r
    BY <2>1
  <2>2. CASE c # r
    <3>1. PICK y \in Task, d \in Task :
                /\ y = Inner(c) /\ Calls(y, d) /\ (d = running \/ Calling(d))
                /\ Pc(y) = "run" => y = c
                /\ Pc(y) # "cancel" => Blk(d) = c
                /\ Pc(y) = "cancel" => Blk(d) = Loop /\ Unwinds(d)
                /\ Busy(c) /\ c # running
      BY <1>1, <1>2, <2>2, CallNow
    <3>2. Inner(c)' = y /\ Pc(y)' = Pc(y) /\ (Calls(y, d)' <=> Calls(y, d))
      BY <3>1, CallOther
    <3>3. Blk(d)' = Blk(d) /\ Busy(d)'
      <4>1. CASE d = r
        BY <1>b, <4>1
      <4>2. CASE d # r
        <5>1. Calling(d) /\ Busy(d) /\ d # running /\ Inner(d) \in Task
          BY <3>1, <4>2, BusyFacts DEF Calling
        <5> QED
          BY <5>1, CallOther
      <4> QED
        BY <4>1, <4>2
    <3>4. Unwinds(d) => Unwinds(d)'
      BY <3>3, UnwindsStep
    <3>5. d = running' \/ Calling(d)'
      BY <1>1, <3>1
    <3> QED
      BY <3>1, <3>2, <3>3, <3>4, <3>5
  <2> QED
    BY <2>1, <2>2
<1>3. ASSUME NEW d \in Task, d = running' \/ Calling(d)', Blk(d)' # Loop
      PROVE  \E e, y \in Task : e = Blk(d)' /\ y = Inner(e)' /\ Calling(e)' /\ Calls(y, d)'
  <2>1. CASE d = x
    BY <1>3, <2>1
  <2>2. CASE d # x
    <3>1. d = running \/ Calling(d)
      BY <1>1, <1>3, <2>2
    <3>2. Blk(d)' = Blk(d)
      <4>1. CASE d = r
        BY <4>1
      <4>2. CASE d # r
        <5>1. Busy(d) /\ d # running /\ Inner(d) \in Task
          BY <3>1, <4>2, BusyFacts DEF Calling
        <5> QED
          BY <5>1, CallOther
      <4> QED
        BY <4>1, <4>2
    <3>3. PICK e \in Task, y \in Task : /\ e = Blk(d) /\ y = Inner(e) /\ Calling(e) /\ Calls(y, d)
                                        /\ Busy(e) /\ e # running
      BY <1>3, <3>1, <3>2, CallNow
    <3>4. Inner(e)' = y /\ (Calls(y, d)' <=> Calls(y, d))
      BY <3>3, CallOther
    <3> QED
      BY <1>1, <3>2, <3>3, <3>4
  <2> QED
    BY <2>1, <2>2
<1> QED
  BY <1>2, <1>3, CallFrom

LEMMA CallStep ==
    ASSUME IndInv, [Next]_vars
    PROVE  CallInv'
<1>0. PICK r, t : r = running /\ t = Top
  OBVIOUS
<1>TaskRuntime. CASE TaskRuntime
  <2>1. r \in Task /\ ~Busy(r) /\ running' = r /\ block_to' = block_to
    BY <1>0, <1>TaskRuntime, TaskRuntimeIs DEF Stays
  <2>2. Busy(r)' /\ Inner(r)' = r
    BY <1>0, <1>TaskRuntime, <2>1, TaskRuntimeFx
  <2>3. Blk(r)' = Blk(r)
    BY <2>1, <2>2 DEF Blk
  <2> QED
    BY <1>0, <2>1, <2>2, <2>3, CallStays
<1>Await. CASE Await
  <2>1. PICK x \in Task : /\ r \in Task /\ running' = r /\ Busy(r) /\ Busy(r)' /\ Inner(r)' = x /\ t = Inner(r)
                          /\ block_to'[x] = block_to[t]
    BY <1>0, <1>Await, AwaitFx
  <2>3. Blk(r)' = Blk(r)
    BY <2>1 DEF Blk
  <2> QED
    BY <1>0, <2>1, <2>3, CallStays
<1>Start. CASE Start
  <2>1. /\ t \in Task
        /\ Pc(t) = "run"
        /\ act'[t].pc = "run"
        /\ act'[t].i = act[t].i + 1
        /\ \A u \in Task : u # t => act'[u] = act[u]
        /\ uid' = uid /\ prog' = prog /\ stack' = stack /\ reuse' = reuse
        /\ r \in Task /\ r # Loop /\ Busy(r) /\ t = Inner(r) /\ uid[t] = r /\ Busy(r)' /\ Inner(r)' = t
        /\ act[t].i \in Nat
    BY <1>0, <1>Start, StartIs, KeepsFrame, StackTypes, StartFx DEF Moves
  <2>2. PICK x \in Task :
          /\ x # r /\ x # t /\ ~Busy(x) /\ running' = x /\ Busy(x)' = Busy(x)
          /\ act[t].i \in DOMAIN Body(t) /\ Body(t)[act[t].i] = <<"start", x>>
          /\ Kind(t) = "user" /\ t = r /\ block_to'[x] = r
          /\ \A u \in Task : u # x => block_to'[u] = block_to[u]
    BY <1>0, <1>Start, StartFx, StartIs, KeepsFrame
  <2>3. act'[t].i - 1 = act[t].i
    BY <2>1
  <2>4. Calls(t, x)'
    BY <2>1, <2>2, <2>3 DEF Calls, Pc, Kind, Children, Body
  <2>5. Calling(r)' /\ Blk(r)' = Blk(r)
    <3>1. Calling(r)'
      BY <2>1, <2>2 DEF Calling, Pc, Waits
    <3>2. Blk(r)' = Blk(r)
      BY <2>1, <2>2 DEF Blk
    <3> QED
      BY <3>1, <3>2
  <2>6. ~Calling(x)
    BY <2>2 DEF Calling
  <2>7. Blk(x)' = r
    BY <2>2 DEF Blk
  <2>8. Pc(t)' = "run"
    BY <2>1 DEF Pc
  <2> QED
    BY <1>0, <2>1, <2>2, <2>4, <2>5, <2>6, <2>7, <2>8, CallOut
<1>StartReject. CASE StartReject
  <2>1. /\ t \in Task
        /\ Pc(t) = "run"
        /\ act'[t].pc = "run"
        /\ \A u \in Task : u # t => act'[u] = act[u]
        /\ uid' = uid /\ prog' = prog /\ stack' = stack /\ reuse' = reuse
        /\ r \in Task /\ r # Loop /\ Busy(r) /\ t = Inner(r) /\ uid[t] = r /\ Busy(r)' /\ Inner(r)' = t
        /\ running' = r
        /\ block_to'[t] = block_to[t]
    BY <1>0, <1>StartReject, StartRejectIs, KeepsFrame, CallIs DEF Moves, StartReject, Stays
  <2>2. block_to'[t] = block_to[t]
    BY <2>1
  <2>3. Blk(r)' = Blk(r)
    BY <2>1, <2>2 DEF Blk
  <2> QED
    BY <1>0, <2>1, <2>3, CallStays
<1>EventRun. CASE EventRun
  <2>1. /\ t \in Task
        /\ Pc(t) = "run"
        /\ act'[t].pc = "wait"
        /\ \A u \in Task : u # t => act'[u] = act[u]
        /\ uid' = uid /\ prog' = prog /\ stack' = stack /\ reuse' = reuse
        /\ r \in Task /\ r # Loop /\ Busy(r) /\ t = Inner(r) /\ uid[t] = r /\ Busy(r)' /\ Inner(r)' = t
        /\ Yields /\ Keeps
    BY <1>0, <1>EventRun, EventRunIs, KeepsFrame DEF Moves
  <2>2. ~Unwinds(r)
    BY <1>0, <1>EventRun, YieldsFreely
  <2>3. ~Calling(r)'
    BY <2>1 DEF Calling, Pc, Waits
  <2>4. PICK b : b = block_to[t] /\ running' = b
    BY <1>0, <2>1, YieldsFx
  <2>5. CASE b = Loop
    <3>1. \A c \in Task : ~Calling(c)
      BY <1>0, <2>1, <2>2, <2>4, <2>5, YieldTo, StackTypes
    <3> QED
      BY <1>0, <2>3, <2>4, <2>5, <3>1, CallNone, StackTypes
  <2>6. CASE b # Loop
    <3>1. b \in Task /\ Calling(b) /\ Inner(b) \in Task /\ Calls(Inner(b), r)
      BY <1>0, <2>1, <2>2, <2>4, <2>6, YieldTo
    <3>2. PICK z \in Task : z = Inner(b) /\ Calls(z, r)
      BY <3>1
    <3> QED
      BY <1>0, <2>1, <2>3, <2>4, <3>1, <3>2, CallBack
  <2> QED
    BY <2>5, <2>6
<1>EventWake. CASE EventWake
  <2>1. /\ t \in Task
        /\ Pc(t) = "wait"
        /\ act'[t].pc = "return"
        /\ \A u \in Task : u # t => act'[u] = act[u]
        /\ uid' = uid /\ prog' = prog /\ stack' = stack /\ reuse' = reuse
        /\ r \in Task /\ r # Loop /\ Busy(r) /\ t = Inner(r) /\ uid[t] = r /\ Busy(r)' /\ Inner(r)' = t
        /\ running' = r
        /\ block_to'[t] = block_to[t]
    BY <1>0, <1>EventWake, EventWakeIs, KeepsFrame DEF Moves, Stays
  <2>2. block_to'[t] = block_to[t]
    BY <2>1
  <2>3. Blk(r)' = Blk(r)
    BY <2>1, <2>2 DEF Blk
  <2> QED
    BY <1>0, <2>1, <2>3, CallStays
<1>ChildrenReady. CASE ChildrenReady
  <2>1. /\ t \in Task
        /\ Pc(t) = "run"
        /\ act'[t].pc = "start"
        /\ \A u \in Task : u # t => act'[u] = act[u]
        /\ uid' = uid /\ prog' = prog /\ stack' = stack /\ reuse' = reuse
        /\ r \in Task /\ r # Loop /\ Busy(r) /\ t = Inner(r) /\ uid[t] = r /\ Busy(r)' /\ Inner(r)' = t
        /\ running' = r
    BY <1>0, <1>ChildrenReady, ChildrenReadyIs, KeepsFrame DEF Moves, Stays
  <2>2. block_to'[t] = block_to[t]
    <3>1. \A j \in DOMAIN Children(t) : Children(t)[j] # t
      BY <1>0, <1>ChildrenReady, <2>1, ChildrenReadyIs
    <3> QED
      BY <1>0, <1>ChildrenReady, <2>1, <3>1, ChildrenReadyIs
  <2>3. Blk(r)' = Blk(r)
    BY <2>1, <2>2 DEF Blk
  <2> QED
    BY <1>0, <2>1, <2>3, CallStays
<1>ChildrenUnready. CASE ChildrenUnready
  <2>1. /\ t \in Task
        /\ Pc(t) = "run"
        /\ act'[t].pc = "return"
        /\ \A u \in Task : u # t => act'[u] = act[u]
        /\ uid' = uid /\ prog' = prog /\ stack' = stack /\ reuse' = reuse
        /\ r \in Task /\ r # Loop /\ Busy(r) /\ t = Inner(r) /\ uid[t] = r /\ Busy(r)' /\ Inner(r)' = t
        /\ running' = r
    BY <1>0, <1>ChildrenUnready, ChildrenUnreadyIs, KeepsFrame DEF Moves, Stays
  <2>2. block_to'[t] = block_to[t]
    <3>1. \A j \in DOMAIN Children(t) : Children(t)[j] # t
      BY <1>0, <1>ChildrenUnready, <2>1, ChildrenUnreadyIs
    <3> QED
      BY <1>0, <1>ChildrenUnready, <2>1, <3>1, ChildrenUnreadyIs
  <2>3. Blk(r)' = Blk(r)
    BY <2>1, <2>2 DEF Blk
  <2> QED
    BY <1>0, <2>1, <2>3, CallStays
<1>StartChild. CASE StartChild
  <2>1. /\ t \in Task
        /\ Pc(t) = "start"
        /\ act'[t].pc = "child"
        /\ act'[t].i = act[t].i
        /\ \A u \in Task : u # t => act'[u] = act[u]
        /\ uid' = uid /\ prog' = prog /\ stack' = stack /\ reuse' = reuse
        /\ r \in Task /\ r # Loop /\ Busy(r) /\ t = Inner(r) /\ uid[t] = r /\ Busy(r)' /\ Inner(r)' = t
        /\ act[t].i \in Nat
        /\ block_to' = block_to
    BY <1>0, <1>StartChild, StartChildIs, KeepsFrame, StackTypes DEF Moves
  <2>2. PICK x \in Task :
          /\ x # r /\ x # t /\ ~Busy(x) /\ running' = x /\ Busy(x)' = Busy(x)
          /\ act[t].i \in DOMAIN Children(t) /\ x = Children(t)[act[t].i]
          /\ block_to[x] = r
    BY <1>0, <1>StartChild, StartChildFx, StartChildIs, KeepsFrame
  <2>3. act'[t].i = act[t].i
    BY <2>1
  <2>4. Calls(t, x)'
    BY <2>1, <2>2, <2>3 DEF Calls, Pc, Kind, Children, Body
  <2>5. Calling(r)' /\ Blk(r)' = Blk(r)
    <3>1. Calling(r)'
      BY <2>1, <2>2 DEF Calling, Pc, Waits
    <3>2. Blk(r)' = Blk(r)
      BY <2>1, <2>2 DEF Blk
    <3> QED
      BY <3>1, <3>2
  <2>6. ~Calling(x)
    BY <2>2 DEF Calling
  <2>7. Blk(x)' = r
    BY <2>1, <2>2 DEF Blk
  <2>8. Pc(t)' = "child"
    BY <2>1 DEF Pc
  <2> QED
    BY <1>0, <2>1, <2>2, <2>4, <2>5, <2>6, <2>7, <2>8, CallOut
<1>AllOfBackYields. CASE AllOfBackYields
  <2>1. /\ t \in Task
        /\ Pc(t) = "child"
        /\ act'[t].pc = "wait"
        /\ \A u \in Task : u # t => act'[u] = act[u]
        /\ uid' = uid /\ prog' = prog /\ stack' = stack /\ reuse' = reuse
        /\ r \in Task /\ r # Loop /\ Busy(r) /\ t = Inner(r) /\ uid[t] = r /\ Busy(r)' /\ Inner(r)' = t
        /\ Yields /\ Keeps
    BY <1>0, <1>AllOfBackYields, AllOfBackYieldsIs, KeepsFrame DEF AllOfBackYields, Moves
  <2>2. ~Unwinds(r)
    BY <1>0, <1>AllOfBackYields, YieldsFreely
  <2>3. ~Calling(r)'
    BY <2>1 DEF Calling, Pc, Waits
  <2>4. PICK b : b = block_to[t] /\ running' = b
    BY <1>0, <2>1, YieldsFx
  <2>5. CASE b = Loop
    <3>1. \A c \in Task : ~Calling(c)
      BY <1>0, <2>1, <2>2, <2>4, <2>5, YieldTo, StackTypes
    <3> QED
      BY <1>0, <2>3, <2>4, <2>5, <3>1, CallNone, StackTypes
  <2>6. CASE b # Loop
    <3>1. b \in Task /\ Calling(b) /\ Inner(b) \in Task /\ Calls(Inner(b), r)
      BY <1>0, <2>1, <2>2, <2>4, <2>6, YieldTo
    <3>2. PICK z \in Task : z = Inner(b) /\ Calls(z, r)
      BY <3>1
    <3> QED
      BY <1>0, <2>1, <2>3, <2>4, <3>1, <3>2, CallBack
  <2> QED
    BY <2>5, <2>6
<1>AllOfBackGoesOn. CASE AllOfBackGoesOn
  <2>1. /\ t \in Task
        /\ Pc(t) = "child"
        /\ act'[t].pc = (IF act[t].i = Len(Children(t)) THEN "return" ELSE "start")
        /\ \A u \in Task : u # t => act'[u] = act[u]
        /\ uid' = uid /\ prog' = prog /\ stack' = stack /\ reuse' = reuse
        /\ r \in Task /\ r # Loop /\ Busy(r) /\ t = Inner(r) /\ uid[t] = r /\ Busy(r)' /\ Inner(r)' = t
        /\ running' = r
        /\ block_to'[t] = block_to[t]
    BY <1>0, <1>AllOfBackGoesOn, AllOfBackGoesOnIs, KeepsFrame DEF AllOfBackGoesOn, Moves, Stays
  <2>2. block_to'[t] = block_to[t]
    BY <2>1
  <2>3. Blk(r)' = Blk(r)
    BY <2>1, <2>2 DEF Blk
  <2> QED
    BY <1>0, <2>1, <2>3, CallStays
<1>AnyOfBackWins. CASE AnyOfBackWins
  <2>1. /\ t \in Task
        /\ Pc(t) = "child"
        /\ act'[t].pc = "cancel"
        /\ \A u \in Task : u # t => act'[u] = act[u]
        /\ uid' = uid /\ prog' = prog /\ stack' = stack /\ reuse' = reuse
        /\ r \in Task /\ r # Loop /\ Busy(r) /\ t = Inner(r) /\ uid[t] = r /\ Busy(r)' /\ Inner(r)' = t
        /\ running' = r
        /\ block_to'[t] = block_to[t]
    BY <1>0, <1>AnyOfBackWins, AnyOfBackWinsIs, KeepsFrame DEF AnyOfBackWins, Moves, Stays
  <2>2. block_to'[t] = block_to[t]
    BY <2>1
  <2>3. Blk(r)' = Blk(r)
    BY <2>1, <2>2 DEF Blk
  <2> QED
    BY <1>0, <2>1, <2>3, CallStays
<1>AnyOfBackGoesOn. CASE AnyOfBackGoesOn
  <2>1. /\ t \in Task
        /\ Pc(t) = "child"
        /\ act'[t].pc = "start"
        /\ \A u \in Task : u # t => act'[u] = act[u]
        /\ uid' = uid /\ prog' = prog /\ stack' = stack /\ reuse' = reuse
        /\ r \in Task /\ r # Loop /\ Busy(r) /\ t = Inner(r) /\ uid[t] = r /\ Busy(r)' /\ Inner(r)' = t
        /\ running' = r
        /\ block_to'[t] = block_to[t]
    BY <1>0, <1>AnyOfBackGoesOn, AnyOfBackGoesOnIs, KeepsFrame DEF AnyOfBackGoesOn, Moves, Stays
  <2>2. block_to'[t] = block_to[t]
    BY <2>1
  <2>3. Blk(r)' = Blk(r)
    BY <2>1, <2>2 DEF Blk
  <2> QED
    BY <1>0, <2>1, <2>3, CallStays
<1>AnyOfBackYields. CASE AnyOfBackYields
  <2>1. /\ t \in Task
        /\ Pc(t) = "child"
        /\ act'[t].pc = "wait"
        /\ \A u \in Task : u # t => act'[u] = act[u]
        /\ uid' = uid /\ prog' = prog /\ stack' = stack /\ reuse' = reuse
        /\ r \in Task /\ r # Loop /\ Busy(r) /\ t = Inner(r) /\ uid[t] = r /\ Busy(r)' /\ Inner(r)' = t
        /\ Yields /\ Keeps
    BY <1>0, <1>AnyOfBackYields, AnyOfBackYieldsIs, KeepsFrame DEF AnyOfBackYields, Moves
  <2>2. ~Unwinds(r)
    BY <1>0, <1>AnyOfBackYields, YieldsFreely
  <2>3. ~Calling(r)'
    BY <2>1 DEF Calling, Pc, Waits
  <2>4. PICK b : b = block_to[t] /\ running' = b
    BY <1>0, <2>1, YieldsFx
  <2>5. CASE b = Loop
    <3>1. \A c \in Task : ~Calling(c)
      BY <1>0, <2>1, <2>2, <2>4, <2>5, YieldTo, StackTypes
    <3> QED
      BY <1>0, <2>3, <2>4, <2>5, <3>1, CallNone, StackTypes
  <2>6. CASE b # Loop
    <3>1. b \in Task /\ Calling(b) /\ Inner(b) \in Task /\ Calls(Inner(b), r)
      BY <1>0, <2>1, <2>2, <2>4, <2>6, YieldTo
    <3>2. PICK z \in Task : z = Inner(b) /\ Calls(z, r)
      BY <3>1
    <3> QED
      BY <1>0, <2>1, <2>3, <2>4, <3>1, <3>2, CallBack
  <2> QED
    BY <2>5, <2>6
<1>AllOfWakeYields. CASE AllOfWakeYields
  <2>1. /\ t \in Task
        /\ Pc(t) = "wait"
        /\ act'[t].pc = "wait"
        /\ \A u \in Task : u # t => act'[u] = act[u]
        /\ uid' = uid /\ prog' = prog /\ stack' = stack /\ reuse' = reuse
        /\ r \in Task /\ r # Loop /\ Busy(r) /\ t = Inner(r) /\ uid[t] = r /\ Busy(r)' /\ Inner(r)' = t
        /\ Yields /\ Keeps
    BY <1>0, <1>AllOfWakeYields, AllOfWakeYieldsIs, KeepsFrame DEF AllOfWakeYields, Moves
  <2>2. ~Unwinds(r)
    BY <1>0, <1>AllOfWakeYields, YieldsFreely
  <2>3. ~Calling(r)'
    BY <2>1 DEF Calling, Pc, Waits
  <2>4. PICK b : b = block_to[t] /\ running' = b
    BY <1>0, <2>1, YieldsFx
  <2>5. CASE b = Loop
    <3>1. \A c \in Task : ~Calling(c)
      BY <1>0, <2>1, <2>2, <2>4, <2>5, YieldTo, StackTypes
    <3> QED
      BY <1>0, <2>3, <2>4, <2>5, <3>1, CallNone, StackTypes
  <2>6. CASE b # Loop
    <3>1. b \in Task /\ Calling(b) /\ Inner(b) \in Task /\ Calls(Inner(b), r)
      BY <1>0, <2>1, <2>2, <2>4, <2>6, YieldTo
    <3>2. PICK z \in Task : z = Inner(b) /\ Calls(z, r)
      BY <3>1
    <3> QED
      BY <1>0, <2>1, <2>3, <2>4, <3>1, <3>2, CallBack
  <2> QED
    BY <2>5, <2>6
<1>AllOfWakeEnds. CASE AllOfWakeEnds
  <2>1. /\ t \in Task
        /\ Pc(t) = "wait"
        /\ act'[t].pc = "return"
        /\ \A u \in Task : u # t => act'[u] = act[u]
        /\ uid' = uid /\ prog' = prog /\ stack' = stack /\ reuse' = reuse
        /\ r \in Task /\ r # Loop /\ Busy(r) /\ t = Inner(r) /\ uid[t] = r /\ Busy(r)' /\ Inner(r)' = t
        /\ running' = r
        /\ block_to'[t] = block_to[t]
    BY <1>0, <1>AllOfWakeEnds, AllOfWakeEndsIs, KeepsFrame DEF AllOfWakeEnds, Moves, Stays
  <2>2. block_to'[t] = block_to[t]
    BY <2>1
  <2>3. Blk(r)' = Blk(r)
    BY <2>1, <2>2 DEF Blk
  <2> QED
    BY <1>0, <2>1, <2>3, CallStays
<1>AnyOfWake. CASE AnyOfWake
  <2>1. /\ t \in Task
        /\ Pc(t) = "wait"
        /\ act'[t].pc = "cancel"
        /\ \A u \in Task : u # t => act'[u] = act[u]
        /\ uid' = uid /\ prog' = prog /\ stack' = stack /\ reuse' = reuse
        /\ r \in Task /\ r # Loop /\ Busy(r) /\ t = Inner(r) /\ uid[t] = r /\ Busy(r)' /\ Inner(r)' = t
        /\ running' = r
        /\ block_to'[t] = block_to[t]
    BY <1>0, <1>AnyOfWake, AnyOfWakeIs, KeepsFrame DEF Moves, Stays
  <2>2. block_to'[t] = block_to[t]
    BY <2>1
  <2>3. Blk(r)' = Blk(r)
    BY <2>1, <2>2 DEF Blk
  <2> QED
    BY <1>0, <2>1, <2>3, CallStays
<1>CanceledDirectlyLeaf. CASE CanceledDirectlyLeaf
  <2>1. /\ t \in Task
        /\ Pc(t) = "wait"
        /\ act'[t].pc = "return"
        /\ \A u \in Task : u # t => act'[u] = act[u]
        /\ uid' = uid /\ prog' = prog /\ stack' = stack /\ reuse' = reuse
        /\ r \in Task /\ r # Loop /\ Busy(r) /\ t = Inner(r) /\ uid[t] = r /\ Busy(r)' /\ Inner(r)' = t
        /\ running' = r
        /\ block_to'[t] = block_to[t]
    BY <1>0, <1>CanceledDirectlyLeaf, CanceledDirectlyLeafIs, KeepsFrame
       DEF CanceledDirectlyLeaf, Moves, Stays
  <2>2. block_to'[t] = block_to[t]
    BY <2>1
  <2>3. Blk(r)' = Blk(r)
    BY <2>1, <2>2 DEF Blk
  <2> QED
    BY <1>0, <2>1, <2>3, CallStays
<1>CanceledDirectlyComb. CASE CanceledDirectlyComb
  <2>1. /\ t \in Task
        /\ Pc(t) = "wait"
        /\ act'[t].pc = "cancel"
        /\ \A u \in Task : u # t => act'[u] = act[u]
        /\ uid' = uid /\ prog' = prog /\ stack' = stack /\ reuse' = reuse
        /\ r \in Task /\ r # Loop /\ Busy(r) /\ t = Inner(r) /\ uid[t] = r /\ Busy(r)' /\ Inner(r)' = t
        /\ running' = r
        /\ block_to'[t] = block_to[t]
    BY <1>0, <1>CanceledDirectlyComb, CanceledDirectlyCombIs, KeepsFrame
       DEF CanceledDirectlyComb, Moves, Stays
  <2>2. block_to'[t] = block_to[t]
    BY <2>1
  <2>3. Blk(r)' = Blk(r)
    BY <2>1, <2>2 DEF Blk
  <2> QED
    BY <1>0, <2>1, <2>3, CallStays
<1>CanceledIndirectly. CASE CanceledIndirectly
  <2>1. /\ t \in Task
        /\ Pc(t) = "wait"
        /\ act'[t].pc = "throw"
        /\ \A u \in Task : u # t => act'[u] = act[u]
        /\ uid' = uid /\ prog' = prog /\ stack' = stack /\ reuse' = reuse
        /\ r \in Task /\ r # Loop /\ Busy(r) /\ t = Inner(r) /\ uid[t] = r /\ Busy(r)' /\ Inner(r)' = t
        /\ running' = r
        /\ block_to'[t] = block_to[t]
    BY <1>0, <1>CanceledIndirectly, CanceledIndirectlyIs, KeepsFrame DEF Moves, Stays
  <2>2. block_to'[t] = block_to[t]
    BY <2>1
  <2>3. Blk(r)' = Blk(r)
    BY <2>1, <2>2 DEF Blk
  <2> QED
    BY <1>0, <2>1, <2>3, CallStays
<1>CatchLeaf. CASE CatchLeaf
  <2>1. /\ t \in Task
        /\ Pc(t) = "throw"
        /\ act'[t].pc = "caught"
        /\ \A u \in Task : u # t => act'[u] = act[u]
        /\ uid' = uid /\ prog' = prog /\ stack' = stack /\ reuse' = reuse
        /\ r \in Task /\ r # Loop /\ Busy(r) /\ t = Inner(r) /\ uid[t] = r /\ Busy(r)' /\ Inner(r)' = t
        /\ running' = r
        /\ block_to'[t] = block_to[t]
    BY <1>0, <1>CatchLeaf, CatchLeafIs, KeepsFrame DEF CatchLeaf, Moves, Stays
  <2>2. block_to'[t] = block_to[t]
    BY <2>1
  <2>3. Blk(r)' = Blk(r)
    BY <2>1, <2>2 DEF Blk
  <2> QED
    BY <1>0, <2>1, <2>3, CallStays
<1>CatchComb. CASE CatchComb
  <2>1. /\ t \in Task
        /\ Pc(t) = "throw"
        /\ act'[t].pc = "cancel"
        /\ \A u \in Task : u # t => act'[u] = act[u]
        /\ uid' = uid /\ prog' = prog /\ stack' = stack /\ reuse' = reuse
        /\ r \in Task /\ r # Loop /\ Busy(r) /\ t = Inner(r) /\ uid[t] = r /\ Busy(r)' /\ Inner(r)' = t
        /\ running' = r
        /\ block_to'[t] = block_to[t]
    BY <1>0, <1>CatchComb, CatchCombIs, KeepsFrame DEF CatchComb, Moves, Stays
  <2>2. block_to'[t] = block_to[t]
    BY <2>1
  <2>3. Blk(r)' = Blk(r)
    BY <2>1, <2>2 DEF Blk
  <2> QED
    BY <1>0, <2>1, <2>3, CallStays
<1>CancelSkip. CASE CancelSkip
  <2>1. /\ t \in Task
        /\ Pc(t) = "cancel"
        /\ act'[t].pc = "cancel"
        /\ \A u \in Task : u # t => act'[u] = act[u]
        /\ uid' = uid /\ prog' = prog /\ stack' = stack /\ reuse' = reuse
        /\ r \in Task /\ r # Loop /\ Busy(r) /\ t = Inner(r) /\ uid[t] = r /\ Busy(r)' /\ Inner(r)' = t
        /\ running' = r
        /\ block_to'[t] = block_to[t]
    BY <1>0, <1>CancelSkip, CancelSkipIs, KeepsFrame DEF Moves, Stays
  <2>2. block_to'[t] = block_to[t]
    BY <2>1
  <2>3. Blk(r)' = Blk(r)
    BY <2>1, <2>2 DEF Blk
  <2> QED
    BY <1>0, <2>1, <2>3, CallStays
<1>CancelUnsupport. CASE CancelUnsupport
  <2>1. /\ t \in Task
        /\ Pc(t) = "cancel"
        /\ act'[t].pc = "cancel"
        /\ \A u \in Task : u # t => act'[u] = act[u]
        /\ uid' = uid /\ prog' = prog /\ stack' = stack /\ reuse' = reuse
        /\ r \in Task /\ r # Loop /\ Busy(r) /\ t = Inner(r) /\ uid[t] = r /\ Busy(r)' /\ Inner(r)' = t
        /\ running' = r
        /\ block_to'[t] = block_to[t]
    BY <1>0, <1>CancelUnsupport, CancelUnsupportIs, KeepsFrame DEF Moves, Stays
  <2>2. block_to'[t] = block_to[t]
    BY <2>1
  <2>3. Blk(r)' = Blk(r)
    BY <2>1, <2>2 DEF Blk
  <2> QED
    BY <1>0, <2>1, <2>3, CallStays
<1>CancelInterrupt. CASE CancelInterrupt
  <2>1. /\ t \in Task
        /\ Pc(t) = "cancel"
        /\ act'[t].pc = "cancel"
        /\ act'[t].i = act[t].i + 1
        /\ \A u \in Task : u # t => act'[u] = act[u]
        /\ uid' = uid /\ prog' = prog /\ stack' = stack /\ reuse' = reuse
        /\ r \in Task /\ r # Loop /\ Busy(r) /\ t = Inner(r) /\ uid[t] = r /\ Busy(r)' /\ Inner(r)' = t
        /\ act[t].i \in Nat
        /\ block_to' = block_to
        /\ global_signal_canceled'
    BY <1>0, <1>CancelInterrupt, CancelInterruptIs, KeepsFrame, StackTypes DEF Moves
  <2>2. PICK x \in Task, y \in Task :
          /\ x # r /\ x # t /\ Busy(x) /\ running' = x /\ y = Inner(x)
          /\ act[t].i \in DOMAIN Children(t) /\ x = Children(t)[act[t].i]
          /\ Pc(y) = "wait" /\ block_to[y] = Loop /\ y # t
    BY <1>0, <1>CancelInterrupt, CancelInterruptFx
  <2>3. act'[t].i - 1 = act[t].i
    BY <2>1
  <2>4. Calls(t, x)'
    BY <2>1, <2>2, <2>3 DEF Calls, Pc, Kind, Children, Body
  <2>5. Calling(r)' /\ Blk(r)' = Blk(r)
    <3>1. Calling(r)'
      BY <2>1, <2>2 DEF Calling, Pc, Waits
    <3>2. Blk(r)' = Blk(r)
      BY <2>1, <2>2 DEF Blk
    <3> QED
      BY <3>1, <3>2
  <2>6. ~Calling(x)
    BY <2>2 DEF Calling, Waits
  <2>7. Busy(x)' /\ Inner(x)' = y /\ Pc(y)' = "wait"
    BY <2>1, <2>2 DEF Busy, Inner, Pc
  <2>8. Blk(x)' = Loop
    BY <2>1, <2>2, <2>7 DEF Blk
  <2>9. Unwinds(x)'
    BY <2>1, <2>2, <2>7 DEF Unwinds
  <2>10. Pc(t)' = "cancel"
    BY <2>1 DEF Pc
  <2> QED
    BY <1>0, <2>1, <2>2, <2>4, <2>5, <2>6, <2>8, <2>9, <2>10, CallOut
<1>CancelEndYields. CASE CancelEndYields
  <2>1. /\ t \in Task
        /\ Pc(t) = "cancel"
        /\ act'[t].pc = "unsupport"
        /\ \A u \in Task : u # t => act'[u] = act[u]
        /\ uid' = uid /\ prog' = prog /\ stack' = stack /\ reuse' = reuse
        /\ r \in Task /\ r # Loop /\ Busy(r) /\ t = Inner(r) /\ uid[t] = r /\ Busy(r)' /\ Inner(r)' = t
        /\ Yields /\ Keeps
    BY <1>0, <1>CancelEndYields, CancelEndYieldsIs, KeepsFrame DEF CancelEndYields, Moves
  <2>2. ~Unwinds(r)
    BY <1>0, <1>CancelEndYields, YieldsFreely
  <2>3. ~Calling(r)'
    BY <2>1 DEF Calling, Pc, Waits
  <2>4. PICK b : b = block_to[t] /\ running' = b
    BY <1>0, <2>1, YieldsFx
  <2>5. CASE b = Loop
    <3>1. \A c \in Task : ~Calling(c)
      BY <1>0, <2>1, <2>2, <2>4, <2>5, YieldTo, StackTypes
    <3> QED
      BY <1>0, <2>3, <2>4, <2>5, <3>1, CallNone, StackTypes
  <2>6. CASE b # Loop
    <3>1. b \in Task /\ Calling(b) /\ Inner(b) \in Task /\ Calls(Inner(b), r)
      BY <1>0, <2>1, <2>2, <2>4, <2>6, YieldTo
    <3>2. PICK z \in Task : z = Inner(b) /\ Calls(z, r)
      BY <3>1
    <3> QED
      BY <1>0, <2>1, <2>3, <2>4, <3>1, <3>2, CallBack
  <2> QED
    BY <2>5, <2>6
<1>CancelEndDone. CASE CancelEndDone
  <2>1. /\ t \in Task
        /\ Pc(t) = "cancel"
        /\ act'[t].pc = act[t].next
        /\ \A u \in Task : u # t => act'[u] = act[u]
        /\ uid' = uid /\ prog' = prog /\ stack' = stack /\ reuse' = reuse
        /\ r \in Task /\ r # Loop /\ Busy(r) /\ t = Inner(r) /\ uid[t] = r /\ Busy(r)' /\ Inner(r)' = t
        /\ running' = r
        /\ block_to'[t] = block_to[t]
    BY <1>0, <1>CancelEndDone, CancelEndDoneIs, KeepsFrame DEF CancelEndDone, Moves, Stays
  <2>2. block_to'[t] = block_to[t]
    BY <2>1
  <2>3. Blk(r)' = Blk(r)
    BY <2>1, <2>2 DEF Blk
  <2> QED
    BY <1>0, <2>1, <2>3, CallStays
<1>UnsupportYields. CASE UnsupportYields
  <2>1. /\ t \in Task
        /\ Pc(t) = "unsupport"
        /\ act'[t].pc = "unsupport"
        /\ \A u \in Task : u # t => act'[u] = act[u]
        /\ uid' = uid /\ prog' = prog /\ stack' = stack /\ reuse' = reuse
        /\ r \in Task /\ r # Loop /\ Busy(r) /\ t = Inner(r) /\ uid[t] = r /\ Busy(r)' /\ Inner(r)' = t
        /\ Yields /\ Keeps
    BY <1>0, <1>UnsupportYields, UnsupportYieldsIs, KeepsFrame DEF UnsupportYields, Moves
  <2>2. ~Unwinds(r)
    BY <1>0, <1>UnsupportYields, YieldsFreely
  <2>3. ~Calling(r)'
    BY <2>1 DEF Calling, Pc, Waits
  <2>4. PICK b : b = block_to[t] /\ running' = b
    BY <1>0, <2>1, YieldsFx
  <2>5. CASE b = Loop
    <3>1. \A c \in Task : ~Calling(c)
      BY <1>0, <2>1, <2>2, <2>4, <2>5, YieldTo, StackTypes
    <3> QED
      BY <1>0, <2>3, <2>4, <2>5, <3>1, CallNone, StackTypes
  <2>6. CASE b # Loop
    <3>1. b \in Task /\ Calling(b) /\ Inner(b) \in Task /\ Calls(Inner(b), r)
      BY <1>0, <2>1, <2>2, <2>4, <2>6, YieldTo
    <3>2. PICK z \in Task : z = Inner(b) /\ Calls(z, r)
      BY <3>1
    <3> QED
      BY <1>0, <2>1, <2>3, <2>4, <3>1, <3>2, CallBack
  <2> QED
    BY <2>5, <2>6
<1>UnsupportDone. CASE UnsupportDone
  <2>1. /\ t \in Task
        /\ Pc(t) = "unsupport"
        /\ act'[t].pc = act[t].next
        /\ \A u \in Task : u # t => act'[u] = act[u]
        /\ uid' = uid /\ prog' = prog /\ stack' = stack /\ reuse' = reuse
        /\ r \in Task /\ r # Loop /\ Busy(r) /\ t = Inner(r) /\ uid[t] = r /\ Busy(r)' /\ Inner(r)' = t
        /\ running' = r
        /\ block_to'[t] = block_to[t]
    BY <1>0, <1>UnsupportDone, UnsupportDoneIs, KeepsFrame DEF UnsupportDone, Moves, Stays
  <2>2. block_to'[t] = block_to[t]
    BY <2>1
  <2>3. Blk(r)' = Blk(r)
    BY <2>1, <2>2 DEF Blk
  <2> QED
    BY <1>0, <2>1, <2>3, CallStays
<1>AwaitReturn. CASE AwaitReturn
  <2>1. PICK u \in Task : /\ r \in Task /\ running' = r /\ Busy(r) /\ Busy(r)' /\ Inner(r)' = u /\ t = Inner(r)
                          /\ block_to'[u] = block_to[t]
    BY <1>0, <1>AwaitReturn, PopsFx
  <2>3. Blk(r)' = Blk(r)
    BY <2>1 DEF Blk
  <2> QED
    BY <1>0, <2>1, <2>3, CallStays
<1>AwaitReturnThrow. CASE AwaitReturnThrow
  <2>1. PICK u \in Task : /\ r \in Task /\ running' = r /\ Busy(r) /\ Busy(r)' /\ Inner(r)' = u /\ t = Inner(r)
                          /\ block_to'[u] = block_to[t]
    BY <1>0, <1>AwaitReturnThrow, PopsFx
  <2>3. Blk(r)' = Blk(r)
    BY <2>1 DEF Blk
  <2> QED
    BY <1>0, <2>1, <2>3, CallStays
<1>AwaitRethrow. CASE AwaitRethrow
  <2>1. PICK u \in Task : /\ r \in Task /\ running' = r /\ Busy(r) /\ Busy(r)' /\ Inner(r)' = u /\ t = Inner(r)
                          /\ block_to'[u] = block_to[t]
    BY <1>0, <1>AwaitRethrow, PopsFx
  <2>3. Blk(r)' = Blk(r)
    BY <2>1 DEF Blk
  <2> QED
    BY <1>0, <2>1, <2>3, CallStays
<1>RuntimeFinish. CASE RuntimeFinish
  <2>1. r \in Task /\ block_to' = block_to
    BY <1>0, <1>RuntimeFinish, RuntimeFinishIs
  <2>2. ~Calling(r)'
    BY <1>0, <1>RuntimeFinish, <2>1, FinishFx DEF Calling
  <2>3. CASE running' = Loop /\ ~IsKid(running) /\ \A c \in Task : ~Calling(c)
    BY <1>0, <2>2, <2>3, CallNone, StackTypes
  <2>4. ASSUME NEW b \in Task, running' = b, b # r, Busy(b), NEW z \in Task, z = Inner(b), Calling(b), Calls(z, r)
        PROVE  CallInv'
    BY <1>0, <2>1, <2>2, <2>4, CallBack
  <2>5. ASSUME NEW b \in Task, running' = b, b # r, Busy(b), NEW z \in Task, z = Inner(b), Pc(z) \in Waits,
               \A c \in Task : ~Calling(c)
        PROVE  CallInv'
    <3>1. block_to[z] = Loop
      BY <2>5 DEF IndInv, BlockInv
    <3>2. Blk(b) = Loop
      BY <2>5, <3>1 DEF Blk
    <3>3. Blk(b)' = Loop
      BY <1>0, <2>5, <3>2, CallOther
    <3> QED
      BY <1>0, <2>2, <2>5, <3>3, CallNone
  <2> QED
    BY <1>0, <1>RuntimeFinish, <2>3, <2>4, <2>5, FinishTo
<1>EventFires. CASE \E e \in Task : EventFires(e)
  <2>1. PICK e \in Task : EventFires(e)
    BY <1>EventFires
  <2>2. PICK b \in Task : running = Loop /\ running' = b /\ Busy(b) /\ Inner(b) = e /\ Pc(e) = "wait"
    BY <2>1, EventFiresIs
  <2>3. \A c \in Task : ~Calling(c)
    BY <2>2, NobodyCalls
  <2>4. Blk(b) = Loop
    <3>1. block_to[e] = Loop
      BY <2>2 DEF IndInv, BlockInv, Waits
    <3> QED
      BY <2>2, <3>1 DEF Blk
  <2>5. Blk(b)' = Loop
    BY <2>2, <2>4, CallOther, StackTypes
  <2> QED
    BY <2>2, <2>3, <2>5, CallNone, StackTypes
<1>Stutter. CASE UNCHANGED vars
  <2>1. /\ \A c \in Task : Busy(c)' = Busy(c) /\ Inner(c)' = Inner(c) /\ Pc(c)' = Pc(c)
        /\ running' = running /\ block_to' = block_to /\ act' = act /\ prog' = prog /\ status' = status
        /\ global_signal_canceled' = global_signal_canceled
    BY <1>Stutter DEF Busy, Inner, Pc, vars, objectVars, controlVars
  <2>2. \A c \in Task : Blk(c)' = Blk(c) /\ Calling(c)' = Calling(c)
    BY <1>Stutter DEF Busy, Inner, Pc, Calling, Blk, Waits, vars, objectVars, controlVars
  <2>3. \A c, d \in Task : Calls(c, d)' = Calls(c, d)
    BY <2>1 DEF Calls, Kind, Children, Body
  <2>4. \A c \in Task : Unwinds(c) => Unwinds(c)'
    BY <2>1, UnwindsStep DEF Unwinds
  <2>5. ASSUME NEW c \in Task, Calling(c)'
        PROVE  \E y, d \in Task :
                /\ y = Inner(c)' /\ Calls(y, d)' /\ (d = running' \/ Calling(d)')
                /\ Pc(y)' = "run" => y = c
                /\ Pc(y)' # "cancel" => Blk(d)' = c
                /\ Pc(y)' = "cancel" => Blk(d)' = Loop /\ Unwinds(d)'
    <3>1. PICK y \in Task, d \in Task :
                  /\ y = Inner(c) /\ Calls(y, d) /\ (d = running \/ Calling(d))
                  /\ Pc(y) = "run" => y = c
                  /\ Pc(y) # "cancel" => Blk(d) = c
                  /\ Pc(y) = "cancel" => Blk(d) = Loop /\ Unwinds(d)
      BY <2>2, <2>5, CallNow
    <3> QED
      BY <2>1, <2>2, <2>3, <2>4, <3>1
  <2>6. ASSUME NEW d \in Task, d = running' \/ Calling(d)', Blk(d)' # Loop
        PROVE  \E e, y \in Task : e = Blk(d)' /\ y = Inner(e)' /\ Calling(e)' /\ Calls(y, d)'
    <3>1. PICK e \in Task, y \in Task : e = Blk(d) /\ y = Inner(e) /\ Calling(e) /\ Calls(y, d)
      BY <2>1, <2>2, <2>6, CallNow
    <3> QED
      BY <2>1, <2>2, <2>3, <3>1
  <2> QED
    BY <2>5, <2>6, CallFrom
<1> QED
  BY StepCases, <1>TaskRuntime, <1>Await, <1>Start, <1>StartReject, <1>EventRun, <1>EventWake,
       <1>ChildrenReady, <1>ChildrenUnready, <1>StartChild, <1>AllOfBackYields,
       <1>AllOfBackGoesOn, <1>AnyOfBackWins, <1>AnyOfBackGoesOn, <1>AnyOfBackYields,
       <1>AllOfWakeYields, <1>AllOfWakeEnds, <1>AnyOfWake, <1>CanceledDirectlyLeaf,
       <1>CanceledDirectlyComb, <1>CanceledIndirectly, <1>CatchLeaf, <1>CatchComb, <1>CancelSkip,
       <1>CancelUnsupport, <1>CancelInterrupt, <1>CancelEndYields, <1>CancelEndDone,
       <1>UnsupportYields, <1>UnsupportDone, <1>AwaitReturn, <1>AwaitReturnThrow, <1>AwaitRethrow,
       <1>RuntimeFinish, <1>EventFires, <1>Stutter

\* A child that is about to begin was started just now.
LEMMA EnteringKid ==
    ASSUME IndInv, NEW k \in Task, NEW j \in DOMAIN Children(k), Entering(Children(k)[j])
    PROVE  Pc(k) = "child" /\ act[k].i = j
<1>1. PICK x \in Task : x = Children(k)[j] /\ x = running /\ ~Busy(x)
  BY KidFacts DEF IndInv, Entering
<1>2. block_to[x] = uid[k]
  BY <1>1 DEF IndInv, BlockInv
<1>3. Pc(k) \in AtWork
  BY <1>1 DEF IndInv, FinishInv, Begun
<1>4. uid[k] \in Task
  BY <1>3, LiveFacts DEF AtWork
<1>5. Blk(x) = uid[k] /\ Blk(x) # Loop
  BY <1>1, <1>2, <1>4, TopAssumption DEF Blk
<1>6. PICK c \in Task : Calling(c)
  BY <1>1, <1>5 DEF IndInv, CallInv
<1> QED
  BY <1>1, <1>6, CallerOfKid DEF Unwinds

\* Who is going to end canceled gives control to nobody when it blocks.
LEMMA DoomedBlk ==
    ASSUME IndInv, running \in Task, Doomed(running)
    PROVE  Blk(running) = Loop
<1> SUFFICES ASSUME Blk(running) # Loop PROVE FALSE
  OBVIOUS
<1>1. PICK c \in Task : Calling(c)
  BY DEF IndInv, CallInv
<1>2. PICK k \in Task : \E j \in DOMAIN Children(k) : Children(k)[j] = running /\ Visited(k, j)
  BY DEF IndInv, DoomInv
<1>3. PICK j \in DOMAIN Children(k) : Children(k)[j] = running /\ Visited(k, j)
  BY <1>2
<1> QED
  BY <1>1, <1>3, CallerOfKid DEF Visited

LEMMA RunStep ==
    ASSUME IndInv, [Next]_vars
    PROVE  \A x \in Task :
             /\ Pc(x)' = "run" => \/ Pc(x) = "run"
                                  \/ TaskRuntime /\ x = running
                                  \/ Await /\ x = Target
             /\ Pc(x)' # "none" /\ status'[x] = "child_unready" =>
                  Pc(x) # "none" /\ (status[x] = "child_unready" \/ (ChildrenUnready /\ x = Top))
             /\ Pc(x) # "none" /\ Kind(x) # "user" /\ Pc(x)' \notin {"none", "wait", "unsupport"} =>
                  block_to'[x] = block_to[x]
<1> SUFFICES ASSUME NEW x \in Task
             PROVE  /\ Pc(x)' = "run" => \/ Pc(x) = "run"
                                         \/ TaskRuntime /\ x = running
                                         \/ Await /\ x = Target
                    /\ Pc(x)' # "none" /\ status'[x] = "child_unready" =>
                         Pc(x) # "none" /\ (status[x] = "child_unready" \/ (ChildrenUnready /\ x = Top))
                    /\ Pc(x) # "none" /\ Kind(x) # "user" /\ Pc(x)' \notin {"none", "wait", "unsupport"} =>
                         block_to'[x] = block_to[x]
  OBVIOUS
<1>0. PICK r, t : r = running /\ t = Top
  OBVIOUS
<1>n. status[x] = "child_unready" /\ Pc(x) # "none" => Pc(x) = "return"
  BY DEF IndInv, StatusInv
<1>t. status \in [Task -> Status]
  BY DEF IndInv, TypeOK
<1>TaskRuntime. CASE TaskRuntime
  <2>1. r \in Task /\ block_to' = block_to /\ Pc(r) = "none" /\ \A u \in Task : u # r => act'[u] = act[u]
    BY <1>0, <1>TaskRuntime, TaskRuntimeIs
  <2>2. status'[r] = "running" /\ \A u \in Task : u # r => status'[u] = status[u]
    BY <1>0, <1>TaskRuntime, TaskRuntimeFx
  <2> QED
    BY <1>0, <1>TaskRuntime, <2>1, <2>2 DEF Pc
<1>Await. CASE Await
  <2>1. PICK y \in Task, u \in Task :
          /\ y = Target /\ Pc(u) = "run" /\ Kind(u) = "user" /\ Pc(y) = "none" /\ act'[u].pc = "run"
          /\ status'[y] = "running" /\ \A v \in Task : v # y => status'[v] = status[v]
          /\ \A v \in Task : v # u /\ v # y => act'[v] = act[v]
          /\ \A v \in Task : v # y /\ v # u => block_to'[v] = block_to[v]
    BY <1>Await, AwaitFx
  <2> QED
    BY <1>0, <1>Await, <2>1 DEF Pc
<1>Start. CASE Start
  <2>1. /\ t \in Task
        /\ Pc(t) = "run"
        /\ act'[t].pc = "run"
        /\ act'[t].next = act[t].next
        /\ \A u \in Task : u # t => act'[u] = act[u]
        /\ uid' = uid /\ prog' = prog /\ stack' = stack /\ reuse' = reuse
        /\ \A u \in Task : u # t /\ Pc(u) # "none" => block_to'[u] = block_to[u]
        /\ Kind(t) = "user"
        /\ status' = status
    BY <1>0, <1>Start, StartIs, KeepsFrame, StartFx DEF Moves, Keeps
  <2> QED
    BY <1>0, StackTypes, <2>1 DEF Pc
<1>StartReject. CASE StartReject
  <2>1. /\ t \in Task
        /\ Pc(t) = "run"
        /\ act'[t].pc = "run"
        /\ act'[t].next = act[t].next
        /\ \A u \in Task : u # t => act'[u] = act[u]
        /\ uid' = uid /\ prog' = prog /\ stack' = stack /\ reuse' = reuse
        /\ \A u \in Task : u # t /\ Pc(u) # "none" => block_to'[u] = block_to[u]
        /\ Kind(t) = "user"
    BY <1>0, <1>StartReject, StartRejectIs, KeepsFrame, CallIs DEF Moves, StartReject, Keeps
  <2>3. status'[x] \in {status[x], "deleted"}
    BY <1>t, <1>StartReject, StartRejectIs
  <2> QED
    BY <1>0, StackTypes, <2>1, <2>3 DEF Pc
<1>EventRun. CASE EventRun
  <2>1. /\ t \in Task
        /\ Pc(t) = "run"
        /\ act'[t].pc = "wait"
        /\ act'[t].next = act[t].next
        /\ \A u \in Task : u # t => act'[u] = act[u]
        /\ uid' = uid /\ prog' = prog /\ stack' = stack /\ reuse' = reuse
        /\ \A u \in Task : u # t /\ Pc(u) # "none" => block_to'[u] = block_to[u]
        /\ status' = status
    BY <1>0, <1>EventRun, EventRunIs, KeepsFrame DEF Moves, Keeps
  <2> QED
    BY <1>0, StackTypes, <2>1 DEF Pc
<1>EventWake. CASE EventWake
  <2>1. /\ t \in Task
        /\ Pc(t) = "wait"
        /\ act'[t].pc = "return"
        /\ act'[t].next = act[t].next
        /\ \A u \in Task : u # t => act'[u] = act[u]
        /\ uid' = uid /\ prog' = prog /\ stack' = stack /\ reuse' = reuse
        /\ \A u \in Task : u # t /\ Pc(u) # "none" => block_to'[u] = block_to[u]
        /\ block_to' = block_to
        /\ status' = status
    BY <1>0, <1>EventWake, EventWakeIs, KeepsFrame DEF Moves, Keeps
  <2> QED
    BY <1>0, StackTypes, <2>1 DEF Pc
<1>ChildrenReady. CASE ChildrenReady
  <2>1. /\ t \in Task
        /\ Pc(t) = "run"
        /\ act'[t].pc = "start"
        /\ act'[t].next = act[t].next
        /\ \A u \in Task : u # t => act'[u] = act[u]
        /\ uid' = uid /\ prog' = prog /\ stack' = stack /\ reuse' = reuse
        /\ \A u \in Task : u # t /\ Pc(u) # "none" => block_to'[u] = block_to[u]
        /\ status' = status
    BY <1>0, <1>ChildrenReady, ChildrenReadyIs, KeepsFrame DEF Moves, Keeps
  <2>2. block_to'[t] = block_to[t]
    <3>1. \A j \in DOMAIN Children(t) : Children(t)[j] # t
      BY <1>0, <1>ChildrenReady, <2>1, ChildrenReadyIs
    <3> QED
      BY <1>0, <1>ChildrenReady, <2>1, <3>1, ChildrenReadyIs
  <2> QED
    BY <1>0, StackTypes, <2>1, <2>2 DEF Pc
<1>ChildrenUnready. CASE ChildrenUnready
  <2>1. /\ t \in Task
        /\ Pc(t) = "run"
        /\ act'[t].pc = "return"
        /\ act'[t].next = act[t].next
        /\ \A u \in Task : u # t => act'[u] = act[u]
        /\ uid' = uid /\ prog' = prog /\ stack' = stack /\ reuse' = reuse
        /\ \A u \in Task : u # t /\ Pc(u) # "none" => block_to'[u] = block_to[u]
    BY <1>0, <1>ChildrenUnready, ChildrenUnreadyIs, KeepsFrame DEF Moves, Keeps
  <2>2. block_to'[t] = block_to[t]
    <3>1. \A j \in DOMAIN Children(t) : Children(t)[j] # t
      BY <1>0, <1>ChildrenUnready, <2>1, ChildrenUnreadyIs
    <3> QED
      BY <1>0, <1>ChildrenUnready, <2>1, <3>1, ChildrenUnreadyIs
  <2>3. status'[x] = status[x] \/ (ChildrenUnready /\ x = Top)
    BY <1>0, <1>t, <1>ChildrenUnready, ChildrenUnreadyIs
  <2> QED
    BY <1>0, StackTypes, <2>1, <2>2, <2>3 DEF Pc
<1>StartChild. CASE StartChild
  <2>1. /\ t \in Task
        /\ Pc(t) = "start"
        /\ act'[t].pc = "child"
        /\ act'[t].next = act[t].next
        /\ \A u \in Task : u # t => act'[u] = act[u]
        /\ uid' = uid /\ prog' = prog /\ stack' = stack /\ reuse' = reuse
        /\ \A u \in Task : u # t /\ Pc(u) # "none" => block_to'[u] = block_to[u]
        /\ block_to' = block_to
        /\ status' = status
    BY <1>0, <1>StartChild, StartChildIs, KeepsFrame DEF Moves, Keeps
  <2> QED
    BY <1>0, StackTypes, <2>1 DEF Pc
<1>AllOfBackYields. CASE AllOfBackYields
  <2>1. /\ t \in Task
        /\ Pc(t) = "child"
        /\ act'[t].pc = "wait"
        /\ act'[t].next = act[t].next
        /\ \A u \in Task : u # t => act'[u] = act[u]
        /\ uid' = uid /\ prog' = prog /\ stack' = stack /\ reuse' = reuse
        /\ \A u \in Task : u # t /\ Pc(u) # "none" => block_to'[u] = block_to[u]
        /\ status' = status
    BY <1>0, <1>AllOfBackYields, AllOfBackYieldsIs, KeepsFrame DEF AllOfBackYields, Moves, Keeps
  <2> QED
    BY <1>0, StackTypes, <2>1 DEF Pc
<1>AllOfBackGoesOn. CASE AllOfBackGoesOn
  <2>1. /\ t \in Task
        /\ Pc(t) = "child"
        /\ act'[t].pc = (IF act[t].i = Len(Children(t)) THEN "return" ELSE "start")
        /\ act'[t].next = act[t].next
        /\ \A u \in Task : u # t => act'[u] = act[u]
        /\ uid' = uid /\ prog' = prog /\ stack' = stack /\ reuse' = reuse
        /\ \A u \in Task : u # t /\ Pc(u) # "none" => block_to'[u] = block_to[u]
        /\ block_to' = block_to
        /\ status' = status
    BY <1>0, <1>AllOfBackGoesOn, AllOfBackGoesOnIs, KeepsFrame DEF AllOfBackGoesOn, Moves, Keeps
  <2> QED
    BY <1>0, StackTypes, <2>1 DEF Pc
<1>AnyOfBackWins. CASE AnyOfBackWins
  <2>1. /\ t \in Task
        /\ Pc(t) = "child"
        /\ act'[t].pc = "cancel"
        /\ act'[t].next = "return"
        /\ \A u \in Task : u # t => act'[u] = act[u]
        /\ uid' = uid /\ prog' = prog /\ stack' = stack /\ reuse' = reuse
        /\ \A u \in Task : u # t /\ Pc(u) # "none" => block_to'[u] = block_to[u]
        /\ block_to' = block_to
        /\ status' = status
    BY <1>0, <1>AnyOfBackWins, AnyOfBackWinsIs, KeepsFrame DEF AnyOfBackWins, Moves, Keeps
  <2> QED
    BY <1>0, StackTypes, <2>1 DEF Pc
<1>AnyOfBackGoesOn. CASE AnyOfBackGoesOn
  <2>1. /\ t \in Task
        /\ Pc(t) = "child"
        /\ act'[t].pc = "start"
        /\ act'[t].next = act[t].next
        /\ \A u \in Task : u # t => act'[u] = act[u]
        /\ uid' = uid /\ prog' = prog /\ stack' = stack /\ reuse' = reuse
        /\ \A u \in Task : u # t /\ Pc(u) # "none" => block_to'[u] = block_to[u]
        /\ block_to' = block_to
        /\ status' = status
    BY <1>0, <1>AnyOfBackGoesOn, AnyOfBackGoesOnIs, KeepsFrame DEF AnyOfBackGoesOn, Moves, Keeps
  <2> QED
    BY <1>0, StackTypes, <2>1 DEF Pc
<1>AnyOfBackYields. CASE AnyOfBackYields
  <2>1. /\ t \in Task
        /\ Pc(t) = "child"
        /\ act'[t].pc = "wait"
        /\ act'[t].next = act[t].next
        /\ \A u \in Task : u # t => act'[u] = act[u]
        /\ uid' = uid /\ prog' = prog /\ stack' = stack /\ reuse' = reuse
        /\ \A u \in Task : u # t /\ Pc(u) # "none" => block_to'[u] = block_to[u]
        /\ status' = status
    BY <1>0, <1>AnyOfBackYields, AnyOfBackYieldsIs, KeepsFrame DEF AnyOfBackYields, Moves, Keeps
  <2> QED
    BY <1>0, StackTypes, <2>1 DEF Pc
<1>AllOfWakeYields. CASE AllOfWakeYields
  <2>1. /\ t \in Task
        /\ Pc(t) = "wait"
        /\ act'[t].pc = "wait"
        /\ act'[t].next = act[t].next
        /\ \A u \in Task : u # t => act'[u] = act[u]
        /\ uid' = uid /\ prog' = prog /\ stack' = stack /\ reuse' = reuse
        /\ \A u \in Task : u # t /\ Pc(u) # "none" => block_to'[u] = block_to[u]
        /\ status' = status
    BY <1>0, <1>AllOfWakeYields, AllOfWakeYieldsIs, KeepsFrame DEF AllOfWakeYields, Moves, Keeps
  <2> QED
    BY <1>0, StackTypes, <2>1 DEF Pc
<1>AllOfWakeEnds. CASE AllOfWakeEnds
  <2>1. /\ t \in Task
        /\ Pc(t) = "wait"
        /\ act'[t].pc = "return"
        /\ act'[t].next = act[t].next
        /\ \A u \in Task : u # t => act'[u] = act[u]
        /\ uid' = uid /\ prog' = prog /\ stack' = stack /\ reuse' = reuse
        /\ \A u \in Task : u # t /\ Pc(u) # "none" => block_to'[u] = block_to[u]
        /\ block_to' = block_to
        /\ status' = status
    BY <1>0, <1>AllOfWakeEnds, AllOfWakeEndsIs, KeepsFrame DEF AllOfWakeEnds, Moves, Keeps
  <2> QED
    BY <1>0, StackTypes, <2>1 DEF Pc
<1>AnyOfWake. CASE AnyOfWake
  <2>1. /\ t \in Task
        /\ Pc(t) = "wait"
        /\ act'[t].pc = "cancel"
        /\ act'[t].next = "return"
        /\ \A u \in Task : u # t => act'[u] = act[u]
        /\ uid' = uid /\ prog' = prog /\ stack' = stack /\ reuse' = reuse
        /\ \A u \in Task : u # t /\ Pc(u) # "none" => block_to'[u] = block_to[u]
        /\ block_to' = block_to
        /\ status' = status
    BY <1>0, <1>AnyOfWake, AnyOfWakeIs, KeepsFrame DEF Moves, Keeps
  <2> QED
    BY <1>0, StackTypes, <2>1 DEF Pc
<1>CanceledDirectlyLeaf. CASE CanceledDirectlyLeaf
  <2>1. /\ t \in Task
        /\ Pc(t) = "wait"
        /\ act'[t].pc = "return"
        /\ act'[t].next = act[t].next
        /\ \A u \in Task : u # t => act'[u] = act[u]
        /\ uid' = uid /\ prog' = prog /\ stack' = stack /\ reuse' = reuse
        /\ \A u \in Task : u # t /\ Pc(u) # "none" => block_to'[u] = block_to[u]
        /\ block_to' = block_to
        /\ status' = status
    BY <1>0, <1>CanceledDirectlyLeaf, CanceledDirectlyLeafIs, KeepsFrame
       DEF CanceledDirectlyLeaf, Moves, Keeps
  <2> QED
    BY <1>0, StackTypes, <2>1 DEF Pc
<1>CanceledDirectlyComb. CASE CanceledDirectlyComb
  <2>1. /\ t \in Task
        /\ Pc(t) = "wait"
        /\ act'[t].pc = "cancel"
        /\ act'[t].next = "return"
        /\ \A u \in Task : u # t => act'[u] = act[u]
        /\ uid' = uid /\ prog' = prog /\ stack' = stack /\ reuse' = reuse
        /\ \A u \in Task : u # t /\ Pc(u) # "none" => block_to'[u] = block_to[u]
        /\ block_to' = block_to
        /\ status' = status
    BY <1>0, <1>CanceledDirectlyComb, CanceledDirectlyCombIs, KeepsFrame
       DEF CanceledDirectlyComb, Moves, Keeps
  <2> QED
    BY <1>0, StackTypes, <2>1 DEF Pc
<1>CanceledIndirectly. CASE CanceledIndirectly
  <2>1. /\ t \in Task
        /\ Pc(t) = "wait"
        /\ act'[t].pc = "throw"
        /\ act'[t].next = act[t].next
        /\ \A u \in Task : u # t => act'[u] = act[u]
        /\ uid' = uid /\ prog' = prog /\ stack' = stack /\ reuse' = reuse
        /\ \A u \in Task : u # t /\ Pc(u) # "none" => block_to'[u] = block_to[u]
        /\ block_to' = block_to
    BY <1>0, <1>CanceledIndirectly, CanceledIndirectlyIs, KeepsFrame DEF Moves, Keeps
  <2>3. status'[x] \in {status[x], "canceled"}
    BY <1>t, <1>CanceledIndirectly, CanceledIndirectlyIs
  <2> QED
    BY <1>0, StackTypes, <2>1, <2>3 DEF Pc
<1>CatchLeaf. CASE CatchLeaf
  <2>1. /\ t \in Task
        /\ Pc(t) = "throw"
        /\ act'[t].pc = "caught"
        /\ act'[t].next = act[t].next
        /\ \A u \in Task : u # t => act'[u] = act[u]
        /\ uid' = uid /\ prog' = prog /\ stack' = stack /\ reuse' = reuse
        /\ \A u \in Task : u # t /\ Pc(u) # "none" => block_to'[u] = block_to[u]
        /\ block_to' = block_to
    BY <1>0, <1>CatchLeaf, CatchLeafIs, KeepsFrame DEF CatchLeaf, Moves, Keeps
  <2>3. status'[x] \in {status[x], "canceled"}
    BY <1>t, <1>CatchLeaf, CatchLeafIs DEF CatchLeaf
  <2> QED
    BY <1>0, StackTypes, <2>1, <2>3 DEF Pc
<1>CatchComb. CASE CatchComb
  <2>1. /\ t \in Task
        /\ Pc(t) = "throw"
        /\ act'[t].pc = "cancel"
        /\ act'[t].next = "caught"
        /\ \A u \in Task : u # t => act'[u] = act[u]
        /\ uid' = uid /\ prog' = prog /\ stack' = stack /\ reuse' = reuse
        /\ \A u \in Task : u # t /\ Pc(u) # "none" => block_to'[u] = block_to[u]
        /\ block_to' = block_to
    BY <1>0, <1>CatchComb, CatchCombIs, KeepsFrame DEF CatchComb, Moves, Keeps
  <2>3. status'[x] \in {status[x], "canceled"}
    BY <1>t, <1>CatchComb, CatchCombIs DEF CatchComb
  <2> QED
    BY <1>0, StackTypes, <2>1, <2>3 DEF Pc
<1>CancelSkip. CASE CancelSkip
  <2>1. /\ t \in Task
        /\ Pc(t) = "cancel"
        /\ act'[t].pc = "cancel"
        /\ act'[t].next = act[t].next
        /\ \A u \in Task : u # t => act'[u] = act[u]
        /\ uid' = uid /\ prog' = prog /\ stack' = stack /\ reuse' = reuse
        /\ \A u \in Task : u # t /\ Pc(u) # "none" => block_to'[u] = block_to[u]
        /\ block_to' = block_to
        /\ status' = status
    BY <1>0, <1>CancelSkip, CancelSkipIs, KeepsFrame DEF Moves, Keeps
  <2> QED
    BY <1>0, StackTypes, <2>1 DEF Pc
<1>CancelUnsupport. CASE CancelUnsupport
  <2>1. /\ t \in Task
        /\ Pc(t) = "cancel"
        /\ act'[t].pc = "cancel"
        /\ act'[t].next = act[t].next
        /\ \A u \in Task : u # t => act'[u] = act[u]
        /\ uid' = uid /\ prog' = prog /\ stack' = stack /\ reuse' = reuse
        /\ \A u \in Task : u # t /\ Pc(u) # "none" => block_to'[u] = block_to[u]
        /\ block_to' = block_to
    BY <1>0, <1>CancelUnsupport, CancelUnsupportIs, KeepsFrame DEF Moves, Keeps
  <2>3. status'[x] \in {status[x], "canceled"}
    BY <1>CancelUnsupport, CancelUnsupportFx
  <2> QED
    BY <1>0, StackTypes, <2>1, <2>3 DEF Pc
<1>CancelInterrupt. CASE CancelInterrupt
  <2>1. /\ t \in Task
        /\ Pc(t) = "cancel"
        /\ act'[t].pc = "cancel"
        /\ act'[t].next = act[t].next
        /\ \A u \in Task : u # t => act'[u] = act[u]
        /\ uid' = uid /\ prog' = prog /\ stack' = stack /\ reuse' = reuse
        /\ \A u \in Task : u # t /\ Pc(u) # "none" => block_to'[u] = block_to[u]
        /\ block_to' = block_to
    BY <1>0, <1>CancelInterrupt, CancelInterruptIs, KeepsFrame DEF Moves, Keeps
  <2>3. status'[x] \in {status[x], "canceled"}
    BY <1>CancelInterrupt, CancelInterruptFx
  <2> QED
    BY <1>0, StackTypes, <2>1, <2>3 DEF Pc
<1>CancelEndYields. CASE CancelEndYields
  <2>1. /\ t \in Task
        /\ Pc(t) = "cancel"
        /\ act'[t].pc = "unsupport"
        /\ act'[t].next = act[t].next
        /\ \A u \in Task : u # t => act'[u] = act[u]
        /\ uid' = uid /\ prog' = prog /\ stack' = stack /\ reuse' = reuse
        /\ \A u \in Task : u # t /\ Pc(u) # "none" => block_to'[u] = block_to[u]
        /\ status' = status
    BY <1>0, <1>CancelEndYields, CancelEndYieldsIs, KeepsFrame DEF CancelEndYields, Moves, Keeps
  <2> QED
    BY <1>0, StackTypes, <2>1 DEF Pc
<1>CancelEndDone. CASE CancelEndDone
  <2>1. /\ t \in Task
        /\ Pc(t) = "cancel"
        /\ act'[t].pc = act[t].next
        /\ act'[t].next = act[t].next
        /\ \A u \in Task : u # t => act'[u] = act[u]
        /\ uid' = uid /\ prog' = prog /\ stack' = stack /\ reuse' = reuse
        /\ \A u \in Task : u # t /\ Pc(u) # "none" => block_to'[u] = block_to[u]
        /\ block_to' = block_to
        /\ status' = status
    BY <1>0, <1>CancelEndDone, CancelEndDoneIs, KeepsFrame DEF CancelEndDone, Moves, Keeps
  <2> QED
    BY <1>0, StackTypes, <2>1 DEF Pc
<1>UnsupportYields. CASE UnsupportYields
  <2>1. /\ t \in Task
        /\ Pc(t) = "unsupport"
        /\ act'[t].pc = "unsupport"
        /\ act'[t].next = act[t].next
        /\ \A u \in Task : u # t => act'[u] = act[u]
        /\ uid' = uid /\ prog' = prog /\ stack' = stack /\ reuse' = reuse
        /\ \A u \in Task : u # t /\ Pc(u) # "none" => block_to'[u] = block_to[u]
        /\ status' = status
    BY <1>0, <1>UnsupportYields, UnsupportYieldsIs, KeepsFrame DEF UnsupportYields, Moves, Keeps
  <2> QED
    BY <1>0, StackTypes, <2>1 DEF Pc
<1>UnsupportDone. CASE UnsupportDone
  <2>1. /\ t \in Task
        /\ Pc(t) = "unsupport"
        /\ act'[t].pc = act[t].next
        /\ act'[t].next = act[t].next
        /\ \A u \in Task : u # t => act'[u] = act[u]
        /\ uid' = uid /\ prog' = prog /\ stack' = stack /\ reuse' = reuse
        /\ \A u \in Task : u # t /\ Pc(u) # "none" => block_to'[u] = block_to[u]
        /\ block_to' = block_to
        /\ status' = status
    BY <1>0, <1>UnsupportDone, UnsupportDoneIs, KeepsFrame DEF UnsupportDone, Moves, Keeps
  <2> QED
    BY <1>0, StackTypes, <2>1 DEF Pc
<1>AwaitReturn. CASE AwaitReturn
  <2>1. PICK y \in Task, u \in Task, s \in Status, pc \in Points :
          /\ Pc(u) = "run" /\ Kind(u) = "user" /\ act'[y].pc = "none" /\ y # u
          /\ \A v \in Task : v # y => status'[v] = status[v]
          /\ \A v \in Task : v # u /\ v # y => act'[v] = act[v]
          /\ \A v \in Task : v # y /\ v # u => block_to'[v] = block_to[v]
    BY <1>AwaitReturn, PopsFx
  <2> QED
    BY <1>0, <2>1 DEF Pc
<1>AwaitReturnThrow. CASE AwaitReturnThrow
  <2>1. PICK y \in Task, u \in Task, s \in Status, pc \in Points :
          /\ Pc(u) = "run" /\ Kind(u) = "user" /\ act'[y].pc = "none" /\ y # u
          /\ \A v \in Task : v # y => status'[v] = status[v]
          /\ \A v \in Task : v # u /\ v # y => act'[v] = act[v]
          /\ \A v \in Task : v # y /\ v # u => block_to'[v] = block_to[v]
    BY <1>AwaitReturnThrow, PopsFx
  <2> QED
    BY <1>0, <2>1 DEF Pc
<1>AwaitRethrow. CASE AwaitRethrow
  <2>1. PICK y \in Task, u \in Task, s \in Status, pc \in Points :
          /\ Pc(u) = "run" /\ Kind(u) = "user" /\ act'[y].pc = "none" /\ y # u
          /\ \A v \in Task : v # y => status'[v] = status[v]
          /\ \A v \in Task : v # u /\ v # y => act'[v] = act[v]
          /\ \A v \in Task : v # y /\ v # u => block_to'[v] = block_to[v]
    BY <1>AwaitRethrow, PopsFx
  <2> QED
    BY <1>0, <2>1 DEF Pc
<1>RuntimeFinish. CASE RuntimeFinish
  <2>1. r \in Task /\ block_to' = block_to /\ act'[r].pc = "none" /\ \A u \in Task : u # r => act'[u] = act[u]
    BY <1>0, <1>RuntimeFinish, RuntimeFinishIs
  <2>2. \A u \in Task : u # r => status'[u] = status[u]
    BY <1>0, <1>RuntimeFinish, FinishFx
  <2> QED
    BY <1>0, <2>1, <2>2 DEF Pc
<1>EventFires. CASE \E e \in Task : EventFires(e)
  BY <1>0, <1>EventFires, EventFiresIs DEF Pc
<1>Stutter. CASE UNCHANGED vars
  BY <1>0, <1>Stutter DEF Pc, vars, objectVars
<1> QED
  BY StepCases, <1>TaskRuntime, <1>Await, <1>Start, <1>StartReject, <1>EventRun, <1>EventWake,
       <1>ChildrenReady, <1>ChildrenUnready, <1>StartChild, <1>AllOfBackYields,
       <1>AllOfBackGoesOn, <1>AnyOfBackWins, <1>AnyOfBackGoesOn, <1>AnyOfBackYields,
       <1>AllOfWakeYields, <1>AllOfWakeEnds, <1>AnyOfWake, <1>CanceledDirectlyLeaf,
       <1>CanceledDirectlyComb, <1>CanceledIndirectly, <1>CatchLeaf, <1>CatchComb, <1>CancelSkip,
       <1>CancelUnsupport, <1>CancelInterrupt, <1>CancelEndYields, <1>CancelEndDone,
       <1>UnsupportYields, <1>UnsupportDone, <1>AwaitReturn, <1>AwaitReturnThrow, <1>AwaitRethrow,
       <1>RuntimeFinish, <1>EventFires, <1>Stutter

LEMMA BlockTop ==
    ASSUME IndInv, [Next]_vars
    PROVE  \A c \in Task : c = running /\ Busy(c)' => \A y \in Task :
             y = Inner(c)' /\ (Pc(y)' \in Waits \/ Leaving(y)') => block_to'[y] = Loop
<1> SUFFICES ASSUME NEW c \in Task, c = running, Busy(c)', NEW y \in Task, y = Inner(c)', Pc(y)' \in Waits \/ Leaving(y)'
             PROVE  block_to'[y] = Loop
  OBVIOUS
<1>0. PICK r, t : r = running /\ t = Top
  OBVIOUS
<1>i. running # Loop /\ (Busy(c) => t \in Task /\ t = Inner(c))
  BY <1>0, TopFacts, StackTypes
<1>j. Busy(c) /\ (Pc(t) \in Waits \/ Leaving(t)) => block_to[t] = Loop
  BY <1>i DEF IndInv, BlockInv
<1>TaskRuntime. CASE TaskRuntime
  <2>1. Inner(c)' = c /\ act'[c].pc = "run"
    BY <1>0, <1>TaskRuntime, TaskRuntimeIs, TaskRuntimeFx
  <2> QED
    BY <2>1 DEF Pc, Leaving, Waits
<1>Await. CASE Await
  <2>1. PICK x \in Task : Inner(c)' = x /\ act'[x].pc = "run"
    BY <1>Await, AwaitFx
  <2> QED
    BY <2>1 DEF Pc, Leaving, Waits
<1>Start. CASE Start
  <2>1. /\ t \in Task
        /\ Pc(t) = "run"
        /\ act'[t].pc = "run"
        /\ act'[t].next = act[t].next
        /\ \A u \in Task : u # t => act'[u] = act[u]
        /\ uid' = uid /\ prog' = prog /\ stack' = stack /\ reuse' = reuse
        /\ Inner(c)' = Inner(c) /\ Busy(c)
        /\ act[t].next \in {"return", "caught"}
    BY <1>0, <1>Start, StartIs, KeepsFrame, StackTypes, StartFx DEF Moves
  <2> QED
    BY <1>i, <1>j, <2>1 DEF Pc, Leaving, Waits
<1>StartReject. CASE StartReject
  <2>1. /\ t \in Task
        /\ Pc(t) = "run"
        /\ act'[t].pc = "run"
        /\ act'[t].next = act[t].next
        /\ \A u \in Task : u # t => act'[u] = act[u]
        /\ uid' = uid /\ prog' = prog /\ stack' = stack /\ reuse' = reuse
        /\ Inner(c)' = Inner(c) /\ Busy(c)
        /\ act[t].next \in {"return", "caught"}
        /\ block_to' = block_to
    BY <1>0, <1>StartReject, StartRejectIs, KeepsFrame, StackTypes, CallIs DEF Moves, StartReject
  <2> QED
    BY <1>i, <1>j, <2>1 DEF Pc, Leaving, Waits
<1>EventRun. CASE EventRun
  <2>1. /\ t \in Task
        /\ Pc(t) = "run"
        /\ act'[t].pc = "wait"
        /\ act'[t].next = act[t].next
        /\ \A u \in Task : u # t => act'[u] = act[u]
        /\ uid' = uid /\ prog' = prog /\ stack' = stack /\ reuse' = reuse
        /\ Inner(c)' = Inner(c) /\ Busy(c)
        /\ act[t].next \in {"return", "caught"}
        /\ Keeps /\ Yields
    BY <1>0, <1>EventRun, EventRunIs, KeepsFrame, StackTypes DEF Moves
  <2> QED
    BY <1>0, <1>i, <2>1, YieldsFx
<1>EventWake. CASE EventWake
  <2>1. /\ t \in Task
        /\ Pc(t) = "wait"
        /\ act'[t].pc = "return"
        /\ act'[t].next = act[t].next
        /\ \A u \in Task : u # t => act'[u] = act[u]
        /\ uid' = uid /\ prog' = prog /\ stack' = stack /\ reuse' = reuse
        /\ Inner(c)' = Inner(c) /\ Busy(c)
        /\ act[t].next \in {"return", "caught"}
        /\ block_to' = block_to
    BY <1>0, <1>EventWake, EventWakeIs, KeepsFrame, StackTypes DEF Moves
  <2> QED
    BY <1>i, <1>j, <2>1 DEF Pc, Leaving, Waits
<1>ChildrenReady. CASE ChildrenReady
  <2>1. /\ t \in Task
        /\ Pc(t) = "run"
        /\ act'[t].pc = "start"
        /\ act'[t].next = act[t].next
        /\ \A u \in Task : u # t => act'[u] = act[u]
        /\ uid' = uid /\ prog' = prog /\ stack' = stack /\ reuse' = reuse
        /\ Inner(c)' = Inner(c) /\ Busy(c)
        /\ act[t].next \in {"return", "caught"}
    BY <1>0, <1>ChildrenReady, ChildrenReadyIs, KeepsFrame, StackTypes DEF Moves
  <2> QED
    BY <1>i, <1>j, <2>1 DEF Pc, Leaving, Waits
<1>ChildrenUnready. CASE ChildrenUnready
  <2>1. /\ t \in Task
        /\ Pc(t) = "run"
        /\ act'[t].pc = "return"
        /\ act'[t].next = act[t].next
        /\ \A u \in Task : u # t => act'[u] = act[u]
        /\ uid' = uid /\ prog' = prog /\ stack' = stack /\ reuse' = reuse
        /\ Inner(c)' = Inner(c) /\ Busy(c)
        /\ act[t].next \in {"return", "caught"}
    BY <1>0, <1>ChildrenUnready, ChildrenUnreadyIs, KeepsFrame, StackTypes DEF Moves
  <2> QED
    BY <1>i, <1>j, <2>1 DEF Pc, Leaving, Waits
<1>StartChild. CASE StartChild
  <2>1. /\ t \in Task
        /\ Pc(t) = "start"
        /\ act'[t].pc = "child"
        /\ act'[t].next = act[t].next
        /\ \A u \in Task : u # t => act'[u] = act[u]
        /\ uid' = uid /\ prog' = prog /\ stack' = stack /\ reuse' = reuse
        /\ Inner(c)' = Inner(c) /\ Busy(c)
        /\ act[t].next \in {"return", "caught"}
        /\ block_to' = block_to
    BY <1>0, <1>StartChild, StartChildIs, KeepsFrame, StackTypes DEF Moves
  <2> QED
    BY <1>i, <1>j, <2>1 DEF Pc, Leaving, Waits
<1>AllOfBackYields. CASE AllOfBackYields
  <2>1. /\ t \in Task
        /\ Pc(t) = "child"
        /\ act'[t].pc = "wait"
        /\ act'[t].next = act[t].next
        /\ \A u \in Task : u # t => act'[u] = act[u]
        /\ uid' = uid /\ prog' = prog /\ stack' = stack /\ reuse' = reuse
        /\ Inner(c)' = Inner(c) /\ Busy(c)
        /\ act[t].next \in {"return", "caught"}
        /\ Keeps /\ Yields
    BY <1>0, <1>AllOfBackYields, AllOfBackYieldsIs, KeepsFrame, StackTypes
       DEF AllOfBackYields, Moves
  <2> QED
    BY <1>0, <1>i, <2>1, YieldsFx
<1>AllOfBackGoesOn. CASE AllOfBackGoesOn
  <2>1. /\ t \in Task
        /\ Pc(t) = "child"
        /\ act'[t].pc = (IF act[t].i = Len(Children(t)) THEN "return" ELSE "start")
        /\ act'[t].next = act[t].next
        /\ \A u \in Task : u # t => act'[u] = act[u]
        /\ uid' = uid /\ prog' = prog /\ stack' = stack /\ reuse' = reuse
        /\ Inner(c)' = Inner(c) /\ Busy(c)
        /\ act[t].next \in {"return", "caught"}
        /\ block_to' = block_to
    BY <1>0, <1>AllOfBackGoesOn, AllOfBackGoesOnIs, KeepsFrame, StackTypes
       DEF AllOfBackGoesOn, Moves
  <2> QED
    BY <1>i, <1>j, <2>1 DEF Pc, Leaving, Waits
<1>AnyOfBackWins. CASE AnyOfBackWins
  <2>1. /\ t \in Task
        /\ Pc(t) = "child"
        /\ act'[t].pc = "cancel"
        /\ act'[t].next = "return"
        /\ \A u \in Task : u # t => act'[u] = act[u]
        /\ uid' = uid /\ prog' = prog /\ stack' = stack /\ reuse' = reuse
        /\ Inner(c)' = Inner(c) /\ Busy(c)
        /\ act[t].next \in {"return", "caught"}
        /\ block_to' = block_to
    BY <1>0, <1>AnyOfBackWins, AnyOfBackWinsIs, KeepsFrame, StackTypes DEF AnyOfBackWins, Moves
  <2> QED
    BY <1>i, <1>j, <2>1 DEF Pc, Leaving, Waits
<1>AnyOfBackGoesOn. CASE AnyOfBackGoesOn
  <2>1. /\ t \in Task
        /\ Pc(t) = "child"
        /\ act'[t].pc = "start"
        /\ act'[t].next = act[t].next
        /\ \A u \in Task : u # t => act'[u] = act[u]
        /\ uid' = uid /\ prog' = prog /\ stack' = stack /\ reuse' = reuse
        /\ Inner(c)' = Inner(c) /\ Busy(c)
        /\ act[t].next \in {"return", "caught"}
        /\ block_to' = block_to
    BY <1>0, <1>AnyOfBackGoesOn, AnyOfBackGoesOnIs, KeepsFrame, StackTypes
       DEF AnyOfBackGoesOn, Moves
  <2> QED
    BY <1>i, <1>j, <2>1 DEF Pc, Leaving, Waits
<1>AnyOfBackYields. CASE AnyOfBackYields
  <2>1. /\ t \in Task
        /\ Pc(t) = "child"
        /\ act'[t].pc = "wait"
        /\ act'[t].next = act[t].next
        /\ \A u \in Task : u # t => act'[u] = act[u]
        /\ uid' = uid /\ prog' = prog /\ stack' = stack /\ reuse' = reuse
        /\ Inner(c)' = Inner(c) /\ Busy(c)
        /\ act[t].next \in {"return", "caught"}
        /\ Keeps /\ Yields
    BY <1>0, <1>AnyOfBackYields, AnyOfBackYieldsIs, KeepsFrame, StackTypes
       DEF AnyOfBackYields, Moves
  <2> QED
    BY <1>0, <1>i, <2>1, YieldsFx
<1>AllOfWakeYields. CASE AllOfWakeYields
  <2>1. /\ t \in Task
        /\ Pc(t) = "wait"
        /\ act'[t].pc = "wait"
        /\ act'[t].next = act[t].next
        /\ \A u \in Task : u # t => act'[u] = act[u]
        /\ uid' = uid /\ prog' = prog /\ stack' = stack /\ reuse' = reuse
        /\ Inner(c)' = Inner(c) /\ Busy(c)
        /\ act[t].next \in {"return", "caught"}
        /\ Keeps /\ Yields
    BY <1>0, <1>AllOfWakeYields, AllOfWakeYieldsIs, KeepsFrame, StackTypes
       DEF AllOfWakeYields, Moves
  <2> QED
    BY <1>0, <1>i, <2>1, YieldsFx
<1>AllOfWakeEnds. CASE AllOfWakeEnds
  <2>1. /\ t \in Task
        /\ Pc(t) = "wait"
        /\ act'[t].pc = "return"
        /\ act'[t].next = act[t].next
        /\ \A u \in Task : u # t => act'[u] = act[u]
        /\ uid' = uid /\ prog' = prog /\ stack' = stack /\ reuse' = reuse
        /\ Inner(c)' = Inner(c) /\ Busy(c)
        /\ act[t].next \in {"return", "caught"}
        /\ block_to' = block_to
    BY <1>0, <1>AllOfWakeEnds, AllOfWakeEndsIs, KeepsFrame, StackTypes DEF AllOfWakeEnds, Moves
  <2> QED
    BY <1>i, <1>j, <2>1 DEF Pc, Leaving, Waits
<1>AnyOfWake. CASE AnyOfWake
  <2>1. /\ t \in Task
        /\ Pc(t) = "wait"
        /\ act'[t].pc = "cancel"
        /\ act'[t].next = "return"
        /\ \A u \in Task : u # t => act'[u] = act[u]
        /\ uid' = uid /\ prog' = prog /\ stack' = stack /\ reuse' = reuse
        /\ Inner(c)' = Inner(c) /\ Busy(c)
        /\ act[t].next \in {"return", "caught"}
        /\ block_to' = block_to
    BY <1>0, <1>AnyOfWake, AnyOfWakeIs, KeepsFrame, StackTypes DEF Moves
  <2> QED
    BY <1>i, <1>j, <2>1 DEF Pc, Leaving, Waits
<1>CanceledDirectlyLeaf. CASE CanceledDirectlyLeaf
  <2>1. /\ t \in Task
        /\ Pc(t) = "wait"
        /\ act'[t].pc = "return"
        /\ act'[t].next = act[t].next
        /\ \A u \in Task : u # t => act'[u] = act[u]
        /\ uid' = uid /\ prog' = prog /\ stack' = stack /\ reuse' = reuse
        /\ Inner(c)' = Inner(c) /\ Busy(c)
        /\ act[t].next \in {"return", "caught"}
        /\ block_to' = block_to
    BY <1>0, <1>CanceledDirectlyLeaf, CanceledDirectlyLeafIs, KeepsFrame, StackTypes
       DEF CanceledDirectlyLeaf, Moves
  <2> QED
    BY <1>i, <1>j, <2>1 DEF Pc, Leaving, Waits
<1>CanceledDirectlyComb. CASE CanceledDirectlyComb
  <2>1. /\ t \in Task
        /\ Pc(t) = "wait"
        /\ act'[t].pc = "cancel"
        /\ act'[t].next = "return"
        /\ \A u \in Task : u # t => act'[u] = act[u]
        /\ uid' = uid /\ prog' = prog /\ stack' = stack /\ reuse' = reuse
        /\ Inner(c)' = Inner(c) /\ Busy(c)
        /\ act[t].next \in {"return", "caught"}
        /\ block_to' = block_to
    BY <1>0, <1>CanceledDirectlyComb, CanceledDirectlyCombIs, KeepsFrame, StackTypes
       DEF CanceledDirectlyComb, Moves
  <2> QED
    BY <1>i, <1>j, <2>1 DEF Pc, Leaving, Waits
<1>CanceledIndirectly. CASE CanceledIndirectly
  <2>1. /\ t \in Task
        /\ Pc(t) = "wait"
        /\ act'[t].pc = "throw"
        /\ act'[t].next = act[t].next
        /\ \A u \in Task : u # t => act'[u] = act[u]
        /\ uid' = uid /\ prog' = prog /\ stack' = stack /\ reuse' = reuse
        /\ Inner(c)' = Inner(c) /\ Busy(c)
        /\ act[t].next \in {"return", "caught"}
        /\ block_to' = block_to
    BY <1>0, <1>CanceledIndirectly, CanceledIndirectlyIs, KeepsFrame, StackTypes DEF Moves
  <2> QED
    BY <1>i, <1>j, <2>1 DEF Pc, Leaving, Waits
<1>CatchLeaf. CASE CatchLeaf
  <2>1. /\ t \in Task
        /\ Pc(t) = "throw"
        /\ act'[t].pc = "caught"
        /\ act'[t].next = act[t].next
        /\ \A u \in Task : u # t => act'[u] = act[u]
        /\ uid' = uid /\ prog' = prog /\ stack' = stack /\ reuse' = reuse
        /\ Inner(c)' = Inner(c) /\ Busy(c)
        /\ act[t].next \in {"return", "caught"}
        /\ block_to' = block_to
    BY <1>0, <1>CatchLeaf, CatchLeafIs, KeepsFrame, StackTypes DEF CatchLeaf, Moves
  <2> QED
    BY <1>i, <1>j, <2>1 DEF Pc, Leaving, Waits
<1>CatchComb. CASE CatchComb
  <2>1. /\ t \in Task
        /\ Pc(t) = "throw"
        /\ act'[t].pc = "cancel"
        /\ act'[t].next = "caught"
        /\ \A u \in Task : u # t => act'[u] = act[u]
        /\ uid' = uid /\ prog' = prog /\ stack' = stack /\ reuse' = reuse
        /\ Inner(c)' = Inner(c) /\ Busy(c)
        /\ act[t].next \in {"return", "caught"}
        /\ block_to' = block_to
    BY <1>0, <1>CatchComb, CatchCombIs, KeepsFrame, StackTypes DEF CatchComb, Moves
  <2> QED
    BY <1>i, <1>j, <2>1 DEF Pc, Leaving, Waits
<1>CancelSkip. CASE CancelSkip
  <2>1. /\ t \in Task
        /\ Pc(t) = "cancel"
        /\ act'[t].pc = "cancel"
        /\ act'[t].next = act[t].next
        /\ \A u \in Task : u # t => act'[u] = act[u]
        /\ uid' = uid /\ prog' = prog /\ stack' = stack /\ reuse' = reuse
        /\ Inner(c)' = Inner(c) /\ Busy(c)
        /\ act[t].next \in {"return", "caught"}
        /\ block_to' = block_to
    BY <1>0, <1>CancelSkip, CancelSkipIs, KeepsFrame, StackTypes DEF Moves
  <2> QED
    BY <1>i, <1>j, <2>1 DEF Pc, Leaving, Waits
<1>CancelUnsupport. CASE CancelUnsupport
  <2>1. /\ t \in Task
        /\ Pc(t) = "cancel"
        /\ act'[t].pc = "cancel"
        /\ act'[t].next = act[t].next
        /\ \A u \in Task : u # t => act'[u] = act[u]
        /\ uid' = uid /\ prog' = prog /\ stack' = stack /\ reuse' = reuse
        /\ Inner(c)' = Inner(c) /\ Busy(c)
        /\ act[t].next \in {"return", "caught"}
        /\ block_to' = block_to
    BY <1>0, <1>CancelUnsupport, CancelUnsupportIs, KeepsFrame, StackTypes DEF Moves
  <2> QED
    BY <1>i, <1>j, <2>1 DEF Pc, Leaving, Waits
<1>CancelInterrupt. CASE CancelInterrupt
  <2>1. /\ t \in Task
        /\ Pc(t) = "cancel"
        /\ act'[t].pc = "cancel"
        /\ act'[t].next = act[t].next
        /\ \A u \in Task : u # t => act'[u] = act[u]
        /\ uid' = uid /\ prog' = prog /\ stack' = stack /\ reuse' = reuse
        /\ Inner(c)' = Inner(c) /\ Busy(c)
        /\ act[t].next \in {"return", "caught"}
        /\ block_to' = block_to
    BY <1>0, <1>CancelInterrupt, CancelInterruptIs, KeepsFrame, StackTypes DEF Moves
  <2> QED
    BY <1>i, <1>j, <2>1 DEF Pc, Leaving, Waits
<1>CancelEndYields. CASE CancelEndYields
  <2>1. /\ t \in Task
        /\ Pc(t) = "cancel"
        /\ act'[t].pc = "unsupport"
        /\ act'[t].next = act[t].next
        /\ \A u \in Task : u # t => act'[u] = act[u]
        /\ uid' = uid /\ prog' = prog /\ stack' = stack /\ reuse' = reuse
        /\ Inner(c)' = Inner(c) /\ Busy(c)
        /\ act[t].next \in {"return", "caught"}
        /\ Keeps /\ Yields
    BY <1>0, <1>CancelEndYields, CancelEndYieldsIs, KeepsFrame, StackTypes
       DEF CancelEndYields, Moves
  <2> QED
    BY <1>0, <1>i, <2>1, YieldsFx
<1>CancelEndDone. CASE CancelEndDone
  <2>1. /\ t \in Task
        /\ Pc(t) = "cancel"
        /\ act'[t].pc = act[t].next
        /\ act'[t].next = act[t].next
        /\ \A u \in Task : u # t => act'[u] = act[u]
        /\ uid' = uid /\ prog' = prog /\ stack' = stack /\ reuse' = reuse
        /\ Inner(c)' = Inner(c) /\ Busy(c)
        /\ act[t].next \in {"return", "caught"}
        /\ block_to' = block_to
    BY <1>0, <1>CancelEndDone, CancelEndDoneIs, KeepsFrame, StackTypes DEF CancelEndDone, Moves
  <2> QED
    BY <1>i, <1>j, <2>1 DEF Pc, Leaving, Waits
<1>UnsupportYields. CASE UnsupportYields
  <2>1. /\ t \in Task
        /\ Pc(t) = "unsupport"
        /\ act'[t].pc = "unsupport"
        /\ act'[t].next = act[t].next
        /\ \A u \in Task : u # t => act'[u] = act[u]
        /\ uid' = uid /\ prog' = prog /\ stack' = stack /\ reuse' = reuse
        /\ Inner(c)' = Inner(c) /\ Busy(c)
        /\ act[t].next \in {"return", "caught"}
        /\ Keeps /\ Yields
    BY <1>0, <1>UnsupportYields, UnsupportYieldsIs, KeepsFrame, StackTypes
       DEF UnsupportYields, Moves
  <2> QED
    BY <1>0, <1>i, <2>1, YieldsFx
<1>UnsupportDone. CASE UnsupportDone
  <2>1. /\ t \in Task
        /\ Pc(t) = "unsupport"
        /\ act'[t].pc = act[t].next
        /\ act'[t].next = act[t].next
        /\ \A u \in Task : u # t => act'[u] = act[u]
        /\ uid' = uid /\ prog' = prog /\ stack' = stack /\ reuse' = reuse
        /\ Inner(c)' = Inner(c) /\ Busy(c)
        /\ act[t].next \in {"return", "caught"}
        /\ block_to' = block_to
    BY <1>0, <1>UnsupportDone, UnsupportDoneIs, KeepsFrame, StackTypes DEF UnsupportDone, Moves
  <2> QED
    BY <1>i, <1>j, <2>1 DEF Pc, Leaving, Waits
<1>AwaitReturn. CASE AwaitReturn
  <2>1. PICK u \in Task, s \in Status, pc \in Points : Inner(c)' = u /\ act'[u].pc = pc /\ Pops(s, pc)
    BY <1>AwaitReturn, PopsFx
  <2>2. act'[u].pc = "run"
    <3>1. PICK v \in Task : v = Caller /\ act'[v].pc = "run" /\ Inner(c)' = v
      BY <1>AwaitReturn, AwaitReturnIs, PopsFx DEF Pops
    <3> QED
      BY <2>1, <3>1
  <2> QED
    BY <2>1, <2>2 DEF Pc, Leaving, Waits
<1>AwaitReturnThrow. CASE AwaitReturnThrow
  <2>1. PICK u \in Task : /\ Inner(c)' = u /\ block_to'[u] = block_to[t] /\ t \in Task /\ Pc(t) # "none"
                          /\ uid[t] = c /\ Busy(c)
    BY <1>0, <1>AwaitReturnThrow, PopsFx
  <2>2. status[t] = "canceled"
    BY <1>0, <1>AwaitReturnThrow, AwaitReturnThrowIs
  <2>3. Doomed(c)
    BY <2>1, <2>2 DEF Doomed
  <2>4. Blk(c) = Loop
    BY <2>3, DoomedBlk
  <2> QED
    BY <1>i, <2>1, <2>4 DEF Blk
<1>AwaitRethrow. CASE AwaitRethrow
  <2>1. PICK u \in Task : Inner(c)' = u /\ block_to'[u] = block_to[t] /\ Busy(c)
    BY <1>0, <1>AwaitRethrow, PopsFx
  <2>2. Pc(t) = "caught"
    BY <1>0, <1>AwaitRethrow, AwaitRethrowIs
  <2> QED
    BY <1>j, <2>1, <2>2 DEF Leaving
<1>RuntimeFinish. CASE RuntimeFinish
  BY <1>0, <1>RuntimeFinish, RuntimeFinishIs, FinishFx
<1>EventFires. CASE \E e \in Task : EventFires(e)
  BY <1>0, <1>EventFires, <1>i, EventFiresIs
<1>Stutter. CASE UNCHANGED vars
  BY <1>0, <1>Stutter, <1>i, <1>j DEF Pc, Leaving, Waits, Busy, Inner, vars, objectVars
<1> QED
  BY StepCases, <1>TaskRuntime, <1>Await, <1>Start, <1>StartReject, <1>EventRun, <1>EventWake,
       <1>ChildrenReady, <1>ChildrenUnready, <1>StartChild, <1>AllOfBackYields,
       <1>AllOfBackGoesOn, <1>AnyOfBackWins, <1>AnyOfBackGoesOn, <1>AnyOfBackYields,
       <1>AllOfWakeYields, <1>AllOfWakeEnds, <1>AnyOfWake, <1>CanceledDirectlyLeaf,
       <1>CanceledDirectlyComb, <1>CanceledIndirectly, <1>CatchLeaf, <1>CatchComb, <1>CancelSkip,
       <1>CancelUnsupport, <1>CancelInterrupt, <1>CancelEndYields, <1>CancelEndDone,
       <1>UnsupportYields, <1>UnsupportDone, <1>AwaitReturn, <1>AwaitReturnThrow, <1>AwaitRethrow,
       <1>RuntimeFinish, <1>EventFires, <1>Stutter


LEMMA BlockStep ==
    ASSUME IndInv, [Next]_vars
    PROVE  BlockInv'
<1>1. prog' = prog /\ StatusInv' /\ PcInv'
  BY ProgSame, StatusStep, PcStep
<1>2. \A k \in Task : Children(k)' = Children(k) /\ Kind(k)' = Kind(k)
  BY <1>1, SameProgram
<1>3. ASSUME NEW c \in Task, Busy(c)', Pc(Inner(c))' \in Waits \/ Leaving(Inner(c))'
      PROVE  (block_to[Inner(c)])' = Loop
  <2>1. CASE c = running
    <3>1. PICK y : y = Inner(c)'
      OBVIOUS
    <3>2. y \in Task
      <4>1. stack' \in [Task -> Seq(Task)]
        BY TypeStep DEF TypeOK
      <4>2. stack'[c] \in Seq(Task) /\ stack'[c] # <<>>
        BY <1>3, <4>1 DEF Busy
      <4> QED
        BY <3>1, <4>2 DEF Inner
    <3> QED
      BY <1>3, <2>1, <3>1, <3>2, BlockTop
  <2>2. CASE c # running
    <3>1. Busy(c)
      BY <1>3, <2>2, CallOther
    <3>2. PICK y \in Task : /\ y = Inner(c) /\ Inner(c)' = y /\ act'[y] = act[y]
                            /\ block_to'[y] = block_to[y]
      BY <2>2, <3>1, OtherStep, BusyFacts
    <3>3. Pc(y) \in Waits \/ Leaving(y)
      BY <1>3, <3>2 DEF Pc, Leaving, Waits
    <3>4. block_to[y] = Loop
      BY <3>1, <3>2, <3>3 DEF IndInv, BlockInv
    <3> QED
      BY <3>2, <3>4
  <2> QED
    BY <2>1, <2>2
<1>4. ASSUME NEW k \in Task, NEW j \in DOMAIN Children(k), NEW x \in Task, x = Children(k)[j],
             \/ Entering(x)'
             \/ Pc(x)' = "run" /\ Kind(x) # "user"
             \/ Pc(x)' # "none" /\ status'[x] = "child_unready"
      PROVE  block_to'[x] = uid'[k]
  <2>1. CASE Entering(x)'
    <3>1. CASE UNCHANGED vars /\ Entering(x)
      <4>1. block_to[x] = uid[k]
        BY <1>4, <3>1 DEF IndInv, BlockInv
      <4> QED
        BY <3>1, <4>1 DEF vars, objectVars
    <3>2. ~(Start /\ x = Target)
      BY <1>4, StartFx DEF IsKid
    <3>3. CASE StartChild /\ x = Children(Top)[act[Top].i]
      <4>1. PICK t \in Task : /\ t = Top /\ uid[t] = running /\ act[t].i \in DOMAIN Children(t)
                              /\ x = Children(t)[act[t].i]
                              /\ block_to[x] = running /\ block_to' = block_to /\ uid' = uid
        BY <3>3, StartChildIs, StartChildFx, KeepsFrame
      <4>2. k = t
        BY <1>4, <4>1, KidFacts DEF IndInv
      <4> QED
        BY <4>1, <4>2
    <3> QED
      BY <2>1, <3>1, <3>2, <3>3, WhoEnters
  <2>2. ASSUME Entering(x) \/ (Pc(x) = "run" /\ Kind(x) # "user") \/ (Pc(x) # "none" /\ status[x] = "child_unready")
        PROVE  block_to[x] = uid[k] /\ uid'[k] = uid[k]
    <3>1. Begun(x)
      BY <2>2 DEF Begun, Entering
    <3>2. Pc(k) \in AtWork
      BY <1>4, <3>1 DEF IndInv, FinishInv
    <3>3. uid'[k] = uid[k]
      BY <3>2, UidSame
    <3> QED
      BY <1>4, <2>2, <3>3 DEF IndInv, BlockInv
  <2>3. CASE Pc(x)' = "run" /\ Kind(x) # "user"
    <3>1. ~(Await /\ x = Target)
      BY <1>4, AwaitFx DEF IsKid
    <3>2. CASE TaskRuntime /\ x = running
      <4>1. Entering(x) /\ block_to' = block_to
        BY <3>2, TaskRuntimeIs DEF Entering
      <4> QED
        BY <2>2, <4>1
    <3>3. CASE Pc(x) = "run"
      <4>1. block_to'[x] = block_to[x]
        BY <2>3, <3>3, RunStep
      <4> QED
        BY <2>2, <2>3, <3>3, <4>1
    <3> QED
      BY <2>3, <3>1, <3>2, <3>3, RunStep
  <2>4. CASE Pc(x)' # "none" /\ status'[x] = "child_unready"
    <3>1. Pc(x)' = "return"
      BY <1>1, <2>4 DEF StatusInv
    <3>2. Kind(x) # "user"
      BY <1>1, <1>2, <3>1 DEF PcInv
    <3>3. Pc(x) # "none" /\ (status[x] = "child_unready" \/ (ChildrenUnready /\ x = Top))
      BY <2>4, RunStep
    <3>4. block_to'[x] = block_to[x]
      BY <3>1, <3>2, <3>3, RunStep
    <3>5. ChildrenUnready /\ x = Top => Pc(x) = "run"
      BY ChildrenUnreadyIs
    <3> QED
      BY <2>2, <3>2, <3>3, <3>4, <3>5
  <2> QED
    BY <1>4, <2>1, <2>3, <2>4
<1>5. ASSUME NEW k \in Task, NEW j \in DOMAIN Children(k)',
             \/ Entering(Children(k)[j])'
             \/ Pc(Children(k)[j])' = "run" /\ Kind(Children(k)[j])' # "user"
             \/ Pc(Children(k)[j])' # "none" /\ (status[Children(k)[j]])' = "child_unready"
      PROVE  (block_to[Children(k)[j]])' = uid'[k]
  <2>1. j \in DOMAIN Children(k)
    BY <1>2
  <2>2. PICK x \in Task : x = Children(k)[j]
    BY <2>1, KidFacts DEF IndInv
  <2>3. Children(k)'[j] = x /\ Kind(x)' = Kind(x)
    BY <1>2, <2>2
  <2>4. \/ Entering(x)'
        \/ Pc(x)' = "run" /\ Kind(x) # "user"
        \/ Pc(x)' # "none" /\ status'[x] = "child_unready"
    BY <1>5, <2>3
  <2>5. block_to'[x] = uid'[k]
    BY <1>4, <2>1, <2>2, <2>4
  <2> QED
    BY <2>3, <2>5
<1> QED
  BY <1>3, <1>5 DEF BlockInv

\* The actions that begin or leave a run(), and all others.
LEMMA KeepsOr ==
    ASSUME IndInv, [Next]_vars
    PROVE  \/ Keeps
           \/ TaskRuntime
           \/ Await
           \/ AwaitReturn \/ AwaitReturnThrow \/ AwaitRethrow
           \/ RuntimeFinish
           \/ \E e \in Task : EventFires(e)
           \/ UNCHANGED vars

<1>Start. Start => Keeps
  BY StartIs

<1>StartReject. StartReject => Keeps
  BY StartRejectIs

<1>EventRun. EventRun => Keeps
  BY EventRunIs

<1>EventWake. EventWake => Keeps
  BY EventWakeIs

<1>ChildrenReady. ChildrenReady => Keeps
  BY ChildrenReadyIs

<1>ChildrenUnready. ChildrenUnready => Keeps
  BY ChildrenUnreadyIs

<1>StartChild. StartChild => Keeps
  BY StartChildIs

<1>AllOfBackYields. AllOfBackYields => Keeps
  BY AllOfBackYieldsIs DEF AllOfBackYields

<1>AllOfBackGoesOn. AllOfBackGoesOn => Keeps
  BY AllOfBackGoesOnIs DEF AllOfBackGoesOn

<1>AnyOfBackWins. AnyOfBackWins => Keeps
  BY AnyOfBackWinsIs DEF AnyOfBackWins

<1>AnyOfBackGoesOn. AnyOfBackGoesOn => Keeps
  BY AnyOfBackGoesOnIs DEF AnyOfBackGoesOn

<1>AnyOfBackYields. AnyOfBackYields => Keeps
  BY AnyOfBackYieldsIs DEF AnyOfBackYields

<1>AllOfWakeYields. AllOfWakeYields => Keeps
  BY AllOfWakeYieldsIs DEF AllOfWakeYields

<1>AllOfWakeEnds. AllOfWakeEnds => Keeps
  BY AllOfWakeEndsIs DEF AllOfWakeEnds

<1>AnyOfWake. AnyOfWake => Keeps
  BY AnyOfWakeIs

<1>CanceledDirectlyLeaf. CanceledDirectlyLeaf => Keeps
  BY CanceledDirectlyLeafIs DEF CanceledDirectlyLeaf

<1>CanceledDirectlyComb. CanceledDirectlyComb => Keeps
  BY CanceledDirectlyCombIs DEF CanceledDirectlyComb

<1>CanceledIndirectly. CanceledIndirectly => Keeps
  BY CanceledIndirectlyIs

<1>CatchLeaf. CatchLeaf => Keeps
  BY CatchLeafIs DEF CatchLeaf

<1>CatchComb. CatchComb => Keeps
  BY CatchCombIs DEF CatchComb

<1>CancelSkip. CancelSkip => Keeps
  BY CancelSkipIs

<1>CancelUnsupport. CancelUnsupport => Keeps
  BY CancelUnsupportIs

<1>CancelInterrupt. CancelInterrupt => Keeps
  BY CancelInterruptIs

<1>CancelEndYields. CancelEndYields => Keeps
  BY CancelEndYieldsIs DEF CancelEndYields

<1>CancelEndDone. CancelEndDone => Keeps
  BY CancelEndDoneIs DEF CancelEndDone

<1>UnsupportYields. UnsupportYields => Keeps
  BY UnsupportYieldsIs DEF UnsupportYields

<1>UnsupportDone. UnsupportDone => Keeps
  BY UnsupportDoneIs DEF UnsupportDone

<1> QED
  BY StepCases, <1>Start, <1>StartReject, <1>EventRun, <1>EventWake, <1>ChildrenReady,
       <1>ChildrenUnready, <1>StartChild, <1>AllOfBackYields, <1>AllOfBackGoesOn,
       <1>AnyOfBackWins, <1>AnyOfBackGoesOn, <1>AnyOfBackYields, <1>AllOfWakeYields,
       <1>AllOfWakeEnds, <1>AnyOfWake, <1>CanceledDirectlyLeaf, <1>CanceledDirectlyComb,
       <1>CanceledIndirectly, <1>CatchLeaf, <1>CatchComb, <1>CancelSkip, <1>CancelUnsupport,
       <1>CancelInterrupt, <1>CancelEndYields, <1>CancelEndDone, <1>UnsupportYields,
       <1>UnsupportDone

\* What may happen to a task that is canceled, or that an interrupt leaves.
LEMMA CanceledStep ==
    ASSUME IndInv, [Next]_vars
    PROVE  \A x \in Task :
             /\ Pc(x) # "none" /\ Pc(x)' # "none" =>
                  uid'[x] = uid[x] /\ (status[x] = "canceled" => status'[x] = "canceled")
             /\ Pc(x)' # "none" /\ status'[x] = "canceled" =>
                  /\ Pc(x) # "none"
                  /\ \/ status[x] = "canceled"
                     \/ CanceledIndirectly /\ x = Top
                     \/ Catch /\ x = Top
                     \/ CancelUnsupport /\ uid[x] = Children(Top)[act[Top].i] /\ x # uid[x]
                     \/ CancelInterrupt /\ x = Children(Top)[act[Top].i]
             /\ Pc(x)' = "throw" =>
                  \/ Pc(x) = "throw"
                  \/ CanceledIndirectly /\ x = Top
                  \/ (AwaitReturnThrow \/ AwaitRethrow) /\ x = Caller
             /\ Pc(x) = "throw" => Pc(x)' = "throw" \/ (Catch /\ x = Top /\ status'[x] = "canceled")
             /\ uninterruptable[x] => uninterruptable'[x]
<1> SUFFICES ASSUME NEW x \in Task
             PROVE  /\ Pc(x) # "none" /\ Pc(x)' # "none" =>
                         uid'[x] = uid[x] /\ (status[x] = "canceled" => status'[x] = "canceled")
                    /\ Pc(x)' # "none" /\ status'[x] = "canceled" =>
                         /\ Pc(x) # "none"
                         /\ \/ status[x] = "canceled"
                            \/ CanceledIndirectly /\ x = Top
                            \/ Catch /\ x = Top
                            \/ CancelUnsupport /\ uid[x] = Children(Top)[act[Top].i] /\ x # uid[x]
                            \/ CancelInterrupt /\ x = Children(Top)[act[Top].i]
                    /\ Pc(x)' = "throw" =>
                         \/ Pc(x) = "throw"
                         \/ CanceledIndirectly /\ x = Top
                         \/ (AwaitReturnThrow \/ AwaitRethrow) /\ x = Caller
                    /\ Pc(x) = "throw" => Pc(x)' = "throw" \/ (Catch /\ x = Top /\ status'[x] = "canceled")
                    /\ uninterruptable[x] => uninterruptable'[x]
  OBVIOUS
<1>0. PICK r, t : r = running /\ t = Top
  OBVIOUS
<1>t. status \in [Task -> Status] /\ uninterruptable \in [Task -> BOOLEAN]
  BY DEF IndInv, TypeOK
<1>n. Pc(x) = "none" \/ status[x] \in {"running", "canceled", "child_unready"}
  BY DEF IndInv, StatusInv
<1>m. Pc(x) = "run" /\ Kind(x) \in Combinators => status[x] = "running"
  BY DEF IndInv, StatusInv, Combinators
<1>TaskRuntime. CASE TaskRuntime
  <2>1. r \in Task /\ uid' = uid /\ Pc(r) = "none" /\ act'[r].pc = "run" /\ uninterruptable' = uninterruptable
        /\ \A u \in Task : u # r => act'[u] = act[u]
    BY <1>0, <1>TaskRuntime, TaskRuntimeIs
  <2>2. status'[r] = "running" /\ \A u \in Task : u # r => status'[u] = status[u]
    BY <1>0, <1>TaskRuntime, TaskRuntimeFx
  <2> QED
    BY <1>0, <1>n, <2>1, <2>2 DEF Pc
<1>Await. CASE Await
  <2>1. PICK y \in Task, u \in Task :
          /\ y = Target /\ Pc(u) = "run" /\ Pc(y) = "none" /\ act'[u].pc = "run" /\ act'[y].pc = "run"
          /\ status'[y] = "running" /\ \A v \in Task : v # y => status'[v] = status[v]
          /\ \A v \in Task : v # y => uid'[v] = uid[v]
          /\ \A v \in Task : v # u /\ v # y => act'[v] = act[v]
    BY <1>Await, AwaitFx
  <2>2. uninterruptable' = uninterruptable
    BY <1>Await DEF Await
  <2> QED
    BY <1>0, <1>n, <2>1, <2>2 DEF Pc
<1>Start. CASE Start
  <2>1. /\ t \in Task
        /\ Pc(t) = "run"
        /\ act'[t].pc = "run"
        /\ \A u \in Task : u # t => act'[u] = act[u]
        /\ uid' = uid /\ prog' = prog /\ stack' = stack /\ reuse' = reuse
        /\ uninterruptable' = uninterruptable
        /\ status' = status
    BY <1>0, <1>Start, StartIs, KeepsFrame, StartFx DEF Moves
  <2>p. Pc(x) # "none" <=> Pc(x)' # "none"
    <3>1. Keeps
      BY <1>Start, StartIs
    <3> QED
      BY <3>1, KeepsFrame
  <2> QED
    BY <1>0, <1>Start, StackTypes, <2>1, <2>p DEF Pc
<1>StartReject. CASE StartReject
  <2>1. /\ t \in Task
        /\ Pc(t) = "run"
        /\ act'[t].pc = "run"
        /\ \A u \in Task : u # t => act'[u] = act[u]
        /\ uid' = uid /\ prog' = prog /\ stack' = stack /\ reuse' = reuse
        /\ uninterruptable' = uninterruptable
    BY <1>0, <1>StartReject, StartRejectIs, KeepsFrame, CallIs DEF Moves, StartReject
  <2>p. Pc(x) # "none" <=> Pc(x)' # "none"
    <3>1. Keeps
      BY <1>StartReject, StartRejectIs
    <3> QED
      BY <3>1, KeepsFrame
  <2>3. status'[x] = status[x] \/ (status'[x] = "deleted" /\ status[x] # "canceled")
    BY <1>t, <1>StartReject, StartRejectIs
  <2> QED
    BY <1>0, <1>StartReject, StackTypes, <2>1, <2>p, <2>3 DEF Pc
<1>EventRun. CASE EventRun
  <2>1. /\ t \in Task
        /\ Pc(t) = "run"
        /\ act'[t].pc = "wait"
        /\ \A u \in Task : u # t => act'[u] = act[u]
        /\ uid' = uid /\ prog' = prog /\ stack' = stack /\ reuse' = reuse
        /\ uninterruptable' = uninterruptable
        /\ status' = status
    BY <1>0, <1>EventRun, EventRunIs, KeepsFrame DEF Moves
  <2>p. Pc(x) # "none" <=> Pc(x)' # "none"
    <3>1. Keeps
      BY <1>EventRun, EventRunIs
    <3> QED
      BY <3>1, KeepsFrame
  <2> QED
    BY <1>0, <1>EventRun, StackTypes, <2>1, <2>p DEF Pc
<1>EventWake. CASE EventWake
  <2>1. /\ t \in Task
        /\ Pc(t) = "wait"
        /\ act'[t].pc = "return"
        /\ \A u \in Task : u # t => act'[u] = act[u]
        /\ uid' = uid /\ prog' = prog /\ stack' = stack /\ reuse' = reuse
        /\ uninterruptable' = uninterruptable
        /\ status' = status
    BY <1>0, <1>EventWake, EventWakeIs, KeepsFrame DEF Moves
  <2>p. Pc(x) # "none" <=> Pc(x)' # "none"
    <3>1. Keeps
      BY <1>EventWake, EventWakeIs
    <3> QED
      BY <3>1, KeepsFrame
  <2> QED
    BY <1>0, <1>EventWake, StackTypes, <2>1, <2>p DEF Pc
<1>ChildrenReady. CASE ChildrenReady
  <2>1. /\ t \in Task
        /\ Pc(t) = "run"
        /\ act'[t].pc = "start"
        /\ \A u \in Task : u # t => act'[u] = act[u]
        /\ uid' = uid /\ prog' = prog /\ stack' = stack /\ reuse' = reuse
        /\ uninterruptable' = uninterruptable
        /\ status' = status
    BY <1>0, <1>ChildrenReady, ChildrenReadyIs, KeepsFrame DEF Moves
  <2>p. Pc(x) # "none" <=> Pc(x)' # "none"
    <3>1. Keeps
      BY <1>ChildrenReady, ChildrenReadyIs
    <3> QED
      BY <3>1, KeepsFrame
  <2> QED
    BY <1>0, <1>ChildrenReady, StackTypes, <2>1, <2>p DEF Pc
<1>ChildrenUnready. CASE ChildrenUnready
  <2>1. /\ t \in Task
        /\ Pc(t) = "run"
        /\ act'[t].pc = "return"
        /\ \A u \in Task : u # t => act'[u] = act[u]
        /\ uid' = uid /\ prog' = prog /\ stack' = stack /\ reuse' = reuse
        /\ uninterruptable' = uninterruptable
    BY <1>0, <1>ChildrenUnready, ChildrenUnreadyIs, KeepsFrame DEF Moves
  <2>p. Pc(x) # "none" <=> Pc(x)' # "none"
    <3>1. Keeps
      BY <1>ChildrenUnready, ChildrenUnreadyIs
    <3> QED
      BY <3>1, KeepsFrame
  <2>3. status'[x] = status[x] \/ (status'[x] = "child_unready" /\ status[x] # "canceled")
    BY <1>0, <1>t, <1>m, <1>ChildrenUnready, ChildrenUnreadyIs
  <2> QED
    BY <1>0, <1>ChildrenUnready, StackTypes, <2>1, <2>p, <2>3 DEF Pc
<1>StartChild. CASE StartChild
  <2>1. /\ t \in Task
        /\ Pc(t) = "start"
        /\ act'[t].pc = "child"
        /\ \A u \in Task : u # t => act'[u] = act[u]
        /\ uid' = uid /\ prog' = prog /\ stack' = stack /\ reuse' = reuse
        /\ uninterruptable' = uninterruptable
        /\ status' = status
    BY <1>0, <1>StartChild, StartChildIs, KeepsFrame DEF Moves
  <2>p. Pc(x) # "none" <=> Pc(x)' # "none"
    <3>1. Keeps
      BY <1>StartChild, StartChildIs
    <3> QED
      BY <3>1, KeepsFrame
  <2> QED
    BY <1>0, <1>StartChild, StackTypes, <2>1, <2>p DEF Pc
<1>AllOfBackYields. CASE AllOfBackYields
  <2>1. /\ t \in Task
        /\ Pc(t) = "child"
        /\ act'[t].pc = "wait"
        /\ \A u \in Task : u # t => act'[u] = act[u]
        /\ uid' = uid /\ prog' = prog /\ stack' = stack /\ reuse' = reuse
        /\ uninterruptable' = uninterruptable
        /\ status' = status
    BY <1>0, <1>AllOfBackYields, AllOfBackYieldsIs, KeepsFrame DEF AllOfBackYields, Moves
  <2>p. Pc(x) # "none" <=> Pc(x)' # "none"
    <3>1. Keeps
      BY <1>AllOfBackYields, AllOfBackYieldsIs DEF AllOfBackYields
    <3> QED
      BY <3>1, KeepsFrame
  <2> QED
    BY <1>0, <1>AllOfBackYields, StackTypes, <2>1, <2>p DEF Pc
<1>AllOfBackGoesOn. CASE AllOfBackGoesOn
  <2>1. /\ t \in Task
        /\ Pc(t) = "child"
        /\ act'[t].pc = (IF act[t].i = Len(Children(t)) THEN "return" ELSE "start")
        /\ \A u \in Task : u # t => act'[u] = act[u]
        /\ uid' = uid /\ prog' = prog /\ stack' = stack /\ reuse' = reuse
        /\ uninterruptable' = uninterruptable
        /\ status' = status
    BY <1>0, <1>AllOfBackGoesOn, AllOfBackGoesOnIs, KeepsFrame DEF AllOfBackGoesOn, Moves
  <2>p. Pc(x) # "none" <=> Pc(x)' # "none"
    <3>1. Keeps
      BY <1>AllOfBackGoesOn, AllOfBackGoesOnIs DEF AllOfBackGoesOn
    <3> QED
      BY <3>1, KeepsFrame
  <2> QED
    BY <1>0, <1>AllOfBackGoesOn, StackTypes, <2>1, <2>p DEF Pc
<1>AnyOfBackWins. CASE AnyOfBackWins
  <2>1. /\ t \in Task
        /\ Pc(t) = "child"
        /\ act'[t].pc = "cancel"
        /\ \A u \in Task : u # t => act'[u] = act[u]
        /\ uid' = uid /\ prog' = prog /\ stack' = stack /\ reuse' = reuse
        /\ uninterruptable' = uninterruptable
        /\ status' = status
    BY <1>0, <1>AnyOfBackWins, AnyOfBackWinsIs, KeepsFrame DEF AnyOfBackWins, Moves
  <2>p. Pc(x) # "none" <=> Pc(x)' # "none"
    <3>1. Keeps
      BY <1>AnyOfBackWins, AnyOfBackWinsIs DEF AnyOfBackWins
    <3> QED
      BY <3>1, KeepsFrame
  <2> QED
    BY <1>0, <1>AnyOfBackWins, StackTypes, <2>1, <2>p DEF Pc
<1>AnyOfBackGoesOn. CASE AnyOfBackGoesOn
  <2>1. /\ t \in Task
        /\ Pc(t) = "child"
        /\ act'[t].pc = "start"
        /\ \A u \in Task : u # t => act'[u] = act[u]
        /\ uid' = uid /\ prog' = prog /\ stack' = stack /\ reuse' = reuse
        /\ uninterruptable' = uninterruptable
        /\ status' = status
    BY <1>0, <1>AnyOfBackGoesOn, AnyOfBackGoesOnIs, KeepsFrame DEF AnyOfBackGoesOn, Moves
  <2>p. Pc(x) # "none" <=> Pc(x)' # "none"
    <3>1. Keeps
      BY <1>AnyOfBackGoesOn, AnyOfBackGoesOnIs DEF AnyOfBackGoesOn
    <3> QED
      BY <3>1, KeepsFrame
  <2> QED
    BY <1>0, <1>AnyOfBackGoesOn, StackTypes, <2>1, <2>p DEF Pc
<1>AnyOfBackYields. CASE AnyOfBackYields
  <2>1. /\ t \in Task
        /\ Pc(t) = "child"
        /\ act'[t].pc = "wait"
        /\ \A u \in Task : u # t => act'[u] = act[u]
        /\ uid' = uid /\ prog' = prog /\ stack' = stack /\ reuse' = reuse
        /\ uninterruptable' = uninterruptable
        /\ status' = status
    BY <1>0, <1>AnyOfBackYields, AnyOfBackYieldsIs, KeepsFrame DEF AnyOfBackYields, Moves
  <2>p. Pc(x) # "none" <=> Pc(x)' # "none"
    <3>1. Keeps
      BY <1>AnyOfBackYields, AnyOfBackYieldsIs DEF AnyOfBackYields
    <3> QED
      BY <3>1, KeepsFrame
  <2> QED
    BY <1>0, <1>AnyOfBackYields, StackTypes, <2>1, <2>p DEF Pc
<1>AllOfWakeYields. CASE AllOfWakeYields
  <2>1. /\ t \in Task
        /\ Pc(t) = "wait"
        /\ act'[t].pc = "wait"
        /\ \A u \in Task : u # t => act'[u] = act[u]
        /\ uid' = uid /\ prog' = prog /\ stack' = stack /\ reuse' = reuse
        /\ uninterruptable' = uninterruptable
        /\ status' = status
    BY <1>0, <1>AllOfWakeYields, AllOfWakeYieldsIs, KeepsFrame DEF AllOfWakeYields, Moves
  <2>p. Pc(x) # "none" <=> Pc(x)' # "none"
    <3>1. Keeps
      BY <1>AllOfWakeYields, AllOfWakeYieldsIs DEF AllOfWakeYields
    <3> QED
      BY <3>1, KeepsFrame
  <2> QED
    BY <1>0, <1>AllOfWakeYields, StackTypes, <2>1, <2>p DEF Pc
<1>AllOfWakeEnds. CASE AllOfWakeEnds
  <2>1. /\ t \in Task
        /\ Pc(t) = "wait"
        /\ act'[t].pc = "return"
        /\ \A u \in Task : u # t => act'[u] = act[u]
        /\ uid' = uid /\ prog' = prog /\ stack' = stack /\ reuse' = reuse
        /\ uninterruptable' = uninterruptable
        /\ status' = status
    BY <1>0, <1>AllOfWakeEnds, AllOfWakeEndsIs, KeepsFrame DEF AllOfWakeEnds, Moves
  <2>p. Pc(x) # "none" <=> Pc(x)' # "none"
    <3>1. Keeps
      BY <1>AllOfWakeEnds, AllOfWakeEndsIs DEF AllOfWakeEnds
    <3> QED
      BY <3>1, KeepsFrame
  <2> QED
    BY <1>0, <1>AllOfWakeEnds, StackTypes, <2>1, <2>p DEF Pc
<1>AnyOfWake. CASE AnyOfWake
  <2>1. /\ t \in Task
        /\ Pc(t) = "wait"
        /\ act'[t].pc = "cancel"
        /\ \A u \in Task : u # t => act'[u] = act[u]
        /\ uid' = uid /\ prog' = prog /\ stack' = stack /\ reuse' = reuse
        /\ uninterruptable' = uninterruptable
        /\ status' = status
    BY <1>0, <1>AnyOfWake, AnyOfWakeIs, KeepsFrame DEF Moves
  <2>p. Pc(x) # "none" <=> Pc(x)' # "none"
    <3>1. Keeps
      BY <1>AnyOfWake, AnyOfWakeIs
    <3> QED
      BY <3>1, KeepsFrame
  <2> QED
    BY <1>0, <1>AnyOfWake, StackTypes, <2>1, <2>p DEF Pc
<1>CanceledDirectlyLeaf. CASE CanceledDirectlyLeaf
  <2>1. /\ t \in Task
        /\ Pc(t) = "wait"
        /\ act'[t].pc = "return"
        /\ \A u \in Task : u # t => act'[u] = act[u]
        /\ uid' = uid /\ prog' = prog /\ stack' = stack /\ reuse' = reuse
        /\ uninterruptable' = uninterruptable
        /\ status' = status
    BY <1>0, <1>CanceledDirectlyLeaf, CanceledDirectlyLeafIs, KeepsFrame
       DEF CanceledDirectlyLeaf, Moves
  <2>p. Pc(x) # "none" <=> Pc(x)' # "none"
    <3>1. Keeps
      BY <1>CanceledDirectlyLeaf, CanceledDirectlyLeafIs DEF CanceledDirectlyLeaf
    <3> QED
      BY <3>1, KeepsFrame
  <2> QED
    BY <1>0, <1>CanceledDirectlyLeaf, StackTypes, <2>1, <2>p DEF Pc
<1>CanceledDirectlyComb. CASE CanceledDirectlyComb
  <2>1. /\ t \in Task
        /\ Pc(t) = "wait"
        /\ act'[t].pc = "cancel"
        /\ \A u \in Task : u # t => act'[u] = act[u]
        /\ uid' = uid /\ prog' = prog /\ stack' = stack /\ reuse' = reuse
        /\ uninterruptable' = uninterruptable
        /\ status' = status
    BY <1>0, <1>CanceledDirectlyComb, CanceledDirectlyCombIs, KeepsFrame
       DEF CanceledDirectlyComb, Moves
  <2>p. Pc(x) # "none" <=> Pc(x)' # "none"
    <3>1. Keeps
      BY <1>CanceledDirectlyComb, CanceledDirectlyCombIs DEF CanceledDirectlyComb
    <3> QED
      BY <3>1, KeepsFrame
  <2> QED
    BY <1>0, <1>CanceledDirectlyComb, StackTypes, <2>1, <2>p DEF Pc
<1>CanceledIndirectly. CASE CanceledIndirectly
  <2>1. /\ t \in Task
        /\ Pc(t) = "wait"
        /\ act'[t].pc = "throw"
        /\ \A u \in Task : u # t => act'[u] = act[u]
        /\ uid' = uid /\ prog' = prog /\ stack' = stack /\ reuse' = reuse
        /\ uninterruptable' = uninterruptable
    BY <1>0, <1>CanceledIndirectly, CanceledIndirectlyIs, KeepsFrame DEF Moves
  <2>p. Pc(x) # "none" <=> Pc(x)' # "none"
    <3>1. Keeps
      BY <1>CanceledIndirectly, CanceledIndirectlyIs
    <3> QED
      BY <3>1, KeepsFrame
  <2>3. IF x = t THEN status'[x] = "canceled" ELSE status'[x] = status[x]
    BY <1>0, <1>t, <1>CanceledIndirectly, CanceledIndirectlyIs
  <2> QED
    BY <1>0, <1>CanceledIndirectly, StackTypes, <2>1, <2>p, <2>3 DEF Pc
<1>CatchLeaf. CASE CatchLeaf
  <2>1. /\ t \in Task
        /\ Pc(t) = "throw"
        /\ act'[t].pc = "caught"
        /\ \A u \in Task : u # t => act'[u] = act[u]
        /\ uid' = uid /\ prog' = prog /\ stack' = stack /\ reuse' = reuse
        /\ uninterruptable' = uninterruptable
    BY <1>0, <1>CatchLeaf, CatchLeafIs, KeepsFrame DEF CatchLeaf, Moves
  <2>p. Pc(x) # "none" <=> Pc(x)' # "none"
    <3>1. Keeps
      BY <1>CatchLeaf, CatchLeafIs DEF CatchLeaf
    <3> QED
      BY <3>1, KeepsFrame
  <2>3. IF x = t THEN status'[x] = "canceled" ELSE status'[x] = status[x]
    BY <1>0, <1>t, <1>CatchLeaf, CatchLeafIs DEF CatchLeaf
  <2>4. Catch
    BY <1>CatchLeaf DEF CatchLeaf
  <2> QED
    BY <1>0, <1>CatchLeaf, StackTypes, <2>1, <2>p, <2>3, <2>4 DEF Pc
<1>CatchComb. CASE CatchComb
  <2>1. /\ t \in Task
        /\ Pc(t) = "throw"
        /\ act'[t].pc = "cancel"
        /\ \A u \in Task : u # t => act'[u] = act[u]
        /\ uid' = uid /\ prog' = prog /\ stack' = stack /\ reuse' = reuse
        /\ uninterruptable' = uninterruptable
    BY <1>0, <1>CatchComb, CatchCombIs, KeepsFrame DEF CatchComb, Moves
  <2>p. Pc(x) # "none" <=> Pc(x)' # "none"
    <3>1. Keeps
      BY <1>CatchComb, CatchCombIs DEF CatchComb
    <3> QED
      BY <3>1, KeepsFrame
  <2>3. IF x = t THEN status'[x] = "canceled" ELSE status'[x] = status[x]
    BY <1>0, <1>t, <1>CatchComb, CatchCombIs DEF CatchComb
  <2>4. Catch
    BY <1>CatchComb DEF CatchComb
  <2> QED
    BY <1>0, <1>CatchComb, StackTypes, <2>1, <2>p, <2>3, <2>4 DEF Pc
<1>CancelSkip. CASE CancelSkip
  <2>1. /\ t \in Task
        /\ Pc(t) = "cancel"
        /\ act'[t].pc = "cancel"
        /\ \A u \in Task : u # t => act'[u] = act[u]
        /\ uid' = uid /\ prog' = prog /\ stack' = stack /\ reuse' = reuse
        /\ uninterruptable' = uninterruptable
        /\ status' = status
    BY <1>0, <1>CancelSkip, CancelSkipIs, KeepsFrame DEF Moves
  <2>p. Pc(x) # "none" <=> Pc(x)' # "none"
    <3>1. Keeps
      BY <1>CancelSkip, CancelSkipIs
    <3> QED
      BY <3>1, KeepsFrame
  <2> QED
    BY <1>0, <1>CancelSkip, StackTypes, <2>1, <2>p DEF Pc
<1>CancelUnsupport. CASE CancelUnsupport
  <2>1. /\ t \in Task
        /\ Pc(t) = "cancel"
        /\ act'[t].pc = "cancel"
        /\ \A u \in Task : u # t => act'[u] = act[u]
        /\ uid' = uid /\ prog' = prog /\ stack' = stack /\ reuse' = reuse
        /\ uninterruptable' = uninterruptable
    BY <1>0, <1>CancelUnsupport, CancelUnsupportIs, KeepsFrame DEF Moves
  <2>p. Pc(x) # "none" <=> Pc(x)' # "none"
    <3>1. Keeps
      BY <1>CancelUnsupport, CancelUnsupportIs
    <3> QED
      BY <3>1, KeepsFrame
  <2>3. \/ status'[x] = status[x]
        \/ status'[x] = "canceled" /\ Pc(x) # "none" /\ uid[x] = Children(Top)[act[Top].i] /\ x # uid[x]
    BY <1>CancelUnsupport, CancelUnsupportFx
  <2> QED
    BY <1>0, <1>CancelUnsupport, StackTypes, <2>1, <2>p, <2>3 DEF Pc
<1>CancelInterrupt. CASE CancelInterrupt
  <2>1. /\ t \in Task
        /\ Pc(t) = "cancel"
        /\ act'[t].pc = "cancel"
        /\ \A u \in Task : u # t => act'[u] = act[u]
        /\ uid' = uid /\ prog' = prog /\ stack' = stack /\ reuse' = reuse
        /\ uninterruptable' = uninterruptable
    BY <1>0, <1>CancelInterrupt, CancelInterruptIs, KeepsFrame DEF Moves
  <2>p. Pc(x) # "none" <=> Pc(x)' # "none"
    <3>1. Keeps
      BY <1>CancelInterrupt, CancelInterruptIs
    <3> QED
      BY <3>1, KeepsFrame
  <2>3. \/ status'[x] = status[x]
        \/ status'[x] = "canceled" /\ Pc(x) # "none" /\ x = Children(Top)[act[Top].i]
    BY <1>CancelInterrupt, CancelInterruptFx
  <2> QED
    BY <1>0, <1>CancelInterrupt, StackTypes, <2>1, <2>p, <2>3 DEF Pc
<1>CancelEndYields. CASE CancelEndYields
  <2>1. /\ t \in Task
        /\ Pc(t) = "cancel"
        /\ act'[t].pc = "unsupport"
        /\ \A u \in Task : u # t => act'[u] = act[u]
        /\ uid' = uid /\ prog' = prog /\ stack' = stack /\ reuse' = reuse
        /\ status' = status
    BY <1>0, <1>CancelEndYields, CancelEndYieldsIs, KeepsFrame DEF CancelEndYields, Moves
  <2>p. Pc(x) # "none" <=> Pc(x)' # "none"
    <3>1. Keeps
      BY <1>CancelEndYields, CancelEndYieldsIs DEF CancelEndYields
    <3> QED
      BY <3>1, KeepsFrame
  <2>2. uninterruptable[x] => uninterruptable'[x]
    BY <1>t, <1>CancelEndYields, CancelEndYieldsIs DEF CancelEndYields
  <2> QED
    BY <1>0, <1>CancelEndYields, StackTypes, <2>1, <2>p, <2>2 DEF Pc
<1>CancelEndDone. CASE CancelEndDone
  <2>1. /\ t \in Task
        /\ Pc(t) = "cancel"
        /\ act'[t].pc = act[t].next
        /\ \A u \in Task : u # t => act'[u] = act[u]
        /\ uid' = uid /\ prog' = prog /\ stack' = stack /\ reuse' = reuse
        /\ uninterruptable' = uninterruptable
        /\ status' = status
    BY <1>0, <1>CancelEndDone, CancelEndDoneIs, KeepsFrame DEF CancelEndDone, Moves
  <2>p. Pc(x) # "none" <=> Pc(x)' # "none"
    <3>1. Keeps
      BY <1>CancelEndDone, CancelEndDoneIs DEF CancelEndDone
    <3> QED
      BY <3>1, KeepsFrame
  <2> QED
    BY <1>0, <1>CancelEndDone, StackTypes, <2>1, <2>p DEF Pc
<1>UnsupportYields. CASE UnsupportYields
  <2>1. /\ t \in Task
        /\ Pc(t) = "unsupport"
        /\ act'[t].pc = "unsupport"
        /\ \A u \in Task : u # t => act'[u] = act[u]
        /\ uid' = uid /\ prog' = prog /\ stack' = stack /\ reuse' = reuse
        /\ uninterruptable' = uninterruptable
        /\ status' = status
    BY <1>0, <1>UnsupportYields, UnsupportYieldsIs, KeepsFrame DEF UnsupportYields, Moves
  <2>p. Pc(x) # "none" <=> Pc(x)' # "none"
    <3>1. Keeps
      BY <1>UnsupportYields, UnsupportYieldsIs DEF UnsupportYields
    <3> QED
      BY <3>1, KeepsFrame
  <2> QED
    BY <1>0, <1>UnsupportYields, StackTypes, <2>1, <2>p DEF Pc
<1>UnsupportDone. CASE UnsupportDone
  <2>1. /\ t \in Task
        /\ Pc(t) = "unsupport"
        /\ act'[t].pc = act[t].next
        /\ \A u \in Task : u # t => act'[u] = act[u]
        /\ uid' = uid /\ prog' = prog /\ stack' = stack /\ reuse' = reuse
        /\ uninterruptable' = uninterruptable
        /\ status' = status
    BY <1>0, <1>UnsupportDone, UnsupportDoneIs, KeepsFrame DEF UnsupportDone, Moves
  <2>p. Pc(x) # "none" <=> Pc(x)' # "none"
    <3>1. Keeps
      BY <1>UnsupportDone, UnsupportDoneIs DEF UnsupportDone
    <3> QED
      BY <3>1, KeepsFrame
  <2> QED
    BY <1>0, <1>UnsupportDone, StackTypes, <2>1, <2>p DEF Pc
<1>AwaitReturn. CASE AwaitReturn
  <2>1. PICK y \in Task, u \in Task, s \in Status, pc \in Points :
          /\ u = Caller /\ y = Top /\ Pops(s, pc) /\ act'[u].pc = pc
          /\ Pc(u) = "run" /\ Kind(u) = "user" /\ act'[y].pc = "none" /\ y # u
          /\ \A v \in Task : v # y => status'[v] = status[v]
          /\ \A v \in Task : v # y => uid'[v] = uid[v]
          /\ \A v \in Task : v # u /\ v # y => act'[v] = act[v]
          /\ uninterruptable' = uninterruptable
    BY <1>AwaitReturn, PopsFx
  <2>2. Pc(y) # "throw"
    BY <1>AwaitReturn, <2>1, AwaitReturnIs
  <2>3. act'[u].pc # "none" /\ act'[u].pc # "throw"
    BY <1>AwaitReturn, <2>1, AwaitReturnIs, CallerFacts, PopsBusy DEF Pops
  <2> QED
    BY <1>0, <1>AwaitReturn, <2>1, <2>2, <2>3 DEF Pc
<1>AwaitReturnThrow. CASE AwaitReturnThrow
  <2>1. PICK y \in Task, u \in Task, s \in Status, pc \in Points :
          /\ u = Caller /\ y = Top /\ Pops(s, pc) /\ act'[u].pc = pc
          /\ Pc(u) = "run" /\ Kind(u) = "user" /\ act'[y].pc = "none" /\ y # u
          /\ \A v \in Task : v # y => status'[v] = status[v]
          /\ \A v \in Task : v # y => uid'[v] = uid[v]
          /\ \A v \in Task : v # u /\ v # y => act'[v] = act[v]
          /\ uninterruptable' = uninterruptable
    BY <1>AwaitReturnThrow, PopsFx
  <2>2. Pc(y) # "throw"
    BY <1>AwaitReturnThrow, <2>1, AwaitReturnThrowIs
  <2>3. act'[u].pc # "none" 
    BY <1>AwaitReturnThrow, <2>1, AwaitReturnThrowIs, CallerFacts, PopsBusy DEF Pops
  <2> QED
    BY <1>0, <1>AwaitReturnThrow, <2>1, <2>2, <2>3 DEF Pc
<1>AwaitRethrow. CASE AwaitRethrow
  <2>1. PICK y \in Task, u \in Task, s \in Status, pc \in Points :
          /\ u = Caller /\ y = Top /\ Pops(s, pc) /\ act'[u].pc = pc
          /\ Pc(u) = "run" /\ Kind(u) = "user" /\ act'[y].pc = "none" /\ y # u
          /\ \A v \in Task : v # y => status'[v] = status[v]
          /\ \A v \in Task : v # y => uid'[v] = uid[v]
          /\ \A v \in Task : v # u /\ v # y => act'[v] = act[v]
          /\ uninterruptable' = uninterruptable
    BY <1>AwaitRethrow, PopsFx
  <2>2. Pc(y) # "throw"
    BY <1>AwaitRethrow, <2>1, AwaitRethrowIs
  <2>3. act'[u].pc # "none" 
    BY <1>AwaitRethrow, <2>1, AwaitRethrowIs, CallerFacts, PopsBusy DEF Pops
  <2> QED
    BY <1>0, <1>AwaitRethrow, <2>1, <2>2, <2>3 DEF Pc
<1>RuntimeFinish. CASE RuntimeFinish
  <2>1. /\ r \in Task /\ uid' = uid /\ act'[r].pc = "none" /\ \A u \in Task : u # r => act'[u] = act[u]
        /\ Pc(r) # "throw" /\ uninterruptable' = uninterruptable
    BY <1>0, <1>RuntimeFinish, RuntimeFinishIs
  <2>2. \A u \in Task : u # r => status'[u] = status[u]
    BY <1>0, <1>RuntimeFinish, FinishFx
  <2> QED
    BY <1>0, <2>1, <2>2 DEF Pc
<1>EventFires. CASE \E e \in Task : EventFires(e)
  BY <1>0, <1>EventFires, EventFiresIs DEF Pc
<1>Stutter. CASE UNCHANGED vars
  BY <1>0, <1>Stutter DEF Pc, vars, objectVars
<1> QED
  BY StepCases, <1>TaskRuntime, <1>Await, <1>Start, <1>StartReject, <1>EventRun, <1>EventWake,
       <1>ChildrenReady, <1>ChildrenUnready, <1>StartChild, <1>AllOfBackYields,
       <1>AllOfBackGoesOn, <1>AnyOfBackWins, <1>AnyOfBackGoesOn, <1>AnyOfBackYields,
       <1>AllOfWakeYields, <1>AllOfWakeEnds, <1>AnyOfWake, <1>CanceledDirectlyLeaf,
       <1>CanceledDirectlyComb, <1>CanceledIndirectly, <1>CatchLeaf, <1>CatchComb, <1>CancelSkip,
       <1>CancelUnsupport, <1>CancelInterrupt, <1>CancelEndYields, <1>CancelEndDone,
       <1>UnsupportYields, <1>UnsupportDone, <1>AwaitReturn, <1>AwaitReturnThrow, <1>AwaitRethrow,
       <1>RuntimeFinish, <1>EventFires, <1>Stutter

\* Which run() is innermost on a coroutine changes with an await and its end.
LEMMA InnerStep ==
    ASSUME IndInv, [Next]_vars
    PROVE  \A c \in Task : Busy(c) /\ Busy(c)' =>
             \/ Inner(c)' = Inner(c)
             \/ Await /\ c = running /\ Pc(Inner(c)) = "run"
             \/ (AwaitReturn \/ AwaitReturnThrow \/ AwaitRethrow) /\ c = running /\ Inner(c)' = Caller
<1> SUFFICES ASSUME NEW c \in Task, Busy(c), Busy(c)'
             PROVE  \/ Inner(c)' = Inner(c)
                    \/ Await /\ c = running /\ Pc(Inner(c)) = "run"
                    \/ (AwaitReturn \/ AwaitReturnThrow \/ AwaitRethrow) /\ c = running /\ Inner(c)' = Caller
  OBVIOUS
<1>1. CASE Keeps
  BY <1>1, KeepsFrame
<1>2. CASE TaskRuntime
  BY <1>2, TaskRuntimeIs, TaskRuntimeFx
<1>3. CASE Await
  BY <1>3, AwaitFx
<1>4. CASE AwaitReturn \/ AwaitReturnThrow \/ AwaitRethrow
  BY <1>4, PopsBusy
<1>5. CASE RuntimeFinish
  BY <1>5, FinishFx
<1>6. CASE \E e \in Task : EventFires(e)
  BY <1>6, EventFiresIs DEF Inner
<1>7. CASE UNCHANGED vars
  BY <1>7 DEF vars, Inner
<1> QED
  BY <1>1, <1>2, <1>3, <1>4, <1>5, <1>6, <1>7, KeepsOr

LEMMA DoomedStays ==
    ASSUME IndInv, [Next]_vars, NEW c \in Task, Doomed(c), Busy(c)'
    PROVE  Doomed(c)'
<1>0. Busy(c)
  BY DEF Doomed
<1>1. PICK y \in Task : y = Inner(c)
  BY <1>0, BusyFacts
<1>2. CASE Pc(y) = "throw"
  <2>1. Inner(c)' = y
    <3>1. Pc(y) # "run" /\ Pc(y) # "caught" /\ Pc(y) # "return"
      BY <1>2
    <3>2. c = running => y = Top
      BY <1>0, <1>1, TopFacts, StackTypes
    <3> QED
      BY <1>0, <1>1, <3>1, <3>2, InnerStep, AwaitReturnIs, AwaitReturnThrowIs, AwaitRethrowIs
  <2>2. Pc(y)' = "throw" \/ (Pc(y)' # "none" /\ status'[y] = "canceled")
    <3>1. Pc(y)' # "none"
      <4>1. ~(TaskRuntime /\ y = running) /\ ~(Await /\ y = Target)
        BY <1>2, TaskRuntimeIs, AwaitFx
      <4>2. ~(RuntimeFinish /\ y = running)
        BY <1>2, RuntimeFinishIs
      <4>3. ~((AwaitReturn \/ AwaitReturnThrow \/ AwaitRethrow) /\ y = Top)
        BY <1>2, AwaitReturnIs, AwaitReturnThrowIs, AwaitRethrowIs
      <4> QED
        BY <1>2, <4>1, <4>2, <4>3, LifeStep
    <3> QED
      BY <1>2, <3>1, CanceledStep
  <2>3. uid'[y] = c
    BY <1>0, <1>1, <1>2, <2>2, BusyFacts, CanceledStep
  <2> QED
    BY <1>1, <2>1, <2>2, <2>3 DEF Doomed
<1>3. CASE Pc(y) # "throw"
  <2>1. PICK t \in Task : Pc(t) # "none" /\ uid[t] = c /\ status[t] = "canceled"
    BY <1>1, <1>3 DEF Doomed
  <2>2. CASE Pc(t)' # "none"
    BY <2>1, <2>2, CanceledStep DEF Doomed
  <2>3. CASE Pc(t)' = "none"
    <3>1. ~(TaskRuntime /\ t = running) /\ ~(Await /\ t = Target)
      BY <2>1, TaskRuntimeIs, AwaitFx
    <3>2. ~(RuntimeFinish /\ t = running)
      BY <2>1, FinishFx
    <3>3. (AwaitReturn \/ AwaitReturnThrow \/ AwaitRethrow) /\ t = Top
      BY <2>1, <2>3, <3>1, <3>2, LifeStep
    <3>4. ~AwaitReturn
      BY <2>1, <3>3, AwaitReturnIs
    <3>5. PICK u \in Task : u = Caller /\ uid[t] = running /\ Inner(running)' = u
      BY <3>3, PopsFx
    <3>6. Pc(u)' = "throw"
      BY <3>3, <3>4, <3>5, AwaitReturnThrowIs, AwaitRethrowIs DEF Pops, Pc
    <3>7. Inner(c)' = u
      BY <2>1, <3>3, <3>5, PopsBusy
    <3> QED
      BY <3>6, <3>7 DEF Doomed
  <2> QED
    BY <2>2, <2>3
<1> QED
  BY <1>2, <1>3

\* A coroutine becomes doomed where __task_cancel_children deals with it.
LEMMA DoomedNew ==
    ASSUME IndInv, [Next]_vars, NEW c \in Task, Doomed(c)'
    PROVE  \/ Doomed(c)
           \/ (CancelUnsupport \/ CancelInterrupt) /\ c = Children(Top)[act[Top].i]
<1>0. Busy(c)'
  BY DEF Doomed
<1>1. ASSUME Busy(c), CanceledIndirectly \/ Catch, uid[Top] = c
      PROVE  Doomed(c)
  <2>1. Pc(Top) \in {"wait", "throw"} /\ (Pc(Top) = "wait" => CanceledIndirectly)
    BY <1>1, AtTop DEF CanceledIndirectly, Catch
  <2>2. running # Loop /\ Busy(running)
    BY <1>1, AtTop DEF CanceledIndirectly, Catch
  <2>3. c = running /\ Top = Inner(c)
    BY <1>1, <2>2, TopFacts
  <2>4. CASE Pc(Top) = "throw"
    BY <1>1, <2>3, <2>4 DEF Doomed
  <2>5. CASE CanceledIndirectly
    <3>1. status[c] = "canceled"
      BY <2>3, <2>5 DEF CanceledIndirectly, IndInv, SignalInv
    <3> QED
      BY <1>1, <3>1, BusyFacts DEF Doomed
  <2> QED
    BY <2>1, <2>4, <2>5
<1>2. ASSUME AwaitReturnThrow \/ AwaitRethrow
      PROVE  Doomed(running) /\ uid[Caller] = running
  <2>1. PICK t \in Task : t = Top /\ uid[t] = running /\ Pc(t) # "none" /\ uid[Caller] = running
    BY <1>2, PopsFx
  <2>2. status[t] = "canceled" /\ Busy(running)
    BY <1>2, <2>1, AwaitReturnThrowIs, AwaitRethrowIs, PopsBusy
  <2> QED
    BY <2>1, <2>2 DEF Doomed
<1>3. ASSUME NEW t \in Task, Pc(t)' # "none", uid'[t] = c, status'[t] = "canceled"
      PROVE  \/ Doomed(c)
             \/ (CancelUnsupport \/ CancelInterrupt) /\ c = Children(Top)[act[Top].i]
  <2>1. Pc(t) # "none" /\ uid[t] = c
    BY <1>3, CanceledStep
  <2>2. Busy(c)
    BY <2>1, LiveFacts
  <2>3. CASE CancelInterrupt /\ t = Children(Top)[act[Top].i]
    <3>1. uid[t] = t
      BY <2>3, CancelInterruptFx
    <3> QED
      BY <2>1, <2>3, <3>1
  <2>4. status[t] = "canceled" => Doomed(c)
    BY <2>1, <2>2 DEF Doomed
  <2> QED
    BY <1>1, <1>3, <2>1, <2>2, <2>3, <2>4, CanceledStep
<1>4. ASSUME NEW y \in Task, y = Inner(c)', Pc(y)' = "throw"
      PROVE  Doomed(c)
  <2>1. CASE Busy(c)
    <3>1. CASE Inner(c)' = Inner(c)
      <4>1. uid[y] = c /\ Pc(y) # "none" /\ y = Inner(c)
        BY <1>4, <2>1, <3>1, BusyFacts
      <4>2. Pc(y) = "throw" => Doomed(c)
        BY <2>1, <4>1 DEF Doomed
      <4> QED
        BY <1>1, <1>2, <1>4, <2>1, <4>1, <4>2, CanceledStep
    <3>2. CASE Await /\ c = running
      <4>1. act'[y].pc = "run"
        BY <1>4, <3>2, AwaitFx
      <4> QED
        BY <1>4, <4>1 DEF Pc
    <3>3. CASE (AwaitReturn \/ AwaitReturnThrow \/ AwaitRethrow) /\ c = running /\ Inner(c)' = Caller
      <4>1. Pc(y) = "run"
        BY <1>4, <3>3, PopsFx
      <4>2. ~CanceledIndirectly \/ y # Top
        BY <4>1, AtTop DEF CanceledIndirectly
      <4> QED
        BY <1>2, <1>4, <3>3, <4>1, <4>2, CanceledStep
    <3> QED
      BY <1>0, <2>1, <3>1, <3>2, <3>3, InnerStep
  <2>2. CASE ~Busy(c)
    <3>1. TaskRuntime /\ c = running
      BY <1>0, <2>2, BusyStep
    <3>2. y = running /\ act'[running].pc = "run"
      BY <1>4, <3>1, TaskRuntimeIs, TaskRuntimeFx
    <3> QED
      BY <1>4, <3>2 DEF Pc
  <2> QED
    BY <2>1, <2>2
<1>5. PICK y : y = Inner(c)'
  OBVIOUS
<1>6. y \in Task
  <2>1. CASE Busy(c)
    BY <1>0, <1>5, <2>1, InnerStep, BusyFacts, AwaitFx, CallerFacts, PopsBusy
  <2>2. CASE ~Busy(c)
    BY <1>0, <1>5, <2>2, BusyStep, TaskRuntimeFx
  <2> QED
    BY <2>1, <2>2
<1> QED
  BY <1>3, <1>4, <1>5, <1>6 DEF Doomed

\* Which children __task_cancel_children has dealt with.
LEMMA VisitedStep ==
    ASSUME IndInv, [Next]_vars
    PROVE  \A k \in Task : \A j \in DOMAIN Children(k) :
             /\ Visited(k, j) => Visited(k, j)' \/ LiveKids(k) = {}
             /\ Visited(k, j)' =>
                  \/ Visited(k, j)
                  \/ k = Top /\ j = act[Top].i /\ Pc(Top) = "cancel"
                     /\ (CancelSkip \/ CancelUnsupport \/ CancelInterrupt)
<1> SUFFICES ASSUME NEW k \in Task, NEW j \in DOMAIN Children(k)
             PROVE  /\ Visited(k, j) => Visited(k, j)' \/ LiveKids(k) = {}
                    /\ Visited(k, j)' =>
                         \/ Visited(k, j)
                         \/ k = Top /\ j = act[Top].i /\ Pc(Top) = "cancel"
                            /\ (CancelSkip \/ CancelUnsupport \/ CancelInterrupt)
  OBVIOUS
<1>0. PICK r, t : r = running /\ t = Top
  OBVIOUS
<1>a. DOMAIN Children(k) = 1..Len(Children(k)) /\ Len(Children(k)) \in Nat /\ act[k].i \in Nat
  BY TaskFacts, StackTypes DEF IndInv
<1>b. j \in 1..Len(Children(k)) /\ j \in Nat
  BY <1>a
<1>j. PICK n, m : /\ n = act[k].i /\ m = Len(Children(k)) /\ n \in Nat /\ m \in Nat
                  /\ j \in 1..m /\ j \in Nat
  BY <1>a, <1>b
<1>TaskRuntime. CASE TaskRuntime
  <2>1. r \in Task /\ Pc(r) = "none" /\ act'[r].pc = "run" /\ \A u \in Task : u # r => act'[u] = act[u]
    BY <1>0, <1>TaskRuntime, TaskRuntimeIs
  <2> QED
    BY <1>0, <2>1 DEF Pc, Visited
<1>Await. CASE Await
  <2>1. PICK y \in Task, u \in Task :
          /\ Pc(u) = "run" /\ Pc(y) = "none" /\ act'[u].pc = "run" /\ act'[y].pc = "run"
          /\ \A v \in Task : v # u /\ v # y => act'[v] = act[v]
    BY <1>Await, AwaitFx
  <2> QED
    BY <2>1 DEF Pc, Visited
<1>Start. CASE Start
  <2>1. /\ t \in Task
        /\ Pc(t) = "run"
        /\ act'[t].pc = "run"
        /\ act'[t].i = act[t].i + 1
        /\ \A u \in Task : u # t => act'[u] = act[u]
        /\ uid' = uid /\ prog' = prog /\ stack' = stack /\ reuse' = reuse
    BY <1>0, <1>Start, StartIs, KeepsFrame, StartFx DEF Moves
  <2> QED
    BY <1>0, <1>j, <1>Start, <2>1 DEF Pc, Visited
<1>StartReject. CASE StartReject
  <2>1. /\ t \in Task
        /\ Pc(t) = "run"
        /\ act'[t].pc = "run"
        /\ act'[t].i = act[t].i + 1
        /\ \A u \in Task : u # t => act'[u] = act[u]
        /\ uid' = uid /\ prog' = prog /\ stack' = stack /\ reuse' = reuse
    BY <1>0, <1>StartReject, StartRejectIs, KeepsFrame, CallIs DEF Moves, StartReject
  <2> QED
    BY <1>0, <1>j, <1>StartReject, <2>1 DEF Pc, Visited
<1>EventRun. CASE EventRun
  <2>1. /\ t \in Task
        /\ Pc(t) = "run"
        /\ act'[t].pc = "wait"
        /\ act'[t].i = act[t].i
        /\ \A u \in Task : u # t => act'[u] = act[u]
        /\ uid' = uid /\ prog' = prog /\ stack' = stack /\ reuse' = reuse
    BY <1>0, <1>EventRun, EventRunIs, KeepsFrame DEF Moves
  <2> QED
    BY <1>0, <1>j, <1>EventRun, <2>1 DEF Pc, Visited
<1>EventWake. CASE EventWake
  <2>1. /\ t \in Task
        /\ Pc(t) = "wait"
        /\ act'[t].pc = "return"
        /\ act'[t].i = act[t].i
        /\ \A u \in Task : u # t => act'[u] = act[u]
        /\ uid' = uid /\ prog' = prog /\ stack' = stack /\ reuse' = reuse
    BY <1>0, <1>EventWake, EventWakeIs, KeepsFrame DEF Moves
  <2> QED
    BY <1>0, <1>j, <1>EventWake, <2>1 DEF Pc, Visited
<1>ChildrenReady. CASE ChildrenReady
  <2>1. /\ t \in Task
        /\ Pc(t) = "run"
        /\ act'[t].pc = "start"
        /\ act'[t].i = 1
        /\ \A u \in Task : u # t => act'[u] = act[u]
        /\ uid' = uid /\ prog' = prog /\ stack' = stack /\ reuse' = reuse
    BY <1>0, <1>ChildrenReady, ChildrenReadyIs, KeepsFrame DEF Moves
  <2> QED
    BY <1>0, <1>j, <1>ChildrenReady, <2>1 DEF Pc, Visited
<1>ChildrenUnready. CASE ChildrenUnready
  <2>1. /\ t \in Task
        /\ Pc(t) = "run"
        /\ act'[t].pc = "return"
        /\ act'[t].i = act[t].i
        /\ \A u \in Task : u # t => act'[u] = act[u]
        /\ uid' = uid /\ prog' = prog /\ stack' = stack /\ reuse' = reuse
    BY <1>0, <1>ChildrenUnready, ChildrenUnreadyIs, KeepsFrame DEF Moves
  <2> QED
    BY <1>0, <1>j, <1>ChildrenUnready, <2>1 DEF Pc, Visited
<1>StartChild. CASE StartChild
  <2>1. /\ t \in Task
        /\ Pc(t) = "start"
        /\ act'[t].pc = "child"
        /\ act'[t].i = act[t].i
        /\ \A u \in Task : u # t => act'[u] = act[u]
        /\ uid' = uid /\ prog' = prog /\ stack' = stack /\ reuse' = reuse
    BY <1>0, <1>StartChild, StartChildIs, KeepsFrame DEF Moves
  <2> QED
    BY <1>0, <1>j, <1>StartChild, <2>1 DEF Pc, Visited
<1>AllOfBackYields. CASE AllOfBackYields
  <2>1. /\ t \in Task
        /\ Pc(t) = "child"
        /\ act'[t].pc = "wait"
        /\ act'[t].i = act[t].i + 1
        /\ \A u \in Task : u # t => act'[u] = act[u]
        /\ uid' = uid /\ prog' = prog /\ stack' = stack /\ reuse' = reuse
    BY <1>0, <1>AllOfBackYields, AllOfBackYieldsIs, KeepsFrame DEF AllOfBackYields, Moves
  <2> QED
    BY <1>0, <1>j, <1>AllOfBackYields, <2>1 DEF Pc, Visited
<1>AllOfBackGoesOn. CASE AllOfBackGoesOn
  <2>1. /\ t \in Task
        /\ Pc(t) = "child"
        /\ act'[t].pc = (IF act[t].i = Len(Children(t)) THEN "return" ELSE "start")
        /\ act'[t].i = act[t].i + 1
        /\ \A u \in Task : u # t => act'[u] = act[u]
        /\ uid' = uid /\ prog' = prog /\ stack' = stack /\ reuse' = reuse
    BY <1>0, <1>AllOfBackGoesOn, AllOfBackGoesOnIs, KeepsFrame DEF AllOfBackGoesOn, Moves
  <2> QED
    BY <1>0, <1>j, <1>AllOfBackGoesOn, <2>1 DEF Pc, Visited
<1>AnyOfBackWins. CASE AnyOfBackWins
  <2>1. /\ t \in Task
        /\ Pc(t) = "child"
        /\ act'[t].pc = "cancel"
        /\ act'[t].i = 1
        /\ \A u \in Task : u # t => act'[u] = act[u]
        /\ uid' = uid /\ prog' = prog /\ stack' = stack /\ reuse' = reuse
    BY <1>0, <1>AnyOfBackWins, AnyOfBackWinsIs, KeepsFrame DEF AnyOfBackWins, Moves
  <2> QED
    BY <1>0, <1>j, <1>AnyOfBackWins, <2>1 DEF Pc, Visited
<1>AnyOfBackGoesOn. CASE AnyOfBackGoesOn
  <2>1. /\ t \in Task
        /\ Pc(t) = "child"
        /\ act'[t].pc = "start"
        /\ act'[t].i = act[t].i + 1
        /\ \A u \in Task : u # t => act'[u] = act[u]
        /\ uid' = uid /\ prog' = prog /\ stack' = stack /\ reuse' = reuse
    BY <1>0, <1>AnyOfBackGoesOn, AnyOfBackGoesOnIs, KeepsFrame DEF AnyOfBackGoesOn, Moves
  <2> QED
    BY <1>0, <1>j, <1>AnyOfBackGoesOn, <2>1 DEF Pc, Visited
<1>AnyOfBackYields. CASE AnyOfBackYields
  <2>1. /\ t \in Task
        /\ Pc(t) = "child"
        /\ act'[t].pc = "wait"
        /\ act'[t].i = act[t].i + 1
        /\ \A u \in Task : u # t => act'[u] = act[u]
        /\ uid' = uid /\ prog' = prog /\ stack' = stack /\ reuse' = reuse
    BY <1>0, <1>AnyOfBackYields, AnyOfBackYieldsIs, KeepsFrame DEF AnyOfBackYields, Moves
  <2> QED
    BY <1>0, <1>j, <1>AnyOfBackYields, <2>1 DEF Pc, Visited
<1>AllOfWakeYields. CASE AllOfWakeYields
  <2>1. /\ t \in Task
        /\ Pc(t) = "wait"
        /\ act'[t].pc = "wait"
        /\ act'[t].i = act[t].i
        /\ \A u \in Task : u # t => act'[u] = act[u]
        /\ uid' = uid /\ prog' = prog /\ stack' = stack /\ reuse' = reuse
    BY <1>0, <1>AllOfWakeYields, AllOfWakeYieldsIs, KeepsFrame DEF AllOfWakeYields, Moves
  <2> QED
    BY <1>0, <1>j, <1>AllOfWakeYields, <2>1 DEF Pc, Visited
<1>AllOfWakeEnds. CASE AllOfWakeEnds
  <2>1. /\ t \in Task
        /\ Pc(t) = "wait"
        /\ act'[t].pc = "return"
        /\ act'[t].i = act[t].i
        /\ \A u \in Task : u # t => act'[u] = act[u]
        /\ uid' = uid /\ prog' = prog /\ stack' = stack /\ reuse' = reuse
    BY <1>0, <1>AllOfWakeEnds, AllOfWakeEndsIs, KeepsFrame DEF AllOfWakeEnds, Moves
  <2> QED
    BY <1>0, <1>j, <1>AllOfWakeEnds, <2>1 DEF Pc, Visited
<1>AnyOfWake. CASE AnyOfWake
  <2>1. /\ t \in Task
        /\ Pc(t) = "wait"
        /\ act'[t].pc = "cancel"
        /\ act'[t].i = 1
        /\ \A u \in Task : u # t => act'[u] = act[u]
        /\ uid' = uid /\ prog' = prog /\ stack' = stack /\ reuse' = reuse
    BY <1>0, <1>AnyOfWake, AnyOfWakeIs, KeepsFrame DEF Moves
  <2> QED
    BY <1>0, <1>j, <1>AnyOfWake, <2>1 DEF Pc, Visited
<1>CanceledDirectlyLeaf. CASE CanceledDirectlyLeaf
  <2>1. /\ t \in Task
        /\ Pc(t) = "wait"
        /\ act'[t].pc = "return"
        /\ act'[t].i = act[t].i
        /\ \A u \in Task : u # t => act'[u] = act[u]
        /\ uid' = uid /\ prog' = prog /\ stack' = stack /\ reuse' = reuse
    BY <1>0, <1>CanceledDirectlyLeaf, CanceledDirectlyLeafIs, KeepsFrame
       DEF CanceledDirectlyLeaf, Moves
  <2> QED
    BY <1>0, <1>j, <1>CanceledDirectlyLeaf, <2>1 DEF Pc, Visited
<1>CanceledDirectlyComb. CASE CanceledDirectlyComb
  <2>1. /\ t \in Task
        /\ Pc(t) = "wait"
        /\ act'[t].pc = "cancel"
        /\ act'[t].i = 1
        /\ \A u \in Task : u # t => act'[u] = act[u]
        /\ uid' = uid /\ prog' = prog /\ stack' = stack /\ reuse' = reuse
    BY <1>0, <1>CanceledDirectlyComb, CanceledDirectlyCombIs, KeepsFrame
       DEF CanceledDirectlyComb, Moves
  <2> QED
    BY <1>0, <1>j, <1>CanceledDirectlyComb, <2>1 DEF Pc, Visited
<1>CanceledIndirectly. CASE CanceledIndirectly
  <2>1. /\ t \in Task
        /\ Pc(t) = "wait"
        /\ act'[t].pc = "throw"
        /\ act'[t].i = act[t].i
        /\ \A u \in Task : u # t => act'[u] = act[u]
        /\ uid' = uid /\ prog' = prog /\ stack' = stack /\ reuse' = reuse
    BY <1>0, <1>CanceledIndirectly, CanceledIndirectlyIs, KeepsFrame DEF Moves
  <2> QED
    BY <1>0, <1>j, <1>CanceledIndirectly, <2>1 DEF Pc, Visited
<1>CatchLeaf. CASE CatchLeaf
  <2>1. /\ t \in Task
        /\ Pc(t) = "throw"
        /\ act'[t].pc = "caught"
        /\ act'[t].i = act[t].i
        /\ \A u \in Task : u # t => act'[u] = act[u]
        /\ uid' = uid /\ prog' = prog /\ stack' = stack /\ reuse' = reuse
    BY <1>0, <1>CatchLeaf, CatchLeafIs, KeepsFrame DEF CatchLeaf, Moves
  <2> QED
    BY <1>0, <1>j, <1>CatchLeaf, <2>1 DEF Pc, Visited
<1>CatchComb. CASE CatchComb
  <2>1. /\ t \in Task
        /\ Pc(t) = "throw"
        /\ act'[t].pc = "cancel"
        /\ act'[t].i = 1
        /\ \A u \in Task : u # t => act'[u] = act[u]
        /\ uid' = uid /\ prog' = prog /\ stack' = stack /\ reuse' = reuse
    BY <1>0, <1>CatchComb, CatchCombIs, KeepsFrame DEF CatchComb, Moves
  <2> QED
    BY <1>0, <1>j, <1>CatchComb, <2>1 DEF Pc, Visited
<1>CancelSkip. CASE CancelSkip
  <2>1. /\ t \in Task
        /\ Pc(t) = "cancel"
        /\ act'[t].pc = "cancel"
        /\ act'[t].i = act[t].i + 1
        /\ \A u \in Task : u # t => act'[u] = act[u]
        /\ uid' = uid /\ prog' = prog /\ stack' = stack /\ reuse' = reuse
    BY <1>0, <1>CancelSkip, CancelSkipIs, KeepsFrame DEF Moves
  <2> QED
    BY <1>0, <1>j, <1>CancelSkip, <2>1 DEF Pc, Visited
<1>CancelUnsupport. CASE CancelUnsupport
  <2>1. /\ t \in Task
        /\ Pc(t) = "cancel"
        /\ act'[t].pc = "cancel"
        /\ act'[t].i = act[t].i + 1
        /\ \A u \in Task : u # t => act'[u] = act[u]
        /\ uid' = uid /\ prog' = prog /\ stack' = stack /\ reuse' = reuse
    BY <1>0, <1>CancelUnsupport, CancelUnsupportIs, KeepsFrame DEF Moves
  <2> QED
    BY <1>0, <1>j, <1>CancelUnsupport, <2>1 DEF Pc, Visited
<1>CancelInterrupt. CASE CancelInterrupt
  <2>1. /\ t \in Task
        /\ Pc(t) = "cancel"
        /\ act'[t].pc = "cancel"
        /\ act'[t].i = act[t].i + 1
        /\ \A u \in Task : u # t => act'[u] = act[u]
        /\ uid' = uid /\ prog' = prog /\ stack' = stack /\ reuse' = reuse
    BY <1>0, <1>CancelInterrupt, CancelInterruptIs, KeepsFrame DEF Moves
  <2> QED
    BY <1>0, <1>j, <1>CancelInterrupt, <2>1 DEF Pc, Visited
<1>CancelEndYields. CASE CancelEndYields
  <2>1. /\ t \in Task
        /\ Pc(t) = "cancel"
        /\ act'[t].pc = "unsupport"
        /\ act'[t].i = act[t].i
        /\ \A u \in Task : u # t => act'[u] = act[u]
        /\ uid' = uid /\ prog' = prog /\ stack' = stack /\ reuse' = reuse
    BY <1>0, <1>CancelEndYields, CancelEndYieldsIs, KeepsFrame DEF CancelEndYields, Moves
  <2>2. act[t].i > Len(Children(t))
    BY <1>0, <1>CancelEndYields, CancelEndYieldsIs DEF CancelEndYields
  <2> QED
    BY <1>0, <1>j, <1>CancelEndYields, <2>1, <2>2 DEF Pc, Visited
<1>CancelEndDone. CASE CancelEndDone
  <2>1. /\ t \in Task
        /\ Pc(t) = "cancel"
        /\ act'[t].pc = act[t].next
        /\ act'[t].i = act[t].i
        /\ \A u \in Task : u # t => act'[u] = act[u]
        /\ uid' = uid /\ prog' = prog /\ stack' = stack /\ reuse' = reuse
    BY <1>0, <1>CancelEndDone, CancelEndDoneIs, KeepsFrame DEF CancelEndDone, Moves
  <2>2. LiveKids(t) = {}
    BY <1>0, <1>CancelEndDone, <2>1, CancelDone
  <2> QED
    BY <1>0, <1>j, <1>CancelEndDone, <2>1, <2>2, StackTypes DEF Pc, Visited
<1>UnsupportYields. CASE UnsupportYields
  <2>1. /\ t \in Task
        /\ Pc(t) = "unsupport"
        /\ act'[t].pc = "unsupport"
        /\ act'[t].i = act[t].i
        /\ \A u \in Task : u # t => act'[u] = act[u]
        /\ uid' = uid /\ prog' = prog /\ stack' = stack /\ reuse' = reuse
    BY <1>0, <1>UnsupportYields, UnsupportYieldsIs, KeepsFrame DEF UnsupportYields, Moves
  <2> QED
    BY <1>0, <1>j, <1>UnsupportYields, <2>1 DEF Pc, Visited
<1>UnsupportDone. CASE UnsupportDone
  <2>1. /\ t \in Task
        /\ Pc(t) = "unsupport"
        /\ act'[t].pc = act[t].next
        /\ act'[t].i = act[t].i
        /\ \A u \in Task : u # t => act'[u] = act[u]
        /\ uid' = uid /\ prog' = prog /\ stack' = stack /\ reuse' = reuse
    BY <1>0, <1>UnsupportDone, UnsupportDoneIs, KeepsFrame DEF UnsupportDone, Moves
  <2>2. LiveKids(t) = {}
    BY <1>0, <1>UnsupportDone, <2>1, CancelDone
  <2> QED
    BY <1>0, <1>j, <1>UnsupportDone, <2>1, <2>2 DEF Pc, Visited
<1>AwaitReturn. CASE AwaitReturn
  <2>1. PICK y \in Task, u \in Task, s \in Status, pc \in Points :
          /\ u = Caller /\ y = Top /\ Pops(s, pc) /\ act'[u].pc = pc
          /\ Pc(u) = "run" /\ Kind(u) = "user" /\ act'[y].pc = "none" /\ y # u
          /\ \A v \in Task : v # u /\ v # y => act'[v] = act[v]
          /\ pc \in {"run", "throw"} /\ Pc(y) \in {"run", "return", "caught"}
    BY <1>AwaitReturn, PopsFx DEF Ends
  <2> QED
    BY <1>0, <2>1 DEF Pc, Visited
<1>AwaitReturnThrow. CASE AwaitReturnThrow
  <2>1. PICK y \in Task, u \in Task, s \in Status, pc \in Points :
          /\ u = Caller /\ y = Top /\ Pops(s, pc) /\ act'[u].pc = pc
          /\ Pc(u) = "run" /\ Kind(u) = "user" /\ act'[y].pc = "none" /\ y # u
          /\ \A v \in Task : v # u /\ v # y => act'[v] = act[v]
          /\ pc \in {"run", "throw"} /\ Pc(y) \in {"run", "return", "caught"}
    BY <1>AwaitReturnThrow, PopsFx DEF Ends
  <2> QED
    BY <1>0, <2>1 DEF Pc, Visited
<1>AwaitRethrow. CASE AwaitRethrow
  <2>1. PICK y \in Task, u \in Task, s \in Status, pc \in Points :
          /\ u = Caller /\ y = Top /\ Pops(s, pc) /\ act'[u].pc = pc
          /\ Pc(u) = "run" /\ Kind(u) = "user" /\ act'[y].pc = "none" /\ y # u
          /\ \A v \in Task : v # u /\ v # y => act'[v] = act[v]
          /\ pc \in {"run", "throw"} /\ Pc(y) \in {"run", "return", "caught"}
    BY <1>AwaitRethrow, PopsFx DEF Ends
  <2> QED
    BY <1>0, <2>1 DEF Pc, Visited
<1>RuntimeFinish. CASE RuntimeFinish
  <2>1. /\ r \in Task /\ act'[r].pc = "none" /\ \A u \in Task : u # r => act'[u] = act[u]
        /\ Pc(r) \in {"return", "caught", "run"}
    BY <1>0, <1>RuntimeFinish, RuntimeFinishIs
  <2> QED
    BY <1>0, <2>1 DEF Pc, Visited
<1>EventFires. CASE \E e \in Task : EventFires(e)
  BY <1>0, <1>EventFires, EventFiresIs DEF Pc, Visited
<1>Stutter. CASE UNCHANGED vars
  BY <1>0, <1>Stutter DEF Pc, Visited, vars
<1> QED
  BY StepCases, <1>TaskRuntime, <1>Await, <1>Start, <1>StartReject, <1>EventRun, <1>EventWake,
       <1>ChildrenReady, <1>ChildrenUnready, <1>StartChild, <1>AllOfBackYields,
       <1>AllOfBackGoesOn, <1>AnyOfBackWins, <1>AnyOfBackGoesOn, <1>AnyOfBackYields,
       <1>AllOfWakeYields, <1>AllOfWakeEnds, <1>AnyOfWake, <1>CanceledDirectlyLeaf,
       <1>CanceledDirectlyComb, <1>CanceledIndirectly, <1>CatchLeaf, <1>CatchComb, <1>CancelSkip,
       <1>CancelUnsupport, <1>CancelInterrupt, <1>CancelEndYields, <1>CancelEndDone,
       <1>UnsupportYields, <1>UnsupportDone, <1>AwaitReturn, <1>AwaitReturnThrow, <1>AwaitRethrow,
       <1>RuntimeFinish, <1>EventFires, <1>Stutter

LEMMA CaughtStep ==
    ASSUME IndInv, [Next]_vars
    PROVE  \A x \in Task :
             /\ Pc(x)' = "caught" \/ (Pc(x)' = "cancel" /\ act'[x].next = "caught") => status'[x] = "canceled"
             /\ Pc(x)' = "unsupport" => act'[x].next = "return"
<1> SUFFICES ASSUME NEW x \in Task
             PROVE  /\ Pc(x)' = "caught" \/ (Pc(x)' = "cancel" /\ act'[x].next = "caught") => status'[x] = "canceled"
                    /\ Pc(x)' = "unsupport" => act'[x].next = "return"
  OBVIOUS
<1>0. PICK r, t : r = running /\ t = Top
  OBVIOUS
<1>n. /\ Pc(x) = "caught" \/ (Pc(x) = "cancel" /\ act[x].next = "caught") => status[x] = "canceled"
      /\ Pc(x) = "unsupport" => act[x].next = "return"
  BY DEF IndInv, DoomInv
<1>m. act[x].next \in {"return", "caught"}
  BY StackTypes
<1>s. Pc(x) # "none" /\ Pc(x)' # "none" /\ status[x] = "canceled" => status'[x] = "canceled"
  BY CanceledStep
<1>TaskRuntime. CASE TaskRuntime
  <2>1. r \in Task /\ Pc(r) = "none" /\ act'[r].pc = "run" /\ \A u \in Task : u # r => act'[u] = act[u]
    BY <1>0, <1>TaskRuntime, TaskRuntimeIs
  <2> QED
    BY <1>n, <1>s, <2>1 DEF Pc
<1>Await. CASE Await
  <2>1. PICK y \in Task, u \in Task :
          /\ Pc(u) = "run" /\ Pc(y) = "none" /\ act'[u].pc = "run" /\ act'[y].pc = "run"
          /\ \A v \in Task : v # u /\ v # y => act'[v] = act[v]
    BY <1>Await, AwaitFx
  <2> QED
    BY <1>n, <1>s, <2>1 DEF Pc
<1>Start. CASE Start
  <2>1. /\ t \in Task
        /\ Pc(t) = "run"
        /\ act'[t].pc = "run"
        /\ act'[t].next = act[t].next
        /\ \A u \in Task : u # t => act'[u] = act[u]
        /\ uid' = uid /\ prog' = prog /\ stack' = stack /\ reuse' = reuse
    BY <1>0, <1>Start, StartIs, KeepsFrame, StartFx DEF Moves
  <2> QED
    BY <1>0, <1>n, <1>m, <1>s, <2>1 DEF Pc
<1>StartReject. CASE StartReject
  <2>1. /\ t \in Task
        /\ Pc(t) = "run"
        /\ act'[t].pc = "run"
        /\ act'[t].next = act[t].next
        /\ \A u \in Task : u # t => act'[u] = act[u]
        /\ uid' = uid /\ prog' = prog /\ stack' = stack /\ reuse' = reuse
    BY <1>0, <1>StartReject, StartRejectIs, KeepsFrame, CallIs DEF Moves, StartReject
  <2> QED
    BY <1>0, <1>n, <1>m, <1>s, <2>1 DEF Pc
<1>EventRun. CASE EventRun
  <2>1. /\ t \in Task
        /\ Pc(t) = "run"
        /\ act'[t].pc = "wait"
        /\ act'[t].next = act[t].next
        /\ \A u \in Task : u # t => act'[u] = act[u]
        /\ uid' = uid /\ prog' = prog /\ stack' = stack /\ reuse' = reuse
    BY <1>0, <1>EventRun, EventRunIs, KeepsFrame DEF Moves
  <2> QED
    BY <1>0, <1>n, <1>m, <1>s, <2>1 DEF Pc
<1>EventWake. CASE EventWake
  <2>1. /\ t \in Task
        /\ Pc(t) = "wait"
        /\ act'[t].pc = "return"
        /\ act'[t].next = act[t].next
        /\ \A u \in Task : u # t => act'[u] = act[u]
        /\ uid' = uid /\ prog' = prog /\ stack' = stack /\ reuse' = reuse
    BY <1>0, <1>EventWake, EventWakeIs, KeepsFrame DEF Moves
  <2> QED
    BY <1>0, <1>n, <1>m, <1>s, <2>1 DEF Pc
<1>ChildrenReady. CASE ChildrenReady
  <2>1. /\ t \in Task
        /\ Pc(t) = "run"
        /\ act'[t].pc = "start"
        /\ act'[t].next = act[t].next
        /\ \A u \in Task : u # t => act'[u] = act[u]
        /\ uid' = uid /\ prog' = prog /\ stack' = stack /\ reuse' = reuse
    BY <1>0, <1>ChildrenReady, ChildrenReadyIs, KeepsFrame DEF Moves
  <2> QED
    BY <1>0, <1>n, <1>m, <1>s, <2>1 DEF Pc
<1>ChildrenUnready. CASE ChildrenUnready
  <2>1. /\ t \in Task
        /\ Pc(t) = "run"
        /\ act'[t].pc = "return"
        /\ act'[t].next = act[t].next
        /\ \A u \in Task : u # t => act'[u] = act[u]
        /\ uid' = uid /\ prog' = prog /\ stack' = stack /\ reuse' = reuse
    BY <1>0, <1>ChildrenUnready, ChildrenUnreadyIs, KeepsFrame DEF Moves
  <2> QED
    BY <1>0, <1>n, <1>m, <1>s, <2>1 DEF Pc
<1>StartChild. CASE StartChild
  <2>1. /\ t \in Task
        /\ Pc(t) = "start"
        /\ act'[t].pc = "child"
        /\ act'[t].next = act[t].next
        /\ \A u \in Task : u # t => act'[u] = act[u]
        /\ uid' = uid /\ prog' = prog /\ stack' = stack /\ reuse' = reuse
    BY <1>0, <1>StartChild, StartChildIs, KeepsFrame DEF Moves
  <2> QED
    BY <1>0, <1>n, <1>m, <1>s, <2>1 DEF Pc
<1>AllOfBackYields. CASE AllOfBackYields
  <2>1. /\ t \in Task
        /\ Pc(t) = "child"
        /\ act'[t].pc = "wait"
        /\ act'[t].next = act[t].next
        /\ \A u \in Task : u # t => act'[u] = act[u]
        /\ uid' = uid /\ prog' = prog /\ stack' = stack /\ reuse' = reuse
    BY <1>0, <1>AllOfBackYields, AllOfBackYieldsIs, KeepsFrame DEF AllOfBackYields, Moves
  <2> QED
    BY <1>0, <1>n, <1>m, <1>s, <2>1 DEF Pc
<1>AllOfBackGoesOn. CASE AllOfBackGoesOn
  <2>1. /\ t \in Task
        /\ Pc(t) = "child"
        /\ act'[t].pc = (IF act[t].i = Len(Children(t)) THEN "return" ELSE "start")
        /\ act'[t].next = act[t].next
        /\ \A u \in Task : u # t => act'[u] = act[u]
        /\ uid' = uid /\ prog' = prog /\ stack' = stack /\ reuse' = reuse
    BY <1>0, <1>AllOfBackGoesOn, AllOfBackGoesOnIs, KeepsFrame DEF AllOfBackGoesOn, Moves
  <2> QED
    BY <1>0, <1>n, <1>m, <1>s, <2>1 DEF Pc
<1>AnyOfBackWins. CASE AnyOfBackWins
  <2>1. /\ t \in Task
        /\ Pc(t) = "child"
        /\ act'[t].pc = "cancel"
        /\ act'[t].next = "return"
        /\ \A u \in Task : u # t => act'[u] = act[u]
        /\ uid' = uid /\ prog' = prog /\ stack' = stack /\ reuse' = reuse
    BY <1>0, <1>AnyOfBackWins, AnyOfBackWinsIs, KeepsFrame DEF AnyOfBackWins, Moves
  <2> QED
    BY <1>0, <1>n, <1>m, <1>s, <2>1 DEF Pc
<1>AnyOfBackGoesOn. CASE AnyOfBackGoesOn
  <2>1. /\ t \in Task
        /\ Pc(t) = "child"
        /\ act'[t].pc = "start"
        /\ act'[t].next = act[t].next
        /\ \A u \in Task : u # t => act'[u] = act[u]
        /\ uid' = uid /\ prog' = prog /\ stack' = stack /\ reuse' = reuse
    BY <1>0, <1>AnyOfBackGoesOn, AnyOfBackGoesOnIs, KeepsFrame DEF AnyOfBackGoesOn, Moves
  <2> QED
    BY <1>0, <1>n, <1>m, <1>s, <2>1 DEF Pc
<1>AnyOfBackYields. CASE AnyOfBackYields
  <2>1. /\ t \in Task
        /\ Pc(t) = "child"
        /\ act'[t].pc = "wait"
        /\ act'[t].next = act[t].next
        /\ \A u \in Task : u # t => act'[u] = act[u]
        /\ uid' = uid /\ prog' = prog /\ stack' = stack /\ reuse' = reuse
    BY <1>0, <1>AnyOfBackYields, AnyOfBackYieldsIs, KeepsFrame DEF AnyOfBackYields, Moves
  <2> QED
    BY <1>0, <1>n, <1>m, <1>s, <2>1 DEF Pc
<1>AllOfWakeYields. CASE AllOfWakeYields
  <2>1. /\ t \in Task
        /\ Pc(t) = "wait"
        /\ act'[t].pc = "wait"
        /\ act'[t].next = act[t].next
        /\ \A u \in Task : u # t => act'[u] = act[u]
        /\ uid' = uid /\ prog' = prog /\ stack' = stack /\ reuse' = reuse
    BY <1>0, <1>AllOfWakeYields, AllOfWakeYieldsIs, KeepsFrame DEF AllOfWakeYields, Moves
  <2> QED
    BY <1>0, <1>n, <1>m, <1>s, <2>1 DEF Pc
<1>AllOfWakeEnds. CASE AllOfWakeEnds
  <2>1. /\ t \in Task
        /\ Pc(t) = "wait"
        /\ act'[t].pc = "return"
        /\ act'[t].next = act[t].next
        /\ \A u \in Task : u # t => act'[u] = act[u]
        /\ uid' = uid /\ prog' = prog /\ stack' = stack /\ reuse' = reuse
    BY <1>0, <1>AllOfWakeEnds, AllOfWakeEndsIs, KeepsFrame DEF AllOfWakeEnds, Moves
  <2> QED
    BY <1>0, <1>n, <1>m, <1>s, <2>1 DEF Pc
<1>AnyOfWake. CASE AnyOfWake
  <2>1. /\ t \in Task
        /\ Pc(t) = "wait"
        /\ act'[t].pc = "cancel"
        /\ act'[t].next = "return"
        /\ \A u \in Task : u # t => act'[u] = act[u]
        /\ uid' = uid /\ prog' = prog /\ stack' = stack /\ reuse' = reuse
    BY <1>0, <1>AnyOfWake, AnyOfWakeIs, KeepsFrame DEF Moves
  <2> QED
    BY <1>0, <1>n, <1>m, <1>s, <2>1 DEF Pc
<1>CanceledDirectlyLeaf. CASE CanceledDirectlyLeaf
  <2>1. /\ t \in Task
        /\ Pc(t) = "wait"
        /\ act'[t].pc = "return"
        /\ act'[t].next = act[t].next
        /\ \A u \in Task : u # t => act'[u] = act[u]
        /\ uid' = uid /\ prog' = prog /\ stack' = stack /\ reuse' = reuse
    BY <1>0, <1>CanceledDirectlyLeaf, CanceledDirectlyLeafIs, KeepsFrame
       DEF CanceledDirectlyLeaf, Moves
  <2> QED
    BY <1>0, <1>n, <1>m, <1>s, <2>1 DEF Pc
<1>CanceledDirectlyComb. CASE CanceledDirectlyComb
  <2>1. /\ t \in Task
        /\ Pc(t) = "wait"
        /\ act'[t].pc = "cancel"
        /\ act'[t].next = "return"
        /\ \A u \in Task : u # t => act'[u] = act[u]
        /\ uid' = uid /\ prog' = prog /\ stack' = stack /\ reuse' = reuse
    BY <1>0, <1>CanceledDirectlyComb, CanceledDirectlyCombIs, KeepsFrame
       DEF CanceledDirectlyComb, Moves
  <2> QED
    BY <1>0, <1>n, <1>m, <1>s, <2>1 DEF Pc
<1>CanceledIndirectly. CASE CanceledIndirectly
  <2>1. /\ t \in Task
        /\ Pc(t) = "wait"
        /\ act'[t].pc = "throw"
        /\ act'[t].next = act[t].next
        /\ \A u \in Task : u # t => act'[u] = act[u]
        /\ uid' = uid /\ prog' = prog /\ stack' = stack /\ reuse' = reuse
    BY <1>0, <1>CanceledIndirectly, CanceledIndirectlyIs, KeepsFrame DEF Moves
  <2> QED
    BY <1>0, <1>n, <1>m, <1>s, <2>1 DEF Pc
<1>CatchLeaf. CASE CatchLeaf
  <2>1. /\ t \in Task
        /\ Pc(t) = "throw"
        /\ act'[t].pc = "caught"
        /\ act'[t].next = act[t].next
        /\ \A u \in Task : u # t => act'[u] = act[u]
        /\ uid' = uid /\ prog' = prog /\ stack' = stack /\ reuse' = reuse
    BY <1>0, <1>CatchLeaf, CatchLeafIs, KeepsFrame DEF CatchLeaf, Moves
  <2>2. status'[t] = "canceled"
    BY <1>0, <1>CatchLeaf, <2>1, CatchLeafIs DEF CatchLeaf, IndInv, TypeOK
  <2> QED
    BY <1>0, <1>n, <1>m, <1>s, <2>1, <2>2 DEF Pc
<1>CatchComb. CASE CatchComb
  <2>1. /\ t \in Task
        /\ Pc(t) = "throw"
        /\ act'[t].pc = "cancel"
        /\ act'[t].next = "caught"
        /\ \A u \in Task : u # t => act'[u] = act[u]
        /\ uid' = uid /\ prog' = prog /\ stack' = stack /\ reuse' = reuse
    BY <1>0, <1>CatchComb, CatchCombIs, KeepsFrame DEF CatchComb, Moves
  <2>2. status'[t] = "canceled"
    BY <1>0, <1>CatchComb, <2>1, CatchCombIs DEF CatchComb, IndInv, TypeOK
  <2> QED
    BY <1>0, <1>n, <1>m, <1>s, <2>1, <2>2 DEF Pc
<1>CancelSkip. CASE CancelSkip
  <2>1. /\ t \in Task
        /\ Pc(t) = "cancel"
        /\ act'[t].pc = "cancel"
        /\ act'[t].next = act[t].next
        /\ \A u \in Task : u # t => act'[u] = act[u]
        /\ uid' = uid /\ prog' = prog /\ stack' = stack /\ reuse' = reuse
    BY <1>0, <1>CancelSkip, CancelSkipIs, KeepsFrame DEF Moves
  <2> QED
    BY <1>0, <1>n, <1>m, <1>s, <2>1 DEF Pc
<1>CancelUnsupport. CASE CancelUnsupport
  <2>1. /\ t \in Task
        /\ Pc(t) = "cancel"
        /\ act'[t].pc = "cancel"
        /\ act'[t].next = act[t].next
        /\ \A u \in Task : u # t => act'[u] = act[u]
        /\ uid' = uid /\ prog' = prog /\ stack' = stack /\ reuse' = reuse
    BY <1>0, <1>CancelUnsupport, CancelUnsupportIs, KeepsFrame DEF Moves
  <2> QED
    BY <1>0, <1>n, <1>m, <1>s, <2>1 DEF Pc
<1>CancelInterrupt. CASE CancelInterrupt
  <2>1. /\ t \in Task
        /\ Pc(t) = "cancel"
        /\ act'[t].pc = "cancel"
        /\ act'[t].next = act[t].next
        /\ \A u \in Task : u # t => act'[u] = act[u]
        /\ uid' = uid /\ prog' = prog /\ stack' = stack /\ reuse' = reuse
    BY <1>0, <1>CancelInterrupt, CancelInterruptIs, KeepsFrame DEF Moves
  <2> QED
    BY <1>0, <1>n, <1>m, <1>s, <2>1 DEF Pc
<1>CancelEndYields. CASE CancelEndYields
  <2>1. /\ t \in Task
        /\ Pc(t) = "cancel"
        /\ act'[t].pc = "unsupport"
        /\ act'[t].next = act[t].next
        /\ \A u \in Task : u # t => act'[u] = act[u]
        /\ uid' = uid /\ prog' = prog /\ stack' = stack /\ reuse' = reuse
    BY <1>0, <1>CancelEndYields, CancelEndYieldsIs, KeepsFrame DEF CancelEndYields, Moves
  <2>2. act[t].next = "return"
    <3>1. ~Unwinds(running)
      BY <1>CancelEndYields, YieldsFreely
    <3>2. Busy(running) /\ t = Inner(running)
      BY <1>0, <1>CancelEndYields, CancelEndYieldsIs, KeepsFrame DEF CancelEndYields
    <3>3. act[t].next \in {"return", "caught"}
      BY <2>1, StackTypes
    <3> QED
      BY <2>1, <3>1, <3>2, <3>3 DEF Unwinds, Leaving
  <2> QED
    BY <1>0, <1>n, <1>m, <1>s, <2>1, <2>2 DEF Pc
<1>CancelEndDone. CASE CancelEndDone
  <2>1. /\ t \in Task
        /\ Pc(t) = "cancel"
        /\ act'[t].pc = act[t].next
        /\ act'[t].next = act[t].next
        /\ \A u \in Task : u # t => act'[u] = act[u]
        /\ uid' = uid /\ prog' = prog /\ stack' = stack /\ reuse' = reuse
    BY <1>0, <1>CancelEndDone, CancelEndDoneIs, KeepsFrame DEF CancelEndDone, Moves
  <2> QED
    BY <1>0, <1>n, <1>m, <1>s, <2>1 DEF Pc
<1>UnsupportYields. CASE UnsupportYields
  <2>1. /\ t \in Task
        /\ Pc(t) = "unsupport"
        /\ act'[t].pc = "unsupport"
        /\ act'[t].next = act[t].next
        /\ \A u \in Task : u # t => act'[u] = act[u]
        /\ uid' = uid /\ prog' = prog /\ stack' = stack /\ reuse' = reuse
    BY <1>0, <1>UnsupportYields, UnsupportYieldsIs, KeepsFrame DEF UnsupportYields, Moves
  <2> QED
    BY <1>0, <1>n, <1>m, <1>s, <2>1 DEF Pc
<1>UnsupportDone. CASE UnsupportDone
  <2>1. /\ t \in Task
        /\ Pc(t) = "unsupport"
        /\ act'[t].pc = act[t].next
        /\ act'[t].next = act[t].next
        /\ \A u \in Task : u # t => act'[u] = act[u]
        /\ uid' = uid /\ prog' = prog /\ stack' = stack /\ reuse' = reuse
    BY <1>0, <1>UnsupportDone, UnsupportDoneIs, KeepsFrame DEF UnsupportDone, Moves
  <2> QED
    BY <1>0, <1>n, <1>m, <1>s, <2>1 DEF Pc
<1>AwaitReturn. CASE AwaitReturn
  <2>1. PICK y \in Task, u \in Task, s \in Status, pc \in Points :
          /\ u = Caller /\ y = Top /\ Pops(s, pc) /\ act'[u].pc = pc
          /\ Pc(u) = "run" /\ Kind(u) = "user" /\ act'[y].pc = "none" /\ y # u
          /\ \A v \in Task : v # u /\ v # y => act'[v] = act[v]
          /\ pc \in {"run", "throw"}
    BY <1>AwaitReturn, PopsFx DEF Ends
  <2> QED
    BY <1>n, <1>s, <2>1 DEF Pc
<1>AwaitReturnThrow. CASE AwaitReturnThrow
  <2>1. PICK y \in Task, u \in Task, s \in Status, pc \in Points :
          /\ u = Caller /\ y = Top /\ Pops(s, pc) /\ act'[u].pc = pc
          /\ Pc(u) = "run" /\ Kind(u) = "user" /\ act'[y].pc = "none" /\ y # u
          /\ \A v \in Task : v # u /\ v # y => act'[v] = act[v]
          /\ pc \in {"run", "throw"}
    BY <1>AwaitReturnThrow, PopsFx DEF Ends
  <2> QED
    BY <1>n, <1>s, <2>1 DEF Pc
<1>AwaitRethrow. CASE AwaitRethrow
  <2>1. PICK y \in Task, u \in Task, s \in Status, pc \in Points :
          /\ u = Caller /\ y = Top /\ Pops(s, pc) /\ act'[u].pc = pc
          /\ Pc(u) = "run" /\ Kind(u) = "user" /\ act'[y].pc = "none" /\ y # u
          /\ \A v \in Task : v # u /\ v # y => act'[v] = act[v]
          /\ pc \in {"run", "throw"}
    BY <1>AwaitRethrow, PopsFx DEF Ends
  <2> QED
    BY <1>n, <1>s, <2>1 DEF Pc
<1>RuntimeFinish. CASE RuntimeFinish
  <2>1. r \in Task /\ act'[r].pc = "none" /\ \A u \in Task : u # r => act'[u] = act[u]
    BY <1>0, <1>RuntimeFinish, RuntimeFinishIs
  <2> QED
    BY <1>n, <1>s, <2>1 DEF Pc
<1>EventFires. CASE \E e \in Task : EventFires(e)
  <2>1. act' = act
    BY <1>EventFires, EventFiresIs
  <2> QED
    BY <1>n, <1>s, <2>1 DEF Pc
<1>Stutter. CASE UNCHANGED vars
  <2>1. act' = act
    BY <1>Stutter DEF vars
  <2> QED
    BY <1>n, <1>s, <2>1 DEF Pc
<1> QED
  BY StepCases, <1>TaskRuntime, <1>Await, <1>Start, <1>StartReject, <1>EventRun, <1>EventWake,
       <1>ChildrenReady, <1>ChildrenUnready, <1>StartChild, <1>AllOfBackYields,
       <1>AllOfBackGoesOn, <1>AnyOfBackWins, <1>AnyOfBackGoesOn, <1>AnyOfBackYields,
       <1>AllOfWakeYields, <1>AllOfWakeEnds, <1>AnyOfWake, <1>CanceledDirectlyLeaf,
       <1>CanceledDirectlyComb, <1>CanceledIndirectly, <1>CatchLeaf, <1>CatchComb, <1>CancelSkip,
       <1>CancelUnsupport, <1>CancelInterrupt, <1>CancelEndYields, <1>CancelEndDone,
       <1>UnsupportYields, <1>UnsupportDone, <1>AwaitReturn, <1>AwaitReturnThrow, <1>AwaitRethrow,
       <1>RuntimeFinish, <1>EventFires, <1>Stutter


\* A kid that is executing is still on its coroutine.
LEMMA LiveKidBusy ==
    ASSUME IndInv, [Next]_vars, NEW k \in Task, NEW j \in DOMAIN Children(k),
           NEW x \in Task, x = Children(k)[j], Pc(x) # "none", Pc(x)' # "none"
    PROVE  Busy(x)'
<1>2. Busy(x)
  BY KidBase
<1>3. ~(RuntimeFinish /\ x = running)
  BY RuntimeFinishIs DEF Pc
<1>4. ~(TaskRuntime /\ x = running)
  BY <1>2, TaskRuntimeIs
<1> QED
  BY <1>2, <1>3, <1>4, BusyStep

LEMMA DoomStep ==
    ASSUME IndInv, [Next]_vars
    PROVE  DoomInv'
<1>p. \A k \in Task : Children(k)' = Children(k)
  BY ProgSame DEF Children
<1>1. ASSUME NEW c \in Task, Doomed(c)'
      PROVE  \E k \in Task : \E j \in DOMAIN Children(k)' : Children(k)'[j] = c /\ Visited(k, j)'
  <2>1. CASE Doomed(c)
    <3>1. PICK k \in Task : \E j \in DOMAIN Children(k) : Children(k)[j] = c /\ Visited(k, j)
      BY <2>1 DEF IndInv, DoomInv
    <3>2. PICK j \in DOMAIN Children(k) : Children(k)[j] = c /\ Visited(k, j)
      BY <3>1
    <3>3. j \in LiveKids(k)
      BY <2>1, <3>2, BusyFacts DEF Doomed, LiveKids
    <3>4. Visited(k, j)'
      BY <3>2, <3>3, VisitedStep
    <3> QED
      BY <1>p, <3>2, <3>4
  <2>2. CASE (CancelUnsupport \/ CancelInterrupt) /\ c = Children(Top)[act[Top].i]
    <3>1. PICK t \in Task, i \in Nat :
            /\ t = Top /\ i = act[t].i /\ Pc(t) = "cancel" /\ act'[t].pc = "cancel" /\ act'[t].i = i + 1
            /\ i \in DOMAIN Children(t)
      BY <2>2, CancelUnsupportIs, CancelInterruptIs, KeepsFrame, StackTypes DEF Moves
    <3>2. Visited(t, i)'
      BY <3>1 DEF Visited, Pc
    <3> QED
      BY <1>p, <2>2, <3>1, <3>2
  <2> QED
    BY <1>1, <2>1, <2>2, DoomedNew
<1>2. ASSUME NEW c \in Task, Busy(c)', status'[c] = "canceled"
      PROVE  Unwinds(c)'
  <2>1. Busy(c)
    <3>1. ~(TaskRuntime /\ c = running)
      BY <1>2, TaskRuntimeFx
    <3> QED
      BY <1>2, <3>1, BusyStep
  <2>2. Pc(c) # "none" /\ uid[c] = c
    BY <2>1, BusyFacts
  <2>3. Pc(c)' # "none"
    <3>1. ~(RuntimeFinish /\ c = running)
      BY <1>2, FinishFx
    <3>2. ~((AwaitReturn \/ AwaitReturnThrow \/ AwaitRethrow) /\ c = Top)
      BY <2>2, PopsFx
    <3>3. ~(TaskRuntime /\ c = running) /\ ~(Await /\ c = Target)
      BY <2>2, TaskRuntimeIs, AwaitFx
    <3> QED
      BY <2>2, <3>1, <3>2, <3>3, LifeStep
  <2>4. CASE status[c] = "canceled"
    <3>1. Unwinds(c)
      BY <2>1, <2>4 DEF IndInv, DoomInv
    <3> QED
      BY <1>2, <3>1, UnwindsStep
  <2>5. CASE CanceledIndirectly /\ c = Top
    <3>1. running # Loop /\ Busy(running) /\ global_signal_canceled /\ status[c] # "canceled"
      BY <2>5, AtTop DEF CanceledIndirectly
    <3>2. c = running
      BY <2>2, <2>5, <3>1, TopFacts
    <3> QED
      BY <3>1, <3>2 DEF IndInv, SignalInv
  <2>6. CASE Catch /\ c = Top
    <3>1. running # Loop /\ Busy(running) /\ Pc(c) = "throw"
      BY <2>6, AtTop DEF Catch
    <3>2. c = Inner(c)
      BY <2>2, <2>6, <3>1, TopFacts
    <3>3. Unwinds(c)
      BY <2>1, <3>1, <3>2 DEF Unwinds, Leaving
    <3> QED
      BY <1>2, <3>3, UnwindsStep
  <2>7. CASE CancelInterrupt /\ c = Children(Top)[act[Top].i]
    <3>1. PICK y \in Task : y = Inner(c) /\ y # Top /\ Pc(y) = "wait" /\ running' = c
      BY <2>7, CancelInterruptFx
    <3>2. Inner(c)' = y /\ Pc(y)' = "wait" /\ global_signal_canceled' = TRUE
      BY <2>7, <3>1, CancelInterruptIs, KeepsFrame
    <3> QED
      BY <1>2, <3>1, <3>2 DEF Unwinds
  <2> QED
    BY <1>2, <2>2, <2>3, <2>4, <2>5, <2>6, <2>7, CanceledStep
<1>3. ASSUME NEW k \in Task, NEW j \in DOMAIN Children(k), NEW x \in Task, x = Children(k)[j],
             Pc(x)' # "none", Visited(k, j)'
      PROVE  uninterruptable'[x] \/ Doomed(x)'
  <2>1. x = Children(k)[j] /\ Pc(Children(k)[j])' = Pc(x)'
    BY <1>3, KidLife DEF Pc
  <2>2. Pc(x) # "none"
    <3> SUFFICES ASSUME Pc(x) = "none" PROVE FALSE
      OBVIOUS
    <3>0. ~(RuntimeFinish /\ x = running)
      BY <1>3, RuntimeFinishIs DEF Pc
    <3>1. TaskRuntime /\ x = running
      BY <1>3, <2>1, <3>0, KidLife
    <3>2. Entering(x)
      BY <3>1, TaskRuntimeIs DEF Entering
    <3>3. Pc(k) = "child"
      BY <2>1, <3>2, EnteringKid
    <3>4. ~Visited(k, j) /\ (k = Top => Pc(Top) # "cancel")
      BY <3>3 DEF Visited
    <3> QED
      BY <1>3, <3>4, VisitedStep
  <2>3. Busy(x) /\ Busy(x)'
    BY <1>3, <2>1, <2>2, LiveKidBusy, KidBase
  <2>4. Doomed(x) => Doomed(x)'
    BY <2>3, DoomedStays
  <2>5. CASE Visited(k, j)
    <3>1. j \in LiveKids(k)
      BY <2>1, <2>2 DEF LiveKids
    <3>2. uninterruptable[x] \/ Doomed(x)
      BY <2>1, <2>5, <3>1 DEF IndInv, DoomInv
    <3> QED
      BY <2>1, <2>4, <3>2, CanceledStep
  <2>6. CASE k = Top /\ j = act[Top].i /\ CancelSkip
    <3>1. status[x] # "running" /\ running # Loop /\ Busy(running)
      BY <2>1, <2>6, CancelSkipIs, KeepsFrame
    <3>2. Pc(Inner(x)) \in Waits
      BY <2>1, <2>2, <2>6, <3>1, KidSuspended
    <3>3. Pc(x) # "return"
      BY <2>2, <2>3, <3>2, BusyFacts DEF Waits
    <3>4. status[x] = "canceled"
      BY <2>2, <3>1, <3>3 DEF IndInv, StatusInv
    <3>5. Doomed(x)
      BY <2>2, <2>3, <3>4, BusyFacts DEF Doomed
    <3> QED
      BY <2>1, <2>4, <3>5
  <2>7. CASE k = Top /\ j = act[Top].i /\ CancelUnsupport
    <3>1. PICK f \in Task :
            /\ Pc(f) # "none" /\ uid[f] = x /\ uninterruptable[f]
            /\ status'[f] = IF f = x THEN status[f] ELSE "canceled"
      BY <2>1, <2>7, CancelUnsupportFx
    <3>2. Pc(f)' # "none" /\ uid'[f] = x
      BY <2>7, <3>1, CancelUnsupportIs, KeepsFrame
    <3>3. f = x => uninterruptable'[x]
      BY <3>1, CanceledStep
    <3>4. f # x => Doomed(x)'
      BY <2>3, <3>1, <3>2 DEF Doomed
    <3> QED
      BY <2>1, <3>3, <3>4
  <2>8. CASE k = Top /\ j = act[Top].i /\ CancelInterrupt
    <3>1. uid[x] = x /\ status'[x] = "canceled"
      BY <2>1, <2>8, CancelInterruptFx
    <3>2. Pc(x)' # "none" /\ uid'[x] = x
      BY <1>3, <2>1, <2>8, <3>1, CancelInterruptIs, KeepsFrame
    <3>3. Doomed(x)'
      BY <2>3, <3>1, <3>2 DEF Doomed
    <3> QED
      BY <2>1, <3>3
  <2> QED
    BY <1>3, <2>5, <2>6, <2>7, <2>8, VisitedStep
<1>4. (\A k \in Task : \A j \in LiveKids(k) : Visited(k, j) =>
          uninterruptable[Children(k)[j]] \/ Doomed(Children(k)[j]))'
  <2> SUFFICES ASSUME NEW k \in Task, NEW j \in LiveKids(k)', Visited(k, j)'
               PROVE  (uninterruptable[Children(k)[j]] \/ Doomed(Children(k)[j]))'
    OBVIOUS
  <2>1. PICK x \in Task : x = Children(k)[j] /\ j \in DOMAIN Children(k)
    BY <1>p, KidLife DEF LiveKids
  <2>2. Pc(x)' # "none"
    BY <1>p, <2>1 DEF LiveKids, Pc
  <2>3. uninterruptable'[x] \/ Doomed(x)'
    BY <1>3, <2>1, <2>2
  <2>4. x = Children(k)'[j]
    BY <1>p, <2>1
  <2> QED
    BY <2>3, <2>4
<1>5. \A c \in Task : Busy(c)' /\ status'[c] = "canceled" => Unwinds(c)'
  BY <1>2
<1>6. \A t \in Task : Pc(t)' = "caught" \/ (Pc(t)' = "cancel" /\ act'[t].next = "caught") =>
        status'[t] = "canceled"
  BY CaughtStep
<1>7. \A t \in Task : Pc(t)' = "unsupport" => act'[t].next = "return"
  BY CaughtStep
<1> QED
  BY <1>1, <1>4, <1>5, <1>6, <1>7 DEF DoomInv
\* Who changes the status of a task.
LEMMA StatusFrom ==
    ASSUME IndInv, [Next]_vars
    PROVE  \A x \in Task :
             \/ status'[x] = status[x]
             \/ TaskRuntime /\ x = running /\ status'[x] = "running"
             \/ Await /\ x = Target
             \/ StartReject /\ x = Target /\ status'[x] = "deleted"
             \/ (AwaitReturn \/ AwaitReturnThrow \/ AwaitRethrow) /\ x = Top
             \/ RuntimeFinish /\ x = running
             \/ /\ Keeps /\ Pc(x) \notin {"none", "return"}
                /\ status'[x] \in {"canceled", "child_unready"}
<1> SUFFICES ASSUME NEW x \in Task
             PROVE  \/ status'[x] = status[x]
                    \/ TaskRuntime /\ x = running /\ status'[x] = "running"
                    \/ Await /\ x = Target
                    \/ StartReject /\ x = Target /\ status'[x] = "deleted"
                    \/ (AwaitReturn \/ AwaitReturnThrow \/ AwaitRethrow) /\ x = Top
                    \/ RuntimeFinish /\ x = running
                    \/ /\ Keeps /\ Pc(x) \notin {"none", "return"}
                       /\ status'[x] \in {"canceled", "child_unready"}
  OBVIOUS
<1>0. PICK r, t : r = running /\ t = Top
  OBVIOUS
<1>t. status \in [Task -> Status]
  BY DEF IndInv, TypeOK
<1>TaskRuntime. CASE TaskRuntime
  BY <1>0, <1>TaskRuntime, TaskRuntimeIs, TaskRuntimeFx
<1>Await. CASE Await
  BY <1>0, <1>Await, AwaitIs, AwaitFx
<1>Start. CASE Start
  BY <1>0, <1>Start, StartIs
<1>StartReject. CASE StartReject
  BY <1>0, <1>StartReject, StartRejectIs, <1>t, CallIs DEF StartReject
<1>EventRun. CASE EventRun
  BY <1>0, <1>EventRun, EventRunIs
<1>EventWake. CASE EventWake
  BY <1>0, <1>EventWake, EventWakeIs
<1>ChildrenReady. CASE ChildrenReady
  BY <1>0, <1>ChildrenReady, ChildrenReadyIs
<1>ChildrenUnready. CASE ChildrenUnready
  BY <1>0, <1>ChildrenUnready, ChildrenUnreadyIs, <1>t
<1>StartChild. CASE StartChild
  BY <1>0, <1>StartChild, StartChildIs
<1>AllOfBackYields. CASE AllOfBackYields
  BY <1>0, <1>AllOfBackYields, AllOfBackYieldsIs DEF AllOfBackYields
<1>AllOfBackGoesOn. CASE AllOfBackGoesOn
  BY <1>0, <1>AllOfBackGoesOn, AllOfBackGoesOnIs DEF AllOfBackGoesOn
<1>AnyOfBackWins. CASE AnyOfBackWins
  BY <1>0, <1>AnyOfBackWins, AnyOfBackWinsIs DEF AnyOfBackWins
<1>AnyOfBackGoesOn. CASE AnyOfBackGoesOn
  BY <1>0, <1>AnyOfBackGoesOn, AnyOfBackGoesOnIs DEF AnyOfBackGoesOn
<1>AnyOfBackYields. CASE AnyOfBackYields
  BY <1>0, <1>AnyOfBackYields, AnyOfBackYieldsIs DEF AnyOfBackYields
<1>AllOfWakeYields. CASE AllOfWakeYields
  BY <1>0, <1>AllOfWakeYields, AllOfWakeYieldsIs DEF AllOfWakeYields
<1>AllOfWakeEnds. CASE AllOfWakeEnds
  BY <1>0, <1>AllOfWakeEnds, AllOfWakeEndsIs DEF AllOfWakeEnds
<1>AnyOfWake. CASE AnyOfWake
  BY <1>0, <1>AnyOfWake, AnyOfWakeIs
<1>CanceledDirectlyLeaf. CASE CanceledDirectlyLeaf
  BY <1>0, <1>CanceledDirectlyLeaf, CanceledDirectlyLeafIs DEF CanceledDirectlyLeaf
<1>CanceledDirectlyComb. CASE CanceledDirectlyComb
  BY <1>0, <1>CanceledDirectlyComb, CanceledDirectlyCombIs DEF CanceledDirectlyComb
<1>CanceledIndirectly. CASE CanceledIndirectly
  BY <1>0, <1>CanceledIndirectly, CanceledIndirectlyIs, <1>t
<1>CatchLeaf. CASE CatchLeaf
  BY <1>0, <1>CatchLeaf, CatchLeafIs, <1>t DEF CatchLeaf
<1>CatchComb. CASE CatchComb
  BY <1>0, <1>CatchComb, CatchCombIs, <1>t DEF CatchComb
<1>CancelSkip. CASE CancelSkip
  BY <1>0, <1>CancelSkip, CancelSkipIs
<1>CancelUnsupport. CASE CancelUnsupport
  <2>1. status'[x] = status[x] \/ (status'[x] = "canceled" /\ Pc(x) \notin {"none", "return"})
    <3>1. PICK f \in Task :
            /\ Pc(f) = "run" \/ Pc(f) \in Waits
            /\ status'[f] = status[f] \/ status'[f] = "canceled"
            /\ \A u \in Task : u # f => status'[u] = status[u]
      BY <1>CancelUnsupport, CancelUnsupportFx
    <3> QED
      BY <3>1 DEF Waits
  <2> QED
    BY <1>CancelUnsupport, <2>1, CancelUnsupportIs
<1>CancelInterrupt. CASE CancelInterrupt
  <2>1. status'[x] = status[x] \/ (status'[x] = "canceled" /\ Pc(x) \notin {"none", "return"})
    <3>1. PICK y \in Task :
            /\ Busy(y) /\ Pc(Inner(y)) = "wait" /\ status'[y] = "canceled"
            /\ \A u \in Task : u # y => status'[u] = status[u]
      BY <1>CancelInterrupt, CancelInterruptFx
    <3>2. Pc(y) \in {"run", "wait"}
      BY <3>1, BusyFacts
    <3> QED
      BY <3>1, <3>2
  <2> QED
    BY <1>CancelInterrupt, <2>1, CancelInterruptIs
<1>CancelEndYields. CASE CancelEndYields
  BY <1>0, <1>CancelEndYields, CancelEndYieldsIs DEF CancelEndYields
<1>CancelEndDone. CASE CancelEndDone
  BY <1>0, <1>CancelEndDone, CancelEndDoneIs DEF CancelEndDone
<1>UnsupportYields. CASE UnsupportYields
  BY <1>0, <1>UnsupportYields, UnsupportYieldsIs DEF UnsupportYields
<1>UnsupportDone. CASE UnsupportDone
  BY <1>0, <1>UnsupportDone, UnsupportDoneIs DEF UnsupportDone
<1>AwaitReturn. CASE AwaitReturn
  BY <1>0, <1>AwaitReturn, AwaitReturnIs, PopsFx
<1>AwaitReturnThrow. CASE AwaitReturnThrow
  BY <1>0, <1>AwaitReturnThrow, AwaitReturnThrowIs, PopsFx
<1>AwaitRethrow. CASE AwaitRethrow
  BY <1>0, <1>AwaitRethrow, AwaitRethrowIs, PopsFx
<1>RuntimeFinish. CASE RuntimeFinish
  BY <1>0, <1>RuntimeFinish, RuntimeFinishIs, FinishFx
<1>EventFires. CASE \E e \in Task : EventFires(e)
  BY <1>0, <1>EventFires, EventFiresIs
<1>Stutter. CASE UNCHANGED vars
  BY <1>0, <1>Stutter DEF vars, objectVars
<1> QED
  BY StepCases, <1>TaskRuntime, <1>Await, <1>Start, <1>StartReject, <1>EventRun, <1>EventWake,
       <1>ChildrenReady, <1>ChildrenUnready, <1>StartChild, <1>AllOfBackYields,
       <1>AllOfBackGoesOn, <1>AnyOfBackWins, <1>AnyOfBackGoesOn, <1>AnyOfBackYields,
       <1>AllOfWakeYields, <1>AllOfWakeEnds, <1>AnyOfWake, <1>CanceledDirectlyLeaf,
       <1>CanceledDirectlyComb, <1>CanceledIndirectly, <1>CatchLeaf, <1>CatchComb, <1>CancelSkip,
       <1>CancelUnsupport, <1>CancelInterrupt, <1>CancelEndYields, <1>CancelEndDone,
       <1>UnsupportYields, <1>UnsupportDone, <1>AwaitReturn, <1>AwaitReturnThrow, <1>AwaitRethrow,
       <1>RuntimeFinish, <1>EventFires, <1>Stutter

LEMMA HistoryStep ==
    ASSUME IndInv, [Next]_vars
    PROVE  \A x \in Task :
             \/ cancels'[x] = cancels[x] /\ completed_id'[x] = completed_id[x]
             \/ Keeps /\ x = Top
<1> SUFFICES ASSUME NEW x \in Task
             PROVE  \/ cancels'[x] = cancels[x] /\ completed_id'[x] = completed_id[x]
                    \/ Keeps /\ x = Top
  OBVIOUS
<1>0. PICK r, t : r = running /\ t = Top
  OBVIOUS
<1>t. cancels \in [Task -> Nat] /\ completed_id \in [Task -> Nat]
  BY DEF IndInv, TypeOK
<1>TaskRuntime. CASE TaskRuntime
  BY <1>0, <1>TaskRuntime, TaskRuntimeIs
<1>Await. CASE Await
  BY <1>0, <1>Await, AwaitIs
<1>Start. CASE Start
  BY <1>0, <1>Start, StartIs, <1>t
<1>StartReject. CASE StartReject
  BY <1>0, <1>StartReject, StartRejectIs, <1>t
<1>EventRun. CASE EventRun
  BY <1>0, <1>EventRun, EventRunIs, <1>t
<1>EventWake. CASE EventWake
  BY <1>0, <1>EventWake, EventWakeIs, <1>t
<1>ChildrenReady. CASE ChildrenReady
  BY <1>0, <1>ChildrenReady, ChildrenReadyIs, <1>t
<1>ChildrenUnready. CASE ChildrenUnready
  BY <1>0, <1>ChildrenUnready, ChildrenUnreadyIs, <1>t
<1>StartChild. CASE StartChild
  BY <1>0, <1>StartChild, StartChildIs, <1>t
<1>AllOfBackYields. CASE AllOfBackYields
  BY <1>0, <1>AllOfBackYields, AllOfBackYieldsIs, <1>t DEF AllOfBackYields
<1>AllOfBackGoesOn. CASE AllOfBackGoesOn
  BY <1>0, <1>AllOfBackGoesOn, AllOfBackGoesOnIs, <1>t DEF AllOfBackGoesOn
<1>AnyOfBackWins. CASE AnyOfBackWins
  BY <1>0, <1>AnyOfBackWins, AnyOfBackWinsIs, <1>t DEF AnyOfBackWins
<1>AnyOfBackGoesOn. CASE AnyOfBackGoesOn
  BY <1>0, <1>AnyOfBackGoesOn, AnyOfBackGoesOnIs, <1>t DEF AnyOfBackGoesOn
<1>AnyOfBackYields. CASE AnyOfBackYields
  BY <1>0, <1>AnyOfBackYields, AnyOfBackYieldsIs, <1>t DEF AnyOfBackYields
<1>AllOfWakeYields. CASE AllOfWakeYields
  BY <1>0, <1>AllOfWakeYields, AllOfWakeYieldsIs, <1>t DEF AllOfWakeYields
<1>AllOfWakeEnds. CASE AllOfWakeEnds
  BY <1>0, <1>AllOfWakeEnds, AllOfWakeEndsIs, <1>t DEF AllOfWakeEnds
<1>AnyOfWake. CASE AnyOfWake
  BY <1>0, <1>AnyOfWake, AnyOfWakeIs, <1>t
<1>CanceledDirectlyLeaf. CASE CanceledDirectlyLeaf
  BY <1>0, <1>CanceledDirectlyLeaf, CanceledDirectlyLeafIs, <1>t DEF CanceledDirectlyLeaf
<1>CanceledDirectlyComb. CASE CanceledDirectlyComb
  BY <1>0, <1>CanceledDirectlyComb, CanceledDirectlyCombIs, <1>t DEF CanceledDirectlyComb
<1>CanceledIndirectly. CASE CanceledIndirectly
  BY <1>0, <1>CanceledIndirectly, CanceledIndirectlyIs, <1>t
<1>CatchLeaf. CASE CatchLeaf
  BY <1>0, <1>CatchLeaf, CatchLeafIs, <1>t DEF CatchLeaf
<1>CatchComb. CASE CatchComb
  BY <1>0, <1>CatchComb, CatchCombIs, <1>t DEF CatchComb
<1>CancelSkip. CASE CancelSkip
  BY <1>0, <1>CancelSkip, CancelSkipIs, <1>t
<1>CancelUnsupport. CASE CancelUnsupport
  BY <1>0, <1>CancelUnsupport, CancelUnsupportIs, <1>t
<1>CancelInterrupt. CASE CancelInterrupt
  BY <1>0, <1>CancelInterrupt, CancelInterruptIs, <1>t
<1>CancelEndYields. CASE CancelEndYields
  BY <1>0, <1>CancelEndYields, CancelEndYieldsIs, <1>t DEF CancelEndYields
<1>CancelEndDone. CASE CancelEndDone
  BY <1>0, <1>CancelEndDone, CancelEndDoneIs, <1>t DEF CancelEndDone
<1>UnsupportYields. CASE UnsupportYields
  BY <1>0, <1>UnsupportYields, UnsupportYieldsIs, <1>t DEF UnsupportYields
<1>UnsupportDone. CASE UnsupportDone
  BY <1>0, <1>UnsupportDone, UnsupportDoneIs, <1>t DEF UnsupportDone
<1>AwaitReturn. CASE AwaitReturn
  BY <1>0, <1>AwaitReturn, AwaitReturnIs, PopsFx
<1>AwaitReturnThrow. CASE AwaitReturnThrow
  BY <1>0, <1>AwaitReturnThrow, AwaitReturnThrowIs, PopsFx
<1>AwaitRethrow. CASE AwaitRethrow
  BY <1>0, <1>AwaitRethrow, AwaitRethrowIs, PopsFx
<1>RuntimeFinish. CASE RuntimeFinish
  BY <1>0, <1>RuntimeFinish, RuntimeFinishIs
<1>EventFires. CASE \E e \in Task : EventFires(e)
  BY <1>0, <1>EventFires, EventFiresIs
<1>Stutter. CASE UNCHANGED vars
  BY <1>0, <1>Stutter DEF vars, objectVars
<1> QED
  BY StepCases, <1>TaskRuntime, <1>Await, <1>Start, <1>StartReject, <1>EventRun, <1>EventWake,
       <1>ChildrenReady, <1>ChildrenUnready, <1>StartChild, <1>AllOfBackYields,
       <1>AllOfBackGoesOn, <1>AnyOfBackWins, <1>AnyOfBackGoesOn, <1>AnyOfBackYields,
       <1>AllOfWakeYields, <1>AllOfWakeEnds, <1>AnyOfWake, <1>CanceledDirectlyLeaf,
       <1>CanceledDirectlyComb, <1>CanceledIndirectly, <1>CatchLeaf, <1>CatchComb, <1>CancelSkip,
       <1>CancelUnsupport, <1>CancelInterrupt, <1>CancelEndYields, <1>CancelEndDone,
       <1>UnsupportYields, <1>UnsupportDone, <1>AwaitReturn, <1>AwaitReturnThrow, <1>AwaitRethrow,
       <1>RuntimeFinish, <1>EventFires, <1>Stutter


\* The status of a child.
LEMMA KidStatusStep ==
    ASSUME IndInv, [Next]_vars, NEW k \in Task, NEW j \in DOMAIN Children(k),
           NEW x \in Task, x = Children(k)[j]
    PROVE  \/ status'[x] = status[x]
           \/ TaskRuntime /\ x = running /\ status[x] = "ready" /\ status'[x] = "running"
           \/ RuntimeFinish /\ x = running /\ status[x] = "running" /\ status'[x] = "completed"
           \/ Pc(x) # "none" /\ status'[x] \in {"canceled", "child_unready"}
<1>1. IsKid(x)
  BY DEF IsKid
<1>2. ~((Await \/ StartReject) /\ x = Target)
  BY <1>1, AwaitFx, CallIs DEF StartReject
<1>3. ~((AwaitReturn \/ AwaitReturnThrow \/ AwaitRethrow) /\ x = Top)
  BY PopsFx, KidBase
<1>4. CASE RuntimeFinish /\ x = running
  <2>1. Pc(k) \in AtWork /\ finish_to[x] = uid[k]
    BY <1>4 DEF IndInv, FinishInv, Begun
  <2>2. finish_to[x] # Loop
    BY <2>1, LiveFacts, TopAssumption DEF AtWork
  <2> QED
    BY <1>4, <2>2, FinishFx
<1>5. TaskRuntime /\ x = running => status[x] = "ready"
  BY TaskRuntimeIs
<1> QED
  BY <1>2, <1>3, <1>4, <1>5, StatusFrom

\* A child that ends gives control to its combinator.
LEMMA FinishKid ==
    ASSUME IndInv, RuntimeFinish, NEW k \in Task, NEW j \in DOMAIN Children(k), Children(k)[j] = running
    PROVE  /\ running' = uid[k] /\ uid[k] \in Task /\ uid[k] # running /\ Inner(uid[k]) = k
           /\ Pc(k) \in {"child", "cancel"} \cup Waits
           /\ Pc(k) = "child" => act[k].i = j
           /\ Pc(k) = "cancel" => act[k].i - 1 = j
           /\ Pc(k) = "wait" => status[running] = "running"
           /\ ~global_signal_canceled
<1>0. /\ running \in Task /\ running # Loop /\ Busy(running) /\ Inner(running) = running
      /\ Pc(running) \in {"return", "caught", "run"} /\ uid[running] = running
      /\ status[running] \in {"running", "canceled", "child_unready"} /\ Pc(running) # "none"
  BY RuntimeFinishIs, FinishFx
<1>1. IsKid(running)
  BY DEF IsKid
<1>2. Pc(k) \in AtWork /\ finish_to[running] = uid[k]
  BY <1>0 DEF IndInv, FinishInv, Begun
<1>3. uid[k] \in Task /\ uid[k] # Loop
  BY <1>2, LiveFacts, TopAssumption DEF AtWork
<1>4. running' = uid[k]
  BY <1>2, <1>3, RuntimeFinishIs
<1>5. PICK b \in Task :
        /\ running' = b /\ b # running /\ Busy(b) /\ Inner(b) \in Task
        /\ \/ Calling(b) /\ Calls(Inner(b), running) /\ Pc(Inner(b)) \in {"child", "cancel"}
           \/ /\ Pc(Inner(b)) \in Waits /\ \A c \in Task : ~Calling(c)
              /\ \E m \in DOMAIN Children(Inner(b)) : Children(Inner(b))[m] = running
  BY <1>1, <1>3, <1>4, FinishTo
<1>6. ~global_signal_canceled
  BY <1>0 DEF IndInv, SignalInv
<1>7. CASE Calling(b) /\ Calls(Inner(b), running)
  <2>1. /\ Inner(uid[k]) = k /\ Pc(k) \in {"child", "cancel"}
        /\ Pc(k) = "child" => act[k].i = j
        /\ Pc(k) = "cancel" => act[k].i - 1 = j
    BY <1>7, CallerOfKid
  <2> QED
    BY <1>3, <1>4, <1>5, <1>6, <2>1
<1>8. CASE /\ Pc(Inner(b)) \in Waits /\ \A c \in Task : ~Calling(c)
           /\ \E m \in DOMAIN Children(Inner(b)) : Children(Inner(b))[m] = running
  <2>1. Inner(b) = k /\ b = uid[k]
    BY <1>4, <1>5, <1>8, KidFacts DEF IndInv
  <2>2. ASSUME Pc(k) = "wait", status[running] = "canceled" PROVE FALSE
    <3>1. Doomed(running)
      BY <1>0, <2>2 DEF Doomed
    <3>2. PICK l \in Task : \E m \in DOMAIN Children(l) : Children(l)[m] = running /\ Visited(l, m)
      BY <1>0, <3>1 DEF IndInv, DoomInv
    <3>3. PICK m \in DOMAIN Children(l) : Children(l)[m] = running /\ Visited(l, m)
      BY <3>2
    <3>4. l = k
      BY <3>3, KidFacts DEF IndInv
    <3> QED
      BY <2>2, <3>3, <3>4 DEF Visited
  <2>3. ASSUME status[running] = "child_unready" PROVE FALSE
    <3>1. block_to[running] = uid[k]
      BY <1>0, <2>3 DEF IndInv, BlockInv
    <3>2. Blk(running) # Loop
      BY <1>0, <1>3, <3>1 DEF Blk
    <3> QED
      BY <1>0, <1>8, <3>2 DEF IndInv, CallInv
  <2> QED
    BY <1>0, <1>3, <1>4, <1>5, <1>6, <1>8, <2>1, <2>2, <2>3 DEF Waits
<1> QED
  BY <1>5, <1>7, <1>8

\* Which children have completed, and which are executing.
LEMMA KidsStep ==
    ASSUME IndInv, [Next]_vars, NEW k \in Task
    PROVE  /\ DOMAIN Children(k)' = DOMAIN Children(k)
           /\ \/ Completed(k)' = Completed(k)
              \/ \E j \in DOMAIN Children(k) :
                    /\ RuntimeFinish /\ Children(k)[j] = running /\ status[running] = "running"
                    /\ j \notin Completed(k) /\ Completed(k)' = Completed(k) \cup {j}
           /\ \/ LiveKids(k)' = LiveKids(k)
              \/ TaskRuntime /\ Pc(k) = "child"
              \/ \E j \in LiveKids(k) :
                    RuntimeFinish /\ Children(k)[j] = running /\ LiveKids(k)' = LiveKids(k) \ {j}
           /\ Completed(k)' \in SUBSET DOMAIN Children(k) /\ LiveKids(k)' \in SUBSET DOMAIN Children(k)
<1>1. Children(k)' = Children(k)
  BY ProgSame DEF Children
<1>2. \A j \in DOMAIN Children(k) : Children(k)[j] \in Task
  BY KidFacts DEF IndInv
<1>3. Completed(k)' = {j \in DOMAIN Children(k) : status'[Children(k)[j]] = "completed"}
  BY <1>1 DEF Completed
<1>4. LiveKids(k)' = {j \in DOMAIN Children(k) : act'[Children(k)[j]].pc # "none"}
  BY <1>1 DEF LiveKids, Pc
<1>5. \A i, j \in DOMAIN Children(k) : Children(k)[i] = Children(k)[j] => i = j
  BY KidFacts DEF IndInv
<1>6. \/ Completed(k)' = Completed(k)
      \/ \E j \in DOMAIN Children(k) :
            /\ RuntimeFinish /\ Children(k)[j] = running /\ status[running] = "running"
            /\ j \notin Completed(k) /\ Completed(k)' = Completed(k) \cup {j}
  <2>1. ASSUME NEW i \in DOMAIN Children(k)
        PROVE  \/ status[Children(k)[i]] = "completed" <=> status'[Children(k)[i]] = "completed"
               \/ /\ RuntimeFinish /\ Children(k)[i] = running /\ status[running] = "running"
                  /\ status'[Children(k)[i]] = "completed"
    <3>1. Pc(Children(k)[i]) # "none" => status[Children(k)[i]] # "completed"
      BY <1>2, <2>1 DEF IndInv, StatusInv
    <3> QED
      BY <1>2, <2>1, <3>1, KidStatusStep
  <2>2. CASE \E j \in DOMAIN Children(k) :
               /\ RuntimeFinish /\ Children(k)[j] = running /\ status[running] = "running"
               /\ status'[Children(k)[j]] = "completed"
    <3>1. PICK j \in DOMAIN Children(k) :
               /\ RuntimeFinish /\ Children(k)[j] = running /\ status[running] = "running"
               /\ status'[Children(k)[j]] = "completed"
      BY <2>2
    <3>2. \A i \in DOMAIN Children(k) : i # j =>
            (status[Children(k)[i]] = "completed" <=> status'[Children(k)[i]] = "completed")
      BY <1>5, <2>1, <3>1
    <3>3. j \notin Completed(k)
      BY <3>1 DEF Completed
    <3>4. Completed(k)' = Completed(k) \cup {j}
      BY <1>3, <3>1, <3>2 DEF Completed
    <3> QED
      BY <3>1, <3>3, <3>4
  <2>3. CASE ~\E j \in DOMAIN Children(k) :
               /\ RuntimeFinish /\ Children(k)[j] = running /\ status[running] = "running"
               /\ status'[Children(k)[j]] = "completed"
    <3>1. \A i \in DOMAIN Children(k) :
            status[Children(k)[i]] = "completed" <=> status'[Children(k)[i]] = "completed"
      BY <2>1, <2>3
    <3> QED
      BY <1>3, <3>1 DEF Completed
  <2> QED
    BY <2>2, <2>3
<1>7. \/ LiveKids(k)' = LiveKids(k)
      \/ TaskRuntime /\ Pc(k) = "child"
      \/ \E j \in LiveKids(k) :
            RuntimeFinish /\ Children(k)[j] = running /\ LiveKids(k)' = LiveKids(k) \ {j}
  <2>1. \A i \in DOMAIN Children(k) :
          \/ act[Children(k)[i]].pc # "none" <=> act'[Children(k)[i]].pc # "none"
          \/ TaskRuntime /\ Children(k)[i] = running
          \/ RuntimeFinish /\ Children(k)[i] = running
    BY <1>1, KidLife DEF Pc
  <2>2. CASE \E i \in DOMAIN Children(k) : TaskRuntime /\ Children(k)[i] = running
    <3>1. PICK i \in DOMAIN Children(k) : TaskRuntime /\ Children(k)[i] = running
      BY <2>2
    <3>2. Entering(Children(k)[i])
      BY <3>1, TaskRuntimeIs DEF Entering
    <3> QED
      BY <3>1, <3>2, EnteringKid
  <2>3. CASE \E j \in DOMAIN Children(k) : RuntimeFinish /\ Children(k)[j] = running
    <3>1. PICK j \in DOMAIN Children(k) : RuntimeFinish /\ Children(k)[j] = running
      BY <2>3
    <3>2. act'[Children(k)[j]].pc = "none" /\ act[Children(k)[j]].pc # "none"
      BY <3>1, RuntimeFinishIs, BusyFacts DEF Pc
    <3>3. ~TaskRuntime
      BY <3>1, RuntimeFinishIs, TaskRuntimeIs
    <3>4. \A i \in DOMAIN Children(k) : i # j =>
            (act[Children(k)[i]].pc # "none" <=> act'[Children(k)[i]].pc # "none")
      BY <1>5, <2>1, <3>1, <3>3
    <3>5. j \in LiveKids(k)
      BY <3>2 DEF LiveKids, Pc
    <3>6. LiveKids(k)' = LiveKids(k) \ {j}
      BY <1>4, <3>2, <3>4 DEF LiveKids, Pc
    <3> QED
      BY <3>1, <3>5, <3>6
  <2>4. CASE ~(\E i \in DOMAIN Children(k) : (TaskRuntime \/ RuntimeFinish) /\ Children(k)[i] = running)
    <3>1. \A i \in DOMAIN Children(k) : act[Children(k)[i]].pc # "none" <=> act'[Children(k)[i]].pc # "none"
      BY <2>1, <2>4
    <3> QED
      BY <1>4, <3>1 DEF LiveKids, Pc
  <2> QED
    BY <2>2, <2>3, <2>4
<1>8. DOMAIN Children(k)' = DOMAIN Children(k)
  BY <1>1
<1> QED
  BY <1>3, <1>4, <1>6, <1>7, <1>8

\* A combinator past its first steps, on a coroutine that has not the thread:
\* who moves it.
Past == {"start", "child", "wait", "cancel", "unsupport", "return"}
LEMMA SettledStep ==
    ASSUME IndInv, [Next]_vars, NEW k \in Task, Pc(k)' \in Past
    PROVE  \/ Keeps /\ k = Top
           \/ UNCHANGED vars
           \/ /\ act'[k] = act[k] /\ uid'[k] = uid[k] /\ uid[k] # running
              /\ cancels'[k] = cancels[k] /\ completed_id'[k] = completed_id[k]
              /\ uid[k] \in Task /\ Inner(uid[k]) = k
              /\ Pc(k) \in {"child", "cancel"} \/ Pc(k) \in Waits
<1>1. ASSUME act'[k] = act[k], uid'[k] = uid[k], uid[k] # running, ~(Keeps /\ k = Top)
      PROVE  /\ cancels'[k] = cancels[k] /\ completed_id'[k] = completed_id[k]
             /\ uid[k] \in Task /\ Inner(uid[k]) = k
             /\ Pc(k) \in {"child", "cancel"} \/ Pc(k) \in Waits
  <2>1. Pc(k) \in Past
    BY <1>1 DEF Pc
  <2>2. uid[k] \in Task /\ Inner(uid[k]) = k /\ Busy(uid[k])
    BY <2>1, LiveFacts DEF Past
  <2>3. ASSUME Pc(k) \notin Waits PROVE Pc(k) \in {"child", "cancel"}
    <3>1. Calling(uid[k])
      BY <1>1, <2>2, <2>3 DEF Calling
    <3>2. PICK d \in Task : Calls(k, d)
      BY <2>2, <3>1, CallingFacts
    <3> QED
      BY <2>1, <3>2, CallsWhat DEF Past
  <2> QED
    BY <1>1, <2>2, <2>3, HistoryStep
<1>2. CASE Keeps
  <2>1. SUFFICES ASSUME k # Top
                 PROVE  act'[k] = act[k] /\ uid'[k] = uid[k] /\ uid[k] # running
    BY <1>1, <1>2
  <2>2. act'[k] = act[k] /\ uid' = uid /\ Pc(k) \in Past /\ running # Loop /\ Busy(running)
    BY <1>2, <2>1, KeepsFrame DEF Pc
  <2> QED
    BY <2>1, <2>2, TopFacts DEF Past
<1>3. CASE TaskRuntime
  <2>1. k # running /\ act'[k] = act[k] /\ uid' = uid /\ ~Busy(running)
    BY <1>3, TaskRuntimeIs DEF Past, Pc
  <2>2. Pc(k) # "none"
    BY <2>1 DEF Past, Pc
  <2>3. uid[k] # running /\ ~Keeps
    BY <1>3, <2>1, <2>2, LiveFacts, TaskRuntimeIs DEF Keeps
  <2> QED
    BY <1>1, <2>1, <2>3
<1>4. CASE Await
  <2>1. PICK t, u \in Task :
          /\ u = Top /\ act'[t].pc = "run" /\ act'[u].pc = "run" /\ running # Loop
          /\ \A v \in Task : v # t => uid'[v] = uid[v]
          /\ \A v \in Task : v # u /\ v # t => act'[v] = act[v]
          /\ Busy(running)
    BY <1>4, AwaitFx
  <2>2. k # t /\ k # u /\ act'[k] = act[k] /\ uid'[k] = uid[k] /\ Pc(k) \in Past
    BY <2>1 DEF Past, Pc
  <2>3. uid[k] # running
    BY <2>1, <2>2, TopFacts DEF Past
  <2> QED
    BY <1>1, <2>1, <2>2, <2>3
<1>5. CASE AwaitReturn \/ AwaitReturnThrow \/ AwaitRethrow
  <2>1. PICK t, u \in Task : \E s \in Status, pc \in Points :
          /\ t = Top /\ act'[t].pc = "none" /\ act'[u].pc = pc /\ running # Loop /\ Ends(t, s, pc)
          /\ \A v \in Task : v # t => uid'[v] = uid[v]
          /\ \A v \in Task : v # u /\ v # t => act'[v] = act[v]
    BY <1>5, PopsFx
  <2>2. k # t /\ k # u /\ act'[k] = act[k] /\ uid'[k] = uid[k] /\ Pc(k) \in Past
    BY <2>1 DEF Past, Pc, Ends
  <2>3. uid[k] # running
    BY <1>5, <2>1, <2>2, TopFacts, PopsBusy DEF Past
  <2> QED
    BY <1>1, <2>1, <2>2, <2>3
<1>6. CASE RuntimeFinish
  <2>1. k # running /\ act'[k] = act[k] /\ uid' = uid /\ Busy(running) /\ running = Top /\ running # Loop
    BY <1>6, RuntimeFinishIs DEF Past, Pc
  <2>2. Pc(k) \in Past
    BY <2>1 DEF Pc
  <2>3. uid[k] # running
    BY <2>1, <2>2, TopFacts DEF Past
  <2> QED
    BY <1>1, <2>1, <2>3
<1>7. CASE \E e \in Task : EventFires(e)
  <2>1. running = Loop /\ act' = act /\ uid' = uid
    BY <1>7, EventFiresIs
  <2>2. uid[k] \in Task
    BY <2>1, LiveFacts DEF Past, Pc
  <2> QED
    BY <1>1, <2>1, <2>2, TopAssumption DEF Keeps
<1> QED
  BY <1>2, <1>3, <1>4, <1>5, <1>6, <1>7, KeepsOr

\* Who gives control to a combinator that waits for its children.
LEMMA BackTo ==
    ASSUME IndInv, [Next]_vars, NEW k \in Task, Kind(k) # "event", uid[k] \in Task,
           Inner(uid[k]) = k, Busy(uid[k]), Pc(k) = "cancel" \/ Pc(k) \in Waits,
           uid[k] # running, running' = uid[k]
    PROVE  \/ RuntimeFinish /\ \E j \in DOMAIN Children(k) : Children(k)[j] = running
           \/ CancelInterrupt /\ global_signal_canceled' = TRUE /\ Pc(k) = "wait"
<1>0. PICK r, t : r = running /\ t = Top
  OBVIOUS
<1>w. Pc(k) \notin {"run", "child"}
  BY DEF Waits
<1>TaskRuntime. CASE TaskRuntime
  BY <1>TaskRuntime, TaskRuntimeIs DEF Stays
<1>Await. CASE Await
  BY <1>Await, AwaitFx
<1>Start. CASE Start
  BY <1>Start, StartFx
<1>StartReject. CASE StartReject
  BY <1>StartReject, StartRejectIs DEF Stays
<1>EventRun. CASE EventRun
  <2>1. ~Unwinds(running)
    BY <1>EventRun, YieldsFreely
  <2>2. running' = block_to[Top] /\ running # Loop /\ Busy(running)
    BY <1>EventRun, EventRunIs, KeepsFrame DEF Yields
  <2> QED
    BY <1>w, <2>1, <2>2, YieldTo, TopAssumption
<1>EventWake. CASE EventWake
  BY <1>EventWake, EventWakeIs DEF Stays
<1>ChildrenReady. CASE ChildrenReady
  BY <1>ChildrenReady, ChildrenReadyIs DEF Stays
<1>ChildrenUnready. CASE ChildrenUnready
  BY <1>ChildrenUnready, ChildrenUnreadyIs DEF Stays
<1>StartChild. CASE StartChild
  BY <1>StartChild, StartChildFx
<1>AllOfBackYields. CASE AllOfBackYields
  <2>1. ~Unwinds(running)
    BY <1>AllOfBackYields, YieldsFreely
  <2>2. running' = block_to[Top] /\ running # Loop /\ Busy(running)
    BY <1>AllOfBackYields, AllOfBackYieldsIs, KeepsFrame DEF AllOfBackYields, Yields
  <2> QED
    BY <1>w, <2>1, <2>2, YieldTo, TopAssumption
<1>AllOfBackGoesOn. CASE AllOfBackGoesOn
  BY <1>AllOfBackGoesOn, AllOfBackGoesOnIs DEF AllOfBackGoesOn, Stays
<1>AnyOfBackWins. CASE AnyOfBackWins
  BY <1>AnyOfBackWins, AnyOfBackWinsIs DEF AnyOfBackWins, Stays
<1>AnyOfBackGoesOn. CASE AnyOfBackGoesOn
  BY <1>AnyOfBackGoesOn, AnyOfBackGoesOnIs DEF AnyOfBackGoesOn, Stays
<1>AnyOfBackYields. CASE AnyOfBackYields
  <2>1. ~Unwinds(running)
    BY <1>AnyOfBackYields, YieldsFreely
  <2>2. running' = block_to[Top] /\ running # Loop /\ Busy(running)
    BY <1>AnyOfBackYields, AnyOfBackYieldsIs, KeepsFrame DEF AnyOfBackYields, Yields
  <2> QED
    BY <1>w, <2>1, <2>2, YieldTo, TopAssumption
<1>AllOfWakeYields. CASE AllOfWakeYields
  <2>1. ~Unwinds(running)
    BY <1>AllOfWakeYields, YieldsFreely
  <2>2. running' = block_to[Top] /\ running # Loop /\ Busy(running)
    BY <1>AllOfWakeYields, AllOfWakeYieldsIs, KeepsFrame DEF AllOfWakeYields, Yields
  <2> QED
    BY <1>w, <2>1, <2>2, YieldTo, TopAssumption
<1>AllOfWakeEnds. CASE AllOfWakeEnds
  BY <1>AllOfWakeEnds, AllOfWakeEndsIs DEF AllOfWakeEnds, Stays
<1>AnyOfWake. CASE AnyOfWake
  BY <1>AnyOfWake, AnyOfWakeIs DEF Stays
<1>CanceledDirectlyLeaf. CASE CanceledDirectlyLeaf
  BY <1>CanceledDirectlyLeaf, CanceledDirectlyLeafIs DEF CanceledDirectlyLeaf, Stays
<1>CanceledDirectlyComb. CASE CanceledDirectlyComb
  BY <1>CanceledDirectlyComb, CanceledDirectlyCombIs DEF CanceledDirectlyComb, Stays
<1>CanceledIndirectly. CASE CanceledIndirectly
  BY <1>CanceledIndirectly, CanceledIndirectlyIs DEF Stays
<1>CatchLeaf. CASE CatchLeaf
  BY <1>CatchLeaf, CatchLeafIs DEF CatchLeaf, Stays
<1>CatchComb. CASE CatchComb
  BY <1>CatchComb, CatchCombIs DEF CatchComb, Stays
<1>CancelSkip. CASE CancelSkip
  BY <1>CancelSkip, CancelSkipIs DEF Stays
<1>CancelUnsupport. CASE CancelUnsupport
  BY <1>CancelUnsupport, CancelUnsupportIs DEF Stays
<1>CancelInterrupt. CASE CancelInterrupt
  <2>1. global_signal_canceled' = TRUE
    BY <1>CancelInterrupt, CancelInterruptIs
  <2>2. PICK x \in Task : running' = x /\ Pc(Inner(x)) = "wait"
    BY <1>CancelInterrupt, CancelInterruptFx
  <2> QED
    BY <1>CancelInterrupt, <2>1, <2>2
<1>CancelEndYields. CASE CancelEndYields
  <2>1. ~Unwinds(running)
    BY <1>CancelEndYields, YieldsFreely
  <2>2. running' = block_to[Top] /\ running # Loop /\ Busy(running)
    BY <1>CancelEndYields, CancelEndYieldsIs, KeepsFrame DEF CancelEndYields, Yields
  <2> QED
    BY <1>w, <2>1, <2>2, YieldTo, TopAssumption
<1>CancelEndDone. CASE CancelEndDone
  BY <1>CancelEndDone, CancelEndDoneIs DEF CancelEndDone, Stays
<1>UnsupportYields. CASE UnsupportYields
  <2>1. ~Unwinds(running)
    BY <1>UnsupportYields, YieldsFreely
  <2>2. running' = block_to[Top] /\ running # Loop /\ Busy(running)
    BY <1>UnsupportYields, UnsupportYieldsIs, KeepsFrame DEF UnsupportYields, Yields
  <2> QED
    BY <1>w, <2>1, <2>2, YieldTo, TopAssumption
<1>UnsupportDone. CASE UnsupportDone
  BY <1>UnsupportDone, UnsupportDoneIs DEF UnsupportDone, Stays
<1>AwaitReturn. CASE AwaitReturn
  BY <1>AwaitReturn, PopsBusy
<1>AwaitReturnThrow. CASE AwaitReturnThrow
  BY <1>AwaitReturnThrow, PopsBusy
<1>AwaitRethrow. CASE AwaitRethrow
  BY <1>AwaitRethrow, PopsBusy
<1>RuntimeFinish. CASE RuntimeFinish
  <2>1. PICK b \in Task :
          /\ running' = b
          /\ \/ Calls(Inner(b), running)
                /\ \/ Pc(Inner(b)) = "run"
                   \/ Pc(Inner(b)) \in {"child", "cancel"}
             \/ \E j \in DOMAIN Children(Inner(b)) : Children(Inner(b))[j] = running
    BY <1>RuntimeFinish, FinishTo, TopAssumption
  <2>2. b = uid[k] /\ Inner(b) = k
    BY <2>1
  <2>3. running \in Task
    BY <1>RuntimeFinish, RuntimeFinishIs
  <2>4. Calls(k, running) => \E j \in DOMAIN Children(k) : Children(k)[j] = running
    BY <1>w, <2>3, CallsWhat
  <2> QED
    BY <1>RuntimeFinish, <2>1, <2>2, <2>4
<1>EventFires. CASE \E e \in Task : EventFires(e)
  BY <1>EventFires, EventFiresIs
<1>Stutter. CASE UNCHANGED vars
  BY <1>Stutter DEF vars, controlVars
<1> QED
  BY StepCases, <1>TaskRuntime, <1>Await, <1>Start, <1>StartReject, <1>EventRun, <1>EventWake,
       <1>ChildrenReady, <1>ChildrenUnready, <1>StartChild, <1>AllOfBackYields,
       <1>AllOfBackGoesOn, <1>AnyOfBackWins, <1>AnyOfBackGoesOn, <1>AnyOfBackYields,
       <1>AllOfWakeYields, <1>AllOfWakeEnds, <1>AnyOfWake, <1>CanceledDirectlyLeaf,
       <1>CanceledDirectlyComb, <1>CanceledIndirectly, <1>CatchLeaf, <1>CatchComb, <1>CancelSkip,
       <1>CancelUnsupport, <1>CancelInterrupt, <1>CancelEndYields, <1>CancelEndDone,
       <1>UnsupportYields, <1>UnsupportDone, <1>AwaitReturn, <1>AwaitReturnThrow, <1>AwaitRethrow,
       <1>RuntimeFinish, <1>EventFires, <1>Stutter

\* A child that ends running has completed.
LEMMA FinishKidTo ==
    ASSUME IndInv, RuntimeFinish, NEW k \in Task, NEW j \in DOMAIN Children(k), Children(k)[j] = running,
           status[running] = "running"
    PROVE  status'[running] = "completed"
<1>1. Pc(k) \in AtWork /\ finish_to[running] = uid[k]
  BY RuntimeFinishIs DEF IndInv, FinishInv, Begun
<1>2. finish_to[running] # Loop
  BY <1>1, LiveFacts, TopAssumption DEF AtWork
<1> QED
  BY <1>2, FinishFx

\* Sets of children after a step.
LEMMA SetsAfter ==
    ASSUME IndInv, [Next]_vars, NEW k \in Task
    PROVE  /\ Awaited(k)' = DOMAIN Children(k) \ Completed(k)'
           /\ AwaitedButOne(k)' = DOMAIN Children(k) \ (Completed(k)' \ {act'[k].i})
           /\ Kept(k)' = {j \in LiveKids(k)' : j < act'[k].i /\ (uid'[k] = running' \/ j # act'[k].i - 1)}
           /\ DOMAIN Children(k) \in SUBSET Nat
           /\ Completed(k) \in SUBSET DOMAIN Children(k) /\ LiveKids(k) \in SUBSET DOMAIN Children(k)
<1>1. DOMAIN Children(k)' = DOMAIN Children(k)
  BY KidsStep
<1>2. DOMAIN Children(k) = 1..Len(Children(k)) /\ Len(Children(k)) \in Nat
  BY TaskFacts DEF IndInv
<1> QED
  BY <1>1, <1>2 DEF Awaited, AwaitedButOne, Kept, Completed, LiveKids

\* The counters of a combinator that does not move.
LEMMA CountOther ==
    ASSUME IndInv, [Next]_vars, NEW k \in Task, Kind(k) \in Combinators,
           act'[k] = act[k], uid'[k] = uid[k], uid[k] # running, uid[k] \in Task, Inner(uid[k]) = k,
           Pc(k) \in {"child", "cancel"} \/ Pc(k) \in Waits
    PROVE  CountOf(k)'
<1>0. CountOf(k) /\ ~Woken(k) /\ Kind(k)' = Kind(k) /\ Pc(k)' = Pc(k) /\ act[k].n \in Nat /\ act[k].i \in Nat
  BY ProgSame, StackTypes DEF IndInv, CountInv, CountOf, Woken, Kind, Pc
<1>a. Busy(uid[k]) /\ Kind(k) # "event"
  BY LiveFacts DEF Waits, Combinators
<1>b. PICK n \in Nat, i \in Nat : n = act[k].n /\ i = act[k].i
  BY <1>0
<1>D. PICK D : D = DOMAIN Children(k)
  OBVIOUS
<1>c. \A S \in SUBSET D :
        /\ Cardinality(S) \in Nat
        /\ \A j \in S : Cardinality(S \ {j}) = Cardinality(S) - 1
  BY <1>b, <1>D, KidSets
<1>d. D \in SUBSET Nat
  BY <1>b, <1>D, SetsAfter
\* A child ends.
<1>1. CASE RuntimeFinish /\ \E j \in D : Children(k)[j] = running
  <2>1. PICK j \in D : RuntimeFinish /\ Children(k)[j] = running
    BY <1>1
  <2>2. /\ running' = uid[k] /\ ~global_signal_canceled
        /\ Pc(k) = "child" => i = j
        /\ Pc(k) = "cancel" => i - 1 = j
        /\ Pc(k) = "wait" => status[running] = "running"
    BY <1>b, <1>D, <2>1, FinishKid
  <2>3. Woken(k)'
    BY <2>1, <2>2, RuntimeFinishIs DEF Woken
  <2>4. LiveKids(k)' = LiveKids(k) \ {j} /\ j \in LiveKids(k)
    <3>1. ~TaskRuntime
      BY <2>1, RuntimeFinishIs, TaskRuntimeIs
    <3>2. \A m \in D : Children(k)[m] = running => m = j
      BY <1>b, <1>D, <2>1, KidFacts DEF IndInv
    <3>3. j \in LiveKids(k)
      BY <1>b, <1>D, <2>1, RuntimeFinishIs, BusyFacts DEF LiveKids
    <3>4. j \notin LiveKids(k)'
      <4>1. act'[Children(k)[j]].pc = "none" /\ Children(k)' = Children(k)
        BY <2>1, RuntimeFinishIs, ProgSame DEF Children
      <4> QED
        BY <4>1 DEF LiveKids, Pc
    <3>5. LiveKids(k)' # LiveKids(k)
      BY <3>3, <3>4
    <3> QED
      BY <1>b, <1>D, <3>1, <3>2, <3>3, <3>5, KidsStep, SetsAfter
  <2>5. CASE Pc(k) = "child"
    <3>1. Completed(k)' = Completed(k) \/ Completed(k)' = Completed(k) \cup {i}
      <4>1. \A m \in D : Children(k)[m] = running => m = j
        BY <1>b, <1>D, <2>1, KidFacts DEF IndInv
      <4> QED
        BY <1>b, <1>D, <2>2, <2>5, <4>1, KidsStep
    <3>2. AwaitedButOne(k)' = AwaitedButOne(k)
      BY <1>b, <1>D, <3>1, SetsAfter DEF AwaitedButOne
    <3> QED
      BY <1>0, <2>5, <3>2 DEF CountOf
  <2>6. CASE Pc(k) = "wait"
    <3>1. Completed(k)' = Completed(k) \cup {j} /\ j \notin Completed(k)
      <4>1. \A m \in D : Children(k)[m] = running => m = j
        BY <1>b, <1>D, <2>1, KidFacts DEF IndInv
      <4>2. running \in Task /\ status'[running] = "completed" /\ status[running] = "running"
        <5>1. status[running] = "running" /\ running \in Task
          BY <2>1, <2>2, <2>6, RuntimeFinishIs
        <5> QED
          BY <1>b, <1>D, <2>1, <5>1, FinishKidTo
      <4>3. j \in Completed(k)' /\ j \notin Completed(k)
        <5>1. Children(k)' = Children(k)
          BY ProgSame DEF Children
        <5> QED
          BY <1>b, <1>D, <2>1, <4>2, <5>1 DEF Completed
      <4> QED
        BY <1>b, <1>D, <4>1, <4>3, KidsStep
    <3>2. Awaited(k)' = Awaited(k) \ {j} /\ j \in Awaited(k) /\ Awaited(k) \in SUBSET D
      BY <1>b, <1>D, <3>1, SetsAfter DEF Awaited
    <3>3. Cardinality(Awaited(k)') = Cardinality(Awaited(k)) - 1 /\ Cardinality(Awaited(k)) \in Nat
      BY <1>c, <3>2
    <3> QED
      BY <1>0, <1>b, <1>D, <2>3, <2>6, <3>3 DEF CountOf
  <2>7. CASE Pc(k) = "cancel"
    <3>1. Kept(k)' = Kept(k)
      BY <1>b, <1>D, <1>d, <2>2, <2>4, <2>7, SetsAfter DEF Kept
    <3> QED
      BY <1>0, <2>7, <3>1 DEF CountOf
  <2>8. CASE Pc(k) = "unsupport"
    <3>1. Cardinality(LiveKids(k)') = Cardinality(LiveKids(k)) - 1 /\ Cardinality(LiveKids(k)) \in Nat
      BY <1>b, <1>D, <1>c, <2>4, SetsAfter
    <3> QED
      BY <1>0, <1>b, <1>D, <2>3, <2>8, <3>1 DEF CountOf
  <2> QED
    BY <2>5, <2>6, <2>7, <2>8 DEF Waits
\* No child ends.
<1>2. CASE ~(RuntimeFinish /\ \E j \in D : Children(k)[j] = running)
  <2>1. Completed(k)' = Completed(k)
    BY <1>2, <1>b, <1>D, KidsStep
  <2>2. Pc(k) # "child" => LiveKids(k)' = LiveKids(k)
    BY <1>2, <1>b, <1>D, KidsStep, SetsAfter
  <2>3. Pc(k) = "cancel" \/ Pc(k) \in Waits => ~Woken(k)' /\ (Pc(k) = "cancel" => running' # uid'[k])
    <3>1. running' = uid[k] /\ (Pc(k) = "cancel" \/ Pc(k) \in Waits) =>
            global_signal_canceled' = TRUE /\ Pc(k) = "wait"
      BY <1>2, <1>a, <1>b, <1>D, BackTo
    <3> QED
      BY <3>1 DEF Woken
  <2>4. AwaitedButOne(k)' = AwaitedButOne(k) /\ Awaited(k)' = Awaited(k)
    BY <2>1, SetsAfter DEF AwaitedButOne, Awaited
  <2>5. Pc(k) = "cancel" => Kept(k)' = Kept(k)
    BY <2>2, <2>3, SetsAfter DEF Kept
  <2> QED
    BY <1>0, <2>2, <2>3, <2>4, <2>5 DEF CountOf, Waits
<1> QED
  BY <1>1, <1>2

LEMMA KidsKept ==
    ASSUME IndInv, [Next]_vars, Keeps, NEW k \in Task
    PROVE  Completed(k)' = Completed(k) /\ LiveKids(k)' = LiveKids(k)
<1>1. ~TaskRuntime
  BY TaskRuntimeIs DEF Keeps
<1>2. ~RuntimeFinish
  BY RuntimeFinishIs DEF Keeps
<1> QED
  BY <1>1, <1>2, KidsStep

\* Who yields is not woken.
LEMMA YieldsAsleep ==
    ASSUME IndInv, NEW t \in Task, t = Top,
           \/ EventRun \/ AllOfBackYields \/ AnyOfBackYields \/ AllOfWakeYields
           \/ CancelEndYields \/ UnsupportYields
    PROVE  ~Woken(t)'
<1>1. Keeps /\ Yields
  BY EventRunIs, AllOfBackYieldsIs, AnyOfBackYieldsIs, AllOfWakeYieldsIs, CancelEndYieldsIs, UnsupportYieldsIs
     DEF AllOfBackYields, AnyOfBackYields, AllOfWakeYields, CancelEndYields, UnsupportYields
<1>2. ~Unwinds(running)
  BY YieldsFreely
<1>3. running' = block_to[Top] /\ uid'[t] = running /\ running # Loop /\ Busy(running)
  BY <1>1, KeepsFrame DEF Yields
<1>4. block_to[Top] # running
  BY <1>2, <1>3, YieldTo
<1> QED
  BY <1>3, <1>4 DEF Woken


\* What __task_cancel_children skips has ended.
LEMMA SkipsNone ==
    ASSUME IndInv, CancelSkip, NEW t \in Task, t = Top, act[t].i \in DOMAIN Children(t)
    PROVE  act[t].i \notin LiveKids(t)
<1> SUFFICES ASSUME act[t].i \in LiveKids(t) PROVE FALSE
  OBVIOUS
<1>1. PICK x \in Task : x = Children(t)[act[t].i]
  BY KidFacts DEF IndInv
<1>2. status[x] # "running" /\ running # Loop /\ Busy(running) /\ Pc(t) = "cancel"
  BY <1>1, CancelSkipIs, KeepsFrame
<1>3. Pc(x) # "none"
  BY <1>1 DEF LiveKids
<1>4. Busy(x) /\ uid[x] = x /\ Pc(Inner(x)) \in Waits
  BY <1>1, <1>2, <1>3, KidSuspended
<1>5. Pc(x) # "return"
  BY <1>4, BusyFacts DEF Waits
<1>6. status[x] = "canceled"
  BY <1>2, <1>3, <1>5 DEF IndInv, StatusInv
<1>7. Doomed(x)
  BY <1>3, <1>4, <1>6 DEF Doomed
<1>8. PICK l \in Task : \E m \in DOMAIN Children(l) : Children(l)[m] = x /\ Visited(l, m)
  BY <1>7 DEF IndInv, DoomInv
<1>9. PICK m \in DOMAIN Children(l) : Children(l)[m] = x /\ Visited(l, m)
  BY <1>8
<1>10. l = t /\ m = act[t].i /\ act[t].i \in Nat
  BY <1>1, <1>9, KidFacts, StackTypes DEF IndInv
<1> QED
  BY <1>2, <1>9, <1>10 DEF Visited

\* The counters of the combinator that moves.
LEMMA CountTop ==
    ASSUME IndInv, [Next]_vars, Keeps, NEW k \in Task, k = Top
    PROVE  CountOf(k)'
<1>0. PICK r, t : r = running /\ t = Top
  OBVIOUS
<1>a. k = t /\ k \in Task
  BY <1>0
<1> SUFFICES CountOf(t)'
  BY <1>a
<1>b. CountOf(t) /\ act[t].n \in Nat /\ act[t].i \in Nat /\ Kind(t)' = Kind(t)
  BY <1>a, ProgSame, StackTypes DEF IndInv, CountInv, CountOf, Kind
<1>c. Completed(t)' = Completed(t) /\ LiveKids(t)' = LiveKids(t)
  BY <1>a, KidsKept
<1>d. PICK n \in Nat, i \in Nat : n = act[t].n /\ i = act[t].i
  BY <1>b
<1>D. PICK D : D = DOMAIN Children(t)
  OBVIOUS
<1>e. \A S \in SUBSET D :
        /\ Cardinality(S) \in Nat /\ (S = {} => Cardinality(S) = 0)
        /\ \A j \in S : Cardinality(S \ {j}) = Cardinality(S) - 1
        /\ \A j \in D : j \notin S => Cardinality(S \cup {j}) = Cardinality(S) + 1
  BY <1>a, <1>d, <1>D, KidSets
<1>f. D \in SUBSET Nat /\ (\A j \in D : j >= 1) /\ Len(Children(t)) \in Nat /\ D = 1..Len(Children(t))
  BY <1>a, <1>d, <1>D, TaskFacts DEF IndInv
<1>g. /\ Awaited(t)' = D \ Completed(t)
      /\ AwaitedButOne(t)' = D \ (Completed(t) \ {act'[t].i})
      /\ Kept(t)' = {j \in LiveKids(t) : j < act'[t].i /\ (uid'[t] = running' \/ j # act'[t].i - 1)}
      /\ Completed(t) \in SUBSET D /\ LiveKids(t) \in SUBSET D
  BY <1>a, <1>c, <1>d, <1>D, SetsAfter
<1>TaskRuntime. CASE TaskRuntime
  BY <1>TaskRuntime, TaskRuntimeIs DEF Keeps
<1>Await. CASE Await
  <2>1. act'[Top].pc = "run" /\ act'[Top] = act'[t]
    BY <1>0, <1>Await, AwaitIs
  <2> QED
    BY <1>a, <2>1 DEF CountOf, Pc
<1>Start. CASE Start
  <2>1. /\ t \in Task
        /\ Pc(t) = "run"
        /\ act'[t].pc = "run"
        /\ act'[t].i = act[t].i + 1
        /\ act'[t].n = act[t].n
        /\ \A u \in Task : u # t => act'[u] = act[u]
        /\ uid' = uid /\ prog' = prog /\ stack' = stack /\ reuse' = reuse
    BY <1>0, <1>Start, StartIs, KeepsFrame, StartFx DEF Moves
  <2> QED
    BY <1>b, <2>1 DEF CountOf, Pc
<1>StartReject. CASE StartReject
  <2>1. /\ t \in Task
        /\ Pc(t) = "run"
        /\ act'[t].pc = "run"
        /\ act'[t].i = act[t].i + 1
        /\ act'[t].n = act[t].n
        /\ \A u \in Task : u # t => act'[u] = act[u]
        /\ uid' = uid /\ prog' = prog /\ stack' = stack /\ reuse' = reuse
    BY <1>0, <1>StartReject, StartRejectIs, KeepsFrame, CallIs DEF Moves, StartReject
  <2> QED
    BY <1>b, <2>1 DEF CountOf, Pc
<1>EventRun. CASE EventRun
  <2>1. /\ t \in Task
        /\ Pc(t) = "run"
        /\ act'[t].pc = "wait"
        /\ act'[t].i = act[t].i
        /\ act'[t].n = act[t].n
        /\ \A u \in Task : u # t => act'[u] = act[u]
        /\ uid' = uid /\ prog' = prog /\ stack' = stack /\ reuse' = reuse
        /\ Kind(t) = "event"
    BY <1>0, <1>EventRun, EventRunIs, KeepsFrame DEF Moves
  <2> QED
    BY <1>b, <2>1 DEF CountOf, Pc
<1>EventWake. CASE EventWake
  <2>1. /\ t \in Task
        /\ Pc(t) = "wait"
        /\ act'[t].pc = "return"
        /\ act'[t].i = act[t].i
        /\ act'[t].n = act[t].n
        /\ \A u \in Task : u # t => act'[u] = act[u]
        /\ uid' = uid /\ prog' = prog /\ stack' = stack /\ reuse' = reuse
    BY <1>0, <1>EventWake, EventWakeIs, KeepsFrame DEF Moves
  <2> QED
    BY <1>b, <2>1 DEF CountOf, Pc
<1>ChildrenReady. CASE ChildrenReady
  <2>1. /\ t \in Task
        /\ Pc(t) = "run"
        /\ act'[t].pc = "start"
        /\ act'[t].i = 1
        /\ act'[t].n = Len(Children(t))
        /\ \A u \in Task : u # t => act'[u] = act[u]
        /\ uid' = uid /\ prog' = prog /\ stack' = stack /\ reuse' = reuse
    BY <1>0, <1>ChildrenReady, ChildrenReadyIs, KeepsFrame DEF Moves
  <2>2. Completed(t) = {}
    BY <1>0, <1>ChildrenReady, ChildrenReadyIs DEF Completed
  <2>3. Cardinality(D) = Len(Children(t))
    BY <1>a, <1>d, <1>D, KidSets
  <2>4. Awaited(t)' = D
    BY <1>g, <2>2
  <2> QED
    BY <2>1, <2>3, <2>4 DEF CountOf, Pc
<1>ChildrenUnready. CASE ChildrenUnready
  <2>1. /\ t \in Task
        /\ Pc(t) = "run"
        /\ act'[t].pc = "return"
        /\ act'[t].i = act[t].i
        /\ act'[t].n = act[t].n
        /\ \A u \in Task : u # t => act'[u] = act[u]
        /\ uid' = uid /\ prog' = prog /\ stack' = stack /\ reuse' = reuse
    BY <1>0, <1>ChildrenUnready, ChildrenUnreadyIs, KeepsFrame DEF Moves
  <2> QED
    BY <1>b, <2>1 DEF CountOf, Pc
<1>StartChild. CASE StartChild
  <2>1. /\ t \in Task
        /\ Pc(t) = "start"
        /\ act'[t].pc = "child"
        /\ act'[t].i = act[t].i
        /\ act'[t].n = act[t].n
        /\ \A u \in Task : u # t => act'[u] = act[u]
        /\ uid' = uid /\ prog' = prog /\ stack' = stack /\ reuse' = reuse
    BY <1>0, <1>StartChild, StartChildIs, KeepsFrame DEF Moves
  <2>2. status[Children(t)[i]] = "ready"
    BY <1>0, <1>d, <1>D, <1>StartChild, StartChildFx
  <2>3. i \notin Completed(t)
    BY <2>2 DEF Completed
  <2>4. AwaitedButOne(t)' = Awaited(t)
    BY <1>d, <1>D, <1>g, <2>1, <2>3 DEF Awaited
  <2> QED
    BY <1>b, <2>1, <2>4 DEF CountOf, Pc
<1>AllOfBackYields. CASE AllOfBackYields
  <2>1. /\ t \in Task
        /\ Pc(t) = "child"
        /\ act'[t].pc = "wait"
        /\ act'[t].i = act[t].i + 1
        /\ act'[t].n = Count(Here)
        /\ \A u \in Task : u # t => act'[u] = act[u]
        /\ uid' = uid /\ prog' = prog /\ stack' = stack /\ reuse' = reuse
    BY <1>0, <1>AllOfBackYields, AllOfBackYieldsIs, KeepsFrame DEF AllOfBackYields, Moves
  <2>2. Kind(t) = "all_of" /\ n = Cardinality(AwaitedButOne(t))
    BY <1>0, <1>b, <1>d, <1>D, <2>1, <1>AllOfBackYields, AllOfBackYieldsIs DEF AllOfBackYields, CountOf
  <2>3. i \in D
    BY <1>0, <1>a, <1>d, <1>D, <2>1, <1>AllOfBackYields, AllOfBackYieldsIs, StartsKid DEF AllOfBackYields
  <2>4. Count(Here) = IF i \in Completed(t) THEN n - 1 ELSE n
    BY <1>0, <1>d, <1>D, <2>3 DEF Count, Here, Completed
  <2>5. AwaitedButOne(t) = D \ (Completed(t) \ {i})
    BY <1>d, <1>D DEF AwaitedButOne
  <2>6. Cardinality(Awaited(t)') = Count(Here)
    <3>1. CASE i \in Completed(t)
      <4>1. Awaited(t)' = AwaitedButOne(t) \ {i} /\ i \in AwaitedButOne(t)
        BY <1>g, <2>3, <2>5, <3>1
      <4> QED
        BY <1>e, <2>2, <2>4, <2>5, <3>1, <4>1
    <3>2. CASE i \notin Completed(t)
      <4>1. Awaited(t)' = AwaitedButOne(t)
        BY <1>g, <2>5, <3>2
      <4> QED
        BY <2>2, <2>4, <3>2, <4>1
    <3> QED
      BY <3>1, <3>2
  <2>7. ~Woken(t)'
    BY <1>0, <2>1, <1>AllOfBackYields, YieldsAsleep
  <2>8. Count(Here) > 0 /\ Count(Here) \in Nat
    <3>1. Count(Here) > 0
      BY <1>AllOfBackYields DEF AllOfBackYields
    <3> QED
      BY <1>e, <1>g, <2>6, <3>1
  <2> QED
    BY <1>b, <2>1, <2>6, <2>7, <2>8 DEF CountOf, Pc
<1>AllOfBackGoesOn. CASE AllOfBackGoesOn
  <2>1. /\ t \in Task
        /\ Pc(t) = "child"
        /\ act'[t].pc = (IF act[t].i = Len(Children(t)) THEN "return" ELSE "start")
        /\ act'[t].i = act[t].i + 1
        /\ act'[t].n = Count(Here)
        /\ \A u \in Task : u # t => act'[u] = act[u]
        /\ uid' = uid /\ prog' = prog /\ stack' = stack /\ reuse' = reuse
    BY <1>0, <1>AllOfBackGoesOn, AllOfBackGoesOnIs, KeepsFrame DEF AllOfBackGoesOn, Moves
  <2>2. Kind(t) = "all_of" /\ n = Cardinality(AwaitedButOne(t))
    BY <1>0, <1>b, <1>d, <1>D, <2>1, <1>AllOfBackGoesOn, AllOfBackGoesOnIs DEF AllOfBackGoesOn, CountOf
  <2>3. i \in D
    BY <1>0, <1>a, <1>d, <1>D, <2>1, <1>AllOfBackGoesOn, AllOfBackGoesOnIs, StartsKid DEF AllOfBackGoesOn
  <2>4. Count(Here) = IF i \in Completed(t) THEN n - 1 ELSE n
    BY <1>0, <1>d, <1>D, <2>3 DEF Count, Here, Completed
  <2>5. AwaitedButOne(t) = D \ (Completed(t) \ {i})
    BY <1>d, <1>D DEF AwaitedButOne
  <2>6. Cardinality(Awaited(t)') = Count(Here)
    <3>1. CASE i \in Completed(t)
      <4>1. Awaited(t)' = AwaitedButOne(t) \ {i} /\ i \in AwaitedButOne(t)
        BY <1>g, <2>3, <2>5, <3>1
      <4> QED
        BY <1>e, <2>2, <2>4, <2>5, <3>1, <4>1
    <3>2. CASE i \notin Completed(t)
      <4>1. Awaited(t)' = AwaitedButOne(t)
        BY <1>g, <2>5, <3>2
      <4> QED
        BY <2>2, <2>4, <3>2, <4>1
    <3> QED
      BY <3>1, <3>2
  <2> QED
    BY <1>b, <2>1, <2>6 DEF CountOf, Pc
<1>AnyOfBackWins. CASE AnyOfBackWins
  <2>1. /\ t \in Task
        /\ Pc(t) = "child"
        /\ act'[t].pc = "cancel"
        /\ act'[t].i = 1
        /\ act'[t].n = 0
        /\ \A u \in Task : u # t => act'[u] = act[u]
        /\ uid' = uid /\ prog' = prog /\ stack' = stack /\ reuse' = reuse
    BY <1>0, <1>AnyOfBackWins, AnyOfBackWinsIs, KeepsFrame DEF AnyOfBackWins, Moves
  <2>2. Kept(t)' = {}
    BY <1>f, <1>g, <2>1
  <2>3. Cardinality(Kept(t)') = 0
    BY <1>e, <2>2
  <2> QED
    BY <2>1, <2>3 DEF CountOf, Pc
<1>AnyOfBackGoesOn. CASE AnyOfBackGoesOn
  <2>1. /\ t \in Task
        /\ Pc(t) = "child"
        /\ act'[t].pc = "start"
        /\ act'[t].i = act[t].i + 1
        /\ act'[t].n = act[t].n
        /\ \A u \in Task : u # t => act'[u] = act[u]
        /\ uid' = uid /\ prog' = prog /\ stack' = stack /\ reuse' = reuse
    BY <1>0, <1>AnyOfBackGoesOn, AnyOfBackGoesOnIs, KeepsFrame DEF AnyOfBackGoesOn, Moves
  <2>2. Kind(t) = "any_of"
    BY <1>0, <1>AnyOfBackGoesOn, AnyOfBackGoesOnIs DEF AnyOfBackGoesOn
  <2> QED
    BY <1>b, <2>1, <2>2 DEF CountOf, Pc
<1>AnyOfBackYields. CASE AnyOfBackYields
  <2>1. /\ t \in Task
        /\ Pc(t) = "child"
        /\ act'[t].pc = "wait"
        /\ act'[t].i = act[t].i + 1
        /\ act'[t].n = act[t].n
        /\ \A u \in Task : u # t => act'[u] = act[u]
        /\ uid' = uid /\ prog' = prog /\ stack' = stack /\ reuse' = reuse
    BY <1>0, <1>AnyOfBackYields, AnyOfBackYieldsIs, KeepsFrame DEF AnyOfBackYields, Moves
  <2>2. Kind(t) = "any_of"
    BY <1>0, <1>AnyOfBackYields, AnyOfBackYieldsIs DEF AnyOfBackYields
  <2> QED
    BY <1>b, <2>1, <2>2 DEF CountOf, Pc
<1>AllOfWakeYields. CASE AllOfWakeYields
  <2>1. /\ t \in Task
        /\ Pc(t) = "wait"
        /\ act'[t].pc = "wait"
        /\ act'[t].i = act[t].i
        /\ act'[t].n = act[t].n - 1
        /\ \A u \in Task : u # t => act'[u] = act[u]
        /\ uid' = uid /\ prog' = prog /\ stack' = stack /\ reuse' = reuse
    BY <1>0, <1>AllOfWakeYields, AllOfWakeYieldsIs, KeepsFrame DEF AllOfWakeYields, Moves
  <2>2. Kind(t) = "all_of" /\ ~global_signal_canceled /\ n > 1 /\ uid[t] = running
    BY <1>0, <1>d, <1>D, <1>AllOfWakeYields, AllOfWakeYieldsIs, KeepsFrame DEF AllOfWakeYields
  <2>3. n = Cardinality(Awaited(t)) + 1
    BY <1>b, <1>d, <1>D, <2>1, <2>2 DEF CountOf, Woken
  <2>4. Awaited(t)' = Awaited(t)
    BY <1>d, <1>D, <1>g DEF Awaited
  <2>5. ~Woken(t)'
    BY <1>0, <2>1, <1>AllOfWakeYields, YieldsAsleep
  <2>6. Cardinality(Awaited(t)) \in Nat
    BY <1>d, <1>D, <1>e DEF Awaited
  <2> QED
    BY <1>d, <1>D, <2>1, <2>2, <2>3, <2>4, <2>5, <2>6 DEF CountOf, Pc
<1>AllOfWakeEnds. CASE AllOfWakeEnds
  <2>1. /\ t \in Task
        /\ Pc(t) = "wait"
        /\ act'[t].pc = "return"
        /\ act'[t].i = act[t].i
        /\ act'[t].n = 0
        /\ \A u \in Task : u # t => act'[u] = act[u]
        /\ uid' = uid /\ prog' = prog /\ stack' = stack /\ reuse' = reuse
    BY <1>0, <1>AllOfWakeEnds, AllOfWakeEndsIs, KeepsFrame DEF AllOfWakeEnds, Moves
  <2> QED
    BY <1>b, <2>1 DEF CountOf, Pc
<1>AnyOfWake. CASE AnyOfWake
  <2>1. /\ t \in Task
        /\ Pc(t) = "wait"
        /\ act'[t].pc = "cancel"
        /\ act'[t].i = 1
        /\ act'[t].n = 0
        /\ \A u \in Task : u # t => act'[u] = act[u]
        /\ uid' = uid /\ prog' = prog /\ stack' = stack /\ reuse' = reuse
    BY <1>0, <1>AnyOfWake, AnyOfWakeIs, KeepsFrame DEF Moves
  <2>2. Kept(t)' = {}
    BY <1>f, <1>g, <2>1
  <2>3. Cardinality(Kept(t)') = 0
    BY <1>e, <2>2
  <2> QED
    BY <2>1, <2>3 DEF CountOf, Pc
<1>CanceledDirectlyLeaf. CASE CanceledDirectlyLeaf
  <2>1. /\ t \in Task
        /\ Pc(t) = "wait"
        /\ act'[t].pc = "return"
        /\ act'[t].i = act[t].i
        /\ act'[t].n = act[t].n
        /\ \A u \in Task : u # t => act'[u] = act[u]
        /\ uid' = uid /\ prog' = prog /\ stack' = stack /\ reuse' = reuse
    BY <1>0, <1>CanceledDirectlyLeaf, CanceledDirectlyLeafIs, KeepsFrame
       DEF CanceledDirectlyLeaf, Moves
  <2> QED
    BY <1>b, <2>1 DEF CountOf, Pc
<1>CanceledDirectlyComb. CASE CanceledDirectlyComb
  <2>1. /\ t \in Task
        /\ Pc(t) = "wait"
        /\ act'[t].pc = "cancel"
        /\ act'[t].i = 1
        /\ act'[t].n = 0
        /\ \A u \in Task : u # t => act'[u] = act[u]
        /\ uid' = uid /\ prog' = prog /\ stack' = stack /\ reuse' = reuse
    BY <1>0, <1>CanceledDirectlyComb, CanceledDirectlyCombIs, KeepsFrame
       DEF CanceledDirectlyComb, Moves
  <2>2. Kept(t)' = {}
    BY <1>f, <1>g, <2>1
  <2>3. Cardinality(Kept(t)') = 0
    BY <1>e, <2>2
  <2> QED
    BY <2>1, <2>3 DEF CountOf, Pc
<1>CanceledIndirectly. CASE CanceledIndirectly
  <2>1. /\ t \in Task
        /\ Pc(t) = "wait"
        /\ act'[t].pc = "throw"
        /\ act'[t].i = act[t].i
        /\ act'[t].n = act[t].n
        /\ \A u \in Task : u # t => act'[u] = act[u]
        /\ uid' = uid /\ prog' = prog /\ stack' = stack /\ reuse' = reuse
    BY <1>0, <1>CanceledIndirectly, CanceledIndirectlyIs, KeepsFrame DEF Moves
  <2> QED
    BY <1>b, <2>1 DEF CountOf, Pc
<1>CatchLeaf. CASE CatchLeaf
  <2>1. /\ t \in Task
        /\ Pc(t) = "throw"
        /\ act'[t].pc = "caught"
        /\ act'[t].i = act[t].i
        /\ act'[t].n = act[t].n
        /\ \A u \in Task : u # t => act'[u] = act[u]
        /\ uid' = uid /\ prog' = prog /\ stack' = stack /\ reuse' = reuse
    BY <1>0, <1>CatchLeaf, CatchLeafIs, KeepsFrame DEF CatchLeaf, Moves
  <2> QED
    BY <1>b, <2>1 DEF CountOf, Pc
<1>CatchComb. CASE CatchComb
  <2>1. /\ t \in Task
        /\ Pc(t) = "throw"
        /\ act'[t].pc = "cancel"
        /\ act'[t].i = 1
        /\ act'[t].n = 0
        /\ \A u \in Task : u # t => act'[u] = act[u]
        /\ uid' = uid /\ prog' = prog /\ stack' = stack /\ reuse' = reuse
    BY <1>0, <1>CatchComb, CatchCombIs, KeepsFrame DEF CatchComb, Moves
  <2>2. Kept(t)' = {}
    BY <1>f, <1>g, <2>1
  <2>3. Cardinality(Kept(t)') = 0
    BY <1>e, <2>2
  <2> QED
    BY <2>1, <2>3 DEF CountOf, Pc
<1>CancelSkip. CASE CancelSkip
  <2>1. /\ t \in Task
        /\ Pc(t) = "cancel"
        /\ act'[t].pc = "cancel"
        /\ act'[t].i = act[t].i + 1
        /\ act'[t].n = act[t].n
        /\ \A u \in Task : u # t => act'[u] = act[u]
        /\ uid' = uid /\ prog' = prog /\ stack' = stack /\ reuse' = reuse
    BY <1>0, <1>CancelSkip, CancelSkipIs, KeepsFrame DEF Moves
  <2>2. uid[t] = running /\ running' = running /\ i \in D /\ i \notin LiveKids(t)
    <3>1. uid[t] = running /\ running' = running /\ i \in D
      BY <1>0, <1>d, <1>D, <1>CancelSkip, CancelSkipIs, KeepsFrame DEF Stays
    <3> QED
      BY <1>0, <1>d, <1>D, <1>CancelSkip, <2>1, <3>1, SkipsNone
  <2>3. Kept(t)' = Kept(t)
    BY <1>d, <1>D, <1>f, <1>g, <2>1, <2>2 DEF Kept
  <2> QED
    BY <1>b, <2>1, <2>3 DEF CountOf, Pc
<1>CancelUnsupport. CASE CancelUnsupport
  <2>1. /\ t \in Task
        /\ Pc(t) = "cancel"
        /\ act'[t].pc = "cancel"
        /\ act'[t].i = act[t].i + 1
        /\ act'[t].n = act[t].n + 1
        /\ \A u \in Task : u # t => act'[u] = act[u]
        /\ uid' = uid /\ prog' = prog /\ stack' = stack /\ reuse' = reuse
    BY <1>0, <1>CancelUnsupport, CancelUnsupportIs, KeepsFrame DEF Moves
  <2>2. uid[t] = running /\ running' = running /\ i \in D /\ i \in LiveKids(t)
    <3>1. uid[t] = running /\ running' = running /\ i \in D
      BY <1>0, <1>d, <1>D, <1>CancelUnsupport, CancelUnsupportIs, KeepsFrame DEF Stays
    <3>2. Pc(Children(t)[i]) # "none"
      BY <1>0, <1>d, <1>D, <1>CancelUnsupport, CancelUnsupportFx
    <3> QED
      BY <1>d, <1>D, <3>1, <3>2 DEF LiveKids
  <2>3. Kept(t)' = Kept(t) \cup {i} /\ i \notin Kept(t) /\ Kept(t) \in SUBSET D
    BY <1>d, <1>D, <1>f, <1>g, <2>1, <2>2 DEF Kept
  <2>4. Cardinality(Kept(t)') = Cardinality(Kept(t)) + 1
    BY <1>e, <2>2, <2>3
  <2> QED
    BY <1>b, <2>1, <2>4 DEF CountOf, Pc
<1>CancelInterrupt. CASE CancelInterrupt
  <2>1. /\ t \in Task
        /\ Pc(t) = "cancel"
        /\ act'[t].pc = "cancel"
        /\ act'[t].i = act[t].i + 1
        /\ act'[t].n = act[t].n
        /\ \A u \in Task : u # t => act'[u] = act[u]
        /\ uid' = uid /\ prog' = prog /\ stack' = stack /\ reuse' = reuse
    BY <1>0, <1>CancelInterrupt, CancelInterruptIs, KeepsFrame DEF Moves
  <2>2. uid[t] = running /\ running' # running /\ i \in D
    BY <1>0, <1>d, <1>D, <1>CancelInterrupt, CancelInterruptIs, CancelInterruptFx, KeepsFrame
  <2>3. Kept(t)' = Kept(t)
    BY <1>d, <1>D, <1>f, <1>g, <2>1, <2>2 DEF Kept
  <2> QED
    BY <1>b, <2>1, <2>3 DEF CountOf, Pc
<1>CancelEndYields. CASE CancelEndYields
  <2>1. /\ t \in Task
        /\ Pc(t) = "cancel"
        /\ act'[t].pc = "unsupport"
        /\ act'[t].i = act[t].i
        /\ act'[t].n = act[t].n
        /\ \A u \in Task : u # t => act'[u] = act[u]
        /\ uid' = uid /\ prog' = prog /\ stack' = stack /\ reuse' = reuse
    BY <1>0, <1>CancelEndYields, CancelEndYieldsIs, KeepsFrame DEF CancelEndYields, Moves
  <2>2. uid[t] = running /\ i > Len(Children(t)) /\ n > 0
    BY <1>0, <1>d, <1>D, <1>CancelEndYields, CancelEndYieldsIs, KeepsFrame DEF CancelEndYields
  <2>3. Kept(t) = LiveKids(t)
    BY <1>d, <1>D, <1>f, <1>g, <2>2 DEF Kept
  <2>4. ~Woken(t)'
    BY <1>0, <2>1, <1>CancelEndYields, YieldsAsleep
  <2>5. n = Cardinality(Kept(t))
    BY <1>b, <1>d, <1>D, <2>1 DEF CountOf
  <2> QED
    BY <1>c, <1>d, <1>D, <2>1, <2>2, <2>3, <2>4, <2>5 DEF CountOf, Pc
<1>CancelEndDone. CASE CancelEndDone
  <2>1. /\ t \in Task
        /\ Pc(t) = "cancel"
        /\ act'[t].pc = act[t].next
        /\ act'[t].i = act[t].i
        /\ act'[t].n = act[t].n
        /\ \A u \in Task : u # t => act'[u] = act[u]
        /\ uid' = uid /\ prog' = prog /\ stack' = stack /\ reuse' = reuse
    BY <1>0, <1>CancelEndDone, CancelEndDoneIs, KeepsFrame DEF CancelEndDone, Moves
  <2>2. act[t].next \in {"return", "caught"}
    BY <2>1, StackTypes
  <2> QED
    BY <1>b, <2>1, <2>2 DEF CountOf, Pc
<1>UnsupportYields. CASE UnsupportYields
  <2>1. /\ t \in Task
        /\ Pc(t) = "unsupport"
        /\ act'[t].pc = "unsupport"
        /\ act'[t].i = act[t].i
        /\ act'[t].n = act[t].n - 1
        /\ \A u \in Task : u # t => act'[u] = act[u]
        /\ uid' = uid /\ prog' = prog /\ stack' = stack /\ reuse' = reuse
    BY <1>0, <1>UnsupportYields, UnsupportYieldsIs, KeepsFrame DEF UnsupportYields, Moves
  <2>2. ~global_signal_canceled /\ n > 1 /\ uid[t] = running
    BY <1>0, <1>d, <1>D, <1>UnsupportYields, UnsupportYieldsIs, KeepsFrame DEF UnsupportYields
  <2>3. n = Cardinality(LiveKids(t)) + 1
    BY <1>b, <1>d, <1>D, <2>1, <2>2 DEF CountOf, Woken
  <2>4. ~Woken(t)'
    BY <1>0, <2>1, <1>UnsupportYields, YieldsAsleep
  <2>5. Cardinality(LiveKids(t)) \in Nat
    BY <1>e, <1>g
  <2> QED
    BY <1>c, <1>d, <1>D, <2>1, <2>2, <2>3, <2>4, <2>5 DEF CountOf, Pc
<1>UnsupportDone. CASE UnsupportDone
  <2>1. /\ t \in Task
        /\ Pc(t) = "unsupport"
        /\ act'[t].pc = act[t].next
        /\ act'[t].i = act[t].i
        /\ act'[t].n = 0
        /\ \A u \in Task : u # t => act'[u] = act[u]
        /\ uid' = uid /\ prog' = prog /\ stack' = stack /\ reuse' = reuse
    BY <1>0, <1>UnsupportDone, UnsupportDoneIs, KeepsFrame DEF UnsupportDone, Moves
  <2>2. act[t].next \in {"return", "caught"}
    BY <2>1, StackTypes
  <2> QED
    BY <1>b, <2>1, <2>2 DEF CountOf, Pc
<1>AwaitReturn. CASE AwaitReturn
  BY <1>AwaitReturn, PopsFx DEF Keeps
<1>AwaitReturnThrow. CASE AwaitReturnThrow
  BY <1>AwaitReturnThrow, PopsFx DEF Keeps
<1>AwaitRethrow. CASE AwaitRethrow
  BY <1>AwaitRethrow, PopsFx DEF Keeps
<1>RuntimeFinish. CASE RuntimeFinish
  BY <1>RuntimeFinish, RuntimeFinishIs DEF Keeps
<1>EventFires. CASE \E e \in Task : EventFires(e)
  BY <1>EventFires, EventFiresIs DEF Keeps
<1>Stutter. CASE UNCHANGED vars
  <2>1. CountOf(t)'
    <3>1. /\ Awaited(t)' = Awaited(t) /\ AwaitedButOne(t)' = AwaitedButOne(t) /\ Kept(t)' = Kept(t)
          /\ Woken(t)' = Woken(t) /\ Pc(t)' = Pc(t) /\ act' = act
      BY <1>Stutter, <1>c, <1>d, <1>D, <1>g DEF vars, controlVars, objectVars, Awaited, AwaitedButOne, Kept, Woken, Pc
    <3> QED
      BY <1>b, <1>c, <3>1 DEF CountOf
  <2> QED
    BY <1>a, <2>1
<1> QED
  BY StepCases, <1>TaskRuntime, <1>Await, <1>Start, <1>StartReject, <1>EventRun, <1>EventWake,
       <1>ChildrenReady, <1>ChildrenUnready, <1>StartChild, <1>AllOfBackYields,
       <1>AllOfBackGoesOn, <1>AnyOfBackWins, <1>AnyOfBackGoesOn, <1>AnyOfBackYields,
       <1>AllOfWakeYields, <1>AllOfWakeEnds, <1>AnyOfWake, <1>CanceledDirectlyLeaf,
       <1>CanceledDirectlyComb, <1>CanceledIndirectly, <1>CatchLeaf, <1>CatchComb, <1>CancelSkip,
       <1>CancelUnsupport, <1>CancelInterrupt, <1>CancelEndYields, <1>CancelEndDone,
       <1>UnsupportYields, <1>UnsupportDone, <1>AwaitReturn, <1>AwaitReturnThrow, <1>AwaitRethrow,
       <1>RuntimeFinish, <1>EventFires, <1>Stutter


LEMMA CountStep ==
    ASSUME IndInv, [Next]_vars
    PROVE  CountInv'
<1> SUFFICES ASSUME NEW k \in Task
             PROVE  CountOf(k)'
  BY DEF CountInv, CountOf
<1>1. CASE Pc(k)' \notin Past
  BY <1>1 DEF Past, CountOf
<1>2. CASE Keeps /\ k = Top
  BY <1>2, CountTop
<1>3. CASE UNCHANGED vars
  <2>1. CountOf(k)
    BY DEF IndInv, CountInv, CountOf
  <2>2. /\ Awaited(k)' = Awaited(k) /\ AwaitedButOne(k)' = AwaitedButOne(k) /\ Kept(k)' = Kept(k)
        /\ Woken(k)' = Woken(k) /\ Pc(k)' = Pc(k) /\ act' = act /\ LiveKids(k)' = LiveKids(k)
        /\ Kind(k)' = Kind(k)
    BY <1>3 DEF vars, controlVars, objectVars, Awaited, AwaitedButOne, Kept, Woken, Pc, LiveKids,
         Completed, Children, Kind
  <2> QED
    BY <2>1, <2>2 DEF CountOf
<1>4. CASE /\ Pc(k)' \in Past
           /\ act'[k] = act[k] /\ uid'[k] = uid[k] /\ uid[k] # running
           /\ uid[k] \in Task /\ Inner(uid[k]) = k
           /\ Pc(k) \in {"child", "cancel"} \/ Pc(k) \in Waits
  <2>1. CASE Kind(k) \in Combinators
    BY <1>4, <2>1, CountOther
  <2>2. CASE Kind(k) \notin Combinators
    <3>1. Pc(k)' = Pc(k) /\ Kind(k)' = Kind(k)
      BY <1>4, ProgSame DEF Pc, Kind
    <3>2. Pc(k) \notin {"cancel", "unsupport"} /\ Kind(k) # "all_of"
      BY <2>2, TaskFacts DEF IndInv, PcInv, Kinds, Combinators
    <3> QED
      BY <3>1, <3>2 DEF CountOf
  <2> QED
    BY <2>1, <2>2
<1> QED
  BY <1>1, <1>2, <1>3, <1>4, SettledStep

\* The children of a combinator that is not at work.
LEMMA KidsQuiet ==
    ASSUME IndInv, [Next]_vars, NEW k \in Task, Pc(k) \notin AtWork
    PROVE  /\ \A j \in DOMAIN Children(k) : status'[Children(k)[j]] = status[Children(k)[j]]
           /\ \A j \in DOMAIN Children(k) : status[Children(k)[j]] # "running"
           /\ Completed(k)' = Completed(k)
<1>1. ASSUME NEW j \in DOMAIN Children(k)
      PROVE  /\ status'[Children(k)[j]] = status[Children(k)[j]] /\ status[Children(k)[j]] # "running"
             /\ Children(k)[j] # running
  <2>1. PICK x \in Task : x = Children(k)[j]
    BY KidFacts DEF IndInv
  <2>2. x # running /\ Pc(x) = "none"
    BY <2>1 DEF IndInv, FinishInv, Begun
  <2>3. status[x] # "running"
    BY <2>2 DEF IndInv, StatusInv
  <2> QED
    BY <2>1, <2>2, <2>3, KidStatusStep
<1>2. Completed(k)' = Completed(k)
  BY <1>1, KidsStep
<1> QED
  BY <1>1, <1>2

LEMMA WinnerStays ==
    ASSUME IndInv, [Next]_vars, NEW k \in Task, Winner(k), completed_id'[k] = completed_id[k],
           \/ Completed(k)' = Completed(k)
           \/ \E j \in DOMAIN Children(k) : /\ Completed(k)' = Completed(k) \cup {j}
                                            /\ uninterruptable[Children(k)[j]]
    PROVE  Winner(k)'
<1>1. Children(k)' = Children(k) /\ \A j \in DOMAIN Children(k) : Children(k)[j] \in Task
  BY ProgSame, KidFacts DEF Children, IndInv
<1>2. Completed(k) \subseteq DOMAIN Children(k)
  BY DEF Completed
<1>3. \A j \in Completed(k)' \ {completed_id[k]} : uninterruptable[Children(k)[j]] /\ j \in DOMAIN Children(k)
  BY <1>2 DEF Winner
<1>4. \A j \in Completed(k)' \ {completed_id[k]} : uninterruptable'[Children(k)[j]]
  BY <1>1, <1>3, CanceledStep
<1>5. completed_id[k] \in Completed(k)'
  BY DEF Winner
<1> QED
  BY <1>1, <1>4, <1>5 DEF Winner

LEMMA KidCompletes ==
    ASSUME IndInv, [Next]_vars, RuntimeFinish, NEW k \in Task, NEW j \in DOMAIN Children(k),
           Children(k)[j] = running
    PROVE  /\ Completed(k)' = Completed(k) \/ (status[running] = "running" /\ Completed(k)' = Completed(k) \cup {j})
           /\ status[running] = "running" => Completed(k)' = Completed(k) \cup {j}
           /\ Woken(k)'
<1>1. \A m \in DOMAIN Children(k) : Children(k)[m] = running => m = j
  BY KidFacts DEF IndInv
<1>2. status[running] = "running" => j \in Completed(k)' /\ j \notin Completed(k)
  <2>1. Children(k)' = Children(k)
    BY ProgSame DEF Children
  <2>2. status[running] = "running" => status'[running] = "completed"
    BY FinishKidTo
  <2> QED
    BY <2>1, <2>2 DEF Completed
<1>3. Woken(k)'
  BY FinishKid, RuntimeFinishIs DEF Woken
<1> QED
  BY <1>1, <1>2, <1>3, KidsStep

\* A child that completes after __task_cancel_children has seen it could not be
\* interrupted.
LEMMA LateCompletion ==
    ASSUME IndInv, RuntimeFinish, NEW k \in Task, NEW j \in DOMAIN Children(k), Children(k)[j] = running,
           status[running] = "running", Pc(k) \in {"cancel", "unsupport"}
    PROVE  uninterruptable[Children(k)[j]]
<1>1. /\ running \in Task /\ Busy(running) /\ Inner(running) = running /\ Top = running
      /\ Pc(running) \in {"return", "caught", "run"} /\ running # Loop
  BY RuntimeFinishIs
<1>2. Visited(k, j)
  <2>1. act[k].i \in Nat /\ (Pc(k) = "cancel" => act[k].i - 1 = j)
    BY FinishKid, StackTypes
  <2> QED
    BY <2>1 DEF Visited
<1>3. j \in LiveKids(k)
  BY <1>1 DEF LiveKids
<1>4. ~Doomed(running)
  <2>1. ASSUME NEW t \in Task, Pc(t) # "none", uid[t] = running, status[t] = "canceled" PROVE FALSE
    <3>1. t # running
      BY <2>1
    <3>2. PICK m \in 1..Len(stack[running]) : stack[running][m] = t
      BY <2>1 DEF IndInv, StackInv
    <3>3. Len(stack[running]) = 1
      BY <1>1, BusyFacts
    <3>4. m = 1
      BY <3>2, <3>3
    <3> QED
      BY <1>1, <3>1, <3>2, <3>4 DEF Inner
  <2> QED
    BY <1>1, <2>1 DEF Doomed
<1> QED
  BY <1>2, <1>3, <1>4 DEF IndInv, DoomInv

\* The result of a combinator that does not move.
LEMMA ResultOther ==
    ASSUME IndInv, [Next]_vars, NEW k \in Task, Kind(k) \in Combinators,
           act'[k] = act[k], uid'[k] = uid[k], uid[k] # running, uid[k] \in Task, Inner(uid[k]) = k,
           cancels'[k] = cancels[k], completed_id'[k] = completed_id[k],
           Pc(k) \in {"child", "cancel"} \/ Pc(k) \in Waits
    PROVE  /\ Kind(k) = "any_of" => AnyOfResult(k)'
           /\ Kind(k) = "all_of" => AllOfResult(k)'
<1>0. /\ ~Woken(k) /\ Pc(k)' = Pc(k)
      /\ Kind(k) = "any_of" => AnyOfResult(k)
      /\ Kind(k) = "all_of" => AllOfResult(k)
  BY DEF IndInv, ResultInv, Woken, Pc
<1>a. Busy(uid[k]) /\ Kind(k) # "event" /\ Pc(k) # "return"
  BY LiveFacts DEF Waits, Combinators
<1>b. Naturally(k)' => Naturally(k)
  <2>1. status[k] # "child_unready"
    BY <1>a DEF IndInv, StatusInv, Waits
  <2> QED
    BY <2>1 DEF Naturally
<1>c. Pc(k) # "start" /\ Pc(k) # "none"
  BY DEF Waits
<1>1. Kind(k) = "all_of" => AllOfResult(k)'
  BY <1>0, <1>a DEF AllOfResult
<1>2. ASSUME Kind(k) = "any_of" PROVE AnyOfResult(k)'
  <2>0. AnyOfResult(k)
    BY <1>0, <1>2
  <2>1. CASE RuntimeFinish /\ \E j \in DOMAIN Children(k) : Children(k)[j] = running
    <3>1. PICK j \in DOMAIN Children(k) : RuntimeFinish /\ Children(k)[j] = running
      BY <2>1
    <3>2. /\ Pc(k) = "child" => act[k].i = j
          /\ Pc(k) = "wait" => status[running] = "running"
      BY <3>1, FinishKid
    <3>3. /\ Completed(k)' = Completed(k) \/ (status[running] = "running" /\ Completed(k)' = Completed(k) \cup {j})
          /\ status[running] = "running" => Completed(k)' = Completed(k) \cup {j}
          /\ Woken(k)'
      BY <3>1, KidCompletes
    <3>4. Pc(k) = "child" => Completed(k)' \subseteq {act'[k].i}
      BY <2>0, <3>2, <3>3 DEF AnyOfResult
    <3>5. Pc(k) = "wait" => \E m \in DOMAIN Children(k)' : Completed(k)' = {m}
      <4>1. Pc(k) = "wait" => Completed(k)' = {j}
        BY <1>0, <2>0, <3>2, <3>3 DEF AnyOfResult
      <4>2. j \in DOMAIN Children(k)'
        BY KidsStep
      <4> QED
        BY <4>1, <4>2
    <3>6. ASSUME Pc(k) \in {"cancel", "unsupport"}, Naturally(k)' PROVE Winner(k)'
      <4>1. Winner(k)
        BY <1>b, <2>0, <3>6 DEF AnyOfResult
      <4>2. status[running] = "running" => uninterruptable[Children(k)[j]]
        BY <3>1, <3>6, LateCompletion
      <4> QED
        BY <3>3, <4>1, <4>2, WinnerStays
    <3> QED
      BY <1>0, <1>a, <1>c, <3>3, <3>4, <3>5, <3>6 DEF AnyOfResult
  <2>2. CASE ~(RuntimeFinish /\ \E j \in DOMAIN Children(k) : Children(k)[j] = running)
    <3>1. Completed(k)' = Completed(k)
      BY <2>2, KidsStep
    <3>2. Pc(k) = "wait" => ~Woken(k)'
      <4>1. running' = uid[k] /\ Pc(k) = "wait" => global_signal_canceled' = TRUE
        BY <1>a, <2>2, BackTo DEF Waits
      <4> QED
        BY <4>1 DEF Woken
    <3>3. ASSUME Pc(k) \in {"cancel", "unsupport"}, Naturally(k)' PROVE Winner(k)'
      <4>1. Winner(k)
        BY <1>b, <2>0, <3>3 DEF AnyOfResult
      <4> QED
        BY <3>1, <4>1, WinnerStays
    <3> QED
      BY <1>0, <1>a, <1>c, <2>0, <3>1, <3>2, <3>3 DEF AnyOfResult
  <2> QED
    BY <2>1, <2>2
<1> QED
  BY <1>1, <1>2

\* The result of the combinator that moves.
LEMMA ResultTop ==
    ASSUME IndInv, [Next]_vars, Keeps, NEW k \in Task, k = Top
    PROVE  /\ Kind(k) = "any_of" => AnyOfResult(k)'
           /\ Kind(k) = "all_of" => AllOfResult(k)'
<1>0. PICK r, t : r = running /\ t = Top
  OBVIOUS
<1>a. k = t /\ k \in Task
  BY <1>0
<1> SUFFICES /\ Kind(t) = "any_of" => AnyOfResult(t)'
             /\ Kind(t) = "all_of" => AllOfResult(t)'
  BY <1>a
<1>b. /\ Kind(t) = "any_of" => AnyOfResult(t)
      /\ Kind(t) = "all_of" => AllOfResult(t)
      /\ cancels[t] \in Nat /\ completed_id[t] \in Nat /\ status[t] \in Status /\ act[t].i \in Nat
  BY <1>a, StackTypes DEF IndInv, ResultInv, TypeOK
<1>c. Completed(t)' = Completed(t) /\ Completed(t) \subseteq DOMAIN Children(t)
  BY <1>a, KidsKept DEF Completed
<1>d. Winner(t) /\ completed_id'[t] = completed_id[t] => Winner(t)'
  BY <1>a, <1>c, WinnerStays
<1>e. Pc(t) # "return" => status[t] # "child_unready"
  BY <1>a, KeepsFrame DEF IndInv, StatusInv
<1>f. DOMAIN Children(t)' = DOMAIN Children(t) /\ Children(t)' = Children(t)
  BY ProgSame DEF Children
<1>g. Winner(t)' <=> /\ completed_id'[t] \in Completed(t)
                     /\ \A j \in Completed(t) \ {completed_id'[t]} : uninterruptable'[Children(t)[j]]
  BY <1>c, <1>f DEF Winner
<1>TaskRuntime. CASE TaskRuntime
  BY <1>TaskRuntime, TaskRuntimeIs DEF Keeps
<1>Await. CASE Await
  <2>1. act'[Top].pc = "run" /\ act'[Top] = act'[t]
    BY <1>0, <1>Await, AwaitIs
  <2> QED
    BY <1>a, <2>1 DEF AnyOfResult, AllOfResult, Pc
<1>Start. CASE Start
  <2>1. /\ t \in Task
        /\ Pc(t) = "run"
        /\ act'[t].pc = "run"
        /\ act'[t].i = act[t].i + 1
        /\ \A u \in Task : u # t => act'[u] = act[u]
        /\ uid' = uid /\ prog' = prog /\ stack' = stack /\ reuse' = reuse
    BY <1>0, <1>Start, StartIs, KeepsFrame, StartFx DEF Moves
  <2> QED
    BY <2>1 DEF AnyOfResult, AllOfResult, Pc
<1>StartReject. CASE StartReject
  <2>1. /\ t \in Task
        /\ Pc(t) = "run"
        /\ act'[t].pc = "run"
        /\ act'[t].i = act[t].i + 1
        /\ \A u \in Task : u # t => act'[u] = act[u]
        /\ uid' = uid /\ prog' = prog /\ stack' = stack /\ reuse' = reuse
    BY <1>0, <1>StartReject, StartRejectIs, KeepsFrame, CallIs DEF Moves, StartReject
  <2> QED
    BY <2>1 DEF AnyOfResult, AllOfResult, Pc
<1>EventRun. CASE EventRun
  <2>1. /\ t \in Task
        /\ Pc(t) = "run"
        /\ act'[t].pc = "wait"
        /\ act'[t].i = act[t].i
        /\ \A u \in Task : u # t => act'[u] = act[u]
        /\ uid' = uid /\ prog' = prog /\ stack' = stack /\ reuse' = reuse
    BY <1>0, <1>EventRun, EventRunIs, KeepsFrame DEF Moves
  <2>2. Kind(t) \notin {"any_of", "all_of"}
    BY <1>0, <1>EventRun, EventRunIs DEF Combinators
  <2> QED
    BY <2>2
<1>EventWake. CASE EventWake
  <2>1. /\ t \in Task
        /\ Pc(t) = "wait"
        /\ act'[t].pc = "return"
        /\ act'[t].i = act[t].i
        /\ \A u \in Task : u # t => act'[u] = act[u]
        /\ uid' = uid /\ prog' = prog /\ stack' = stack /\ reuse' = reuse
    BY <1>0, <1>EventWake, EventWakeIs, KeepsFrame DEF Moves
  <2>2. Kind(t) \notin {"any_of", "all_of"}
    BY <1>0, <1>EventWake, EventWakeIs DEF Combinators
  <2> QED
    BY <2>2
<1>ChildrenReady. CASE ChildrenReady
  <2>1. /\ t \in Task
        /\ Pc(t) = "run"
        /\ act'[t].pc = "start"
        /\ act'[t].i = 1
        /\ \A u \in Task : u # t => act'[u] = act[u]
        /\ uid' = uid /\ prog' = prog /\ stack' = stack /\ reuse' = reuse
    BY <1>0, <1>ChildrenReady, ChildrenReadyIs, KeepsFrame DEF Moves
  <2>2. Completed(t) = {}
    BY <1>0, <1>ChildrenReady, ChildrenReadyIs DEF Completed
  <2> QED
    BY <1>c, <2>1, <2>2 DEF AnyOfResult, AllOfResult, Pc
<1>ChildrenUnready. CASE ChildrenUnready
  <2>1. /\ t \in Task
        /\ Pc(t) = "run"
        /\ act'[t].pc = "return"
        /\ act'[t].i = act[t].i
        /\ \A u \in Task : u # t => act'[u] = act[u]
        /\ uid' = uid /\ prog' = prog /\ stack' = stack /\ reuse' = reuse
    BY <1>0, <1>ChildrenUnready, ChildrenUnreadyIs, KeepsFrame DEF Moves
  <2>2. status'[t] = "child_unready"
    <3>1. status \in [Task -> Status]
      BY DEF IndInv, TypeOK
    <3> QED
      BY <1>0, <1>ChildrenUnready, <2>1, <3>1, ChildrenUnreadyIs
  <2> QED
    BY <2>1, <2>2 DEF AnyOfResult, AllOfResult, Naturally, Pc
<1>StartChild. CASE StartChild
  <2>1. /\ t \in Task
        /\ Pc(t) = "start"
        /\ act'[t].pc = "child"
        /\ act'[t].i = act[t].i
        /\ \A u \in Task : u # t => act'[u] = act[u]
        /\ uid' = uid /\ prog' = prog /\ stack' = stack /\ reuse' = reuse
    BY <1>0, <1>StartChild, StartChildIs, KeepsFrame DEF Moves
  <2>2. Kind(t) = "any_of" => Completed(t) = {}
    BY <1>b, <2>1 DEF AnyOfResult
  <2> QED
    BY <1>c, <2>1, <2>2 DEF AnyOfResult, AllOfResult, Pc
<1>AllOfBackYields. CASE AllOfBackYields
  <2>1. /\ t \in Task
        /\ Pc(t) = "child"
        /\ act'[t].pc = "wait"
        /\ act'[t].i = act[t].i + 1
        /\ \A u \in Task : u # t => act'[u] = act[u]
        /\ uid' = uid /\ prog' = prog /\ stack' = stack /\ reuse' = reuse
    BY <1>0, <1>AllOfBackYields, AllOfBackYieldsIs, KeepsFrame DEF AllOfBackYields, Moves
  <2>2. Kind(t) = "all_of"
    BY <1>0, <1>AllOfBackYields, AllOfBackYieldsIs DEF AllOfBackYields
  <2> QED
    BY <2>1, <2>2 DEF AllOfResult, Pc
<1>AllOfBackGoesOn. CASE AllOfBackGoesOn
  <2>1. /\ t \in Task
        /\ Pc(t) = "child"
        /\ act'[t].pc = (IF act[t].i = Len(Children(t)) THEN "return" ELSE "start")
        /\ act'[t].i = act[t].i + 1
        /\ \A u \in Task : u # t => act'[u] = act[u]
        /\ uid' = uid /\ prog' = prog /\ stack' = stack /\ reuse' = reuse
    BY <1>0, <1>AllOfBackGoesOn, AllOfBackGoesOnIs, KeepsFrame DEF AllOfBackGoesOn, Moves
  <2>2. Kind(t) = "all_of"
    BY <1>0, <1>AllOfBackGoesOn, AllOfBackGoesOnIs DEF AllOfBackGoesOn
  <2>3. act'[t].pc = "return" => Completed(t) = DOMAIN Children(t)
    <3>1. act'[t].pc = "return" => act[t].i = Len(Children(t)) \/ AllOfWakeEnds
      BY <1>AllOfBackGoesOn, <2>1
    <3> QED
      BY <1>0, <1>AllOfBackGoesOn, <2>1, <3>1, AllOfDone
  <2>4. act'[t].pc \in {"return", "start"}
    BY <2>1
  <2> QED
    BY <1>c, <1>f, <2>2, <2>3, <2>4 DEF AllOfResult, Pc
<1>AnyOfBackWins. CASE AnyOfBackWins
  <2>1. /\ t \in Task
        /\ Pc(t) = "child"
        /\ act'[t].pc = "cancel"
        /\ act'[t].i = 1
        /\ \A u \in Task : u # t => act'[u] = act[u]
        /\ uid' = uid /\ prog' = prog /\ stack' = stack /\ reuse' = reuse
    BY <1>0, <1>AnyOfBackWins, AnyOfBackWinsIs, KeepsFrame DEF AnyOfBackWins, Moves
  <2>2. /\ Kind(t) = "any_of" /\ status[Children(t)[act[t].i]] = "completed" /\ completed_id'[t] = act[t].i
        /\ act[t].i \in DOMAIN Children(t)
    <3>1. completed_id \in [Task -> Nat]
      BY DEF IndInv, TypeOK
    <3> QED
      BY <1>0, <1>AnyOfBackWins, <2>1, <3>1, AnyOfBackWinsIs, StartsKid DEF AnyOfBackWins
  <2>3. act[t].i \in Completed(t)
    BY <2>2 DEF Completed
  <2>4. Completed(t) \subseteq {act[t].i}
    BY <1>b, <2>1, <2>2 DEF AnyOfResult
  <2>5. Winner(t)'
    BY <1>g, <2>2, <2>3, <2>4
  <2> QED
    BY <2>1, <2>2, <2>5 DEF AnyOfResult, Pc
<1>AnyOfBackGoesOn. CASE AnyOfBackGoesOn
  <2>1. /\ t \in Task
        /\ Pc(t) = "child"
        /\ act'[t].pc = "start"
        /\ act'[t].i = act[t].i + 1
        /\ \A u \in Task : u # t => act'[u] = act[u]
        /\ uid' = uid /\ prog' = prog /\ stack' = stack /\ reuse' = reuse
    BY <1>0, <1>AnyOfBackGoesOn, AnyOfBackGoesOnIs, KeepsFrame DEF AnyOfBackGoesOn, Moves
  <2>2. Kind(t) = "any_of" /\ status[Children(t)[act[t].i]] # "completed"
    BY <1>0, <1>AnyOfBackGoesOn, AnyOfBackGoesOnIs DEF AnyOfBackGoesOn
  <2>3. act[t].i \notin Completed(t)
    BY <2>2 DEF Completed
  <2>4. Completed(t) \subseteq {act[t].i}
    BY <1>b, <2>1, <2>2 DEF AnyOfResult
  <2>5. Completed(t)' = {}
    BY <1>c, <2>3, <2>4
  <2> QED
    BY <2>1, <2>2, <2>5 DEF AnyOfResult, Pc
<1>AnyOfBackYields. CASE AnyOfBackYields
  <2>1. /\ t \in Task
        /\ Pc(t) = "child"
        /\ act'[t].pc = "wait"
        /\ act'[t].i = act[t].i + 1
        /\ \A u \in Task : u # t => act'[u] = act[u]
        /\ uid' = uid /\ prog' = prog /\ stack' = stack /\ reuse' = reuse
    BY <1>0, <1>AnyOfBackYields, AnyOfBackYieldsIs, KeepsFrame DEF AnyOfBackYields, Moves
  <2>2. Kind(t) = "any_of" /\ status[Children(t)[act[t].i]] # "completed"
    BY <1>0, <1>AnyOfBackYields, AnyOfBackYieldsIs DEF AnyOfBackYields
  <2>3. act[t].i \notin Completed(t)
    BY <2>2 DEF Completed
  <2>4. Completed(t) \subseteq {act[t].i}
    BY <1>b, <2>1, <2>2 DEF AnyOfResult
  <2>5. Completed(t)' = {}
    BY <1>c, <2>3, <2>4
  <2>6. ~Woken(t)'
    BY <1>0, <2>1, <1>AnyOfBackYields, YieldsAsleep
  <2> QED
    BY <2>1, <2>2, <2>5, <2>6 DEF AnyOfResult, Pc
<1>AllOfWakeYields. CASE AllOfWakeYields
  <2>1. /\ t \in Task
        /\ Pc(t) = "wait"
        /\ act'[t].pc = "wait"
        /\ act'[t].i = act[t].i
        /\ \A u \in Task : u # t => act'[u] = act[u]
        /\ uid' = uid /\ prog' = prog /\ stack' = stack /\ reuse' = reuse
    BY <1>0, <1>AllOfWakeYields, AllOfWakeYieldsIs, KeepsFrame DEF AllOfWakeYields, Moves
  <2>2. Kind(t) = "all_of"
    BY <1>0, <1>AllOfWakeYields, AllOfWakeYieldsIs DEF AllOfWakeYields
  <2> QED
    BY <2>1, <2>2 DEF AllOfResult, Pc
<1>AllOfWakeEnds. CASE AllOfWakeEnds
  <2>1. /\ t \in Task
        /\ Pc(t) = "wait"
        /\ act'[t].pc = "return"
        /\ act'[t].i = act[t].i
        /\ \A u \in Task : u # t => act'[u] = act[u]
        /\ uid' = uid /\ prog' = prog /\ stack' = stack /\ reuse' = reuse
    BY <1>0, <1>AllOfWakeEnds, AllOfWakeEndsIs, KeepsFrame DEF AllOfWakeEnds, Moves
  <2>2. Kind(t) = "all_of"
    BY <1>0, <1>AllOfWakeEnds, AllOfWakeEndsIs DEF AllOfWakeEnds
  <2>3. act'[t].pc = "return" => Completed(t) = DOMAIN Children(t)
    <3>1. act'[t].pc = "return" => act[t].i = Len(Children(t)) \/ AllOfWakeEnds
      BY <1>AllOfWakeEnds, <2>1
    <3> QED
      BY <1>0, <1>AllOfWakeEnds, <2>1, <3>1, AllOfDone
  <2>4. act'[t].pc \in {"return", "start"}
    BY <2>1
  <2> QED
    BY <1>c, <1>f, <2>2, <2>3, <2>4 DEF AllOfResult, Pc
<1>AnyOfWake. CASE AnyOfWake
  <2>1. /\ t \in Task
        /\ Pc(t) = "wait"
        /\ act'[t].pc = "cancel"
        /\ act'[t].i = 1
        /\ \A u \in Task : u # t => act'[u] = act[u]
        /\ uid' = uid /\ prog' = prog /\ stack' = stack /\ reuse' = reuse
    BY <1>0, <1>AnyOfWake, AnyOfWakeIs, KeepsFrame DEF Moves
  <2>2. Kind(t) = "any_of" /\ ~global_signal_canceled /\ uid[t] = running
    BY <1>0, <1>AnyOfWake, AnyOfWakeIs, KeepsFrame
  <2>3. PICK j \in DOMAIN Children(t) : Completed(t) = {j}
    BY <1>b, <2>1, <2>2 DEF AnyOfResult, Woken
  <2>4. completed_id'[t] = j
    <3>1. completed_id \in [Task -> Nat]
      BY DEF IndInv, TypeOK
    <3>2. PICK w \in Nat : completed_id' = [completed_id EXCEPT ![t] = w] /\ w \in Completed(t)
      BY <1>0, <1>AnyOfWake, <2>3, AnyOfWakeIs
    <3> QED
      BY <2>1, <2>3, <3>1, <3>2
  <2>5. Winner(t)'
    BY <1>g, <2>3, <2>4
  <2> QED
    BY <2>1, <2>2, <2>5 DEF AnyOfResult, Pc
<1>CanceledDirectlyLeaf. CASE CanceledDirectlyLeaf
  <2>1. /\ t \in Task
        /\ Pc(t) = "wait"
        /\ act'[t].pc = "return"
        /\ act'[t].i = act[t].i
        /\ \A u \in Task : u # t => act'[u] = act[u]
        /\ uid' = uid /\ prog' = prog /\ stack' = stack /\ reuse' = reuse
    BY <1>0, <1>CanceledDirectlyLeaf, CanceledDirectlyLeafIs, KeepsFrame
       DEF CanceledDirectlyLeaf, Moves
  <2>2. Kind(t) \notin {"any_of", "all_of"}
    BY <1>0, <1>CanceledDirectlyLeaf, CanceledDirectlyLeafIs DEF CanceledDirectlyLeaf, Combinators
  <2> QED
    BY <2>2
<1>CanceledDirectlyComb. CASE CanceledDirectlyComb
  <2>1. /\ t \in Task
        /\ Pc(t) = "wait"
        /\ act'[t].pc = "cancel"
        /\ act'[t].i = 1
        /\ \A u \in Task : u # t => act'[u] = act[u]
        /\ uid' = uid /\ prog' = prog /\ stack' = stack /\ reuse' = reuse
    BY <1>0, <1>CanceledDirectlyComb, CanceledDirectlyCombIs, KeepsFrame
       DEF CanceledDirectlyComb, Moves
  <2>2. cancels[t] = 0
    BY <2>1 DEF IndInv, CancelsInv, WasCanceled
  <2>3. cancels'[t] = 1
    <3>1. cancels \in [Task -> Nat]
      BY DEF IndInv, TypeOK
    <3> QED
      BY <1>0, <1>CanceledDirectlyComb, <2>1, <2>2, <3>1, CanceledDirectlyCombIs DEF CanceledDirectlyComb
  <2> QED
    BY <2>1, <2>3 DEF AnyOfResult, AllOfResult, Naturally, Pc
<1>CanceledIndirectly. CASE CanceledIndirectly
  <2>1. /\ t \in Task
        /\ Pc(t) = "wait"
        /\ act'[t].pc = "throw"
        /\ act'[t].i = act[t].i
        /\ \A u \in Task : u # t => act'[u] = act[u]
        /\ uid' = uid /\ prog' = prog /\ stack' = stack /\ reuse' = reuse
    BY <1>0, <1>CanceledIndirectly, CanceledIndirectlyIs, KeepsFrame DEF Moves
  <2> QED
    BY <2>1 DEF AnyOfResult, AllOfResult, Pc
<1>CatchLeaf. CASE CatchLeaf
  <2>1. /\ t \in Task
        /\ Pc(t) = "throw"
        /\ act'[t].pc = "caught"
        /\ act'[t].i = act[t].i
        /\ \A u \in Task : u # t => act'[u] = act[u]
        /\ uid' = uid /\ prog' = prog /\ stack' = stack /\ reuse' = reuse
    BY <1>0, <1>CatchLeaf, CatchLeafIs, KeepsFrame DEF CatchLeaf, Moves
  <2> QED
    BY <2>1 DEF AnyOfResult, AllOfResult, Pc
<1>CatchComb. CASE CatchComb
  <2>1. /\ t \in Task
        /\ Pc(t) = "throw"
        /\ act'[t].pc = "cancel"
        /\ act'[t].i = 1
        /\ \A u \in Task : u # t => act'[u] = act[u]
        /\ uid' = uid /\ prog' = prog /\ stack' = stack /\ reuse' = reuse
    BY <1>0, <1>CatchComb, CatchCombIs, KeepsFrame DEF CatchComb, Moves
  <2>2. cancels[t] = 0
    BY <2>1 DEF IndInv, CancelsInv, WasCanceled
  <2>3. cancels'[t] = 1
    <3>1. cancels \in [Task -> Nat]
      BY DEF IndInv, TypeOK
    <3> QED
      BY <1>0, <1>CatchComb, <2>1, <2>2, <3>1, CatchCombIs DEF CatchComb
  <2> QED
    BY <2>1, <2>3 DEF AnyOfResult, AllOfResult, Naturally, Pc
<1>CancelSkip. CASE CancelSkip
  <2>1. /\ t \in Task
        /\ Pc(t) = "cancel"
        /\ act'[t].pc = "cancel"
        /\ act'[t].i = act[t].i + 1
        /\ \A u \in Task : u # t => act'[u] = act[u]
        /\ uid' = uid /\ prog' = prog /\ stack' = stack /\ reuse' = reuse
    BY <1>0, <1>CancelSkip, CancelSkipIs, KeepsFrame DEF Moves
  <2>2. cancels'[t] = cancels[t] /\ completed_id'[t] = completed_id[t]
    BY <1>0, <1>CancelSkip, CancelSkipIs
  <2>3. Naturally(t)' => Naturally(t)
    BY <1>e, <2>1, <2>2 DEF Naturally
  <2>4. Kind(t) = "any_of" /\ Naturally(t)' => Winner(t)'
    BY <1>b, <1>d, <2>1, <2>2, <2>3 DEF AnyOfResult
  <2> QED
    BY <1>b, <2>1, <2>2, <2>4 DEF AnyOfResult, AllOfResult, Pc
<1>CancelUnsupport. CASE CancelUnsupport
  <2>1. /\ t \in Task
        /\ Pc(t) = "cancel"
        /\ act'[t].pc = "cancel"
        /\ act'[t].i = act[t].i + 1
        /\ \A u \in Task : u # t => act'[u] = act[u]
        /\ uid' = uid /\ prog' = prog /\ stack' = stack /\ reuse' = reuse
    BY <1>0, <1>CancelUnsupport, CancelUnsupportIs, KeepsFrame DEF Moves
  <2>2. cancels'[t] = cancels[t] /\ completed_id'[t] = completed_id[t]
    BY <1>0, <1>CancelUnsupport, CancelUnsupportIs
  <2>3. Naturally(t)' => Naturally(t)
    BY <1>e, <2>1, <2>2 DEF Naturally
  <2>4. Kind(t) = "any_of" /\ Naturally(t)' => Winner(t)'
    BY <1>b, <1>d, <2>1, <2>2, <2>3 DEF AnyOfResult
  <2> QED
    BY <1>b, <2>1, <2>2, <2>4 DEF AnyOfResult, AllOfResult, Pc
<1>CancelInterrupt. CASE CancelInterrupt
  <2>1. /\ t \in Task
        /\ Pc(t) = "cancel"
        /\ act'[t].pc = "cancel"
        /\ act'[t].i = act[t].i + 1
        /\ \A u \in Task : u # t => act'[u] = act[u]
        /\ uid' = uid /\ prog' = prog /\ stack' = stack /\ reuse' = reuse
    BY <1>0, <1>CancelInterrupt, CancelInterruptIs, KeepsFrame DEF Moves
  <2>2. cancels'[t] = cancels[t] /\ completed_id'[t] = completed_id[t]
    BY <1>0, <1>CancelInterrupt, CancelInterruptIs
  <2>3. Naturally(t)' => Naturally(t)
    BY <1>e, <2>1, <2>2 DEF Naturally
  <2>4. Kind(t) = "any_of" /\ Naturally(t)' => Winner(t)'
    BY <1>b, <1>d, <2>1, <2>2, <2>3 DEF AnyOfResult
  <2> QED
    BY <1>b, <2>1, <2>2, <2>4 DEF AnyOfResult, AllOfResult, Pc
<1>CancelEndYields. CASE CancelEndYields
  <2>1. /\ t \in Task
        /\ Pc(t) = "cancel"
        /\ act'[t].pc = "unsupport"
        /\ act'[t].i = act[t].i
        /\ \A u \in Task : u # t => act'[u] = act[u]
        /\ uid' = uid /\ prog' = prog /\ stack' = stack /\ reuse' = reuse
    BY <1>0, <1>CancelEndYields, CancelEndYieldsIs, KeepsFrame DEF CancelEndYields, Moves
  <2>2. cancels'[t] = cancels[t] /\ completed_id'[t] = completed_id[t]
    BY <1>0, <1>CancelEndYields, CancelEndYieldsIs DEF CancelEndYields
  <2>3. Naturally(t)' => Naturally(t)
    BY <1>e, <2>1, <2>2 DEF Naturally
  <2>4. Kind(t) = "any_of" /\ Naturally(t)' => Winner(t)'
    BY <1>b, <1>d, <2>1, <2>2, <2>3 DEF AnyOfResult
  <2> QED
    BY <1>b, <2>1, <2>2, <2>4 DEF AnyOfResult, AllOfResult, Pc
<1>CancelEndDone. CASE CancelEndDone
  <2>1. /\ t \in Task
        /\ Pc(t) = "cancel"
        /\ act'[t].pc = act[t].next
        /\ act'[t].i = act[t].i
        /\ \A u \in Task : u # t => act'[u] = act[u]
        /\ uid' = uid /\ prog' = prog /\ stack' = stack /\ reuse' = reuse
    BY <1>0, <1>CancelEndDone, CancelEndDoneIs, KeepsFrame DEF CancelEndDone, Moves
  <2>2. cancels'[t] = cancels[t] /\ completed_id'[t] = completed_id[t]
    BY <1>0, <1>CancelEndDone, CancelEndDoneIs DEF CancelEndDone
  <2>3. Naturally(t)' => Naturally(t)
    BY <1>e, <2>1, <2>2 DEF Naturally
  <2>4. Kind(t) = "any_of" /\ Naturally(t)' => Winner(t)'
    BY <1>b, <1>d, <2>1, <2>2, <2>3 DEF AnyOfResult
  <2>5. act'[t].pc \in {"return", "caught"}
    BY <2>1, StackTypes
  <2>6. Kind(t) = "all_of" => cancels[t] = 1
    BY <1>b, <2>1 DEF AllOfResult
  <2> QED
    BY <2>2, <2>4, <2>5, <2>6 DEF AnyOfResult, AllOfResult, Naturally, Pc
<1>UnsupportYields. CASE UnsupportYields
  <2>1. /\ t \in Task
        /\ Pc(t) = "unsupport"
        /\ act'[t].pc = "unsupport"
        /\ act'[t].i = act[t].i
        /\ \A u \in Task : u # t => act'[u] = act[u]
        /\ uid' = uid /\ prog' = prog /\ stack' = stack /\ reuse' = reuse
    BY <1>0, <1>UnsupportYields, UnsupportYieldsIs, KeepsFrame DEF UnsupportYields, Moves
  <2>2. cancels'[t] = cancels[t] /\ completed_id'[t] = completed_id[t]
    BY <1>0, <1>UnsupportYields, UnsupportYieldsIs DEF UnsupportYields
  <2>3. Naturally(t)' => Naturally(t)
    BY <1>e, <2>1, <2>2 DEF Naturally
  <2>4. Kind(t) = "any_of" /\ Naturally(t)' => Winner(t)'
    BY <1>b, <1>d, <2>1, <2>2, <2>3 DEF AnyOfResult
  <2> QED
    BY <1>b, <2>1, <2>2, <2>4 DEF AnyOfResult, AllOfResult, Pc
<1>UnsupportDone. CASE UnsupportDone
  <2>1. /\ t \in Task
        /\ Pc(t) = "unsupport"
        /\ act'[t].pc = act[t].next
        /\ act'[t].i = act[t].i
        /\ \A u \in Task : u # t => act'[u] = act[u]
        /\ uid' = uid /\ prog' = prog /\ stack' = stack /\ reuse' = reuse
    BY <1>0, <1>UnsupportDone, UnsupportDoneIs, KeepsFrame DEF UnsupportDone, Moves
  <2>2. cancels'[t] = cancels[t] /\ completed_id'[t] = completed_id[t]
    BY <1>0, <1>UnsupportDone, UnsupportDoneIs DEF UnsupportDone
  <2>3. Naturally(t)' => Naturally(t)
    BY <1>e, <2>1, <2>2 DEF Naturally
  <2>4. Kind(t) = "any_of" /\ Naturally(t)' => Winner(t)'
    BY <1>b, <1>d, <2>1, <2>2, <2>3 DEF AnyOfResult
  <2>5. act'[t].pc \in {"return", "caught"}
    BY <2>1, StackTypes
  <2>6. Kind(t) = "all_of" => cancels[t] = 1
    BY <1>b, <2>1 DEF AllOfResult
  <2> QED
    BY <2>2, <2>4, <2>5, <2>6 DEF AnyOfResult, AllOfResult, Naturally, Pc
<1>AwaitReturn. CASE AwaitReturn
  BY <1>AwaitReturn, PopsFx DEF Keeps
<1>AwaitReturnThrow. CASE AwaitReturnThrow
  BY <1>AwaitReturnThrow, PopsFx DEF Keeps
<1>AwaitRethrow. CASE AwaitRethrow
  BY <1>AwaitRethrow, PopsFx DEF Keeps
<1>RuntimeFinish. CASE RuntimeFinish
  BY <1>RuntimeFinish, RuntimeFinishIs DEF Keeps
<1>EventFires. CASE \E e \in Task : EventFires(e)
  BY <1>EventFires, EventFiresIs DEF Keeps
<1>Stutter. CASE UNCHANGED vars
  <2>1. /\ Woken(t)' = Woken(t) /\ Pc(t)' = Pc(t) /\ act' = act /\ cancels' = cancels
        /\ Naturally(t)' = Naturally(t) /\ Winner(t)' = Winner(t) /\ Completed(t)' = Completed(t)
        /\ Children(t)' = Children(t) /\ Kind(t)' = Kind(t) /\ status' = status
    BY <1>Stutter DEF vars, controlVars, objectVars, Woken, Pc, Naturally, Winner, Completed, Children, Kind
  <2> QED
    BY <1>b, <2>1 DEF AnyOfResult, AllOfResult
<1> QED
  BY StepCases, <1>TaskRuntime, <1>Await, <1>Start, <1>StartReject, <1>EventRun, <1>EventWake,
       <1>ChildrenReady, <1>ChildrenUnready, <1>StartChild, <1>AllOfBackYields,
       <1>AllOfBackGoesOn, <1>AnyOfBackWins, <1>AnyOfBackGoesOn, <1>AnyOfBackYields,
       <1>AllOfWakeYields, <1>AllOfWakeEnds, <1>AnyOfWake, <1>CanceledDirectlyLeaf,
       <1>CanceledDirectlyComb, <1>CanceledIndirectly, <1>CatchLeaf, <1>CatchComb, <1>CancelSkip,
       <1>CancelUnsupport, <1>CancelInterrupt, <1>CancelEndYields, <1>CancelEndDone,
       <1>UnsupportYields, <1>UnsupportDone, <1>AwaitReturn, <1>AwaitReturnThrow, <1>AwaitRethrow,
       <1>RuntimeFinish, <1>EventFires, <1>Stutter


\* all_of::run and any_of::run get past their first step.
LEMMA PastRun ==
    ASSUME IndInv, [Next]_vars, NEW k \in Task, Kind(k) \in Combinators, Pc(k)' \notin {"none", "run"}
    PROVE  \/ Pc(k) \notin {"none", "run"}
           \/ (ChildrenReady \/ ChildrenUnready) /\ k = Top
<1> SUFFICES ASSUME Pc(k) \in {"none", "run"}
             PROVE  (ChildrenReady \/ ChildrenUnready) /\ k = Top
  OBVIOUS
<1>0. PICK t : t = Top
  OBVIOUS
<1>k. Kind(k) # "user" /\ Kind(k) # "event"
  BY DEF Combinators
<1>TaskRuntime. CASE TaskRuntime
  BY <1>TaskRuntime, TaskRuntimeIs DEF Pc
<1>Await. CASE Await
  BY <1>Await, AwaitFx DEF Pc
<1>Start. CASE Start
  BY <1>k, <1>Start, StartIs, StartFx, KeepsFrame
<1>StartReject. CASE StartReject
  BY <1>k, <1>StartReject, StartRejectIs, CallIs, KeepsFrame DEF StartReject
<1>EventRun. CASE EventRun
  BY <1>k, <1>EventRun, EventRunIs, KeepsFrame
<1>EventWake. CASE EventWake
  BY <1>k, <1>EventWake, EventWakeIs, KeepsFrame
<1>ChildrenReady. CASE ChildrenReady
  BY <1>ChildrenReady, ChildrenReadyIs, KeepsFrame DEF Pc
<1>ChildrenUnready. CASE ChildrenUnready
  BY <1>ChildrenUnready, ChildrenUnreadyIs, KeepsFrame DEF Pc
<1>StartChild. CASE StartChild
  BY <1>k, <1>StartChild, StartChildIs, KeepsFrame
<1>AllOfBackYields. CASE AllOfBackYields
  BY <1>k, <1>AllOfBackYields, AllOfBackYieldsIs, KeepsFrame DEF AllOfBackYields
<1>AllOfBackGoesOn. CASE AllOfBackGoesOn
  BY <1>k, <1>AllOfBackGoesOn, AllOfBackGoesOnIs, KeepsFrame DEF AllOfBackGoesOn
<1>AnyOfBackWins. CASE AnyOfBackWins
  BY <1>k, <1>AnyOfBackWins, AnyOfBackWinsIs, KeepsFrame DEF AnyOfBackWins
<1>AnyOfBackGoesOn. CASE AnyOfBackGoesOn
  BY <1>k, <1>AnyOfBackGoesOn, AnyOfBackGoesOnIs, KeepsFrame DEF AnyOfBackGoesOn
<1>AnyOfBackYields. CASE AnyOfBackYields
  BY <1>k, <1>AnyOfBackYields, AnyOfBackYieldsIs, KeepsFrame DEF AnyOfBackYields
<1>AllOfWakeYields. CASE AllOfWakeYields
  BY <1>k, <1>AllOfWakeYields, AllOfWakeYieldsIs, KeepsFrame DEF AllOfWakeYields
<1>AllOfWakeEnds. CASE AllOfWakeEnds
  BY <1>k, <1>AllOfWakeEnds, AllOfWakeEndsIs, KeepsFrame DEF AllOfWakeEnds
<1>AnyOfWake. CASE AnyOfWake
  BY <1>k, <1>AnyOfWake, AnyOfWakeIs, KeepsFrame
<1>CanceledDirectlyLeaf. CASE CanceledDirectlyLeaf
  BY <1>k, <1>CanceledDirectlyLeaf, CanceledDirectlyLeafIs, KeepsFrame DEF CanceledDirectlyLeaf
<1>CanceledDirectlyComb. CASE CanceledDirectlyComb
  BY <1>k, <1>CanceledDirectlyComb, CanceledDirectlyCombIs, KeepsFrame DEF CanceledDirectlyComb
<1>CanceledIndirectly. CASE CanceledIndirectly
  BY <1>k, <1>CanceledIndirectly, CanceledIndirectlyIs, KeepsFrame
<1>CatchLeaf. CASE CatchLeaf
  BY <1>k, <1>CatchLeaf, CatchLeafIs, KeepsFrame DEF CatchLeaf
<1>CatchComb. CASE CatchComb
  BY <1>k, <1>CatchComb, CatchCombIs, KeepsFrame DEF CatchComb
<1>CancelSkip. CASE CancelSkip
  BY <1>k, <1>CancelSkip, CancelSkipIs, KeepsFrame
<1>CancelUnsupport. CASE CancelUnsupport
  BY <1>k, <1>CancelUnsupport, CancelUnsupportIs, KeepsFrame
<1>CancelInterrupt. CASE CancelInterrupt
  BY <1>k, <1>CancelInterrupt, CancelInterruptIs, KeepsFrame
<1>CancelEndYields. CASE CancelEndYields
  BY <1>k, <1>CancelEndYields, CancelEndYieldsIs, KeepsFrame DEF CancelEndYields
<1>CancelEndDone. CASE CancelEndDone
  BY <1>k, <1>CancelEndDone, CancelEndDoneIs, KeepsFrame DEF CancelEndDone
<1>UnsupportYields. CASE UnsupportYields
  BY <1>k, <1>UnsupportYields, UnsupportYieldsIs, KeepsFrame DEF UnsupportYields
<1>UnsupportDone. CASE UnsupportDone
  BY <1>k, <1>UnsupportDone, UnsupportDoneIs, KeepsFrame DEF UnsupportDone
<1>AwaitReturn. CASE AwaitReturn
  BY <1>k, <1>AwaitReturn, PopsFx DEF Pc
<1>AwaitReturnThrow. CASE AwaitReturnThrow
  BY <1>k, <1>AwaitReturnThrow, PopsFx DEF Pc
<1>AwaitRethrow. CASE AwaitRethrow
  BY <1>k, <1>AwaitRethrow, PopsFx DEF Pc
<1>RuntimeFinish. CASE RuntimeFinish
  BY <1>RuntimeFinish, RuntimeFinishIs DEF Pc
<1>EventFires. CASE \E e \in Task : EventFires(e)
  BY <1>EventFires, EventFiresIs DEF Pc
<1>Stutter. CASE UNCHANGED vars
  BY <1>Stutter DEF vars, Pc
<1> QED
  BY StepCases, <1>TaskRuntime, <1>Await, <1>Start, <1>StartReject, <1>EventRun, <1>EventWake,
       <1>ChildrenReady, <1>ChildrenUnready, <1>StartChild, <1>AllOfBackYields,
       <1>AllOfBackGoesOn, <1>AnyOfBackWins, <1>AnyOfBackGoesOn, <1>AnyOfBackYields,
       <1>AllOfWakeYields, <1>AllOfWakeEnds, <1>AnyOfWake, <1>CanceledDirectlyLeaf,
       <1>CanceledDirectlyComb, <1>CanceledIndirectly, <1>CatchLeaf, <1>CatchComb, <1>CancelSkip,
       <1>CancelUnsupport, <1>CancelInterrupt, <1>CancelEndYields, <1>CancelEndDone,
       <1>UnsupportYields, <1>UnsupportDone, <1>AwaitReturn, <1>AwaitReturnThrow, <1>AwaitRethrow,
       <1>RuntimeFinish, <1>EventFires, <1>Stutter


LEMMA KidsKnownStep ==
    ASSUME IndInv, [Next]_vars, NEW k \in Task
    PROVE  KidsKnown(k)'
<1> SUFFICES ASSUME Pc(k)' \notin {"none", "run"}, status'[k] # "child_unready", NEW j \in DOMAIN Children(k)
             PROVE  status'[Children(k)[j]] \in KidStatus
  <2>1. Children(k)' = Children(k)
    BY ProgSame DEF Children
  <2> QED
    BY <2>1 DEF KidsKnown
<1>1. PICK x \in Task : x = Children(k)[j]
  BY KidFacts DEF IndInv
<1>2. status[x] \in KidStatus
  <2>1. CASE Pc(k) \notin {"none", "run"}
    <3>1. status[k] # "child_unready"
      <4> SUFFICES ASSUME status[k] = "child_unready" PROVE FALSE
        OBVIOUS
      <4>1. Pc(k) = "return"
        BY <2>1 DEF IndInv, StatusInv
      <4>2. ~(TaskRuntime /\ k = running) /\ ~(Await /\ k = Target) /\ ~(StartReject /\ k = Target)
        BY <4>1, TaskRuntimeIs, AwaitFx, CallIs DEF StartReject
      <4>3. ~((AwaitReturn \/ AwaitReturnThrow \/ AwaitRethrow) /\ k = Top) /\ ~(RuntimeFinish /\ k = running)
        BY PopsFx, RuntimeFinishIs DEF Pc
      <4> QED
        BY <4>1, <4>2, <4>3, StatusFrom
    <3> QED
      BY <1>1, <2>1, <3>1 DEF IndInv, ResultInv, KidsKnown
  <2>2. CASE ChildrenReady /\ k = Top
    BY <1>1, <2>2, ChildrenReadyIs DEF KidStatus
  <2>3. CASE ChildrenUnready /\ k = Top
    <3>1. status'[k] = "child_unready"
      <4>1. status \in [Task -> Status]
        BY DEF IndInv, TypeOK
      <4> QED
        BY <2>3, <4>1, ChildrenUnreadyIs
    <3> QED
      BY <3>1
  <2>4. Kind(k) \in Combinators
    BY KidFacts DEF IndInv
  <2> QED
    BY <2>1, <2>2, <2>3, <2>4, PastRun
<1>3. status'[x] \in {status[x], "running", "completed", "canceled", "child_unready"}
  BY <1>1, KidStatusStep
<1> QED
  BY <1>1, <1>2, <1>3 DEF KidStatus

\* A combinator ends.
LEMMA CombinatorEnds ==
    ASSUME IndInv, [Next]_vars, NEW k \in Task, Kind(k) \in Combinators,
           Pc(k) # "none", Pc(k)' = "none", status'[k] = "completed"
    PROVE  Pc(k) = "return" /\ Naturally(k) /\ ~Keeps
<1>0. Kind(k) # "user"
  BY DEF Combinators
<1>1. CASE (AwaitReturn \/ AwaitReturnThrow \/ AwaitRethrow) /\ k = Top
  <2>1. PICK s, pc : Ends(k, s, pc) /\ status'[k] = s /\ uid[k] = running /\ k # running /\ act'[k].pc = "none"
    BY <1>1, PopsFx
  <2>2. Pc(k) = "return" /\ status[k] # "child_unready"
    BY <1>0, <2>1 DEF Ends
  <2>3. cancels[k] = 0
    BY <2>1, <2>2 DEF IndInv, CancelsInv, WasCanceled
  <2> QED
    BY <1>1, <2>1, <2>2, <2>3 DEF Naturally, Keeps
<1>2. CASE RuntimeFinish /\ k = running
  <2>1. /\ Pc(k) \in {"return", "caught"} /\ act'[k].pc = "none" /\ k = Top
    BY <1>0, <1>2, RuntimeFinishIs
  <2>2. status[k] = "running"
    BY <1>2, FinishFx
  <2>3. Pc(k) # "caught"
    BY <2>2 DEF IndInv, DoomInv
  <2>4. cancels[k] = 0
    BY <2>1, <2>2, <2>3 DEF IndInv, CancelsInv, WasCanceled
  <2> QED
    BY <2>1, <2>2, <2>3, <2>4 DEF Naturally, Keeps
<1>3. ~(TaskRuntime /\ k = running) /\ ~(Await /\ k = Target)
  BY TaskRuntimeIs, AwaitFx
<1> QED
  BY <1>1, <1>2, <1>3, LifeStep

LEMMA EndResultStep ==
    ASSUME IndInv, [Next]_vars, NEW k \in Task
    PROVE  EndResult(k)'
<1> SUFFICES ASSUME Pc(k)' = "none", status'[k] = "completed"
             PROVE  /\ Kind(k)' = "all_of" => Completed(k)' = DOMAIN Children(k)'
                    /\ Kind(k)' = "any_of" => Winner(k)'
                    /\ \A j \in DOMAIN Children(k)' : status'[Children(k)'[j]] \in KidStatus \ {"running"}
  BY DEF EndResult
<1>0. Children(k)' = Children(k) /\ Kind(k)' = Kind(k)
  BY ProgSame DEF Children, Kind
<1>1. ASSUME Pc(k) \notin AtWork, completed_id'[k] = completed_id[k],
             Kind(k) = "all_of" => Completed(k) = DOMAIN Children(k),
             Kind(k) = "any_of" => Winner(k),
             \A j \in DOMAIN Children(k) : status[Children(k)[j]] \in KidStatus
      PROVE  /\ Kind(k)' = "all_of" => Completed(k)' = DOMAIN Children(k)'
             /\ Kind(k)' = "any_of" => Winner(k)'
             /\ \A j \in DOMAIN Children(k)' : status'[Children(k)'[j]] \in KidStatus \ {"running"}
  <2>1. /\ \A j \in DOMAIN Children(k) : status'[Children(k)[j]] = status[Children(k)[j]]
        /\ \A j \in DOMAIN Children(k) : status[Children(k)[j]] # "running"
        /\ Completed(k)' = Completed(k)
    BY <1>1, KidsQuiet
  <2>2. Kind(k) = "any_of" => Winner(k)'
    BY <1>1, <2>1, WinnerStays
  <2> QED
    BY <1>0, <1>1, <2>1, <2>2
<1>2. CASE Pc(k) = "none"
  <2>1. status[k] = "completed"
    <3>1. ~(TaskRuntime /\ k = running) /\ ~(Await /\ k = Target)
      BY TaskRuntimeIs, AwaitFx DEF Pc
    <3>2. ~((AwaitReturn \/ AwaitReturnThrow \/ AwaitRethrow) /\ k = Top)
      BY <1>2, PopsFx
    <3>3. ~(RuntimeFinish /\ k = running)
      BY <1>2, RuntimeFinishIs
    <3> QED
      BY <1>2, <3>1, <3>2, <3>3, StatusFrom
  <2>2. completed_id'[k] = completed_id[k]
    BY <1>2, HistoryStep, KeepsFrame
  <2>3. EndResult(k)
    BY DEF IndInv, ResultInv
  <2> QED
    BY <1>1, <1>2, <2>1, <2>2, <2>3 DEF EndResult, AtWork
<1>3. CASE Pc(k) # "none" /\ Kind(k) \in Combinators
  <2>1. Pc(k) = "return" /\ Naturally(k) /\ ~Keeps
    BY <1>3, CombinatorEnds
  <2>2. completed_id'[k] = completed_id[k]
    BY <2>1, HistoryStep
  <2>3. /\ Kind(k) = "all_of" => Completed(k) = DOMAIN Children(k)
        /\ Kind(k) = "any_of" => Winner(k)
        /\ \A j \in DOMAIN Children(k) : status[Children(k)[j]] \in KidStatus
    BY <2>1 DEF IndInv, ResultInv, AllOfResult, AnyOfResult, KidsKnown, Naturally
  <2> QED
    BY <1>1, <2>1, <2>2, <2>3 DEF AtWork
<1>4. CASE Kind(k) \notin Combinators
  <2>1. \A j \in DOMAIN Children(k) : FALSE
    BY <1>4, KidFacts DEF IndInv
  <2> QED
    BY <1>0, <1>4, <2>1 DEF Combinators
<1> QED
  BY <1>2, <1>3, <1>4

LEMMA ResultStep ==
    ASSUME IndInv, [Next]_vars
    PROVE  ResultInv'
<1> SUFFICES ASSUME NEW k \in Task
             PROVE  /\ Kind(k) = "any_of" => AnyOfResult(k)'
                    /\ Kind(k) = "all_of" => AllOfResult(k)'
  <2>1. \A k \in Task : Kind(k)' = Kind(k)
    BY ProgSame DEF Kind
  <2> QED
    BY <2>1, KidsKnownStep, EndResultStep DEF ResultInv
<1>0. Kind(k) \in {"any_of", "all_of"} <=> Kind(k) \in Combinators
  BY DEF Combinators
<1>1. CASE Pc(k)' \notin Past
  BY <1>1 DEF Past, AnyOfResult, AllOfResult
<1>2. CASE Keeps /\ k = Top
  BY <1>2, ResultTop
<1>3. CASE UNCHANGED vars
  <2>1. /\ Woken(k)' = Woken(k) /\ Pc(k)' = Pc(k) /\ act' = act /\ cancels' = cancels
        /\ Naturally(k)' = Naturally(k) /\ Winner(k)' = Winner(k) /\ Completed(k)' = Completed(k)
        /\ Children(k)' = Children(k) /\ Kind(k)' = Kind(k) /\ status' = status
    BY <1>3 DEF vars, controlVars, objectVars, Woken, Pc, Naturally, Winner, Completed, Children, Kind
  <2>2. /\ Kind(k) = "any_of" => AnyOfResult(k)
        /\ Kind(k) = "all_of" => AllOfResult(k)
    BY DEF IndInv, ResultInv
  <2> QED
    BY <2>1, <2>2 DEF AnyOfResult, AllOfResult
<1>4. CASE /\ Pc(k)' \in Past
           /\ act'[k] = act[k] /\ uid'[k] = uid[k] /\ uid[k] # running
           /\ cancels'[k] = cancels[k] /\ completed_id'[k] = completed_id[k]
           /\ uid[k] \in Task /\ Inner(uid[k]) = k
           /\ Pc(k) \in {"child", "cancel"} \/ Pc(k) \in Waits
  BY <1>0, <1>4, ResultOther
<1> QED
  BY <1>1, <1>2, <1>3, <1>4, SettledStep

LEMMA StackStep ==
    ASSUME IndInv, [Next]_vars
    PROVE  StackInv'
<1>1. CASE Keeps
  BY <1>1, StackKept
<1>2. CASE TaskRuntime
  BY <1>2, StackTaskRuntime
<1>3. CASE Await
  BY <1>3, StackAwait
<1>4. ASSUME NEW s, NEW pc, pc # "none", Pops(s, pc)
      PROVE  StackInv'
  BY <1>4, StackPops
<1>5. CASE AwaitReturn \/ AwaitReturnThrow \/ AwaitRethrow
  <2>1. CASE AwaitReturn
    BY <2>1, <1>4, AwaitReturnIs
  <2>2. CASE AwaitReturnThrow
    BY <2>2, <1>4, AwaitReturnThrowIs
  <2>3. CASE AwaitRethrow
    BY <2>3, <1>4, AwaitRethrowIs
  <2> QED
    BY <1>5, <2>1, <2>2, <2>3
<1>6. CASE RuntimeFinish
  BY <1>6, StackFinish
<1>7. ASSUME NEW e \in Task, EventFires(e)
      PROVE  StackInv'
  <2>1. UNCHANGED <<prog, reuse, uid, block_to, stack, act>>
    BY <1>7 DEF EventFires, objectVars
  <2> QED
    BY <2>1, StackSame
<1>8. CASE UNCHANGED vars
  <2>1. UNCHANGED <<prog, reuse, uid, block_to, stack, act>>
    BY <1>8 DEF vars, objectVars
  <2> QED
    BY <2>1, StackSame
<1> QED
  BY KeepsOr, <1>1, <1>2, <1>3, <1>5, <1>6, <1>7, <1>8

-----------------------------------------------------------------------------

\* The invariant holds at the start, for a structured program.
LEMMA InvInit ==
    ASSUME Init, Structured(prog)
    PROVE  IndInv
<1>1. /\ TopTask \in Task /\ Loop \notin Task /\ ~prog[TopTask].limited
      /\ \A t \in Task : /\ Kind(t) \in Kinds /\ Children(t) \in Seq(Task)
                         /\ prog[t].un \in BOOLEAN /\ Level(t) \in 0..2
                         /\ prog[t].un => Level(t) <= 1
  BY TaskFacts, ShapeIs, TopAssumption DEF Shaped
<1>2. \A t \in Task :
        /\ stack[t] = <<>> /\ Len(stack[t]) = 0 /\ ~Busy(t)
        /\ Pc(t) = "none" /\ act[t].i = 1 /\ act[t] \in Activations
        /\ reuse[t] = Loop /\ block_to[t] = Loop /\ finish_to[t] = Loop
        /\ cancels[t] = 0 /\ completed_id[t] = 0
        /\ uninterruptable[t] = prog[t].un
        /\ status[t] \in {"ready", "limited"}
        /\ status[t] = "ready" => uid[t] = t
  BY DEF Init, Busy, Pc, Activation, Activations, Points
<1>3. running = TopTask /\ global_current_task = TopTask /\ global_signal_canceled = FALSE /\ armed = {}
  BY DEF Init
<1>4. TypeOK
  <2>1. stack \in [Task -> Seq(Task)]
    BY EmptySeq DEF Init
  <2>2. act \in [Task -> Activations]
    BY <1>2 DEF Init
  <2>3. /\ status \in [Task -> Status] /\ uninterruptable \in [Task -> BOOLEAN]
        /\ reuse \in [Task -> Task \cup {Loop}] /\ uid \in [Task -> Task \cup {Loop}]
        /\ block_to \in [Task -> Task \cup {Loop}] /\ finish_to \in [Task -> Task \cup {Loop}]
        /\ completed_id \in [Task -> Nat] /\ cancels \in [Task -> Nat]
    BY <1>1 DEF Init, Status
  <2> QED
    BY <1>1, <1>3, <2>1, <2>2, <2>3 DEF TypeOK
<1>5. StackInv
  BY <1>2 DEF StackInv
<1>6. StatusInv
  <2>1. status[TopTask] = "ready"
    BY <1>1 DEF Init
  <2> QED
    BY <1>2, <1>3, <2>1 DEF StatusInv, Entering
<1>7. PcInv
  BY <1>2 DEF PcInv
<1>8. NotYet
  <2>1. ASSUME NEW t \in Task, Kind(t) = "user", NEW i \in DOMAIN Body(t)
        PROVE  Untouched(Body(t)[i][2])
    BY <2>1, <1>2, <1>3, CallFacts DEF Untouched
  <2>2. ASSUME NEW t \in Task, NEW j \in DOMAIN Children(t)
        PROVE  Untouched(Children(t)[j])
    BY <2>2, <1>2, <1>3, KidFacts DEF Untouched
  <2> QED
    BY <1>2, <2>1, <2>2 DEF NotYet
<1>9. FinishInv
  BY <1>2, <1>3, KidFacts DEF FinishInv, Begun
<1>10. BlockInv
  BY <1>2, <1>3, KidFacts DEF BlockInv, Entering
<1>11. CallInv
  BY <1>2, <1>3 DEF CallInv, Calling, Blk
<1>12. SignalInv /\ CurrentInv /\ ArmedInv
  BY <1>1, <1>2, <1>3 DEF SignalInv, CurrentInv, ArmedInv
<1>13. LevelInv
  BY <1>1, <1>2 DEF LevelInv
<1>14. DoomInv
  BY <1>2, KidFacts DEF DoomInv, Doomed, LiveKids
<1>15. CancelsInv
  BY <1>2 DEF CancelsInv, WasCanceled
<1>16. CountInv
  BY <1>2 DEF CountInv, CountOf
<1>17. ResultInv
  BY <1>2 DEF ResultInv, KidsKnown, EndResult, AnyOfResult, AllOfResult
<1> QED
  BY <1>4, <1>5, <1>6, <1>7, <1>8, <1>9, <1>10, <1>11, <1>12, <1>13, <1>14, <1>15, <1>16, <1>17
     DEF IndInv

\* Every step keeps it.
LEMMA InvStep ==
    ASSUME IndInv, [Next]_vars
    PROVE  IndInv'
<1>1. Structured(prog)'
  <2>1. Structured(prog) /\ prog' = prog
    BY ProgSame DEF IndInv
  <2>2. PICK rank \in [Task -> Nat], level \in [Task -> 0..2] : Shaped(prog, rank, level)
    BY <2>1 DEF Structured
  <2>3. Shaped(prog, rank, level)'
    BY <2>1, <2>2
  <2> QED
    BY <2>3 DEF Structured
<1>2. TypeOK' /\ StackInv' /\ StatusInv' /\ PcInv'
  BY TypeStep, StackStep, StatusStep, PcStep
<1>3. NotYet' /\ FinishInv' /\ BlockInv' /\ CallInv'
  BY NotYetStep, FinishStep, BlockStep, CallStep
<1>4. SignalInv' /\ CurrentInv' /\ ArmedInv' /\ LevelInv'
  BY SignalStep, CurrentStep, ArmedStep, LevelStep
<1>5. DoomInv' /\ CancelsInv' /\ CountInv' /\ ResultInv'
  BY DoomStep, CancelsStep, CountStep, ResultStep
<1> QED
  BY <1>1, <1>2, <1>3, <1>4, <1>5 DEF IndInv

\* The inductive invariant holds in every state of every run of structured
\* programs.
THEOREM Invariant ==
    ASSUME \A p \in Programs : Structured(p)
    PROVE  Spec => []IndInv
<1>1. Init => IndInv
  BY InvInit DEF Init
<1>2. IndInv /\ [Next]_vars => IndInv'
  BY InvStep
<1> QED
  BY <1>1, <1>2, PTL DEF Spec

\* The innermost task of a coroutine, as the properties name it.
LEMMA HeadIsInner ==
    ASSUME IndInv
    PROVE  \A c \in Task : stack[c] # <<>> =>
             Busy(c) /\ Head(stack[c]) = Inner(c) /\ Inner(c) \in Task /\ act[Inner(c)].pc = Pc(Inner(c))
BY StackTypes DEF Busy, Pc

LEMMA GlobalsFollow ==
    ASSUME IndInv
    PROVE  GlobalsRight
<1>1. SignalReachesTarget
  <2> SUFFICES ASSUME global_signal_canceled
               PROVE  running # Loop /\ status[running] = "canceled" /\ At("wait")
    BY DEF SignalReachesTarget
  <2>1. running # Loop /\ Busy(running) /\ Pc(Inner(running)) = "wait" /\ status[running] = "canceled"
    BY DEF IndInv, SignalInv
  <2> QED
    BY <2>1, TopFacts DEF At, Busy, Pc
<1>2. CurrentIsExecuting
  <2> SUFFICES ASSUME At("run")
               PROVE  global_current_task = Top
    BY DEF CurrentIsExecuting
  <2>1. running # Loop /\ Busy(running) /\ Here.pc = "run"
    BY DEF At, Busy
  <2>2. Top = Inner(running) /\ Pc(Inner(running)) = "run"
    BY <2>1, TopFacts DEF Pc
  <2> QED
    BY <2>1, <2>2 DEF IndInv, CurrentInv
<1> QED
  BY <1>1, <1>2 DEF GlobalsRight

LEMMA WaitersFollow ==
    ASSUME IndInv
    PROVE  WaitersAndEvents
<1>1. OnlyWaitersSuspended
  <2> SUFFICES ASSUME running = Loop, NEW c \in Task, stack[c] # <<>>
               PROVE  act[Head(stack[c])].pc \in {"wait", "unsupport", "cancel"}
    BY DEF OnlyWaitersSuspended
  <2>1. ~Calling(c) /\ Loop \notin Task
    BY NobodyCalls, TopAssumption
  <2>2. Pc(Inner(c)) \in Waits
    BY <2>1, HeadIsInner DEF Calling
  <2> QED
    BY <2>2, HeadIsInner DEF Waits
<1>2. CallbackFindsWaiter
  <2> SUFFICES ASSUME running = Loop, NEW t \in armed
               PROVE  /\ uid[t] # Loop /\ stack[uid[t]] # <<>>
                      /\ Head(stack[uid[t]]) = t
                      /\ act[t].pc = "wait"
    BY DEF CallbackFindsWaiter
  <2>1. /\ uid[t] \in Task /\ Busy(uid[t]) /\ t = Inner(uid[t])
        /\ Pc(t) \in {"wait", "throw"}
        /\ Pc(t) = "throw" => uid[t] = running
    BY ArmedFacts
  <2>2. uid[t] # Loop /\ Pc(t) = "wait"
    BY <2>1, TopAssumption
  <2> QED
    BY <2>1, <2>2, HeadIsInner DEF Busy, Pc
<1>3. TypeOK
  BY DEF IndInv
<1> QED
  BY <1>1, <1>2, <1>3 DEF WaitersAndEvents

LEMMA NoOrphansFollows ==
    ASSUME IndInv
    PROVE  NoOrphans
<1> SUFFICES ASSUME NEW t \in Task, t \notin Live, NEW i \in DOMAIN Children(t)
             PROVE  Children(t)[i] \notin Live
  BY DEF NoOrphans
<1>1. Pc(t) = "none"
  BY DEF Live, Pc
<1>2. ~Begun(Children(t)[i])
  BY <1>1 DEF IndInv, FinishInv, AtWork
<1> QED
  BY <1>2 DEF Begun, Live, Pc

LEMMA EndsFollow ==
    ASSUME IndInv
    PROVE  TasksEndRight
<1>1. CombinatorResult
  <2> SUFFICES ASSUME NEW t \in Task, t \notin Live, status[t] = "completed"
               PROVE  LET kids == Children(t)
                      IN  /\ Kind(t) = "all_of" => \A i \in DOMAIN kids : status[kids[i]] = "completed"
                          /\ Kind(t) = "any_of" =>
                                /\ completed_id[t] \in DOMAIN kids
                                /\ status[kids[completed_id[t]]] = "completed"
                                /\ \A i \in DOMAIN kids \ {completed_id[t]} :
                                      \/ status[kids[i]] \in {"canceled", "ready", "child_unready"}
                                      \/ status[kids[i]] = "completed" /\ uninterruptable[kids[i]]
    BY DEF CombinatorResult
  <2>1. /\ Kind(t) = "all_of" => Completed(t) = DOMAIN Children(t)
        /\ Kind(t) = "any_of" => Winner(t)
        /\ \A j \in DOMAIN Children(t) : status[Children(t)[j]] \in KidStatus \ {"running"}
    BY DEF IndInv, ResultInv, EndResult, Live, Pc
  <2> QED
    BY <2>1 DEF Completed, Winner, KidStatus
<1>2. CancelOnce
  <2> SUFFICES ASSUME NEW t \in Task, t \notin Live
               PROVE  cancels[t] = IF status[t] = "canceled" THEN 1 ELSE 0
    BY DEF CancelOnce
  <2>1. Pc(t) = "none"
    BY DEF Live, Pc
  <2> QED
    BY <2>1 DEF IndInv, CancelsInv, WasCanceled
<1> QED
  BY <1>1, <1>2 DEF TasksEndRight

-----------------------------------------------------------------------------
\* The cancel signal, which swap_running hands to whichever coroutine runs next,
\* is taken by the wait it is meant for, and user code always runs as the
\* current task, across awaits, switches, exceptions and nested cancellations.
THEOREM SpecGlobalsRight ==
    ASSUME \A p \in Programs : Structured(p)
    PROVE  Spec => []GlobalsRight
<1>1. IndInv => GlobalsRight
  BY GlobalsFollow
<1> QED
  BY <1>1, Invariant, PTL

\* While the event loop has control every suspended coroutine is inside a
\* __task_yield, and the callback of every active handle finds, innermost on the
\* coroutine it switches to, the task that waits for it.
THEOREM SpecWaitersAndEvents ==
    ASSUME \A p \in Programs : Structured(p)
    PROVE  Spec => []WaitersAndEvents
<1>1. IndInv => WaitersAndEvents
  BY WaitersFollow
<1> QED
  BY <1>1, Invariant, PTL

\* When the run() of an all_of or any_of has ended, in whatever way, no child of
\* it is still executing.
THEOREM SpecNoOrphans ==
    ASSUME \A p \in Programs : Structured(p)
    PROVE  Spec => []NoOrphans
<1>1. IndInv => NoOrphans
  BY NoOrphansFollows
<1> QED
  BY <1>1, Invariant, PTL

\* all_of completes only when all its children have; any_of only with a winner
\* that completed, the others having been interrupted, never started, or not to
\* be interrupted; and cancel() was called once for a task that ended canceled,
\* never for another.
THEOREM SpecTasksEndRight ==
    ASSUME \A p \in Programs : Structured(p)
    PROVE  Spec => []TasksEndRight
<1>1. IndInv => TasksEndRight
  BY EndsFollow
<1> QED
  BY <1>1, Invariant, PTL
=============================================================================
