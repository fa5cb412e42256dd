--------------------------------- MODULE Udp ---------------------------------
(***************************************************************************)
(* One udp object of src/udp.cc: who waits for datagrams, how the object   *)
(* is registered with the event loop, and where a datagram goes.           *)
(*                                                                         *)
(* Tasks call the operations of the object whenever user code runs: while  *)
(* the event loop handles some other event (phase "loop"), or inside the   *)
(* __task_stand of udp_recv_cb0 (phase "stand"), after which the callback  *)
(* goes on with whatever state user code left.  udp_recv_cb1 does nothing  *)
(* with the object after its __task_stand, so it is one step.              *)
(*                                                                         *)
(* A datagram is its sequence number, or Bad when the getter of the seqer  *)
(* rejects it; contents, lengths, buffers and addresses are left out.      *)
(***************************************************************************)
EXTENDS Naturals, FiniteSets, SequencesExt, Tasks

CONSTANTS
    SeqNum,     \* values of SeqType
    Bad,        \* a datagram without a sequence number
    MaxArrived  \* bound: datagrams that arrive in one behaviour

ASSUME ValuesDistinct ==
    /\ Bad \notin SeqNum
    /\ (SeqNum \cup {Bad}) \cap {"no", "recv", "send"} = {}

VARIABLES
    alive,          \* the object has not been destroyed
    receiving,      \* ready, recv, recv_by_seq, ignore
    seqer,          \* a seqer is bound
    recv_queue,     \* tasks in recv, in order
    cur_alloc,      \* the one taken by the alloc callback
    seq_mapping,    \* multimap of the seqer: {<<seq, task>>}
    c_unrecv, c_failed, c_ignored,
    \* event loop and tasks
    cb,             \* callbacks given to uv_udp_recv_start, 3 when stopped
    kernel,         \* datagrams in the socket buffer
    arrived,
    phase,          \* "loop", "alloc" (between alloc and recv callback), "stand"
    waits           \* what each task waits for: "no", "recv", "send" or a number

countVars == <<c_unrecv, c_failed, c_ignored>>
modeVars == <<alive, receiving, seqer, cb>>
udpVars == <<modeVars, recv_queue, cur_alloc, seq_mapping, countVars, kernel, arrived, phase, waits>>

Stopped == 3
Waiting(t) == waits[t] # "no"
UserCode == alive /\ phase # "alloc"

-----------------------------------------------------------------------------
\* udp::udp
UdpInit ==
    /\ alive = TRUE
    /\ receiving = "ready"
    /\ seqer = FALSE
    /\ recv_queue = <<>>
    /\ cur_alloc = NULL
    /\ seq_mapping = {}
    /\ c_unrecv = 0 /\ c_failed = 0 /\ c_ignored = 0
    /\ cb = Stopped
    /\ kernel = <<>>
    /\ arrived = 0
    /\ phase = "loop"
    /\ waits = [t \in Task |-> "no"]

Arrive(d) ==
    /\ alive /\ arrived < MaxArrived
    /\ arrived' = arrived + 1
    /\ kernel' = Append(kernel, d)
    /\ UNCHANGED <<modeVars, recv_queue, cur_alloc, seq_mapping, countVars, phase, waits>>

\* uv_udp_recv_start and uv_udp_recv_stop together with the mode.
StartCb(mode, k) == receiving' = mode /\ cb' = k
StopCb == receiving' = "ready" /\ cb' = Stopped
KeepCb == UNCHANGED <<receiving, cb>>

\* udp::bind(getter, ...); a second one returns -1.
Bind ==
    /\ UserCode /\ ~seqer
    /\ seqer' = TRUE
    /\ UNCHANGED <<alive, receiving, cb, recv_queue, cur_alloc, seq_mapping, countVars,
                   kernel, arrived, phase, waits>>

IgnoreRecv ==
    /\ UserCode /\ receiving = "ready"
    /\ StartCb("ignore", 2)
    /\ UNCHANGED <<alive, seqer, recv_queue, cur_alloc, seq_mapping, countVars,
                   kernel, arrived, phase, waits>>

\* udp::recv::run up to its yield.
Recv(t) ==
    /\ UserCode /\ ~Waiting(t)
    /\ receiving # "ignore"
    /\ IF receiving # "ready" THEN KeepCb
       ELSE IF seqer THEN StartCb("recv_by_seq", 1) ELSE StartCb("recv", 0)
    /\ recv_queue' = Append(recv_queue, t)
    /\ waits' = [waits EXCEPT ![t] = "recv"]
    /\ UNCHANGED <<alive, seqer, cur_alloc, seq_mapping, countVars, kernel, arrived, phase>>

\* udp::recv::cancel.  (Seeded bugs: never stop reading; always stop.)
NeverStop == KeepCb
AlwaysStop == StopCb
StopIfLast ==
    IF receiving = "recv" /\ recv_queue' = <<>> THEN StopCb ELSE KeepCb
PosOf(t) == CHOOSE i \in DOMAIN recv_queue : recv_queue[i] = t
CancelRecv(t) ==
    /\ UserCode /\ waits[t] = "recv"
    /\ recv_queue' = RemoveAt(recv_queue, PosOf(t))
    /\ StopIfLast
    /\ waits' = [waits EXCEPT ![t] = "no"]
    /\ UNCHANGED <<alive, seqer, cur_alloc, seq_mapping, countVars, kernel, arrived, phase>>

\* seqer_wrapper::insert.
Insert(s, t) == seq_mapping \cup {<<s, t>>}

\* udp::recv_by_seq::run up to its yield.
RunPart0 ==
    /\ seqer /\ receiving # "ignore"
    /\ IF receiving = "ready" THEN StartCb("recv_by_seq", 1) ELSE KeepCb
RecvBySeq(t, s) ==
    /\ UserCode /\ ~Waiting(t) /\ RunPart0
    /\ seq_mapping' = Insert(s, t)
    /\ waits' = [waits EXCEPT ![t] = s]
    /\ UNCHANGED <<alive, seqer, recv_queue, cur_alloc, countVars, kernel, arrived, phase>>

\* seqer_wrapper::erase: every entry of the number, whoever it belongs to.
Erase(s) == {e \in seq_mapping : e[1] # s}
CancelRecvBySeq(t) ==
    /\ UserCode /\ waits[t] \in SeqNum
    /\ seq_mapping' = Erase(waits[t])
    /\ waits' = [waits EXCEPT ![t] = "no"]
    /\ UNCHANGED <<modeVars, recv_queue, cur_alloc, countVars, kernel, arrived, phase>>

\* udp::send::run; the task is uninterruptable.
Send(t) ==
    /\ UserCode /\ ~Waiting(t)
    /\ waits' = [waits EXCEPT ![t] = "send"]
    /\ UNCHANGED <<modeVars, recv_queue, cur_alloc, seq_mapping, countVars, kernel, arrived, phase>>

SendCb(t) ==
    /\ phase = "loop" /\ waits[t] = "send"
    /\ waits' = [waits EXCEPT ![t] = "no"]
    /\ UNCHANGED <<modeVars, recv_queue, cur_alloc, seq_mapping, countVars, kernel, arrived, phase>>

\* udp::~udp, when no task uses the object any more.
DestroyUdp ==
    /\ UserCode /\ \A t \in Task : ~Waiting(t)
    /\ alive' = FALSE
    /\ cb' = Stopped
    /\ seqer' = FALSE
    /\ seq_mapping' = {}
    /\ UNCHANGED <<receiving, recv_queue, cur_alloc, countVars, kernel, arrived, phase, waits>>

-----------------------------------------------------------------------------
\* udp_alloc_cb0: the front of the queue is going to get the datagram.  Its
\* CHECKs abort the program, and the model does not go on there:
\* SocketIsRead says that this does not happen.
AllocChecks == recv_queue # <<>> /\ cur_alloc = NULL
AllocCb0 ==
    /\ phase = "loop" /\ cb = 0 /\ AllocChecks
    /\ cur_alloc' = Head(recv_queue)
    /\ recv_queue' = Tail(recv_queue)
    /\ phase' = "alloc"
    /\ UNCHANGED <<modeVars, seq_mapping, countVars, kernel, arrived, waits>>

\* udp_recv_cb0, nothing to read after all: back to the front.
RecvCb0Nothing ==
    /\ phase = "alloc" /\ kernel = <<>>
    /\ recv_queue' = <<cur_alloc>> \o recv_queue
    /\ cur_alloc' = NULL
    /\ phase' = "loop"
    /\ UNCHANGED <<modeVars, seq_mapping, countVars, kernel, arrived, waits>>

\* udp_recv_cb0 up to its __task_stand ...
RecvCb0 ==
    /\ phase = "alloc" /\ kernel # <<>>
    /\ kernel' = Tail(kernel)
    /\ waits' = [waits EXCEPT ![cur_alloc] = "no"]
    /\ cur_alloc' = NULL
    /\ phase' = "stand"
    /\ UNCHANGED <<modeVars, recv_queue, seq_mapping, countVars, arrived>>

\* ... and after it: the object may be gone, other tasks may have come or gone.
\* (Seeded bug: the check of the object is missing.)
StopUnchecked == IF recv_queue = <<>> THEN StopCb ELSE KeepCb
StopIfValid == IF alive /\ recv_queue = <<>> THEN StopCb ELSE KeepCb
RecvCb0End ==
    /\ phase = "stand"
    /\ StopIfValid
    /\ phase' = "loop"
    /\ UNCHANGED <<alive, seqer, recv_queue, cur_alloc, seq_mapping, countVars, kernel,
                   arrived, waits>>

\* seqer_wrapper::unwrap: the entries of the number, of which find() takes one.
\* (Seeded bug: tasks in recv come first.)
UnwrapLast(d) == IF d = Bad \/ recv_queue # <<>> THEN {} ELSE {e \in seq_mapping : e[1] = d}
Unwrap(d) == IF d = Bad THEN {} ELSE {e \in seq_mapping : e[1] = d}

\* udp_recv_cb1: to a task that waits for the number, else to the front of the
\* queue, else counted.
ToSeqWaiter(e) ==
    /\ seq_mapping' = seq_mapping \ {e}
    /\ waits' = [waits EXCEPT ![e[2]] = "no"]
    /\ UNCHANGED <<recv_queue, countVars>>
ToQueue ==
    /\ recv_queue' = Tail(recv_queue)
    /\ waits' = [waits EXCEPT ![Head(recv_queue)] = "no"]
    /\ UNCHANGED <<seq_mapping, countVars>>
CountMissed(d) ==
    /\ IF d = Bad THEN c_failed' = c_failed + 1 /\ UNCHANGED c_unrecv
                  ELSE c_unrecv' = c_unrecv + 1 /\ UNCHANGED c_failed
    /\ UNCHANGED <<c_ignored, recv_queue, seq_mapping, waits>>
RecvCb1 ==
    /\ phase = "loop" /\ cb = 1 /\ kernel # <<>>
    /\ LET d == Head(kernel)
       IN  \/ \E e \in Unwrap(d) : ToSeqWaiter(e)
           \/ Unwrap(d) = {} /\ recv_queue # <<>> /\ ToQueue
           \/ Unwrap(d) = {} /\ recv_queue = <<>> /\ CountMissed(d)
    /\ kernel' = Tail(kernel)
    /\ UNCHANGED <<modeVars, cur_alloc, arrived, phase>>

\* udp_recv_cb2
RecvCb2 ==
    /\ phase = "loop" /\ cb = 2 /\ kernel # <<>>
    /\ kernel' = Tail(kernel)
    /\ c_ignored' = c_ignored + 1
    /\ UNCHANGED <<modeVars, recv_queue, cur_alloc, seq_mapping, c_unrecv, c_failed, arrived,
                   phase, waits>>

-----------------------------------------------------------------------------
Callback == AllocCb0 \/ RecvCb0Nothing \/ RecvCb0 \/ RecvCb0End \/ RecvCb1 \/ RecvCb2

\* Operations that any program may perform at any time ...
Use ==
    \/ IgnoreRecv \/ DestroyUdp
    \/ \E t \in Task : Recv(t) \/ CancelRecv(t) \/ CancelRecvBySeq(t) \/ Send(t)

\* ... binding the seqer before the object receives for the first time, and
\* waiting for numbers nobody else waits for.
EarlyBind == phase = "loop" /\ receiving = "ready" /\ Bind
DistinctRecvBySeq ==
    \E t \in Task, s \in SeqNum : (\A q \in Task : waits[q] # s) /\ RecvBySeq(t, s)

External == (\E d \in SeqNum \cup {Bad} : Arrive(d)) \/ (\E t \in Task : SendCb(t))
UdpNext == External \/ Use \/ EarlyBind \/ DistinctRecvBySeq \/ Callback

Fairness == WF_udpVars(Callback) /\ WF_udpVars(\E t \in Task : SendCb(t))
UdpSpec == UdpInit /\ [][UdpNext]_udpVars /\ Fairness

\* The same with a seqer bound while the object receives, ...
LateBindSpec == UdpInit /\ [][UdpNext \/ Bind]_udpVars
\* ... and with several tasks that wait for the same number.
SharedSeqSpec == UdpInit /\ [][UdpNext \/ \E t \in Task, s \in SeqNum : RecvBySeq(t, s)]_udpVars

-----------------------------------------------------------------------------
\* Type invariant.
UdpTypeOK ==
    /\ alive \in BOOLEAN /\ seqer \in BOOLEAN
    /\ receiving \in {"ready", "recv", "recv_by_seq", "ignore"}
    /\ recv_queue \in Seq(Task)
    /\ cur_alloc \in Task \cup {NULL}
    /\ seq_mapping \subseteq SeqNum \X Task
    /\ c_unrecv \in Nat /\ c_failed \in Nat /\ c_ignored \in Nat /\ arrived \in Nat
    /\ cb \in 0..3
    /\ kernel \in Seq(SeqNum \cup {Bad})
    /\ phase \in {"loop", "alloc", "stand"}
    /\ waits \in [Task -> {"no", "recv", "send"} \cup SeqNum]

\* Each task that waits is registered exactly once where the callbacks look for
\* it, and nobody else is: a task that was canceled, or got its datagram, is
\* never resumed again.
WaitersRegistered ==
    LET queued == recv_queue \o (IF cur_alloc = NULL THEN <<>> ELSE <<cur_alloc>>)
    IN  /\ IsInjective(queued)
        /\ ToSet(queued) = {t \in Task : waits[t] = "recv"}
        /\ seq_mapping = {<<waits[t], t>> : t \in {q \in Task : waits[q] \in SeqNum}}

\* The socket is read exactly for those who wait: however tasks come, go and are
\* canceled, also inside a __task_stand, when the event loop has control a task in
\* recv or recv_by_seq is on a socket that is read by callbacks that can complete
\* it, and the callback for plain recv passes its CHECKs, somebody being queued.
SocketIsRead ==
    phase = "loop" =>
        /\ \A t \in Task : /\ waits[t] = "recv" => cb \in {0, 1}
                           /\ waits[t] \in SeqNum => cb = 1
        /\ cb = 0 => AllocChecks

\* Whoever waits is registered, and on a socket that is read for it.
RegisteredAndRead == UdpTypeOK /\ WaitersRegistered /\ SocketIsRead

\* Every datagram taken from the socket has one fate: it resumes one task, or it
\* is counted once, and recv_by_seq comes before recv, recv before the unrecv and
\* failed callbacks.
OneFate ==
    [][Len(kernel') < Len(kernel) =>
        LET resumed == {t \in Task : Waiting(t) /\ waits'[t] = "no"}
            missed == (c_unrecv' - c_unrecv) + (c_failed' - c_failed)
            wanted == cb = 1 /\ \E t \in Task : waits[t] = Head(kernel)
        IN  /\ Cardinality(resumed) + missed + (c_ignored' - c_ignored) = 1
            /\ wanted => \E t \in resumed : waits[t] = Head(kernel)
            /\ (\E t \in Task : waits[t] = "recv") => missed = 0]_udpVars

\* After the destructor a callback still on its way leaves the object alone
\* (the "Check valid" tests).
DeletedUntouched ==
    [][~alive => UNCHANGED <<modeVars, recv_queue, cur_alloc, seq_mapping, countVars>>]_udpVars

\* A task in recv does not wait for ever while there are datagrams to read,
\* whatever other tasks do meanwhile.
ReceiversServed ==
    \A t \in Task : (waits[t] = "recv" /\ kernel # <<>>) ~> (waits[t] = "no" \/ kernel = <<>>)

\* ignore_recv() is for good: the object ignores all datagrams from then on.
IgnoreLasts == [][receiving = "ignore" => receiving' = "ignore"]_udpVars
=============================================================================
