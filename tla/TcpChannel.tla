----------------------------- MODULE TcpChannel -----------------------------
(***************************************************************************)
(* tcp::recv and tcp::recv_by_seq on one tcp::connected object             *)
(* (src/tcp.cc).  Before bind() a read goes to the first task in recv;     *)
(* after it the connection is a channel: the stream is cut into packets in *)
(* buf2 (a header of HeaderLen bytes tells the length) and each packet     *)
(* goes to the task that waits for its sequence number, to a task in recv, *)
(* or to a counter.  A packet of an impossible length, or an error of the  *)
(* socket, breaks the connection and break_all_recv tells every waiter.    *)
(*                                                                         *)
(* The peer's packets are the sequence packets; a byte is <<k, i>>, the    *)
(* i-th byte of packet k, so that buffers show where packets begin.  User  *)
(* code runs between callbacks (phase "loop") and inside the __task_stand  *)
(* of a callback ("stand0", "stand2", "first", "break0", "break2").        *)
(* recv_till must not be mixed with these (docs) and is module TcpRecvTill.*)
(***************************************************************************)
EXTENDS Integers, FiniteSets, SequencesExt

CONSTANTS
    Task,       \* tasks that use the connection, one operation at a time
    SeqNum,     \* values of SeqType
    Bad,        \* a packet from which no number can be got
    NULL, End,  \* no task; end() of a container
    HeaderLen,  \* min_len of bind()
    MaxLen,     \* max_len of bind(), the size of buf2
    Traffic     \* what the peer may send: [packets, bytes]

\* A packet has at least a header, whatever length it claims.
Extent(p) == IF p.len < HeaderLen THEN HeaderLen ELSE p.len
BytesOf(s, k) == 1..Extent(s[k])
PacketBytes(s, k) == [i \in BytesOf(s, k) |-> <<k, i>>]

\* w is the bytes of the packets s one after the other.
Follows(s, b) == IF b[2] < Extent(s[b[1]]) THEN <<b[1], b[2] + 1>> ELSE <<b[1] + 1, 1>>
Concatenates(w, s) ==
    /\ w \in Seq((DOMAIN s) \X Nat)
    /\ \A n \in DOMAIN w : w[n][2] \in BytesOf(s, w[n][1])
    /\ \A n \in 1..(Len(w) - 1) : w[n + 1] = Follows(s, w[n])
    /\ IF s = <<>> THEN w = <<>>
       ELSE w # <<>> /\ w[1] = <<1, 1>> /\ w[Len(w)] = <<Len(s), Extent(s[Len(s)])>>

ASSUME ChannelAssumption ==
    /\ HeaderLen \in Nat \ {0} /\ MaxLen \in Nat /\ HeaderLen <= MaxLen
    /\ NULL \notin Task /\ End \notin Task /\ NULL # End
    /\ Bad \notin SeqNum /\ (SeqNum \cup {Bad}) \cap {"no", "recv"} = {}
    /\ \A s \in Traffic : /\ s.packets \in Seq([seq : SeqNum \cup {Bad}, len : Nat])
                         /\ Concatenates(s.bytes, s.packets)

VARIABLES
    packets,        \* never changes
    wire,           \* bytes that have not been read from the socket
    sock,           \* "ok", or "error" once an error or the end was reported
    \* connected
    alive, broken, receiving, seqer,
    bound,          \* header_len # 0
    recv_queue0, cur_alloc0,
    seq_mapping,    \* multimap of the seqer: {<<seq, task>>}
    buf2,           \* the first len2 bytes of it
    packet_len,
    c_unrecv, c_failed,
    \* tasks and control
    ret,            \* "unfinished", "success", "error" (any other code)
    waits,          \* "no", "recv" or a number
    phase,
    iter            \* the iterator of break_all_recv or of drop_all

streamVars == <<packets, wire, sock>>
modeVars == <<alive, broken, receiving, seqer, bound>>
packetVars == <<buf2, packet_len, c_unrecv, c_failed>>
queueVars == <<recv_queue0, cur_alloc0, seq_mapping>>
taskVars == <<ret, waits>>
vars == <<streamVars, modeVars, packetVars, queueVars, taskVars, phase, iter>>

Breaking == {"break0", "break2"}
UserCode == alive /\ phase \in {"loop", "stand0", "stand2", "first"} \cup Breaking
Waiting(t) == waits[t] # "no"

Init ==
    /\ \E s \in Traffic : packets = s.packets /\ wire = s.bytes
    /\ sock = "ok"
    /\ alive = TRUE /\ broken = FALSE /\ receiving = "ready" /\ seqer = FALSE /\ bound = FALSE
    /\ recv_queue0 = <<>> /\ cur_alloc0 = NULL /\ seq_mapping = {}
    /\ buf2 = <<>> /\ packet_len = 0 /\ c_unrecv = 0 /\ c_failed = 0
    /\ ret = [t \in Task |-> "unfinished"]
    /\ waits = [t \in Task |-> "no"]
    /\ phase = "loop" /\ iter = NULL

-----------------------------------------------------------------------------
\* connected::bind: the seqer is there from now on, but bind_inner opens the
\* channel only if nobody receives.
BindInner ==
    /\ bound' = (receiving = "ready")
    /\ receiving' = IF receiving = "ready" THEN "recv_by_seq" ELSE receiving
Bind ==
    /\ UserCode /\ ~seqer
    /\ seqer' = TRUE
    /\ BindInner
    /\ UNCHANGED <<streamVars, alive, broken, packetVars, queueVars, taskVars, phase, iter>>

Wait(t, w) ==
    /\ waits' = [waits EXCEPT ![t] = w]
    /\ ret' = [ret EXCEPT ![t] = "unfinished"]

\* recv::run up to its yield.
Recv(t) ==
    /\ UserCode /\ ~Waiting(t) /\ ~broken
    /\ receiving' = IF receiving = "ready" THEN "recv" ELSE receiving
    /\ recv_queue0' = Append(recv_queue0, t)
    /\ Wait(t, "recv")
    /\ UNCHANGED <<streamVars, alive, broken, seqer, bound, packetVars, cur_alloc0, seq_mapping,
                   phase, iter>>

\* recv_by_seq::run up to its yield.
RunPart0 == ~broken /\ receiving = "recv_by_seq"
RecvBySeq(t, s) ==
    /\ UserCode /\ ~Waiting(t) /\ RunPart0
    /\ seq_mapping' = seq_mapping \cup {<<s, t>>}
    /\ Wait(t, s)
    /\ UNCHANGED <<streamVars, modeVars, packetVars, recv_queue0, cur_alloc0, phase, iter>>

\* A container operation that erases the tasks ts: what the iterator points at
\* must not be among them.
PhaseAfterErase(ts) == IF phase \in Breaking /\ iter \in ts THEN "dangling" ELSE phase

\* recv::cancel.  (Seeded bug: stop when nobody is queued, also a channel.)
StopAnyway == IF recv_queue0' = <<>> THEN "ready" ELSE receiving
StopIfLast == IF receiving = "recv" /\ recv_queue0' = <<>> THEN "ready" ELSE receiving
PosOf(t) == CHOOSE i \in DOMAIN recv_queue0 : recv_queue0[i] = t
Unqueued(t) == RemoveAt(recv_queue0, PosOf(t))
CancelRecv(t) ==
    /\ UserCode /\ waits[t] = "recv"
    /\ recv_queue0' = Unqueued(t)
    /\ receiving' = StopIfLast
    /\ waits' = [waits EXCEPT ![t] = "no"]
    /\ phase' = PhaseAfterErase({t})
    /\ UNCHANGED <<streamVars, alive, broken, seqer, bound, packetVars, cur_alloc0, seq_mapping,
                   ret, iter>>

\* recv_by_seq::cancel: every entry of the number.
CancelRecvBySeq(t) ==
    LET gone == {e \in seq_mapping : e[1] = waits[t]}
    IN  /\ UserCode /\ waits[t] \in SeqNum
        /\ seq_mapping' = seq_mapping \ gone
        /\ waits' = [waits EXCEPT ![t] = "no"]
        /\ phase' = PhaseAfterErase({e[2] : e \in gone})
        /\ UNCHANGED <<streamVars, modeVars, packetVars, recv_queue0, cur_alloc0, ret, iter>>

\* connected::~connected, when no task uses the object any more.
Destroy ==
    /\ UserCode /\ \A t \in Task : ~Waiting(t)
    /\ alive' = FALSE
    /\ UNCHANGED <<streamVars, broken, receiving, seqer, bound, packetVars, queueVars, taskVars,
                   phase, iter>>

-----------------------------------------------------------------------------
\* The socket is polled: reading has been started and nothing has failed.
Polled == phase = "loop" /\ alive /\ sock = "ok"

Resume(t, r) ==
    /\ waits' = [waits EXCEPT ![t] = "no"]
    /\ ret' = [ret EXCEPT ![t] = r]

\* tcp_alloc_cb0: the front of the queue gets the bytes.  Its CHECKs abort the
\* program: SocketIsRead says that this does not happen.
AllocChecks == recv_queue0 # <<>> /\ cur_alloc0 = NULL
AllocCb0 ==
    /\ Polled /\ receiving = "recv" /\ AllocChecks
    /\ cur_alloc0' = Head(recv_queue0)
    /\ recv_queue0' = Tail(recv_queue0)
    /\ phase' = "alloc"
    /\ UNCHANGED <<streamVars, modeVars, packetVars, seq_mapping, taskVars, iter>>

\* tcp_recv_cb0: nothing to read; ...
PutBack == <<cur_alloc0>> \o recv_queue0
RecvCb0Nothing ==
    /\ phase = "alloc"
    /\ recv_queue0' = PutBack
    /\ cur_alloc0' = NULL
    /\ phase' = "loop"
    /\ UNCHANGED <<streamVars, modeVars, packetVars, seq_mapping, taskVars, iter>>

\* ... some bytes (here: up to the end of a packet, so that a program may bind
\* the channel afterwards); ...
RestOfPacket == Extent(packets[wire[1][1]]) - wire[1][2] + 1
RecvCb0 ==
    /\ phase = "alloc" /\ wire # <<>>
    /\ wire' = SubSeq(wire, RestOfPacket + 1, Len(wire))
    /\ Resume(cur_alloc0, "success")
    /\ cur_alloc0' = NULL
    /\ phase' = "stand0"
    /\ UNCHANGED <<packets, sock, modeVars, packetVars, recv_queue0, seq_mapping, iter>>

\* ... and after the __task_stand: reading stops if nobody is queued.
RecvCb0End ==
    /\ phase = "stand0"
    /\ receiving' = IF alive /\ recv_queue0 = <<>> THEN "ready" ELSE receiving
    /\ phase' = "loop"
    /\ UNCHANGED <<streamVars, alive, broken, seqer, bound, packetVars, queueVars, taskVars, iter>>

\* tcp_recv_cb0 with an error, up to its __task_stand.
RecvCb0Error ==
    /\ phase = "alloc"
    /\ broken' = TRUE /\ sock' = "error"
    /\ Resume(cur_alloc0, "error")
    /\ cur_alloc0' = NULL
    /\ phase' = "first"
    /\ UNCHANGED <<packets, wire, alive, receiving, seqer, bound, packetVars, recv_queue0,
                   seq_mapping, iter>>

-----------------------------------------------------------------------------
\* tcp_alloc_cb2: room for the rest of the header, or of the packet.
\* After a packet of an impossible length the socket is still read and the room
\* is not in buf2: what such a read does is not modelled.
Room == IF Len(buf2) < HeaderLen THEN HeaderLen - Len(buf2) ELSE packet_len - Len(buf2)
RoomOK == 0 < Room /\ Len(buf2) + Room <= MaxLen

\* A read of n bytes into buf2, and packet_len after it (lener() is called when
\* the header is complete).
Filled(n) == buf2 \o SubSeq(wire, 1, n)
LenAfter(n) == IF packet_len = 0 /\ Len(Filled(n)) = HeaderLen
                 THEN packets[Filled(n)[1][1]].len ELSE packet_len
Wrong(n) == /\ packet_len = 0 /\ Len(Filled(n)) = HeaderLen
            /\ LenAfter(n) < HeaderLen \/ LenAfter(n) > MaxLen
Whole(n) == ~Wrong(n) /\ LenAfter(n) # 0 /\ Len(Filled(n)) = LenAfter(n)
Read(n) ==
    /\ Polled /\ receiving = "recv_by_seq" /\ RoomOK
    /\ n <= Room /\ n <= Len(wire)
    /\ wire' = SubSeq(wire, n + 1, Len(wire))
    /\ buf2' = Filled(n)
    /\ packet_len' = LenAfter(n)

\* tcp_recv_cb2: the packet is not complete; ...
RecvCb2Part(n) ==
    /\ Read(n) /\ ~Wrong(n) /\ ~Whole(n)
    /\ UNCHANGED <<packets, sock, modeVars, c_unrecv, c_failed, queueVars, taskVars, phase, iter>>

\* ... it has an impossible length; ...
Begin == IF recv_queue0 = <<>> THEN End ELSE Head(recv_queue0)
RecvCb2Wrong(n) ==
    /\ Read(n) /\ Wrong(n)
    /\ broken' = TRUE
    /\ phase' = "break0" /\ iter' = Begin
    /\ UNCHANGED <<packets, sock, alive, receiving, seqer, bound, c_unrecv, c_failed, queueVars,
                   taskVars>>

\* ... it is complete: seqer_wrapper::unwrap finds an entry of its number, or it
\* goes to the front of the queue, or it is counted.  (Seeded bugs: the queue
\* comes first; an entry is not erased.)
EntriesLast(s) == IF recv_queue0 = <<>> THEN {e \in seq_mapping : e[1] = s} ELSE {}
Entries(s) == {e \in seq_mapping : e[1] = s}
KeepEntry(e) == seq_mapping
TakeEntry(e) == seq_mapping \ {e}
ToSeqWaiter(s) ==
    \E e \in Entries(s) : /\ seq_mapping' = TakeEntry(e)
                          /\ Resume(e[2], "success")
                          /\ UNCHANGED <<recv_queue0, c_unrecv, c_failed>>
ToQueue(s) ==
    /\ Entries(s) = {} /\ recv_queue0 # <<>>
    /\ recv_queue0' = Tail(recv_queue0)
    /\ Resume(Head(recv_queue0), "success")
    /\ UNCHANGED <<seq_mapping, c_unrecv, c_failed>>
CountMissed(s) == IF s = Bad THEN c_failed' = c_failed + 1 /\ UNCHANGED c_unrecv
                             ELSE c_unrecv' = c_unrecv + 1 /\ UNCHANGED c_failed
ToCounter(s) ==
    /\ Entries(s) = {} /\ recv_queue0 = <<>>
    /\ CountMissed(s)
    /\ UNCHANGED <<recv_queue0, seq_mapping, taskVars>>
RecvCb2Packet(n) ==
    LET s == packets[Filled(n)[1][1]].seq
    IN  /\ Read(n) /\ Whole(n)
        /\ ToSeqWaiter(s) \/ ToQueue(s) \/ ToCounter(s)
        /\ phase' = "stand2"
        /\ UNCHANGED <<packets, sock, modeVars, cur_alloc0, iter>>

\* ... and after the __task_stand: the next packet, if the object is still there.
\* (Seeded bug: the length stays.)
KeepLength == alive /\ buf2' = <<>> /\ UNCHANGED packet_len
NextPacket == alive /\ buf2' = <<>> /\ packet_len' = 0
RecvCb2End ==
    /\ phase = "stand2"
    /\ NextPacket \/ (~alive /\ UNCHANGED <<buf2, packet_len>>)
    /\ phase' = "loop"
    /\ UNCHANGED <<streamVars, modeVars, c_unrecv, c_failed, queueVars, taskVars, iter>>

\* ... or an error of the socket.
RecvCb2Error ==
    /\ Polled /\ receiving = "recv_by_seq" /\ RoomOK
    /\ broken' = TRUE /\ sock' = "error"
    /\ phase' = "break0" /\ iter' = Begin
    /\ UNCHANGED <<packets, wire, alive, receiving, seqer, bound, packetVars, queueVars, taskVars>>

-----------------------------------------------------------------------------
\* break_all_recv after the first task of tcp_recv_cb0 was told.
BreakBegin ==
    /\ phase = "first" /\ alive
    /\ phase' = "break0" /\ iter' = Begin
    /\ UNCHANGED <<streamVars, modeVars, packetVars, queueVars, taskVars>>

\* The object was destroyed in a __task_stand: nothing more is done.
BreakGone ==
    /\ phase \in {"first"} \cup Breaking /\ ~alive
    /\ phase' = "loop"
    /\ UNCHANGED <<streamVars, modeVars, packetVars, queueVars, taskVars, iter>>

\* The tasks in recv, one __task_stand after the other: erase(it++).
After(t) == IF PosOf(t) = Len(recv_queue0) THEN End ELSE recv_queue0[PosOf(t) + 1]
BreakRecv ==
    /\ phase = "break0" /\ alive /\ iter # End
    /\ Resume(iter, "error")
    /\ recv_queue0' = Unqueued(iter)
    /\ iter' = After(iter)
    /\ UNCHANGED <<streamVars, modeVars, packetVars, cur_alloc0, seq_mapping, phase>>

\* Then seqer_wrapper::drop_all; entries are visited in the order of SeqType,
\* which is left open here.  A connection without a seqer: a null pointer, as
\* in TcpRecvTill.  (Seeded bug: only the tasks in recv are told.)
NoPlaces(m) == {End}
Places(m) == IF m = {} THEN {End} ELSE {e[2] : e \in m}
BreakDropAll ==
    /\ phase = "break0" /\ alive /\ iter = End
    /\ phase' = IF seqer THEN "break2" ELSE "null"
    /\ iter' \in Places(seq_mapping)
    /\ UNCHANGED <<streamVars, modeVars, packetVars, queueVars, taskVars>>
BreakBySeq ==
    /\ phase = "break2" /\ alive /\ iter # End
    /\ Resume(iter, "error")
    /\ seq_mapping' = {e \in seq_mapping : e[2] # iter}
    /\ iter' \in Places(seq_mapping')
    /\ UNCHANGED <<streamVars, modeVars, packetVars, recv_queue0, cur_alloc0, phase>>
BreakEnd ==
    /\ phase = "break2" /\ alive /\ iter = End
    /\ phase' = "loop"
    /\ UNCHANGED <<streamVars, modeVars, packetVars, queueVars, taskVars, iter>>

-----------------------------------------------------------------------------
ReadSome == \E n \in 1..Len(wire) : RecvCb2Part(n) \/ RecvCb2Wrong(n) \/ RecvCb2Packet(n)

\* A callback that has begun goes on.
GoOn == RecvCb0Nothing \/ RecvCb0 \/ RecvCb0End \/ RecvCb0Error \/ RecvCb2End
        \/ BreakBegin \/ BreakGone \/ BreakRecv \/ BreakDropAll \/ BreakBySeq \/ BreakEnd

\* The channel is bound between callbacks, numbers are not shared, and while the
\* connection breaks nobody cancels the task that is told next.
EarlyBind == phase = "loop" /\ Bind
DistinctRecvBySeq ==
    \E t \in Task, s \in SeqNum : (\A q \in Task : waits[q] # s) /\ RecvBySeq(t, s)
Cancel(t) == CancelRecv(t) \/ CancelRecvBySeq(t)
CancelOther == \E t \in Task : ~(phase \in Breaking /\ iter = t) /\ Cancel(t)

Next == \/ EarlyBind \/ DistinctRecvBySeq \/ CancelOther \/ Destroy
        \/ (\E t \in Task : Recv(t))
        \/ AllocCb0 \/ ReadSome \/ RecvCb2Error \/ GoOn

\* A callback is finished, and a socket that has bytes for a channel is read in
\* some round of the event loop.
Fairness == WF_vars(GoOn) /\ WF_vars(ReadSome)
Spec == Init /\ [][Next]_vars /\ Fairness

\* The same with cancellation of any task, and with bind() at any time.
CancelSpec == Init /\ [][Next \/ \E t \in Task : Cancel(t)]_vars
LateBindSpec == Init /\ [][Next \/ Bind]_vars

-----------------------------------------------------------------------------
\* Type invariant.
TypeOK ==
    /\ wire \in Seq((DOMAIN packets) \X Nat) /\ buf2 \in Seq((DOMAIN packets) \X Nat)
    /\ sock \in {"ok", "error"}
    /\ alive \in BOOLEAN /\ broken \in BOOLEAN /\ seqer \in BOOLEAN /\ bound \in BOOLEAN
    /\ receiving \in {"ready", "recv", "recv_by_seq"}
    /\ recv_queue0 \in Seq(Task) /\ cur_alloc0 \in Task \cup {NULL}
    /\ seq_mapping \subseteq SeqNum \X Task
    /\ Len(buf2) <= MaxLen
    /\ packet_len \in Nat /\ c_unrecv \in Nat /\ c_failed \in Nat
    /\ ret \in [Task -> {"unfinished", "success", "error"}]
    /\ waits \in [Task -> {"no", "recv"} \cup SeqNum]
    /\ phase \in {"loop", "alloc", "stand0", "stand2", "first", "null", "dangling"} \cup Breaking
    /\ iter \in Task \cup {NULL, End}

\* tcp_alloc_cb2 offers some room, inside buf2, as long as the connection works,
\* for any lengths of packets and however the bytes are split into reads.
RoomInBuffer == Polled /\ receiving = "recv_by_seq" /\ ~broken => RoomOK

\* A task gets, and the program can look at, exactly one packet of the peer.
PacketsWhole ==
    phase = "stand2" /\ alive => \E k \in DOMAIN packets : buf2 = PacketBytes(packets, k)

\* The packet buffer is filled inside its bounds, with one packet at a time.
PacketsFramed == RoomInBuffer /\ PacketsWhole

\* A task that waits is registered exactly once where callbacks look for it, and
\* nobody else is: nobody is resumed a second time.
WaitersRegistered ==
    LET queued == recv_queue0 \o (IF cur_alloc0 = NULL THEN <<>> ELSE <<cur_alloc0>>)
    IN  /\ IsInjective(queued)
        /\ ToSet(queued) = {t \in Task : waits[t] = "recv"}
        /\ seq_mapping = {<<waits[t], t>> : t \in {q \in Task : waits[q] \in SeqNum}}

\* The socket is read exactly for those who wait: seen from the event loop, a task
\* in recv or recv_by_seq is on a socket that is being read for it, a channel is
\* read for good, and tcp_alloc_cb0 passes its CHECKs, somebody being queued.
SocketIsRead ==
    phase = "loop" /\ alive =>
        /\ bound => receiving = "recv_by_seq"
        /\ sock = "ok" /\ receiving = "recv" => AllocChecks
        /\ \A t \in Task : /\ waits[t] = "recv" => receiving # "ready"
                           /\ waits[t] \in SeqNum => receiving = "recv_by_seq"

\* Whoever waits is registered, and on a socket that is read for it.
RegisteredAndRead == TypeOK /\ WaitersRegistered /\ SocketIsRead

\* A broken connection has no waiters once break_all_recv is over, although those
\* told first may cancel others (but not the one that is told next, whose iterator
\* is held): nobody waits for a socket that will not be read any more.
BreakReachesAll ==
    phase = "loop" /\ alive /\ broken => \A t \in Task : ~Waiting(t)

\* A complete packet resumes one task or is counted once, and recv_by_seq comes
\* before recv, recv before the callbacks.
OneFate ==
    [][phase = "loop" /\ phase' = "stand2" =>
        LET s == packets[buf2'[1][1]].seq
            resumed == {t \in Task : Waiting(t) /\ waits'[t] = "no"}
            counted == (c_unrecv' - c_unrecv) + (c_failed' - c_failed)
        IN  /\ Cardinality(resumed) + counted = 1
            /\ (\E t \in Task : waits[t] = s) => \E t \in resumed : waits[t] = s
            /\ (\E t \in Task : waits[t] = "recv") => counted = 0]_vars

\* A channel that works is read to the last byte the peer has sent.
ChannelDrains ==
    (bound /\ wire # <<>>) ~> (wire = <<>> \/ broken \/ ~alive)
=============================================================================
