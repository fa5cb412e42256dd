-------------------------- MODULE TcpChannelProofs --------------------------
(***************************************************************************)
(* Proofs about TcpChannel, for any sets of tasks and sequence numbers,    *)
(* any header length and buffer size and any packets.                      *)
(*                                                                         *)
(* Three groups of facts are inductive together.  Who waits where          *)
(* (QueueInv, MappingInv) and for whom the socket is read (ModesAgree,     *)
(* ReadInv) are as for udp.  Breaking follows break_all_recv: its iterator *)
(* is the front of what is left, because nobody can begin to wait on a     *)
(* broken connection.  Framing says that buf2 is a beginning of one packet *)
(* and that the bytes still on the wire go on where it ends; this is what  *)
(* keeps packet_len, which is read from the stream, equal to the length of *)
(* the packet whose bytes follow.                                          *)
(***************************************************************************)
EXTENDS TcpChannel, SharedLemmas, FiniteSetTheorems

QueueInv ==
    /\ IsInjective(recv_queue0)
    /\ ToSet(recv_queue0) = {t \in Task : waits[t] = "recv" /\ t # cur_alloc0}
    /\ cur_alloc0 # NULL => waits[cur_alloc0] = "recv"

MappingInv ==
    /\ \A s \in SeqNum, t \in Task : <<s, t>> \in seq_mapping <=> waits[t] = s
    /\ \A t, u \in Task : waits[t] \in SeqNum /\ waits[t] = waits[u] => t = u

ModesAgree ==
    /\ receiving = "recv_by_seq" <=> bound
    /\ bound => seqer
    /\ phase = "alloc" <=> cur_alloc0 # NULL
    /\ phase = "alloc" => alive /\ receiving = "recv"
    /\ phase \in {"alloc", "stand0", "stand2"} => ~broken
    /\ phase = "stand0" => ~bound
    /\ phase = "stand2" => bound
    /\ phase \in {"first", "null"} \cup Breaking => broken
    /\ broken => sock = "error" \/ bound
    /\ sock = "error" => broken

\* The socket is read for whoever waits.
ReadInv ==
    /\ ~alive => \A t \in Task : ~Waiting(t)
    /\ \A t \in Task : waits[t] = "recv" => receiving # "ready"
    /\ \A t \in Task : waits[t] \in SeqNum => receiving = "recv_by_seq"
    /\ phase = "loop" /\ alive /\ sock = "ok" /\ receiving = "recv" => recv_queue0 # <<>>

\* How far break_all_recv has come.
BreakInv ==
    /\ phase # "dangling"
    /\ phase = "break0" => iter = Begin
    /\ phase = "break2" => /\ recv_queue0 = <<>>
                           /\ iter = End => seq_mapping = {}
                           /\ iter # End => iter \in Task /\ waits[iter] \in SeqNum
    /\ phase = "loop" /\ alive /\ broken => \A t \in Task : ~Waiting(t)

\* The bytes on the wire follow each other.
WireInv ==
    /\ packets \in Seq([seq : SeqNum \cup {Bad}, len : Nat])
    /\ \A n \in 1..Len(wire) : wire[n][2] \in BytesOf(packets, wire[n][1])
    /\ \A n \in 1..(Len(wire) - 1) : wire[n + 1] = Follows(packets, wire[n])

\* buf2 is the first bytes of a packet, and the wire goes on with the next one.
Buffered(k) ==
    /\ \A i \in 1..Len(buf2) : buf2[i] = <<k, i>>
    /\ Len(buf2) <= Extent(packets[k])
    /\ wire # <<>> => wire[1] = Follows(packets, <<k, Len(buf2)>>)
    /\ packet_len = IF Len(buf2) < HeaderLen THEN 0 ELSE packets[k].len

\* No packet is begun.
Between ==
    /\ wire # <<>> => wire[1][2] = 1
    /\ packet_len = 0

Framing ==
    /\ buf2 = <<>> => Between
    /\ buf2 # <<>> => bound /\ \E k \in DOMAIN packets : Buffered(k)
    /\ phase = "stand2" /\ alive => HeaderLen <= packet_len /\ Len(buf2) = packet_len
    /\ ~broken /\ phase = "loop" /\ Len(buf2) >= HeaderLen /\ alive =>
           HeaderLen <= packet_len /\ packet_len <= MaxLen /\ Len(buf2) < packet_len
    /\ broken /\ sock = "ok" => ~RoomOK

IndInv == TypeOK /\ QueueInv /\ MappingInv /\ ModesAgree /\ ReadInv /\ BreakInv /\ WireInv /\ Framing

LEMMA InitOK == Init => IndInv
<1> SUFFICES ASSUME Init PROVE IndInv
  OBVIOUS
<1>1. PICK s \in Traffic : packets = s.packets /\ wire = s.bytes
  BY DEF Init
<1>2. /\ packets \in Seq([seq : SeqNum \cup {Bad}, len : Nat])
      /\ Concatenates(wire, packets)
  BY <1>1, ChannelAssumption
<1>3. wire \in Seq((DOMAIN packets) \X Nat) /\ buf2 = <<>> /\ Len(buf2) = 0
  BY <1>2 DEF Init, Concatenates
<1>4. TypeOK
  <2>1. <<>> \in Seq(Task) /\ <<>> \in Seq((DOMAIN packets) \X Nat)
    BY EmptySeq
  <2>2. waits \in [Task -> {"no", "recv"} \cup SeqNum] /\ ret \in [Task -> {"unfinished", "success", "error"}]
    BY DEF Init
  <2>3. 0 \in Nat /\ Len(buf2) <= MaxLen
    BY <1>3, ChannelAssumption
  <2>4. /\ alive \in BOOLEAN /\ broken \in BOOLEAN /\ seqer \in BOOLEAN /\ bound \in BOOLEAN
        /\ seq_mapping \subseteq SeqNum \X Task
        /\ phase \in {"loop", "alloc", "stand0", "stand2", "first", "null", "dangling"} \cup Breaking
    BY DEF Init
  <2> QED
    BY <1>3, <2>1, <2>2, <2>3, <2>4 DEF Init, TypeOK
<1>5. QueueInv
  BY EmptyQueue DEF Init, QueueInv
<1>6. MappingInv
  BY ChannelAssumption DEF Init, MappingInv
<1>7. ModesAgree /\ ReadInv /\ BreakInv
  BY ChannelAssumption DEF Init, ModesAgree, ReadInv, BreakInv, Breaking
<1>8. WireInv
  <2>1. DOMAIN wire = 1..Len(wire)
    BY <1>3, SeqBasics
  <2> QED
    BY <1>2, <2>1 DEF WireInv, Concatenates
<1>9. Framing
  <2>1. wire # <<>> => wire[1][2] = 1
    BY <1>2 DEF Concatenates
  <2>2. ~(0 >= HeaderLen)
    BY ChannelAssumption
  <2> QED
    BY <1>3, <2>1, <2>2 DEF Init, Framing, Between
<1> QED
  BY <1>4, <1>5, <1>6, <1>7, <1>8, <1>9 DEF IndInv

-----------------------------------------------------------------------------
\* Steps that leave the queue, the multimap, or the stream alone.

LEMMA QueueFrame ==
    ASSUME QueueInv, UNCHANGED <<recv_queue0, cur_alloc0>>,
           cur_alloc0 # NULL => cur_alloc0 \in Task,
           \A t \in Task : waits'[t] = "recv" <=> waits[t] = "recv"
    PROVE  QueueInv'
BY DEF QueueInv

LEMMA MappingFrame ==
    ASSUME MappingInv, UNCHANGED seq_mapping,
           \A t \in Task : waits'[t] \in SeqNum \/ waits[t] \in SeqNum => waits'[t] = waits[t]
    PROVE  MappingInv'
BY DEF MappingInv

LEMMA FramingFrame ==
    ASSUME IndInv, UNCHANGED <<packets, wire, buf2, packet_len>>,
           bound => bound',
           phase' = "stand2" /\ alive' => phase = "stand2" /\ alive,
           ~broken' /\ phase' = "loop" /\ alive' =>
               (~broken /\ phase = "loop" /\ alive) \/ buf2 = <<>>,
           broken' /\ sock' = "ok" => broken /\ sock = "ok"
    PROVE  WireInv' /\ Framing'
<1>1. WireInv'
  BY DEF IndInv, WireInv, BytesOf, Extent, Follows
<1>2. Framing'
  <2>1. ~(Len(<<>>) >= HeaderLen)
    BY ChannelAssumption, EmptySeq
  <2>2. (buf2 = <<>> => Between') /\ (buf2 # <<>> => bound' /\ \E k \in DOMAIN packets : Buffered(k)')
    BY DEF IndInv, Framing, Between, Buffered, Extent, Follows
  <2>3. phase' = "stand2" /\ alive' => HeaderLen <= packet_len /\ Len(buf2) = packet_len
    BY DEF IndInv, Framing
  <2>4. ~broken' /\ phase' = "loop" /\ Len(buf2) >= HeaderLen /\ alive' =>
            HeaderLen <= packet_len /\ packet_len <= MaxLen /\ Len(buf2) < packet_len
    BY <2>1 DEF IndInv, Framing
  <2>5. broken' /\ sock' = "ok" => ~RoomOK'
    BY DEF IndInv, Framing, RoomOK, Room
  <2> QED
    BY <2>2, <2>3, <2>4, <2>5 DEF Framing
<1> QED
  BY <1>1, <1>2

LEMMA Queued ==
    ASSUME IndInv, NEW t \in Task, waits[t] = "recv", phase # "alloc"
    PROVE  t \in ToSet(recv_queue0)
BY ChannelAssumption DEF IndInv, QueueInv, ModesAgree

\* A queue is empty when nobody waits in it.
LEMMA NobodyQueued ==
    ASSUME recv_queue0 \in Seq(Task), QueueInv, cur_alloc0 = NULL
    PROVE  recv_queue0 = <<>> <=> \A t \in Task : waits[t] # "recv"
<1>1. recv_queue0 = <<>> <=> ToSet(recv_queue0) = {}
  BY SeqBasics
<1> QED
  BY <1>1, ChannelAssumption DEF QueueInv

LEMMA BeginIs ==
    ASSUME recv_queue0 \in Seq(Task), IsInjective(recv_queue0)
    PROVE  /\ Begin = End <=> recv_queue0 = <<>>
           /\ Begin # End => Begin \in ToSet(recv_queue0) /\ Begin \in Task /\ Begin = recv_queue0[1]
<1>1. recv_queue0 # <<>> => /\ Head(recv_queue0) \in ToSet(recv_queue0) /\ Head(recv_queue0) \in Task
                            /\ Head(recv_queue0) = recv_queue0[1]
  BY Dequeue, TailAt
<1> QED
  BY <1>1, ChannelAssumption DEF Begin

-----------------------------------------------------------------------------
LEMMA BindOK ==
    ASSUME IndInv, EarlyBind
    PROVE  IndInv'
<1>1. /\ UNCHANGED <<packets, wire, sock, alive, broken, buf2, packet_len, c_unrecv, c_failed,
                     recv_queue0, cur_alloc0, seq_mapping, ret, waits, phase, iter>>
      /\ phase = "loop" /\ alive /\ ~seqer /\ seqer'
      /\ bound' = (receiving = "ready")
      /\ receiving' = IF receiving = "ready" THEN "recv_by_seq" ELSE receiving
      /\ seqer' \in BOOLEAN
  BY DEF EarlyBind, Bind, BindInner, UserCode, streamVars, packetVars, queueVars, taskVars
<1>2. ~bound /\ receiving # "recv_by_seq"
  BY <1>1 DEF IndInv, ModesAgree
<1>3. TypeOK'
  BY <1>1 DEF IndInv, TypeOK
<1>4. QueueInv' /\ MappingInv'
  BY <1>1 DEF IndInv, QueueInv, MappingInv
<1>5. ModesAgree'
  BY <1>1, <1>2 DEF IndInv, TypeOK, ModesAgree, Breaking
<1>6. ReadInv' /\ BreakInv'
  BY <1>1, <1>2 DEF IndInv, ReadInv, BreakInv, Begin, Waiting
<1>7. WireInv' /\ Framing'
  BY <1>1, <1>2, FramingFrame
<1> QED
  BY <1>3, <1>4, <1>5, <1>6, <1>7 DEF IndInv

LEMMA RecvOK ==
    ASSUME IndInv, NEW t \in Task, Recv(t)
    PROVE  IndInv'
<1>1. /\ UNCHANGED <<packets, wire, sock, alive, broken, seqer, bound, buf2, packet_len, c_unrecv,
                     c_failed, cur_alloc0, seq_mapping, phase, iter>>
      /\ alive /\ phase \in {"loop", "stand0", "stand2", "first"} \cup Breaking
      /\ waits[t] = "no" /\ ~broken
      /\ receiving' = IF receiving = "ready" THEN "recv" ELSE receiving
      /\ recv_queue0' = Append(recv_queue0, t)
      /\ waits' = [waits EXCEPT ![t] = "recv"] /\ ret' = [ret EXCEPT ![t] = "unfinished"]
  BY DEF Recv, Wait, UserCode, Waiting, streamVars, packetVars
<1>2. waits'[t] = "recv" /\ \A u \in Task : u # t => waits'[u] = waits[u]
  BY <1>1 DEF IndInv, TypeOK
<1>3. phase \in {"loop", "stand0", "stand2"} /\ cur_alloc0 = NULL
  BY <1>1 DEF IndInv, ModesAgree, Breaking
<1>4. /\ recv_queue0' \in Seq(Task) /\ IsInjective(recv_queue0')
      /\ ToSet(recv_queue0') = ToSet(recv_queue0) \cup {t}
      /\ recv_queue0' # <<>>
  <2>1. recv_queue0 \in Seq(Task) /\ IsInjective(recv_queue0) /\ t \notin ToSet(recv_queue0)
    BY <1>1 DEF IndInv, TypeOK, QueueInv
  <2>2. /\ recv_queue0' \in Seq(Task) /\ IsInjective(recv_queue0')
        /\ ToSet(recv_queue0') = ToSet(recv_queue0) \cup {t}
    BY <1>1, <2>1, Enqueue
  <2> QED
    BY <2>2, SeqBasics
<1>5. TypeOK'
  BY <1>1, <1>4 DEF IndInv, TypeOK
<1>6. QueueInv'
  BY <1>1, <1>2, <1>3, <1>4, ChannelAssumption DEF IndInv, QueueInv
<1>7. MappingInv'
  BY <1>1, <1>2, MappingFrame, ChannelAssumption DEF IndInv
<1>8. ModesAgree'
  BY <1>1, <1>3 DEF IndInv, ModesAgree, Breaking
<1>9. ReadInv' /\ BreakInv'
  BY <1>1, <1>2, <1>3, <1>4, ChannelAssumption DEF IndInv, ReadInv, BreakInv
<1>10. WireInv' /\ Framing'
  BY <1>1, FramingFrame
<1> QED
  BY <1>5, <1>6, <1>7, <1>8, <1>9, <1>10 DEF IndInv

LEMMA RecvBySeqOK ==
    ASSUME IndInv, NEW t \in Task, NEW s \in SeqNum, \A q \in Task : waits[q] # s, RecvBySeq(t, s)
    PROVE  IndInv'
<1>1. /\ UNCHANGED <<packets, wire, sock, alive, broken, receiving, seqer, bound, buf2, packet_len,
                     c_unrecv, c_failed, recv_queue0, cur_alloc0, phase, iter>>
      /\ alive /\ phase \in {"loop", "stand0", "stand2", "first"} \cup Breaking
      /\ waits[t] = "no" /\ ~broken /\ receiving = "recv_by_seq"
      /\ seq_mapping' = seq_mapping \cup {<<s, t>>}
      /\ waits' = [waits EXCEPT ![t] = s] /\ ret' = [ret EXCEPT ![t] = "unfinished"]
  BY DEF RecvBySeq, RunPart0, Wait, UserCode, Waiting, streamVars, modeVars, packetVars
<1>2. waits'[t] = s /\ \A u \in Task : u # t => waits'[u] = waits[u]
  BY <1>1 DEF IndInv, TypeOK
<1>3. phase \in {"loop", "stand0", "stand2"} /\ cur_alloc0 = NULL
  BY <1>1 DEF IndInv, ModesAgree, Breaking
<1>4. TypeOK'
  BY <1>1 DEF IndInv, TypeOK
<1>5. QueueInv'
  BY <1>1, <1>2, <1>3, QueueFrame, ChannelAssumption DEF IndInv
<1>6. MappingInv'
  BY <1>1, <1>2, ChannelAssumption DEF IndInv, MappingInv
<1>7. ModesAgree'
  BY <1>1 DEF IndInv, ModesAgree, Breaking
<1>8. ReadInv' /\ BreakInv'
  BY <1>1, <1>2, <1>3 DEF IndInv, ReadInv, BreakInv
<1>9. WireInv' /\ Framing'
  BY <1>1, FramingFrame
<1> QED
  BY <1>4, <1>5, <1>6, <1>7, <1>8, <1>9 DEF IndInv

LEMMA CancelRecvOK ==
    ASSUME IndInv, NEW t \in Task, ~(phase \in Breaking /\ iter = t), CancelRecv(t)
    PROVE  IndInv'
<1>1. /\ UNCHANGED <<packets, wire, sock, alive, broken, seqer, bound, buf2, packet_len, c_unrecv,
                     c_failed, cur_alloc0, seq_mapping, ret, phase, iter>>
      /\ alive /\ phase \in {"loop", "stand0", "stand2", "first"} \cup Breaking /\ waits[t] = "recv"
      /\ recv_queue0' = RemoveAt(recv_queue0, PosOf(t))
      /\ receiving' = IF receiving = "recv" /\ recv_queue0' = <<>> THEN "ready" ELSE receiving
      /\ waits' = [waits EXCEPT ![t] = "no"]
  BY DEF CancelRecv, Unqueued, StopIfLast, PhaseAfterErase, UserCode, streamVars, packetVars
<1>2. waits'[t] = "no" /\ \A u \in Task : u # t => waits'[u] = waits[u]
  BY <1>1 DEF IndInv, TypeOK
<1>3. phase # "alloc" /\ cur_alloc0 = NULL
  BY <1>1 DEF IndInv, ModesAgree, Breaking
<1>4. /\ recv_queue0 \in Seq(Task) /\ IsInjective(recv_queue0) /\ t \in ToSet(recv_queue0)
      /\ PosOf(t) \in 1..Len(recv_queue0) /\ recv_queue0[PosOf(t)] = t
  <2>1. recv_queue0 \in Seq(Task) /\ IsInjective(recv_queue0) /\ t \in ToSet(recv_queue0)
    BY <1>1, <1>3, Queued DEF IndInv, TypeOK, QueueInv
  <2> QED
    BY <2>1, PositionOf DEF PosOf
<1>5. /\ recv_queue0' \in Seq(Task) /\ IsInjective(recv_queue0')
      /\ ToSet(recv_queue0') = ToSet(recv_queue0) \ {t}
      /\ Len(recv_queue0') = Len(recv_queue0) - 1 /\ Len(recv_queue0) \in Nat
      /\ \A i \in 1..(Len(recv_queue0) - 1) :
             recv_queue0'[i] = IF i < PosOf(t) THEN recv_queue0[i] ELSE recv_queue0[i + 1]
  BY <1>1, <1>4, EraseAt
<1>6. QueueInv'
  BY <1>1, <1>2, <1>3, <1>5 DEF IndInv, QueueInv
<1>7. recv_queue0' = <<>> <=> \A u \in Task : waits'[u] # "recv"
  <2>1. recv_queue0' = <<>> <=> ToSet(recv_queue0') = {}
    BY <1>5, SeqBasics
  <2> QED
    BY <1>1, <1>3, <2>1, <1>6, ChannelAssumption DEF QueueInv
<1>8. TypeOK'
  BY <1>1, <1>5 DEF IndInv, TypeOK
<1>9. MappingInv'
  BY <1>1, <1>2, MappingFrame, ChannelAssumption DEF IndInv
<1>10. ModesAgree'
  BY <1>1 DEF IndInv, ModesAgree, Breaking
<1>11. ReadInv'
  BY <1>1, <1>2, <1>7, ChannelAssumption DEF IndInv, ReadInv, Waiting
<1>12. BreakInv'
  <2>1. ASSUME phase = "break0" PROVE iter = Begin'
    \* iter is the front, and not the one that is canceled.
    <3>1. iter = Begin /\ Begin # End
      BY <1>4, <2>1, BeginIs, SeqBasics DEF IndInv, BreakInv
    <3>2. iter = recv_queue0[1] /\ recv_queue0[1] # t
      BY <1>4, <2>1, <3>1, BeginIs DEF Breaking
    <3>3. PosOf(t) # 1
      BY <1>4, <3>2
    <3>4. 1 < PosOf(t) /\ 1 \in 1..(Len(recv_queue0) - 1) /\ Len(recv_queue0') # 0
      BY <1>4, <1>5, <3>3
    <3>5. recv_queue0'[1] = recv_queue0[1]
      BY <1>5, <3>4
    <3>6. recv_queue0' # <<>> /\ Head(recv_queue0') = recv_queue0'[1]
      BY <1>5, <3>4, SeqBasics, HeadTailProperties
    <3> QED
      BY <3>2, <3>5, <3>6 DEF Begin
  <2>2. phase # "break2"
    BY <1>4, SeqBasics DEF IndInv, BreakInv
  <2> QED
    BY <1>1, <1>2, <2>1, <2>2 DEF IndInv, BreakInv, Waiting
<1>13. WireInv' /\ Framing'
  BY <1>1, FramingFrame
<1> QED
  BY <1>6, <1>8, <1>9, <1>10, <1>11, <1>12, <1>13 DEF IndInv

LEMMA CancelRecvBySeqOK ==
    ASSUME IndInv, NEW t \in Task, ~(phase \in Breaking /\ iter = t), CancelRecvBySeq(t)
    PROVE  IndInv'
<1> DEFINE gone == {e \in seq_mapping : e[1] = waits[t]}
<1>1. /\ UNCHANGED <<packets, wire, sock, alive, broken, receiving, seqer, bound, buf2, packet_len,
                     c_unrecv, c_failed, recv_queue0, cur_alloc0, ret, iter>>
      /\ alive /\ phase \in {"loop", "stand0", "stand2", "first"} \cup Breaking /\ waits[t] \in SeqNum
      /\ seq_mapping' = seq_mapping \ gone
      /\ waits' = [waits EXCEPT ![t] = "no"]
      /\ phase' = PhaseAfterErase({e[2] : e \in gone})
  BY DEF CancelRecvBySeq, UserCode, streamVars, modeVars, packetVars
<1>2. waits'[t] = "no" /\ \A u \in Task : u # t => waits'[u] = waits[u]
  BY <1>1 DEF IndInv, TypeOK
<1>3. gone = {<<waits[t], t>>}
  <2>1. <<waits[t], t>> \in gone
    BY <1>1 DEF IndInv, MappingInv
  <2>2. ASSUME NEW e \in gone PROVE e = <<waits[t], t>>
    <3>1. PICK s \in SeqNum, u \in Task : e = <<s, u>>
      BY DEF IndInv, TypeOK
    <3>2. s = waits[t] /\ waits[u] = s
      BY <3>1 DEF IndInv, MappingInv
    <3> QED
      BY <1>1, <3>1, <3>2 DEF IndInv, MappingInv
  <2> QED
    BY <2>1, <2>2
<1> HIDE DEF gone
<1>4. phase' = phase /\ seq_mapping' = seq_mapping \ {<<waits[t], t>>}
  BY <1>1, <1>3 DEF PhaseAfterErase
<1>5. TypeOK'
  BY <1>1, <1>4 DEF IndInv, TypeOK
<1>6. QueueInv'
  BY <1>1, <1>2, QueueFrame, ChannelAssumption DEF IndInv, TypeOK
<1>7. MappingInv'
  BY <1>1, <1>2, <1>4, ChannelAssumption DEF IndInv, MappingInv
<1>8. ModesAgree'
  BY <1>1, <1>4 DEF IndInv, ModesAgree, Breaking
<1>9. ReadInv'
  BY <1>1, <1>2, <1>4, ChannelAssumption DEF IndInv, ReadInv, Waiting
<1>10. BreakInv'
  BY <1>1, <1>2, <1>4 DEF IndInv, BreakInv, Begin, Waiting, Breaking
<1>11. WireInv' /\ Framing'
  BY <1>1, <1>4, FramingFrame
<1> QED
  BY <1>5, <1>6, <1>7, <1>8, <1>9, <1>10, <1>11 DEF IndInv

LEMMA DestroyOK ==
    ASSUME IndInv, Destroy
    PROVE  IndInv'
<1>1. /\ UNCHANGED <<packets, wire, sock, broken, receiving, seqer, bound, buf2, packet_len,
                     c_unrecv, c_failed, recv_queue0, cur_alloc0, seq_mapping, ret, waits, phase, iter>>
      /\ alive /\ ~alive' /\ alive' \in BOOLEAN /\ phase # "alloc"
      /\ \A t \in Task : waits[t] = "no"
  BY DEF Destroy, UserCode, Waiting, streamVars, packetVars, queueVars, taskVars, Breaking
<1>2. TypeOK' /\ QueueInv' /\ MappingInv'
  BY <1>1 DEF IndInv, TypeOK, QueueInv, MappingInv
<1>3. ModesAgree' /\ ReadInv' /\ BreakInv'
  BY <1>1, ChannelAssumption DEF IndInv, ModesAgree, ReadInv, BreakInv, Waiting, Begin
<1>4. WireInv' /\ Framing'
  BY <1>1, FramingFrame
<1> QED
  BY <1>2, <1>3, <1>4 DEF IndInv

-----------------------------------------------------------------------------
\* The callbacks of plain recv.

LEMMA AllocCb0OK ==
    ASSUME IndInv, AllocCb0
    PROVE  IndInv'
<1>1. /\ UNCHANGED <<packets, wire, sock, alive, broken, receiving, seqer, bound, buf2, packet_len,
                     c_unrecv, c_failed, seq_mapping, ret, waits, iter>>
      /\ phase = "loop" /\ alive /\ sock = "ok" /\ receiving = "recv"
      /\ recv_queue0 # <<>> /\ cur_alloc0 = NULL
      /\ cur_alloc0' = Head(recv_queue0) /\ recv_queue0' = Tail(recv_queue0) /\ phase' = "alloc"
  BY DEF AllocCb0, Polled, AllocChecks, streamVars, modeVars, packetVars, taskVars
<1>2. ~bound /\ ~broken
  BY <1>1 DEF IndInv, ModesAgree
<1>3. /\ recv_queue0' \in Seq(Task) /\ IsInjective(recv_queue0')
      /\ cur_alloc0' \in Task /\ cur_alloc0' \in ToSet(recv_queue0)
      /\ ToSet(recv_queue0') = ToSet(recv_queue0) \ {cur_alloc0'}
  <2>1. recv_queue0 \in Seq(Task) /\ IsInjective(recv_queue0)
    BY DEF IndInv, TypeOK, QueueInv
  <2> QED
    BY <1>1, <2>1, Dequeue
<1>4. cur_alloc0' # NULL /\ waits[cur_alloc0'] = "recv"
  BY <1>3, ChannelAssumption DEF IndInv, QueueInv
<1>5. TypeOK'
  BY <1>1, <1>3 DEF IndInv, TypeOK
<1>6. QueueInv'
  BY <1>1, <1>3, <1>4, ChannelAssumption DEF IndInv, QueueInv
<1>7. MappingInv'
  BY <1>1, MappingFrame DEF IndInv
<1>8. ModesAgree' /\ ReadInv' /\ BreakInv'
  BY <1>1, <1>2, <1>4 DEF IndInv, ModesAgree, ReadInv, BreakInv, Breaking, Waiting
<1>9. WireInv' /\ Framing'
  BY <1>1, FramingFrame
<1> QED
  BY <1>5, <1>6, <1>7, <1>8, <1>9 DEF IndInv

\* Between tcp_alloc_cb0 and tcp_recv_cb0.
LEMMA Allocated ==
    ASSUME IndInv, phase = "alloc"
    PROVE  /\ cur_alloc0 \in Task /\ cur_alloc0 # NULL /\ waits[cur_alloc0] = "recv"
           /\ alive /\ ~broken /\ sock = "ok" /\ receiving = "recv" /\ ~bound
           /\ buf2 = <<>> /\ Between
           /\ \A t \in Task : waits[t] \notin SeqNum
BY DEF IndInv, TypeOK, QueueInv, ModesAgree, ReadInv, Framing

LEMMA RecvCb0NothingOK ==
    ASSUME IndInv, RecvCb0Nothing
    PROVE  IndInv'
<1>1. /\ UNCHANGED <<packets, wire, sock, alive, broken, receiving, seqer, bound, buf2, packet_len,
                     c_unrecv, c_failed, seq_mapping, ret, waits, iter>>
      /\ phase = "alloc" /\ phase' = "loop" /\ cur_alloc0' = NULL
      /\ recv_queue0' = <<cur_alloc0>> \o recv_queue0
  BY DEF RecvCb0Nothing, PutBack, streamVars, modeVars, packetVars, taskVars
<1>2. /\ cur_alloc0 \in Task /\ cur_alloc0 # NULL /\ waits[cur_alloc0] = "recv"
      /\ alive /\ ~broken /\ sock = "ok" /\ receiving = "recv" /\ ~bound /\ buf2 = <<>>
  BY <1>1, Allocated
<1>3. /\ recv_queue0' \in Seq(Task) /\ IsInjective(recv_queue0') /\ recv_queue0' # <<>>
      /\ ToSet(recv_queue0') = ToSet(recv_queue0) \cup {cur_alloc0}
  <2>1. recv_queue0 \in Seq(Task) /\ IsInjective(recv_queue0) /\ cur_alloc0 \notin ToSet(recv_queue0)
    BY DEF IndInv, TypeOK, QueueInv
  <2> QED
    BY <1>1, <1>2, <2>1, PutBackQueue
<1>4. TypeOK'
  BY <1>1, <1>3 DEF IndInv, TypeOK
<1>5. QueueInv'
  BY <1>1, <1>2, <1>3, ChannelAssumption DEF IndInv, QueueInv
<1>6. MappingInv'
  BY <1>1, MappingFrame DEF IndInv
<1>7. ModesAgree' /\ ReadInv' /\ BreakInv'
  BY <1>1, <1>2, <1>3 DEF IndInv, ModesAgree, ReadInv, BreakInv, Breaking, Waiting
<1>8. WireInv' /\ Framing'
  BY <1>1, <1>2, FramingFrame
<1> QED
  BY <1>4, <1>5, <1>6, <1>7, <1>8 DEF IndInv

LEMMA RecvCb0EndOK ==
    ASSUME IndInv, RecvCb0End
    PROVE  IndInv'
<1>1. /\ UNCHANGED <<packets, wire, sock, alive, broken, seqer, bound, buf2, packet_len, c_unrecv,
                     c_failed, recv_queue0, cur_alloc0, seq_mapping, ret, waits, iter>>
      /\ phase = "stand0" /\ phase' = "loop"
      /\ receiving' = IF alive /\ recv_queue0 = <<>> THEN "ready" ELSE receiving
  BY DEF RecvCb0End, streamVars, packetVars, queueVars, taskVars
<1>2. ~bound /\ ~broken /\ cur_alloc0 = NULL /\ buf2 = <<>> /\ receiving # "recv_by_seq"
  BY <1>1 DEF IndInv, ModesAgree, Framing
<1>3. recv_queue0 = <<>> <=> \A t \in Task : waits[t] # "recv"
  BY <1>2, NobodyQueued DEF IndInv, TypeOK
<1>4. TypeOK' /\ QueueInv' /\ MappingInv'
  BY <1>1 DEF IndInv, TypeOK, QueueInv, MappingInv
<1>5. ModesAgree' /\ BreakInv'
  BY <1>1, <1>2 DEF IndInv, ModesAgree, BreakInv, Breaking
<1>6. ReadInv'
  BY <1>1, <1>2, <1>3 DEF IndInv, ReadInv, Waiting
<1>7. WireInv' /\ Framing'
  BY <1>1, <1>2, FramingFrame
<1> QED
  BY <1>4, <1>5, <1>6, <1>7 DEF IndInv

LEMMA RecvCb0ErrorOK ==
    ASSUME IndInv, RecvCb0Error
    PROVE  IndInv'
<1>1. /\ UNCHANGED <<packets, wire, alive, receiving, seqer, bound, buf2, packet_len, c_unrecv,
                     c_failed, recv_queue0, seq_mapping, iter>>
      /\ phase = "alloc" /\ phase' = "first" /\ cur_alloc0' = NULL
      /\ broken' /\ broken' \in BOOLEAN /\ sock' = "error"
      /\ waits' = [waits EXCEPT ![cur_alloc0] = "no"] /\ ret' = [ret EXCEPT ![cur_alloc0] = "error"]
  BY DEF RecvCb0Error, Resume, packetVars
<1>2. /\ cur_alloc0 \in Task /\ cur_alloc0 # NULL /\ waits[cur_alloc0] = "recv"
      /\ alive /\ receiving = "recv" /\ ~bound /\ buf2 = <<>>
  BY <1>1, Allocated
<1>3. waits'[cur_alloc0] = "no" /\ \A u \in Task : u # cur_alloc0 => waits'[u] = waits[u]
  BY <1>1, <1>2 DEF IndInv, TypeOK
<1>4. TypeOK'
  BY <1>1, <1>2 DEF IndInv, TypeOK
<1>5. QueueInv'
  BY <1>1, <1>2, <1>3, ChannelAssumption DEF IndInv, QueueInv
<1>6. MappingInv'
  BY <1>1, <1>2, <1>3, MappingFrame, ChannelAssumption DEF IndInv
<1>7. ModesAgree' /\ ReadInv' /\ BreakInv'
  BY <1>1, <1>2, <1>3, ChannelAssumption DEF IndInv, ModesAgree, ReadInv, BreakInv, Breaking, Waiting
<1>8. WireInv' /\ Framing'
  BY <1>1, <1>2, FramingFrame
<1> QED
  BY <1>4, <1>5, <1>6, <1>7, <1>8 DEF IndInv

-----------------------------------------------------------------------------
\* break_all_recv.

LEMMA BreakBeginOK ==
    ASSUME IndInv, BreakBegin \/ BreakGone
    PROVE  IndInv'
<1>1. /\ UNCHANGED <<packets, wire, sock, alive, broken, receiving, seqer, bound, buf2, packet_len,
                     c_unrecv, c_failed, recv_queue0, cur_alloc0, seq_mapping, ret, waits>>
      /\ phase \in {"first"} \cup Breaking
      /\ \/ phase' = "break0" /\ iter' = Begin
         \/ phase' = "loop" /\ ~alive /\ iter' = iter
  BY DEF BreakBegin, BreakGone, streamVars, modeVars, packetVars, queueVars, taskVars
<1>2. broken /\ Begin' = Begin /\ Begin \in Task \cup {End} /\ phase # "alloc"
  BY <1>1, BeginIs DEF IndInv, TypeOK, QueueInv, ModesAgree, Begin, Breaking
<1>3. TypeOK'
  BY <1>1, <1>2 DEF IndInv, TypeOK, Breaking
<1>4. QueueInv' /\ MappingInv' /\ ModesAgree' /\ ReadInv' /\ BreakInv'
  BY <1>1, <1>2 DEF IndInv, QueueInv, MappingInv, ModesAgree, ReadInv, BreakInv, Breaking, Waiting
<1>5. WireInv' /\ Framing'
  BY <1>1, <1>2, FramingFrame
<1> QED
  BY <1>3, <1>4, <1>5 DEF IndInv

LEMMA BreakRecvOK ==
    ASSUME IndInv, BreakRecv
    PROVE  IndInv'
<1>1. /\ UNCHANGED <<packets, wire, sock, alive, broken, receiving, seqer, bound, buf2, packet_len,
                     c_unrecv, c_failed, cur_alloc0, seq_mapping, phase>>
      /\ phase = "break0" /\ alive /\ iter # End
      /\ waits' = [waits EXCEPT ![iter] = "no"] /\ ret' = [ret EXCEPT ![iter] = "error"]
      /\ recv_queue0' = RemoveAt(recv_queue0, PosOf(iter))
      /\ iter' = IF PosOf(iter) = Len(recv_queue0) THEN End ELSE recv_queue0[PosOf(iter) + 1]
  BY DEF BreakRecv, Resume, Unqueued, After, streamVars, modeVars, packetVars
<1>2. broken /\ cur_alloc0 = NULL
  BY <1>1 DEF IndInv, ModesAgree, Breaking
<1>3. recv_queue0 \in Seq(Task) /\ IsInjective(recv_queue0)
  BY DEF IndInv, TypeOK, QueueInv
<1>4. iter \in ToSet(recv_queue0) /\ iter \in Task /\ iter = recv_queue0[1]
  BY <1>1, <1>3, BeginIs DEF IndInv, BreakInv
<1>5. PosOf(iter) \in 1..Len(recv_queue0) /\ recv_queue0[PosOf(iter)] = iter
  BY <1>3, <1>4, PositionOf DEF PosOf
\* It is the front that is told and erased.
<1>6. PosOf(iter) = 1 /\ Len(recv_queue0) \in Nat /\ Len(recv_queue0) >= 1
  <2>1. DOMAIN recv_queue0 = 1..Len(recv_queue0) /\ Len(recv_queue0) \in Nat
    BY <1>3, SeqBasics
  <2>2. Len(recv_queue0) >= 1 /\ 1 \in 1..Len(recv_queue0)
    BY <1>5, <2>1
  <2> QED
    BY <1>3, <1>4, <1>5, <2>1, <2>2 DEF IsInjective
<1>7. waits[iter] = "recv" /\ waits'[iter] = "no" /\ \A u \in Task : u # iter => waits'[u] = waits[u]
  BY <1>1, <1>4 DEF IndInv, TypeOK, QueueInv
<1>8. /\ recv_queue0' \in Seq(Task) /\ IsInjective(recv_queue0')
      /\ ToSet(recv_queue0') = ToSet(recv_queue0) \ {iter}
      /\ Len(recv_queue0') = Len(recv_queue0) - 1
      /\ \A i \in 1..(Len(recv_queue0) - 1) :
             recv_queue0'[i] = IF i < PosOf(iter) THEN recv_queue0[i] ELSE recv_queue0[i + 1]
  <2>1. recv_queue0' = RemoveAt(recv_queue0, PosOf(iter))
    BY <1>1
  <2> DEFINE k == PosOf(iter)
             r == RemoveAt(recv_queue0, k)
  <2>2. k \in 1..Len(recv_queue0) /\ recv_queue0[k] = iter
    BY <1>5
  <2> HIDE DEF k
  <2>3. /\ r \in Seq(Task) /\ IsInjective(r) /\ ToSet(r) = ToSet(recv_queue0) \ {iter}
        /\ Len(r) = Len(recv_queue0) - 1
        /\ \A i \in 1..(Len(recv_queue0) - 1) : r[i] = IF i < k THEN recv_queue0[i] ELSE recv_queue0[i + 1]
    BY <1>3, <2>2, EraseAt
  <2> QED
    BY <2>1, <2>3 DEF k
<1>9. iter' = Begin'
  <2>1. CASE Len(recv_queue0) = 1
    <3>1. recv_queue0' = <<>>
      BY <1>8, <2>1, SeqBasics
    <3> QED
      BY <1>1, <1>6, <2>1, <3>1 DEF Begin
  <2>2. CASE Len(recv_queue0) # 1
    <3>1. 1 \in 1..(Len(recv_queue0) - 1) /\ ~(1 < PosOf(iter)) /\ Len(recv_queue0') # 0
      BY <1>6, <1>8, <2>2
    <3>2. recv_queue0'[1] = recv_queue0[2]
      BY <1>8, <3>1
    <3>3. recv_queue0' # <<>> /\ Head(recv_queue0') = recv_queue0'[1]
      BY <1>8, <3>1, SeqBasics, HeadTailProperties
    <3> QED
      BY <1>1, <1>6, <2>2, <3>2, <3>3 DEF Begin
  <2> QED
    BY <2>1, <2>2
<1>10. iter' \in Task \cup {NULL, End}
  <2>1. iter' = IF 1 = Len(recv_queue0) THEN End ELSE recv_queue0[2]
    BY <1>1, <1>6
  <2>2. \A n \in Nat : n >= 1 /\ n # 1 => 2 \in 1..n
    OBVIOUS
  <2>3. 1 # Len(recv_queue0) => recv_queue0[2] \in Task
    BY <1>3, <1>6, <2>2, SeqBasics
  <2> QED
    BY <2>1, <2>3
<1>11. TypeOK'
  BY <1>1, <1>4, <1>8, <1>10 DEF IndInv, TypeOK
<1>12. QueueInv'
  BY <1>1, <1>2, <1>7, <1>8 DEF IndInv, QueueInv
<1>13. MappingInv'
  BY <1>1, <1>7, MappingFrame, ChannelAssumption DEF IndInv
<1>14. ModesAgree' /\ BreakInv'
  BY <1>1, <1>9 DEF IndInv, ModesAgree, BreakInv
<1>15. ReadInv'
  BY <1>1, <1>7, ChannelAssumption DEF IndInv, ReadInv, Waiting
<1>16. WireInv' /\ Framing'
  BY <1>1, FramingFrame
<1> QED
  BY <1>11, <1>12, <1>13, <1>14, <1>15, <1>16 DEF IndInv

\* Where drop_all goes on.
LEMMA PlacesAre ==
    ASSUME seq_mapping \subseteq SeqNum \X Task, MappingInv, NEW i \in Places(seq_mapping)
    PROVE  /\ i = End => seq_mapping = {}
           /\ i # End => i \in Task /\ waits[i] \in SeqNum
<1>1. CASE seq_mapping = {}
  BY <1>1 DEF Places
<1>2. CASE seq_mapping # {}
  <2>1. PICK s \in SeqNum, t \in Task : <<s, t>> \in seq_mapping /\ i = t
    BY <1>2 DEF Places
  <2> QED
    BY <2>1, ChannelAssumption DEF MappingInv
<1> QED
  BY <1>1, <1>2

LEMMA BreakDropAllOK ==
    ASSUME IndInv, BreakDropAll
    PROVE  IndInv'
<1>1. /\ UNCHANGED <<packets, wire, sock, alive, broken, receiving, seqer, bound, buf2, packet_len,
                     c_unrecv, c_failed, recv_queue0, cur_alloc0, seq_mapping, ret, waits>>
      /\ phase = "break0" /\ alive /\ iter = End
      /\ phase' \in {"break2", "null"}
      /\ iter' \in Places(seq_mapping)
  BY DEF BreakDropAll, streamVars, modeVars, packetVars, queueVars, taskVars
<1>2. /\ iter' = End => seq_mapping = {}
      /\ iter' # End => iter' \in Task /\ waits[iter'] \in SeqNum
  BY <1>1, PlacesAre DEF IndInv, TypeOK
<1>3. recv_queue0 = <<>>
  BY <1>1, BeginIs DEF IndInv, TypeOK, QueueInv, BreakInv
<1>4. TypeOK'
  BY <1>1, <1>2 DEF IndInv, TypeOK, Breaking
<1>5. QueueInv' /\ MappingInv' /\ ModesAgree' /\ ReadInv' /\ BreakInv'
  BY <1>1, <1>2, <1>3 DEF IndInv, QueueInv, MappingInv, ModesAgree, ReadInv, BreakInv, Breaking, Waiting
<1>6. WireInv' /\ Framing'
  BY <1>1, FramingFrame
<1> QED
  BY <1>4, <1>5, <1>6 DEF IndInv

LEMMA BreakBySeqOK ==
    ASSUME IndInv, BreakBySeq
    PROVE  IndInv'
<1>1. /\ UNCHANGED <<packets, wire, sock, alive, broken, receiving, seqer, bound, buf2, packet_len,
                     c_unrecv, c_failed, recv_queue0, cur_alloc0, phase>>
      /\ phase = "break2" /\ alive /\ iter # End
      /\ waits' = [waits EXCEPT ![iter] = "no"] /\ ret' = [ret EXCEPT ![iter] = "error"]
      /\ seq_mapping' = {e \in seq_mapping : e[2] # iter}
      /\ iter' \in Places(seq_mapping')
  BY DEF BreakBySeq, Resume, streamVars, modeVars, packetVars
<1>2. iter \in Task /\ waits[iter] \in SeqNum /\ recv_queue0 = <<>> /\ broken
  BY <1>1 DEF IndInv, BreakInv, ModesAgree, Breaking
<1>3. waits'[iter] = "no" /\ \A u \in Task : u # iter => waits'[u] = waits[u]
  BY <1>1, <1>2 DEF IndInv, TypeOK
<1>4. seq_mapping' \subseteq SeqNum \X Task
  BY <1>1 DEF IndInv, TypeOK
<1>5. MappingInv'
  BY <1>1, <1>2, <1>3, ChannelAssumption DEF IndInv, MappingInv
<1>6. /\ iter' = End => seq_mapping' = {}
      /\ iter' # End => iter' \in Task /\ waits'[iter'] \in SeqNum
  <2>1. CASE seq_mapping' = {}
    BY <1>1, <2>1 DEF Places
  <2>2. CASE seq_mapping' # {}
    <3>1. PICK s \in SeqNum, t \in Task : <<s, t>> \in seq_mapping' /\ iter' = t
      BY <1>1, <1>4, <2>2 DEF Places
    <3> QED
      BY <1>5, <3>1, ChannelAssumption DEF MappingInv
  <2> QED
    BY <2>1, <2>2
<1>7. TypeOK'
  BY <1>1, <1>2, <1>4, <1>6 DEF IndInv, TypeOK
<1>8. QueueInv'
  BY <1>1, <1>2, <1>3, QueueFrame, ChannelAssumption DEF IndInv, TypeOK
<1>9. ModesAgree' /\ BreakInv'
  BY <1>1, <1>2, <1>6 DEF IndInv, ModesAgree, BreakInv
<1>10. ReadInv'
  BY <1>1, <1>3, ChannelAssumption DEF IndInv, ReadInv, Waiting
<1>11. WireInv' /\ Framing'
  BY <1>1, FramingFrame
<1> QED
  BY <1>5, <1>7, <1>8, <1>9, <1>10, <1>11 DEF IndInv

LEMMA BreakEndOK ==
    ASSUME IndInv, BreakEnd
    PROVE  IndInv'
<1>1. /\ UNCHANGED <<packets, wire, sock, alive, broken, receiving, seqer, bound, buf2, packet_len,
                     c_unrecv, c_failed, recv_queue0, cur_alloc0, seq_mapping, ret, waits, iter>>
      /\ phase = "break2" /\ phase' = "loop" /\ iter = End
  BY DEF BreakEnd, streamVars, modeVars, packetVars, queueVars, taskVars
<1>2. recv_queue0 = <<>> /\ seq_mapping = {} /\ broken /\ cur_alloc0 = NULL
  BY <1>1 DEF IndInv, BreakInv, ModesAgree, Breaking
<1>3. \A t \in Task : ~Waiting(t)
  <2>1. \A t \in Task : waits[t] # "recv"
    BY <1>2, NobodyQueued DEF IndInv, TypeOK
  <2>2. \A t \in Task : waits[t] \notin SeqNum
    BY <1>2 DEF IndInv, MappingInv
  <2> QED
    BY <2>1, <2>2 DEF IndInv, TypeOK, Waiting
<1>4. TypeOK' /\ QueueInv' /\ MappingInv' /\ ModesAgree'
  BY <1>1, <1>2 DEF IndInv, TypeOK, QueueInv, MappingInv, ModesAgree, Breaking
<1>5. ReadInv' /\ BreakInv'
  <2>1. broken /\ (sock = "ok" => bound) /\ (bound => receiving # "recv")
    BY <1>2 DEF IndInv, ModesAgree
  <2> QED
    BY <1>1, <1>2, <1>3, <2>1 DEF IndInv, ReadInv, BreakInv, Waiting
<1>6. WireInv' /\ Framing'
  BY <1>1, <1>2, FramingFrame
<1> QED
  BY <1>4, <1>5, <1>6 DEF IndInv

-----------------------------------------------------------------------------
\* Reading from the wire.

LEMMA ExtentIs ==
    ASSUME packets \in Seq([seq : SeqNum \cup {Bad}, len : Nat]), NEW k \in DOMAIN packets
    PROVE  /\ packets[k].len \in Nat /\ Extent(packets[k]) \in Nat /\ Extent(packets[k]) >= HeaderLen
           /\ packets[k].len >= HeaderLen => Extent(packets[k]) = packets[k].len
           /\ packets[k].seq \in SeqNum \cup {Bad}
<1>1. packets[k] \in [seq : SeqNum \cup {Bad}, len : Nat]
  <2> DEFINE S == [seq : SeqNum \cup {Bad}, len : Nat]
  <2>1. packets \in Seq(S) /\ k \in DOMAIN packets
    OBVIOUS
  <2> HIDE DEF S
  <2>2. packets[k] \in S
    BY <2>1, SeqBasics
  <2> QED
    BY <2>2 DEF S
<1> QED
  BY <1>1, ChannelAssumption DEF Extent

\* The bytes of a packet follow each other on the wire up to its end.
LEMMA RunOfBytes ==
    ASSUME TypeOK, WireInv, wire # <<>>,
           NEW k \in DOMAIN packets, NEW i \in Nat, wire[1] = <<k, i>>,
           NEW j \in Nat, j < Len(wire), i + j <= Extent(packets[k])
    PROVE  wire[1 + j] = <<k, i + j>>
<1> DEFINE T == {x \in Nat : x < Len(wire) /\ i + x <= Extent(packets[k]) /\ wire[1 + x] # <<k, i + x>>}
<1>1. Len(wire) \in Nat /\ Extent(packets[k]) \in Nat
  BY SeqBasics, ExtentIs DEF TypeOK, WireInv
<1>2. SUFFICES ASSUME j \in T PROVE FALSE
  OBVIOUS
<1>3. PICK x \in T : \A y \in T : x <= y
  BY <1>2, Least
<1>4. x \in Nat /\ x < Len(wire) /\ i + x <= Extent(packets[k]) /\ wire[1 + x] # <<k, i + x>>
  BY <1>3
<1>5. x # 0
  <2>1. i + 0 = i /\ 1 + 0 = 1
    OBVIOUS
  <2> QED
    BY <1>4, <2>1
<1>6. x - 1 \in Nat /\ x - 1 < Len(wire) /\ i + (x - 1) < Extent(packets[k]) /\ 1 + (x - 1) = x
      /\ i + (x - 1) + 1 = i + x /\ x \in 1..(Len(wire) - 1) /\ x + 1 = 1 + x /\ ~(x <= x - 1)
  BY <1>1, <1>4, <1>5
<1>7. x - 1 \notin T
  BY <1>3, <1>6
<1>8. wire[x] = <<k, i + (x - 1)>>
  <2>1. i + (x - 1) <= Extent(packets[k])
    BY <1>1, <1>6
  <2> QED
    BY <1>6, <1>7, <2>1
<1>9. wire[1 + x] = Follows(packets, wire[x])
  BY <1>6 DEF WireInv
<1>10. Follows(packets, wire[x]) = <<k, i + x>>
  <2>1. wire[x][1] = k /\ wire[x][2] = i + (x - 1)
    BY <1>8
  <2> QED
    BY <1>6, <2>1 DEF Follows
<1> QED
  BY <1>4, <1>9, <1>10

LEMMA WireDrop ==
    ASSUME TypeOK, WireInv, UNCHANGED packets, NEW n \in Nat, wire' = SubSeq(wire, n + 1, Len(wire))
    PROVE  /\ wire' \in Seq((DOMAIN packets) \X Nat)
           /\ WireInv'
           /\ wire' # <<>> => n < Len(wire) /\ wire'[1] = wire[n + 1]
<1> DEFINE w == SubSeq(wire, n + 1, Len(wire))
<1>1. /\ w \in Seq((DOMAIN packets) \X Nat) /\ Len(wire) \in Nat
      /\ Len(w) = IF n <= Len(wire) THEN Len(wire) - n ELSE 0
      /\ \A i \in 1..(Len(wire) - n) : w[i] = wire[n + i]
  BY DropAt DEF TypeOK
<1>2. wire' = w
  OBVIOUS
<1> HIDE DEF w
<1>3. w # <<>> => n < Len(wire) /\ w[1] = wire[n + 1]
  <2>1. w # <<>> => Len(w) # 0
    BY <1>1, EmptySeq
  <2>2. w # <<>> => n < Len(wire) /\ 1 \in 1..(Len(wire) - n)
    BY <1>1, <2>1
  <2> QED
    BY <1>1, <2>2
<1>4. ASSUME NEW i \in 1..Len(w) PROVE w[i][2] \in BytesOf(packets, w[i][1])
  <2>1. i \in 1..(Len(wire) - n) /\ n + i \in 1..Len(wire)
    BY <1>1
  <2> QED
    BY <1>1, <2>1 DEF WireInv
<1>5. ASSUME NEW i \in 1..(Len(w) - 1) PROVE w[i + 1] = Follows(packets, w[i])
  <2>1. /\ i \in 1..(Len(wire) - n) /\ i + 1 \in 1..(Len(wire) - n) /\ n + i \in 1..(Len(wire) - 1)
        /\ n + (i + 1) = (n + i) + 1
    BY <1>1
  <2> QED
    BY <1>1, <2>1 DEF WireInv
<1>6. WireInv'
  BY <1>2, <1>4, <1>5 DEF WireInv, BytesOf, Extent, Follows
<1> QED
  BY <1>1, <1>2, <1>3, <1>6

LEMMA FirstByte ==
    ASSUME TypeOK, WireInv, wire # <<>>
    PROVE  \E k \in DOMAIN packets, i \in Nat : /\ wire[1] = <<k, i>> /\ i >= 1
                                               /\ i <= Extent(packets[k]) /\ Extent(packets[k]) \in Nat
<1>1. Len(wire) \in Nat /\ 1 \in 1..Len(wire) /\ wire[1] \in (DOMAIN packets) \X Nat
  <2>1. Len(wire) \in Nat /\ Len(wire) # 0
    BY SeqBasics DEF TypeOK
  <2> QED
    BY <2>1, SeqBasics DEF TypeOK
<1>2. PICK k \in DOMAIN packets, i \in Nat : wire[1] = <<k, i>>
  BY <1>1
<1>3. wire[1][1] = k /\ wire[1][2] = i /\ Extent(packets[k]) \in Nat
  BY <1>2, ExtentIs DEF WireInv
<1>4. i \in 1..Extent(packets[k])
  BY <1>1, <1>3 DEF WireInv, BytesOf
<1> QED
  BY <1>2, <1>3, <1>4

\* tcp_recv_cb0 takes the rest of a packet: the wire goes on with a new one.
LEMMA RestTaken ==
    ASSUME TypeOK, WireInv, UNCHANGED packets, wire # <<>>,
           wire' = SubSeq(wire, RestOfPacket + 1, Len(wire))
    PROVE  /\ wire' \in Seq((DOMAIN packets) \X Nat) /\ WireInv'
           /\ wire' # <<>> => wire'[1][2] = 1
<1>1. PICK k \in DOMAIN packets, i \in Nat : /\ wire[1] = <<k, i>> /\ i >= 1
                                            /\ i <= Extent(packets[k]) /\ Extent(packets[k]) \in Nat
  BY FirstByte
<1> DEFINE n == Extent(packets[k]) - i + 1
<1>2. RestOfPacket = n
  BY <1>1 DEF RestOfPacket
<1>3. n \in Nat /\ n >= 1 /\ n - 1 \in Nat /\ 1 + (n - 1) = n /\ i + (n - 1) = Extent(packets[k])
  BY <1>1
<1> HIDE DEF n
<1>4. /\ wire' \in Seq((DOMAIN packets) \X Nat) /\ WireInv'
      /\ wire' # <<>> => n < Len(wire) /\ wire'[1] = wire[n + 1]
  BY <1>2, <1>3, WireDrop
<1>5. ASSUME wire' # <<>> PROVE wire'[1][2] = 1
  <2>1. Len(wire) \in Nat
    BY SeqBasics DEF TypeOK
  <2>2. n - 1 < Len(wire) /\ n \in 1..(Len(wire) - 1) /\ i + (n - 1) <= Extent(packets[k])
    BY <1>1, <1>3, <1>4, <1>5, <2>1
  <2>3. wire[1 + (n - 1)] = <<k, i + (n - 1)>>
    BY <1>1, <1>3, <2>2, RunOfBytes
  <2>4. wire[n][1] = k /\ wire[n][2] = Extent(packets[k])
    BY <1>3, <2>3
  <2>5. ~(wire[n][2] < Extent(packets[wire[n][1]]))
    BY <1>1, <2>4
  <2>6. wire[n + 1] = <<wire[n][1] + 1, 1>>
    BY <2>2, <2>5 DEF WireInv, Follows
  <2> QED
    BY <1>4, <1>5, <2>6
<1> QED
  BY <1>4, <1>5

LEMMA RecvCb0OK ==
    ASSUME IndInv, RecvCb0
    PROVE  IndInv'
<1>1. /\ UNCHANGED <<packets, sock, alive, broken, receiving, seqer, bound, buf2, packet_len,
                     c_unrecv, c_failed, recv_queue0, seq_mapping, iter>>
      /\ phase = "alloc" /\ phase' = "stand0" /\ cur_alloc0' = NULL
      /\ wire # <<>> /\ wire' = SubSeq(wire, RestOfPacket + 1, Len(wire))
      /\ waits' = [waits EXCEPT ![cur_alloc0] = "no"] /\ ret' = [ret EXCEPT ![cur_alloc0] = "success"]
  BY DEF RecvCb0, Resume, modeVars, packetVars
<1>2. /\ cur_alloc0 \in Task /\ cur_alloc0 # NULL /\ waits[cur_alloc0] = "recv"
      /\ alive /\ ~broken /\ sock = "ok" /\ receiving = "recv" /\ ~bound
      /\ buf2 = <<>> /\ Between
  BY <1>1, Allocated
<1>3. waits'[cur_alloc0] = "no" /\ \A u \in Task : u # cur_alloc0 => waits'[u] = waits[u]
  BY <1>1, <1>2 DEF IndInv, TypeOK
<1>4. /\ wire' \in Seq((DOMAIN packets) \X Nat) /\ WireInv'
      /\ wire' # <<>> => wire'[1][2] = 1
  BY <1>1, RestTaken DEF IndInv
<1>5. TypeOK'
  BY <1>1, <1>2, <1>4 DEF IndInv, TypeOK
<1>6. QueueInv'
  BY <1>1, <1>2, <1>3, ChannelAssumption DEF IndInv, QueueInv
<1>7. MappingInv'
  BY <1>1, <1>2, <1>3, MappingFrame, ChannelAssumption DEF IndInv
<1>8. ModesAgree' /\ ReadInv' /\ BreakInv'
  BY <1>1, <1>2, <1>3, ChannelAssumption DEF IndInv, ModesAgree, ReadInv, BreakInv, Breaking, Waiting
<1>9. Framing'
  BY <1>1, <1>2, <1>4 DEF Framing, Between
<1> QED
  BY <1>4, <1>5, <1>6, <1>7, <1>8, <1>9 DEF IndInv

-----------------------------------------------------------------------------
\* Reads into buf2.  Before one, the wire goes on with the packet that is begun,
\* and the room that tcp_alloc_cb2 offers ends with the header or with the packet.
LEMMA ReadStart ==
    ASSUME IndInv, Polled, receiving = "recv_by_seq", RoomOK, wire # <<>>
    PROVE  /\ ~broken /\ bound
           /\ \E k \in DOMAIN packets :
                /\ wire[1] = <<k, Len(buf2) + 1>>
                /\ \A i \in 1..Len(buf2) : buf2[i] = <<k, i>>
                /\ packet_len = IF Len(buf2) < HeaderLen THEN 0 ELSE packets[k].len
                /\ Len(buf2) >= HeaderLen => HeaderLen <= packet_len /\ packet_len <= MaxLen
                /\ Len(buf2) + Room <= Extent(packets[k])
<1>1. ~broken /\ bound /\ phase = "loop" /\ alive /\ sock = "ok"
  BY DEF IndInv, ModesAgree, Framing, Polled
<1>2. Len(buf2) \in Nat /\ packet_len \in Nat
  BY SeqBasics DEF IndInv, TypeOK
<1>3. CASE buf2 = <<>>
  <2>1. Len(buf2) = 0 /\ Len(buf2) < HeaderLen /\ packet_len = 0 /\ wire[1][2] = 1
    BY <1>3, EmptySeq, ChannelAssumption DEF IndInv, Framing, Between
  <2>2. PICK k \in DOMAIN packets, i \in Nat : wire[1] = <<k, i>>
    BY FirstByte DEF IndInv
  <2>3. wire[1] = <<k, Len(buf2) + 1>>
    BY <2>1, <2>2
  <2>4. Len(buf2) + Room <= Extent(packets[k])
    <3>1. Extent(packets[k]) \in Nat /\ Extent(packets[k]) >= HeaderLen
      BY ExtentIs DEF IndInv, WireInv
    <3>2. Room = HeaderLen
      BY <2>1, ChannelAssumption DEF Room
    <3> QED
      BY <2>1, <3>1, <3>2, ChannelAssumption
  <2>5. \A j \in 1..Len(buf2) : FALSE
    BY <2>1
  <2>6. ~(Len(buf2) >= HeaderLen)
    BY <2>1, ChannelAssumption
  <2> QED
    BY <1>1, <2>1, <2>3, <2>4, <2>5, <2>6
<1>4. CASE buf2 # <<>>
  <2>1. PICK k \in DOMAIN packets : Buffered(k)
    BY <1>4 DEF IndInv, Framing
  <2>2. packet_len = IF Len(buf2) < HeaderLen THEN 0 ELSE packets[k].len
    BY <2>1 DEF Buffered
  <2>3. Len(buf2) >= HeaderLen => /\ HeaderLen <= packet_len /\ packet_len <= MaxLen
                                  /\ Len(buf2) < packet_len
    BY <1>1 DEF IndInv, Framing
  <2>4. /\ packets[k].len \in Nat /\ Extent(packets[k]) \in Nat /\ Extent(packets[k]) >= HeaderLen
        /\ packets[k].len >= HeaderLen => Extent(packets[k]) = packets[k].len
    BY ExtentIs DEF IndInv, WireInv
  <2>5. Len(buf2) < Extent(packets[k]) /\ Len(buf2) + Room <= Extent(packets[k])
    <3>1. CASE Len(buf2) < HeaderLen
      BY <1>2, <2>4, <3>1, ChannelAssumption DEF Room
    <3>2. CASE ~(Len(buf2) < HeaderLen)
      BY <1>2, <2>2, <2>3, <2>4, <3>2, ChannelAssumption DEF Room
    <3> QED
      BY <3>1, <3>2
  <2>6. wire[1] = <<k, Len(buf2) + 1>>
    BY <2>1, <2>5 DEF Buffered, Follows
  <2> QED
    BY <1>1, <2>1, <2>2, <2>3, <2>5, <2>6 DEF Buffered
<1> QED
  BY <1>3, <1>4

LEMMA ReadOK ==
    ASSUME IndInv, NEW n \in 1..Len(wire), Read(n), UNCHANGED packets
    PROVE  /\ ~broken /\ bound /\ phase = "loop" /\ alive /\ sock = "ok" /\ receiving = "recv_by_seq"
           /\ wire' \in Seq((DOMAIN packets) \X Nat) /\ buf2' \in Seq((DOMAIN packets) \X Nat)
           /\ Len(buf2') \in Nat /\ Len(buf2') <= MaxLen /\ packet_len' \in Nat /\ buf2' # <<>>
           /\ WireInv'
           /\ \E k \in DOMAIN packets : Buffered(k)'
           /\ Wrong(n) => Len(buf2') = HeaderLen /\ (packet_len' < HeaderLen \/ packet_len' > MaxLen)
           /\ ~Wrong(n) /\ Len(buf2') >= HeaderLen =>
                  HeaderLen <= packet_len' /\ packet_len' <= MaxLen /\ Len(buf2') <= packet_len'
           /\ Len(buf2') < HeaderLen => packet_len' = 0
<1> DEFINE L == Len(buf2)
           B == (DOMAIN packets) \X Nat
<1>1. /\ Polled /\ receiving = "recv_by_seq" /\ RoomOK /\ n <= Room
      /\ wire' = SubSeq(wire, n + 1, Len(wire))
      /\ buf2' = buf2 \o SubSeq(wire, 1, n)
      /\ packet_len' = LenAfter(n)
  BY DEF Read, Filled
<1>2. L \in Nat /\ Len(wire) \in Nat /\ n \in Nat /\ n >= 1 /\ packet_len \in Nat /\ n \in 0..Len(wire)
  BY SeqBasics DEF IndInv, TypeOK
<1>3. wire # <<>>
  <2>1. Len(wire) # 0
    BY <1>2
  <2> QED
    BY <2>1, EmptySeq
<1>4. PICK k \in DOMAIN packets :
          /\ wire[1] = <<k, L + 1>>
          /\ \A i \in 1..L : buf2[i] = <<k, i>>
          /\ packet_len = IF L < HeaderLen THEN 0 ELSE packets[k].len
          /\ L >= HeaderLen => HeaderLen <= packet_len /\ packet_len <= MaxLen
          /\ L + Room <= Extent(packets[k])
  BY <1>1, <1>3, ReadStart
<1>5. /\ packets[k].len \in Nat /\ Extent(packets[k]) \in Nat /\ Extent(packets[k]) >= HeaderLen
      /\ packets[k].len >= HeaderLen => Extent(packets[k]) = packets[k].len
  BY ExtentIs DEF IndInv, WireInv
<1>6. Room \in Int /\ L + Room <= MaxLen /\ L + n <= MaxLen /\ L + n <= Extent(packets[k])
  BY <1>1, <1>2, <1>4, <1>5, ChannelAssumption DEF Room, RoomOK
<1>7. ASSUME NEW j \in 1..n PROVE wire[j] = <<k, L + j>>
  <2>1. /\ j - 1 \in Nat /\ j - 1 < Len(wire) /\ (L + 1) + (j - 1) <= Extent(packets[k])
        /\ 1 + (j - 1) = j /\ (L + 1) + (j - 1) = L + j /\ L + 1 \in Nat
    BY <1>2, <1>5, <1>6
  <2>2. wire[1 + (j - 1)] = <<k, (L + 1) + (j - 1)>>
    BY <1>3, <1>4, <2>1, RunOfBytes DEF IndInv
  <2> QED
    BY <2>1, <2>2
<1>8. /\ buf2' \in Seq(B) /\ Len(buf2') = L + n
      /\ \A i \in 1..L : buf2'[i] = buf2[i]
      /\ \A i \in 1..n : buf2'[L + i] = wire[i]
  <2>1. buf2 \in Seq(B) /\ wire \in Seq(B)
    BY DEF IndInv, TypeOK
  <2> HIDE DEF B
  <2> QED
    BY <1>1, <1>2, <2>1, MoveAt
<1>9. ASSUME NEW i \in 1..(L + n) PROVE buf2'[i] = <<k, i>>
  <2>1. CASE i <= L
    BY <1>2, <1>4, <1>8, <2>1
  <2>2. CASE ~(i <= L)
    <3>1. i - L \in 1..n /\ L + (i - L) = i
      BY <1>2, <2>2
    <3> QED
      BY <1>7, <1>8, <3>1
  <2> QED
    BY <2>1, <2>2
<1>10. /\ wire' \in Seq(B) /\ WireInv'
       /\ wire' # <<>> => n < Len(wire) /\ wire'[1] = wire[n + 1]
  BY <1>1, <1>2, WireDrop DEF IndInv
<1>11. wire' # <<>> => wire'[1] = Follows(packets, <<k, L + n>>)
  <2>1. wire' # <<>> => n \in 1..(Len(wire) - 1)
    BY <1>2, <1>10
  <2>2. wire' # <<>> => wire[n + 1] = Follows(packets, wire[n])
    BY <2>1 DEF IndInv, WireInv
  <2>3. wire[n] = <<k, L + n>>
    BY <1>2, <1>7
  <2> QED
    BY <1>10, <2>2, <2>3
<1>12. /\ Len(Filled(n)) = L + n /\ Filled(n)[1][1] = k
  <2>1. Filled(n) = buf2' /\ 1 \in 1..(L + n)
    BY <1>1, <1>2 DEF Filled
  <2> QED
    BY <1>8, <1>9, <2>1
<1>13. packet_len' = IF L + n < HeaderLen THEN 0 ELSE packets[k].len
  <2>1. packet_len' = IF packet_len = 0 /\ L + n = HeaderLen THEN packets[k].len ELSE packet_len
    BY <1>1, <1>12 DEF LenAfter
  <2>2. CASE L < HeaderLen
    <3>1. L + n <= HeaderLen /\ packet_len = 0
      BY <1>1, <1>2, <1>4, <2>2, ChannelAssumption DEF Room
    <3> QED
      BY <1>2, <2>1, <3>1, ChannelAssumption
  <2>3. CASE ~(L < HeaderLen)
    <3>1. packet_len # 0 /\ packet_len = packets[k].len /\ ~(L + n < HeaderLen)
      BY <1>2, <1>4, <2>3, ChannelAssumption
    <3> QED
      BY <2>1, <3>1
  <2> QED
    BY <2>2, <2>3
<1>14. Wrong(n) <=> packet_len = 0 /\ L + n = HeaderLen /\ (packet_len' < HeaderLen \/ packet_len' > MaxLen)
  BY <1>1, <1>12 DEF Wrong
<1>15. Buffered(k)'
  BY <1>8, <1>9, <1>11, <1>13, <1>6 DEF Buffered, Extent, Follows
<1>16. ASSUME ~Wrong(n), L + n >= HeaderLen
       PROVE  HeaderLen <= packet_len' /\ packet_len' <= MaxLen /\ L + n <= packet_len'
  <2>0. packet_len' = packets[k].len
    BY <1>2, <1>13, <1>16, ChannelAssumption
  <2>1. CASE L < HeaderLen
    <3>0. n <= HeaderLen - L /\ packet_len = 0
      BY <1>1, <1>4, <2>1 DEF Room
    <3>1. L + n = HeaderLen /\ packet_len = 0
      BY <1>2, <1>16, <3>0, ChannelAssumption
    <3> QED
      BY <1>5, <1>14, <1>16, <2>0, <3>1, ChannelAssumption
  <2>2. CASE ~(L < HeaderLen)
    <3>1. packet_len = packets[k].len /\ HeaderLen <= packet_len /\ packet_len <= MaxLen
      BY <1>2, <1>4, <2>2, ChannelAssumption
    <3> QED
      BY <1>2, <1>5, <1>6, <2>0, <3>1, ChannelAssumption
  <2> QED
    BY <2>1, <2>2
<1>17. L + n \in Nat /\ packet_len' \in Nat /\ L + n # 0
  BY <1>2, <1>5, <1>13
<1>18. buf2' # <<>>
  BY <1>8, <1>17, EmptySeq
<1>19. ~broken /\ bound /\ phase = "loop" /\ alive /\ sock = "ok"
  BY <1>1, <1>3, ReadStart DEF Polled
<1> HIDE DEF L
<1> QED
  BY <1>1, <1>6, <1>8, <1>10, <1>13, <1>14, <1>15, <1>16, <1>17, <1>18, <1>19

LEMMA RecvCb2PartOK ==
    ASSUME IndInv, NEW n \in 1..Len(wire), RecvCb2Part(n)
    PROVE  IndInv'
<1>1. /\ UNCHANGED <<packets, sock, alive, broken, receiving, seqer, bound, c_unrecv, c_failed,
                     recv_queue0, cur_alloc0, seq_mapping, ret, waits, phase, iter>>
      /\ Read(n) /\ ~Wrong(n) /\ ~Whole(n)
  BY DEF RecvCb2Part, modeVars, queueVars, taskVars
<1>2. /\ ~broken /\ bound /\ phase = "loop"
      /\ wire' \in Seq((DOMAIN packets) \X Nat) /\ buf2' \in Seq((DOMAIN packets) \X Nat)
      /\ Len(buf2') \in Nat /\ Len(buf2') <= MaxLen /\ packet_len' \in Nat /\ buf2' # <<>>
      /\ WireInv'
      /\ \E k \in DOMAIN packets : Buffered(k)'
      /\ Len(buf2') >= HeaderLen =>
             HeaderLen <= packet_len' /\ packet_len' <= MaxLen /\ Len(buf2') <= packet_len'
  BY <1>1, ReadOK
<1>3. packet_len' = 0 \/ Len(buf2') # packet_len'
  BY <1>1 DEF Whole, Read
<1>4. TypeOK'
  BY <1>1, <1>2 DEF IndInv, TypeOK
<1>5. QueueInv' /\ MappingInv' /\ ModesAgree'
  BY <1>1 DEF IndInv, QueueInv, MappingInv, ModesAgree
<1>6. ReadInv' /\ BreakInv'
  BY <1>1 DEF IndInv, ReadInv, BreakInv, Begin, Waiting
<1>7. Framing'
  <2>1. Len(buf2') >= HeaderLen => Len(buf2') < packet_len'
    BY <1>2, <1>3, ChannelAssumption
  <2> QED
    BY <1>1, <1>2, <2>1 DEF Framing
<1> QED
  BY <1>2, <1>4, <1>5, <1>6, <1>7 DEF IndInv

LEMMA RecvCb2WrongOK ==
    ASSUME IndInv, NEW n \in 1..Len(wire), RecvCb2Wrong(n)
    PROVE  IndInv'
<1>1. /\ UNCHANGED <<packets, sock, alive, receiving, seqer, bound, c_unrecv, c_failed,
                     recv_queue0, cur_alloc0, seq_mapping, ret, waits>>
      /\ Read(n) /\ Wrong(n) /\ broken' /\ broken' \in BOOLEAN /\ phase' = "break0" /\ iter' = Begin
  BY DEF RecvCb2Wrong, queueVars, taskVars
<1>2. /\ ~broken /\ bound /\ phase = "loop" /\ sock = "ok" /\ receiving = "recv_by_seq"
      /\ wire' \in Seq((DOMAIN packets) \X Nat) /\ buf2' \in Seq((DOMAIN packets) \X Nat)
      /\ Len(buf2') \in Nat /\ Len(buf2') <= MaxLen /\ packet_len' \in Nat /\ buf2' # <<>>
      /\ WireInv'
      /\ \E k \in DOMAIN packets : Buffered(k)'
      /\ Len(buf2') = HeaderLen /\ (packet_len' < HeaderLen \/ packet_len' > MaxLen)
  BY <1>1, ReadOK
<1>3. Begin' = Begin /\ Begin \in Task \cup {End}
  BY <1>1, BeginIs DEF IndInv, TypeOK, QueueInv, Begin
<1>4. TypeOK'
  BY <1>1, <1>2, <1>3 DEF IndInv, TypeOK, Breaking
<1>5. QueueInv' /\ MappingInv'
  BY <1>1 DEF IndInv, QueueInv, MappingInv
<1>6. ModesAgree' /\ ReadInv' /\ BreakInv'
  BY <1>1, <1>2, <1>3 DEF IndInv, ModesAgree, ReadInv, BreakInv, Breaking, Waiting
<1>7. Framing'
  <2>1. ~RoomOK'
    <3>1. ~(Len(buf2') < HeaderLen) /\ packet_len' \in Nat /\ HeaderLen \in Nat /\ MaxLen \in Nat
          /\ Len(buf2') = HeaderLen /\ (packet_len' < HeaderLen \/ packet_len' > MaxLen)
      BY <1>2, ChannelAssumption
    <3>2. RoomOK' => 0 < packet_len' - HeaderLen /\ HeaderLen + (packet_len' - HeaderLen) <= MaxLen
      BY <3>1 DEF RoomOK, Room
    <3>3. \A a, b, c \in Nat : a < b \/ a > c => ~(0 < a - b /\ b + (a - b) <= c)
      OBVIOUS
    <3> QED
      BY <3>1, <3>2, <3>3
  <2> QED
    BY <1>1, <1>2, <2>1 DEF Framing
<1> QED
  BY <1>2, <1>4, <1>5, <1>6, <1>7 DEF IndInv

LEMMA RecvCb2PacketOK ==
    ASSUME IndInv, NEW n \in 1..Len(wire), RecvCb2Packet(n)
    PROVE  IndInv'
<1> DEFINE d == packets[Filled(n)[1][1]].seq
<1>1. /\ UNCHANGED <<packets, sock, alive, broken, receiving, seqer, bound, cur_alloc0, iter>>
      /\ Read(n) /\ Whole(n) /\ phase' = "stand2"
      /\ ToSeqWaiter(d) \/ ToQueue(d) \/ ToCounter(d)
  BY DEF RecvCb2Packet, modeVars
<1> HIDE DEF d
<1>2. /\ ~broken /\ bound /\ phase = "loop" /\ alive /\ sock = "ok" /\ receiving = "recv_by_seq"
      /\ wire' \in Seq((DOMAIN packets) \X Nat) /\ buf2' \in Seq((DOMAIN packets) \X Nat)
      /\ Len(buf2') \in Nat /\ Len(buf2') <= MaxLen /\ packet_len' \in Nat /\ buf2' # <<>>
      /\ WireInv'
      /\ \E k \in DOMAIN packets : Buffered(k)'
      /\ ~Wrong(n) /\ Len(buf2') >= HeaderLen => HeaderLen <= packet_len'
      /\ Len(buf2') < HeaderLen => packet_len' = 0
  BY <1>1, ReadOK
<1>3. cur_alloc0 = NULL
  BY <1>2 DEF IndInv, ModesAgree
<1>4. Framing'
  <2>1. ~Wrong(n) /\ packet_len' # 0 /\ Len(buf2') = packet_len'
    BY <1>1 DEF Whole, Read
  <2>2. HeaderLen <= packet_len'
    BY <1>2, <2>1, ChannelAssumption
  <2> QED
    BY <1>1, <1>2, <2>1, <2>2 DEF Framing
<1>5. ModesAgree'
  BY <1>1, <1>2, <1>3 DEF IndInv, ModesAgree, Breaking
<1>6. ASSUME ToSeqWaiter(d)
      PROVE  TypeOK' /\ QueueInv' /\ MappingInv' /\ ReadInv' /\ BreakInv'
  <2>0. PICK e \in seq_mapping :
             /\ seq_mapping' = seq_mapping \ {e}
             /\ waits' = [waits EXCEPT ![e[2]] = "no"] /\ ret' = [ret EXCEPT ![e[2]] = "success"]
             /\ UNCHANGED <<recv_queue0, c_unrecv, c_failed>>
    BY <1>6 DEF ToSeqWaiter, Entries, TakeEntry, Resume
  <2>a. PICK s \in SeqNum, t \in Task : e = <<s, t>>
    BY DEF IndInv, TypeOK
  <2>1. /\ <<s, t>> \in seq_mapping /\ seq_mapping' = seq_mapping \ {<<s, t>>}
        /\ waits' = [waits EXCEPT ![t] = "no"] /\ ret' = [ret EXCEPT ![t] = "success"]
        /\ UNCHANGED <<recv_queue0, c_unrecv, c_failed>>
    BY <2>0, <2>a
  <2>2. waits[t] = s
    BY <2>1 DEF IndInv, MappingInv
  <2>3. waits'[t] = "no" /\ \A u \in Task : u # t => waits'[u] = waits[u]
    BY <2>1 DEF IndInv, TypeOK
  <2>4. TypeOK'
    BY <1>1, <1>2, <2>1 DEF IndInv, TypeOK
  <2>5. QueueInv'
    BY <1>1, <1>3, <2>1, <2>2, <2>3, QueueFrame, ChannelAssumption DEF IndInv
  <2>6. MappingInv'
    BY <2>1, <2>2, <2>3, ChannelAssumption DEF IndInv, MappingInv
  <2>7. ReadInv' /\ BreakInv'
    BY <1>1, <1>2, <2>1, <2>3, ChannelAssumption DEF IndInv, ReadInv, BreakInv, Waiting
  <2> QED
    BY <2>4, <2>5, <2>6, <2>7
<1>7. ASSUME ToQueue(d)
      PROVE  TypeOK' /\ QueueInv' /\ MappingInv' /\ ReadInv' /\ BreakInv'
  <2> DEFINE t == Head(recv_queue0)
  <2>1. /\ UNCHANGED <<seq_mapping, c_unrecv, c_failed>> /\ recv_queue0 # <<>>
        /\ recv_queue0' = Tail(recv_queue0)
        /\ waits' = [waits EXCEPT ![t] = "no"] /\ ret' = [ret EXCEPT ![t] = "success"]
    BY <1>7 DEF ToQueue, Resume
  <2>2. /\ recv_queue0' \in Seq(Task) /\ IsInjective(recv_queue0')
        /\ t \in Task /\ t \in ToSet(recv_queue0)
        /\ ToSet(recv_queue0') = ToSet(recv_queue0) \ {t}
    <3>1. recv_queue0 \in Seq(Task) /\ IsInjective(recv_queue0)
      BY DEF IndInv, TypeOK, QueueInv
    <3> QED
      BY <2>1, <3>1, Dequeue
  <2> HIDE DEF t
  <2>3. waits[t] = "recv" /\ waits'[t] = "no" /\ \A u \in Task : u # t => waits'[u] = waits[u]
    BY <2>1, <2>2 DEF IndInv, TypeOK, QueueInv
  <2>4. TypeOK'
    BY <1>1, <1>2, <2>1, <2>2 DEF IndInv, TypeOK
  <2>5. QueueInv'
    BY <1>1, <1>3, <2>2, <2>3 DEF IndInv, QueueInv
  <2>6. MappingInv'
    BY <2>1, <2>3, MappingFrame, ChannelAssumption DEF IndInv
  <2>7. ReadInv' /\ BreakInv'
    BY <1>1, <1>2, <2>3, ChannelAssumption DEF IndInv, ReadInv, BreakInv, Waiting
  <2> QED
    BY <2>4, <2>5, <2>6, <2>7
<1>8. ASSUME ToCounter(d)
      PROVE  TypeOK' /\ QueueInv' /\ MappingInv' /\ ReadInv' /\ BreakInv'
  <2>1. /\ UNCHANGED <<recv_queue0, seq_mapping, ret, waits>>
        /\ c_unrecv' \in Nat /\ c_failed' \in Nat
    BY <1>8 DEF ToCounter, CountMissed, taskVars, IndInv, TypeOK
  <2>2. TypeOK'
    BY <1>1, <1>2, <2>1 DEF IndInv, TypeOK
  <2>3. QueueInv' /\ MappingInv'
    BY <1>1, <2>1 DEF IndInv, QueueInv, MappingInv
  <2>4. ReadInv' /\ BreakInv'
    BY <1>1, <1>2, <2>1 DEF IndInv, ReadInv, BreakInv, Waiting
  <2> QED
    BY <2>2, <2>3, <2>4
<1> QED
  BY <1>1, <1>2, <1>4, <1>5, <1>6, <1>7, <1>8 DEF IndInv

LEMMA RecvCb2EndOK ==
    ASSUME IndInv, RecvCb2End
    PROVE  IndInv'
<1>1. /\ UNCHANGED <<packets, wire, sock, alive, broken, receiving, seqer, bound, c_unrecv, c_failed,
                     recv_queue0, cur_alloc0, seq_mapping, ret, waits, iter>>
      /\ phase = "stand2" /\ phase' = "loop"
      /\ (alive /\ buf2' = <<>> /\ packet_len' = 0) \/ (~alive /\ UNCHANGED <<buf2, packet_len>>)
  BY DEF RecvCb2End, NextPacket, streamVars, modeVars, queueVars, taskVars
<1>2. ~broken /\ bound /\ receiving = "recv_by_seq" /\ cur_alloc0 = NULL
  BY <1>1 DEF IndInv, ModesAgree
<1>3. QueueInv' /\ MappingInv'
  BY <1>1 DEF IndInv, QueueInv, MappingInv
<1>4. ModesAgree' /\ ReadInv' /\ BreakInv'
  BY <1>1, <1>2 DEF IndInv, ModesAgree, ReadInv, BreakInv, Waiting, Breaking
<1>5. CASE ~alive
  <2>1. TypeOK'
    BY <1>1, <1>5 DEF IndInv, TypeOK
  <2>2. WireInv' /\ Framing'
    BY <1>1, <1>2, <1>5, FramingFrame
  <2> QED
    BY <1>3, <1>4, <2>1, <2>2 DEF IndInv
<1>6. CASE alive
  <2>1. buf2' = <<>> /\ packet_len' = 0 /\ Len(buf2') = 0 /\ buf2' \in Seq((DOMAIN packets) \X Nat)
    BY <1>1, <1>6, EmptySeq
  <2>2. TypeOK'
    <3>1. Len(buf2') <= MaxLen /\ packet_len' \in Nat
      BY <2>1, ChannelAssumption
    <3> QED
      BY <1>1, <2>1, <3>1 DEF IndInv, TypeOK
  <2>3. WireInv'
    BY <1>1 DEF IndInv, WireInv, BytesOf, Extent, Follows
  \* The packet was complete, so the wire goes on with the next one.
  <2>4. wire # <<>> => wire[1][2] = 1
    <3>1. HeaderLen <= packet_len /\ Len(buf2) = packet_len
      BY <1>1, <1>6 DEF IndInv, Framing
    <3>2. buf2 # <<>>
      BY <3>1, EmptySeq, ChannelAssumption
    <3>3. PICK k \in DOMAIN packets : Buffered(k)
      BY <3>2 DEF IndInv, Framing
    <3>4. packet_len \in Nat /\ ~(Len(buf2) < HeaderLen)
      BY <3>1, ChannelAssumption DEF IndInv, TypeOK
    <3>5. Len(buf2) = Extent(packets[k])
      BY <3>1, <3>3, <3>4, ExtentIs DEF Buffered, IndInv, WireInv
    <3>6. ~(Len(buf2) < Extent(packets[k]))
      BY <3>1, <3>4, <3>5
    <3> QED
      BY <3>3, <3>6 DEF Buffered, Follows
  <2>5. Framing'
    <3>1. ~(Len(buf2') >= HeaderLen)
      BY <2>1, ChannelAssumption
    <3> QED
      BY <1>1, <1>2, <2>1, <2>4, <3>1 DEF Framing, Between
  <2> QED
    BY <1>3, <1>4, <2>2, <2>3, <2>5 DEF IndInv
<1> QED
  BY <1>5, <1>6

LEMMA RecvCb2ErrorOK ==
    ASSUME IndInv, RecvCb2Error
    PROVE  IndInv'
<1>1. /\ UNCHANGED <<packets, wire, alive, receiving, seqer, bound, buf2, packet_len, c_unrecv,
                     c_failed, recv_queue0, cur_alloc0, seq_mapping, ret, waits>>
      /\ phase = "loop" /\ receiving = "recv_by_seq" /\ alive
      /\ broken' /\ broken' \in BOOLEAN /\ sock' = "error" /\ phase' = "break0" /\ iter' = Begin
  BY DEF RecvCb2Error, Polled, packetVars, queueVars, taskVars
<1>2. Begin' = Begin /\ Begin \in Task \cup {End}
  BY <1>1, BeginIs DEF IndInv, TypeOK, QueueInv, Begin
<1>3. TypeOK'
  BY <1>1, <1>2 DEF IndInv, TypeOK, Breaking
<1>4. QueueInv' /\ MappingInv'
  BY <1>1 DEF IndInv, QueueInv, MappingInv
<1>5. ModesAgree' /\ ReadInv' /\ BreakInv'
  BY <1>1, <1>2 DEF IndInv, ModesAgree, ReadInv, BreakInv, Breaking, Waiting
<1>6. WireInv' /\ Framing'
  BY <1>1, FramingFrame
<1> QED
  BY <1>3, <1>4, <1>5, <1>6 DEF IndInv

LEMMA StepOK == IndInv /\ [Next]_vars => IndInv'
<1> SUFFICES ASSUME IndInv, [Next]_vars PROVE IndInv'
  OBVIOUS
<1>1. CASE EarlyBind \/ DistinctRecvBySeq \/ Destroy \/ \E t \in Task : Recv(t)
  BY <1>1, BindOK, RecvBySeqOK, DestroyOK, RecvOK DEF DistinctRecvBySeq
<1>2. CASE CancelOther
  BY <1>2, CancelRecvOK, CancelRecvBySeqOK DEF CancelOther, Cancel
<1>3. CASE ReadSome
  BY <1>3, RecvCb2PartOK, RecvCb2WrongOK, RecvCb2PacketOK DEF ReadSome
<1>4. CASE AllocCb0 \/ RecvCb2Error
  BY <1>4, AllocCb0OK, RecvCb2ErrorOK
<1>5. CASE GoOn
  BY <1>5, RecvCb0NothingOK, RecvCb0OK, RecvCb0EndOK, RecvCb0ErrorOK, RecvCb2EndOK, BreakBeginOK,
     BreakRecvOK, BreakDropAllOK, BreakBySeqOK, BreakEndOK DEF GoOn
<1>6. CASE UNCHANGED vars
  <2>1. UNCHANGED <<packets, wire, sock, alive, broken, receiving, seqer, bound, buf2, packet_len,
                    c_unrecv, c_failed, recv_queue0, cur_alloc0, seq_mapping, ret, waits, phase, iter>>
    BY <1>6 DEF vars, streamVars, modeVars, packetVars, queueVars, taskVars
  <2>2. TypeOK' /\ QueueInv' /\ MappingInv' /\ ModesAgree' /\ ReadInv' /\ BreakInv'
    BY <2>1 DEF IndInv, TypeOK, QueueInv, MappingInv, ModesAgree, ReadInv, BreakInv, Begin, Waiting
  <2>3. WireInv' /\ Framing'
    BY <2>1, FramingFrame
  <2> QED
    BY <2>2, <2>3 DEF IndInv
<1> QED
  BY <1>1, <1>2, <1>3, <1>4, <1>5, <1>6 DEF Next

LEMMA InvHolds == Spec => []IndInv
BY InitOK, StepOK, PTL DEF Spec

-----------------------------------------------------------------------------
LEMMA RegisteredMeans == IndInv => RegisteredAndRead
<1> SUFFICES ASSUME IndInv PROVE RegisteredAndRead
  OBVIOUS
<1>1. WaitersRegistered
  <2> DEFINE queued == recv_queue0 \o (IF cur_alloc0 = NULL THEN <<>> ELSE <<cur_alloc0>>)
  <2>1. IsInjective(queued) /\ ToSet(queued) = {t \in Task : waits[t] = "recv"}
    <3>1. recv_queue0 \in Seq(Task) /\ IsInjective(recv_queue0)
      BY DEF IndInv, TypeOK, QueueInv
    <3>2. CASE cur_alloc0 = NULL
      <4>1. queued = recv_queue0
        BY <3>1, <3>2, ConcatEmptySeq
      <4> QED
        BY <3>1, <3>2, <4>1, ChannelAssumption DEF IndInv, QueueInv
    <3>3. CASE cur_alloc0 # NULL
      <4>1. cur_alloc0 \in Task /\ cur_alloc0 \notin ToSet(recv_queue0) /\ waits[cur_alloc0] = "recv"
        BY <3>3 DEF IndInv, TypeOK, QueueInv
      <4>2. queued = recv_queue0 \o <<cur_alloc0>>
        BY <3>3
      <4> HIDE DEF queued
      <4>3. IsInjective(queued) /\ ToSet(queued) = ToSet(recv_queue0) \cup {cur_alloc0}
        BY <3>1, <4>1, <4>2, WithTaken
      <4> QED
        BY <4>1, <4>3 DEF IndInv, QueueInv
    <3> QED
      BY <3>2, <3>3
  <2>2. seq_mapping = {<<waits[t], t>> : t \in {q \in Task : waits[q] \in SeqNum}}
    <3> DEFINE W == {<<waits[t], t>> : t \in {q \in Task : waits[q] \in SeqNum}}
    <3>1. ASSUME NEW e \in seq_mapping PROVE e \in W
      <4>1. PICK s \in SeqNum, t \in Task : e = <<s, t>>
        BY DEF IndInv, TypeOK
      <4>2. waits[t] = s
        BY <4>1 DEF IndInv, MappingInv
      <4> QED
        BY <4>1, <4>2
    <3>2. ASSUME NEW e \in W PROVE e \in seq_mapping
      <4>1. PICK t \in Task : waits[t] \in SeqNum /\ e = <<waits[t], t>>
        OBVIOUS
      <4> QED
        BY <4>1 DEF IndInv, MappingInv
    <3> QED
      BY <3>1, <3>2
  <2> QED
    BY <2>1, <2>2 DEF WaitersRegistered
<1>2. SocketIsRead
  BY DEF IndInv, ReadInv, ModesAgree, SocketIsRead, AllocChecks
<1> QED
  BY <1>1, <1>2 DEF IndInv, RegisteredAndRead

LEMMA FramedMeans == IndInv => PacketsFramed
<1> SUFFICES ASSUME IndInv PROVE PacketsFramed
  OBVIOUS
<1>1. /\ buf2 \in Seq((DOMAIN packets) \X Nat) /\ Len(buf2) \in Nat /\ packet_len \in Nat
      /\ HeaderLen \in Nat /\ MaxLen \in Nat /\ HeaderLen <= MaxLen /\ HeaderLen # 0
      /\ Len(buf2) <= MaxLen
  BY SeqBasics, ChannelAssumption DEF IndInv, TypeOK
<1>2. RoomInBuffer
  <2> SUFFICES ASSUME Polled, receiving = "recv_by_seq", ~broken PROVE RoomOK
    BY DEF RoomInBuffer
  <2>1. CASE Len(buf2) < HeaderLen
    BY <1>1, <2>1 DEF RoomOK, Room
  <2>2. CASE ~(Len(buf2) < HeaderLen)
    <3>1. Len(buf2) >= HeaderLen
      BY <1>1, <2>2
    <3>2. packet_len <= MaxLen /\ Len(buf2) < packet_len
      BY <3>1 DEF IndInv, Framing, Polled
    <3> QED
      BY <1>1, <2>2, <3>2 DEF RoomOK, Room
  <2> QED
    BY <2>1, <2>2
<1>3. PacketsWhole
  <2> SUFFICES ASSUME phase = "stand2", alive
               PROVE  \E k \in DOMAIN packets : buf2 = PacketBytes(packets, k)
    BY DEF PacketsWhole
  <2>1. HeaderLen <= packet_len /\ Len(buf2) = packet_len
    BY DEF IndInv, Framing
  <2>2. buf2 # <<>> /\ ~(Len(buf2) < HeaderLen)
    BY <1>1, <2>1, EmptySeq
  <2>3. PICK k \in DOMAIN packets : Buffered(k)
    BY <2>2 DEF IndInv, Framing
  <2>4. Extent(packets[k]) = Len(buf2)
    BY <1>1, <2>1, <2>2, <2>3, ExtentIs DEF Buffered, IndInv, WireInv
  <2>5. /\ buf2 = [i \in 1..Len(buf2) |-> buf2[i]]
        /\ \A i \in 1..Len(buf2) : buf2[i] = <<k, i>>
    BY <1>1, <2>3, SeqDef DEF Buffered
  <2>6. buf2 = [i \in 1..Len(buf2) |-> <<k, i>>]
    BY <2>5
  <2> QED
    BY <2>4, <2>6 DEF PacketBytes, BytesOf
<1> QED
  BY <1>2, <1>3 DEF PacketsFramed

\* However tasks come, go and are canceled, also inside the __task_stand of a
\* callback: whoever waits in recv or recv_by_seq is registered once where the
\* callbacks look, nobody else is, and the socket is read for it.
THEOREM RegisteredSafe == Spec => []RegisteredAndRead
BY InvHolds, RegisteredMeans, PTL

\* However the stream is split into reads: tcp_alloc_cb2 offers room inside buf2,
\* never none, and what is handed to a task is exactly one packet of the peer.
THEOREM FramedSafe == Spec => []PacketsFramed
BY InvHolds, FramedMeans, PTL

\* When the connection breaks every waiter is told before the event loop goes on.
THEOREM BreakSafe == Spec => []BreakReachesAll
<1>1. IndInv => BreakReachesAll
  BY DEF IndInv, BreakInv, BreakReachesAll
<1> QED
  BY <1>1, InvHolds, PTL

-----------------------------------------------------------------------------
\* Only the end of tcp_recv_cb2 enters its __task_stand.
LEMMA OnlyPacketStands ==
    ASSUME Next, phase = "loop", phase' = "stand2"
    PROVE  \E n \in 1..Len(wire) : RecvCb2Packet(n)
<1>1. ~(EarlyBind \/ DistinctRecvBySeq \/ Destroy \/ \E t \in Task : Recv(t))
  BY DEF EarlyBind, Bind, DistinctRecvBySeq, RecvBySeq, Destroy, Recv
<1>2. ~CancelOther
  BY DEF CancelOther, Cancel, CancelRecv, CancelRecvBySeq, PhaseAfterErase, Breaking
<1>3. ~(AllocCb0 \/ RecvCb2Error \/ GoOn)
  BY DEF AllocCb0, RecvCb2Error, GoOn, RecvCb0Nothing, RecvCb0, RecvCb0End, RecvCb0Error, RecvCb2End,
         BreakBegin, BreakGone, BreakRecv, BreakDropAll, BreakBySeq, BreakEnd, Breaking
<1>4. PICK n \in 1..Len(wire) : RecvCb2Part(n) \/ RecvCb2Wrong(n) \/ RecvCb2Packet(n)
  BY <1>1, <1>2, <1>3 DEF Next, ReadSome
<1> QED
  BY <1>4 DEF RecvCb2Part, RecvCb2Wrong

\* Each complete packet resumes one task or is counted once; a task in
\* recv_by_seq comes before those in recv, these before the counters.
THEOREM OneFateSafe == Spec => OneFate
<1> DEFINE s == packets[buf2'[1][1]].seq
           resumed == {t \in Task : Waiting(t) /\ waits'[t] = "no"}
           counted == (c_unrecv' - c_unrecv) + (c_failed' - c_failed)
           Fate == /\ Cardinality(resumed) + counted = 1
                   /\ (\E t \in Task : waits[t] = s) => \E t \in resumed : waits[t] = s
                   /\ (\E t \in Task : waits[t] = "recv") => counted = 0
<1>1. ASSUME IndInv, Next, phase = "loop", phase' = "stand2"
      PROVE  Fate
  <2>1. PICK n \in 1..Len(wire) : RecvCb2Packet(n)
    BY <1>1, OnlyPacketStands
  <2>2. /\ Read(n) /\ UNCHANGED packets /\ buf2' = Filled(n)
        /\ ToSeqWaiter(s) \/ ToQueue(s) \/ ToCounter(s)
    BY <2>1 DEF RecvCb2Packet, Read
  <2>3. s \in SeqNum \cup {Bad} /\ bound
    <3>1. /\ \E k \in DOMAIN packets : Buffered(k)'
          /\ buf2' # <<>> /\ buf2' \in Seq((DOMAIN packets) \X Nat) /\ bound
      BY <1>1, <2>2, ReadOK
    <3>2. Len(buf2') \in Nat /\ Len(buf2') # 0
      BY <3>1, SeqBasics
    <3>3. 1 \in 1..Len(buf2')
      BY <3>2
    <3>4. buf2'[1][1] \in DOMAIN packets
      BY <3>1, <3>3 DEF Buffered
    <3> QED
      BY <1>1, <3>1, <3>4, ExtentIs DEF IndInv, WireInv
  <2>4. c_unrecv \in Nat /\ c_failed \in Nat /\ cur_alloc0 = NULL
    BY <1>1 DEF IndInv, TypeOK, ModesAgree
  <2> HIDE DEF s
  <2>5. ASSUME NEW t \in Task, waits[t] = s PROVE <<s, t>> \in Entries(s)
    <3>1. s \in SeqNum
      BY <1>1, <2>3, <2>5, ChannelAssumption DEF IndInv, TypeOK
    <3> QED
      BY <1>1, <2>5, <3>1 DEF IndInv, MappingInv, Entries
  <2>6. ASSUME NEW t \in Task, Waiting(t), waits' = [waits EXCEPT ![t] = "no"],
               UNCHANGED <<c_unrecv, c_failed>>,
               (\E u \in Task : waits[u] = s) => waits[t] = s
        PROVE  Fate
    <3>1. resumed = {t}
      BY <1>1, <2>6 DEF IndInv, TypeOK, Waiting
    <3>2. Cardinality(resumed) = 1
      BY <3>1, FS_Singleton
    <3>3. counted = 0
      BY <2>4, <2>6
    <3>4. (\E u \in Task : waits[u] = s) => \E u \in resumed : waits[u] = s
      BY <2>6, <3>1
    <3> HIDE DEF resumed, counted
    <3> QED
      BY <3>2, <3>3, <3>4
  <2>7. CASE ToSeqWaiter(s)
    <3>1. PICK e \in Entries(s) : /\ waits' = [waits EXCEPT ![e[2]] = "no"]
                                  /\ UNCHANGED <<c_unrecv, c_failed>>
      BY <2>7 DEF ToSeqWaiter, Resume
    <3>2. e \in seq_mapping /\ e[1] = s
      BY DEF Entries
    <3>3. PICK t \in Task : e = <<s, t>> /\ s \in SeqNum
      BY <1>1, <3>2 DEF IndInv, TypeOK
    <3>4. waits[t] = s /\ Waiting(t)
      BY <1>1, <3>2, <3>3, ChannelAssumption DEF IndInv, MappingInv, Waiting
    <3> HIDE DEF Fate
    <3> QED
      BY <2>6, <3>1, <3>3, <3>4
  <2>8. CASE ToQueue(s)
    <3>1. recv_queue0 \in Seq(Task) /\ IsInjective(recv_queue0)
      BY <1>1 DEF IndInv, TypeOK, QueueInv
    <3>2. Head(recv_queue0) \in Task /\ Head(recv_queue0) \in ToSet(recv_queue0)
      BY <2>8, <3>1, Dequeue DEF ToQueue
    <3>3. waits[Head(recv_queue0)] = "recv" /\ Waiting(Head(recv_queue0))
      BY <1>1, <3>2 DEF IndInv, QueueInv, Waiting
    <3>4. ~\E u \in Task : waits[u] = s
      BY <2>5, <2>8 DEF ToQueue
    <3>5. waits' = [waits EXCEPT ![Head(recv_queue0)] = "no"] /\ UNCHANGED <<c_unrecv, c_failed>>
      BY <2>8 DEF ToQueue, Resume
    <3> HIDE DEF Fate
    <3> QED
      BY <2>6, <3>2, <3>3, <3>4, <3>5
  <2>9. CASE ToCounter(s)
    <3>1. resumed = {}
      BY <2>9 DEF ToCounter, taskVars, Waiting
    <3>2. Cardinality(resumed) = 0
      BY <3>1, FS_EmptySet
    <3>3. counted = 1
      BY <2>4, <2>9 DEF ToCounter, CountMissed
    <3>4. ~\E u \in Task : waits[u] = s
      BY <2>5, <2>9 DEF ToCounter
    <3>5. \A u \in Task : waits[u] # "recv"
      BY <1>1, <2>4, <2>9, NobodyQueued DEF IndInv, TypeOK, ToCounter
    <3> HIDE DEF resumed, counted
    <3> QED
      BY <3>2, <3>3, <3>4, <3>5
  <2> QED
    BY <2>2, <2>7, <2>8, <2>9
<1>2. IndInv /\ [Next]_vars => [phase = "loop" /\ phase' = "stand2" => Fate]_vars
  BY <1>1
<1> QED
  BY <1>2, InvHolds, PTL DEF Spec, OneFate
=============================================================================
