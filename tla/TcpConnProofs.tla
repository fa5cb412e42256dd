---------------------------- MODULE TcpConnProofs ----------------------------
(***************************************************************************)
(* Proofs about TcpConn, for any sets of tasks and connected objects and   *)
(* any number of peers.                                                    *)
(*                                                                         *)
(* A connected object goes through one operation at a time until it is     *)
(* established, then through any number of sends.  The inductive invariant *)
(* says which of the fields sock, established, broken and connect_req go   *)
(* together (FieldsAgree), which of them an operation in progress may rely *)
(* on (OwnersInv), and, position by position, which entry of accept_queue  *)
(* or of writes stands for which task.  What happens before uv_listen has  *)
(* succeeded is told apart by BeforeListen: an accept that found the       *)
(* address in use leaves its entry behind, and nothing ever reads it.      *)
(***************************************************************************)
EXTENDS TcpConn, SharedLemmas, FiniteSetTheorems

\* While the socket listens, accept_queue holds the tasks in accept, each once.
QueueInv ==
    accepting =>
        /\ \A i \in 1..Len(accept_queue) :
               waits[accept_queue[i][1]] = <<"accept", accept_queue[i][2]>>
        /\ \A i, j \in 1..Len(accept_queue) : accept_queue[i][1] = accept_queue[j][1] => i = j
        /\ \A t \in Task, c \in Conn : waits[t] = <<"accept", c>> =>
               \E i \in 1..Len(accept_queue) : accept_queue[i][1] = t

BeforeListen ==
    /\ ~accepting => backlog = 0 /\ \A t \in Task, c \in Conn : waits[t] # <<"accept", c>>
    /\ in_use => ~accepting
    /\ ~accepting /\ ~in_use => accept_queue = <<>>

ConnectInv ==
    \A t \in Task, c \in Conn : connect_req[c] = <<t>> <=> waits[t] = <<"connect", c>>

\* writes[c] holds the tasks in send on c, each once.
WritesInv ==
    \A c \in Conn :
        /\ \A i \in 1..Len(writes[c]) : waits[writes[c][i][1]] = <<"send", c>>
        /\ \A i, j \in 1..Len(writes[c]) : writes[c][i][1] = writes[c][j][1] => i = j
        /\ \A t \in Task : waits[t] = <<"send", c>> => \E i \in 1..Len(writes[c]) : writes[c][i][1] = t

\* What an operation in progress relies on.
OwnersInv ==
    \A t \in Task, c \in Conn :
        /\ waits[t] = <<"accept", c>> =>
               /\ alive[c] /\ sock[c] = "idle" /\ ~broken[c] /\ connect_req[c] = None
               /\ \A u \in Task : waits[u] = <<"accept", c>> => u = t
        /\ waits[t] = <<"connect", c>> => alive[c] /\ ~broken[c]
        /\ waits[t] = <<"send", c>> => alive[c] /\ established[c]

FieldsAgree ==
    \A c \in Conn :
        /\ connect_req[c] # None => sock[c] = "idle"
        /\ connect_req[c] = <<NULL>> => broken[c]
        /\ established[c] => sock[c] = "up"
        /\ sock[c] = "up" => established[c] \/ broken[c]

IndInv == TypeOK /\ QueueInv /\ BeforeListen /\ ConnectInv /\ WritesInv /\ OwnersInv /\ FieldsAgree

LEMMA InitOK == Init => IndInv
<1> SUFFICES ASSUME Init PROVE IndInv
  OBVIOUS
<1> USE NullAssumption DEF Init
<1>1. TypeOK
  <2>1. <<>> \in Seq(Task \X Conn) /\ <<>> \in Seq(Task \X {"queued", "written", "failed"})
    BY EmptySeq
  <2>2. connect_req \in [Conn -> {None} \cup {<<t>> : t \in Task \cup {NULL}}]
    OBVIOUS
  <2> QED
    BY <2>1, <2>2 DEF TypeOK
<1>2. QueueInv /\ BeforeListen
  BY DEF QueueInv, BeforeListen, Idle
<1>3. ConnectInv /\ WritesInv /\ OwnersInv /\ FieldsAgree
  BY DEF ConnectInv, WritesInv, OwnersInv, FieldsAgree, Idle, None
<1> QED
  BY <1>1, <1>2, <1>3 DEF IndInv

-----------------------------------------------------------------------------
\* Entries of the queues, and steps that leave one of them alone.

LEMMA Entries ==
    ASSUME TypeOK
    PROVE  /\ Len(accept_queue) \in Nat
           /\ \A i \in 1..Len(accept_queue) :
                  /\ accept_queue[i][1] \in Task /\ accept_queue[i][2] \in Conn
                  /\ accept_queue[i] = <<accept_queue[i][1], accept_queue[i][2]>>
           /\ \A c \in Conn : /\ writes[c] \in Seq(Task \X {"queued", "written", "failed"})
                              /\ Len(writes[c]) \in Nat
                              /\ \A i \in 1..Len(writes[c]) : writes[c][i][1] \in Task
<1>1. accept_queue \in Seq(Task \X Conn)
  BY DEF TypeOK
<1>2. Len(accept_queue) \in Nat /\ \A i \in 1..Len(accept_queue) : accept_queue[i] \in Task \X Conn
  BY <1>1, LenProperties, ElementOfSeq
<1>3. ASSUME NEW c \in Conn
      PROVE  /\ writes[c] \in Seq(Task \X {"queued", "written", "failed"})
             /\ Len(writes[c]) \in Nat
             /\ \A i \in 1..Len(writes[c]) : writes[c][i] \in Task \X {"queued", "written", "failed"}
  <2>1. writes[c] \in Seq(Task \X {"queued", "written", "failed"})
    BY DEF TypeOK
  <2> QED
    BY <2>1, LenProperties, ElementOfSeq
<1> QED
  BY <1>2, <1>3

LEMMA ReqCases ==
    ASSUME TypeOK, NEW c \in Conn
    PROVE  connect_req[c] = None \/ connect_req[c] = <<NULL>> \/ \E t \in Task : connect_req[c] = <<t>>
<1>1. connect_req[c] \in {None} \cup {<<t>> : t \in Task \cup {NULL}}
  BY DEF TypeOK
<1> QED
  BY <1>1

LEMMA QueueFrame ==
    ASSUME IndInv, UNCHANGED <<accepting, in_use, accept_queue>>,
           \A t \in Task, c \in Conn : waits'[t] = <<"accept", c>> <=> waits[t] = <<"accept", c>>,
           ~accepting => backlog' = 0
    PROVE  QueueInv' /\ BeforeListen'
<1>1. QueueInv'
  <2> SUFFICES ASSUME accepting
               PROVE  /\ \A i \in 1..Len(accept_queue) :
                             waits'[accept_queue[i][1]] = <<"accept", accept_queue[i][2]>>
                      /\ \A t \in Task, c \in Conn : waits'[t] = <<"accept", c>> =>
                             \E i \in 1..Len(accept_queue) : accept_queue[i][1] = t
    BY DEF IndInv, QueueInv
  <2>1. ASSUME NEW i \in 1..Len(accept_queue)
        PROVE  waits'[accept_queue[i][1]] = <<"accept", accept_queue[i][2]>>
    <3>1. accept_queue[i][1] \in Task /\ accept_queue[i][2] \in Conn
      BY Entries DEF IndInv
    <3>2. waits[accept_queue[i][1]] = <<"accept", accept_queue[i][2]>>
      BY DEF IndInv, QueueInv
    <3> QED
      BY <3>1, <3>2
  <2>2. ASSUME NEW t \in Task, NEW c \in Conn, waits'[t] = <<"accept", c>>
        PROVE  \E i \in 1..Len(accept_queue) : accept_queue[i][1] = t
    BY <2>2 DEF IndInv, QueueInv
  <2> QED
    BY <2>1, <2>2
<1>2. BeforeListen'
  BY DEF IndInv, BeforeListen
<1> QED
  BY <1>1, <1>2

LEMMA WritesFrame ==
    ASSUME IndInv, UNCHANGED writes,
           \A t \in Task, c \in Conn : waits'[t] = <<"send", c>> <=> waits[t] = <<"send", c>>
    PROVE  WritesInv'
<1> SUFFICES ASSUME NEW c \in Conn
             PROVE  /\ \A i \in 1..Len(writes[c]) : waits'[writes[c][i][1]] = <<"send", c>>
                    /\ \A t \in Task : waits'[t] = <<"send", c>> =>
                           \E i \in 1..Len(writes[c]) : writes[c][i][1] = t
  BY DEF IndInv, WritesInv
<1>1. \A i \in 1..Len(writes[c]) : writes[c][i][1] \in Task /\ waits[writes[c][i][1]] = <<"send", c>>
  BY Entries DEF IndInv, WritesInv
<1>2. \A t \in Task : waits'[t] = <<"send", c>> => \E i \in 1..Len(writes[c]) : writes[c][i][1] = t
  BY DEF IndInv, WritesInv
<1> QED
  BY <1>1, <1>2

-----------------------------------------------------------------------------

LEMMA AcceptOK ==
    ASSUME IndInv, NEW t \in Task, NEW c \in Conn, ~in_use, Accept(t, c)
    PROVE  IndInv'
<1> USE NullAssumption
<1>1. /\ waits[t] = Idle /\ alive[c] /\ sock[c] = "idle" /\ ~broken[c]
      /\ \A u \in Task : waits[u] # <<"accept", c>> /\ waits[u] # <<"connect", c>>
      /\ UNCHANGED <<taken, backlog, alive, established, broken, sock, connect_req, writes>>
  BY DEF Accept, Used, Waiting, Ops, connVars, loopVars
<1>2. /\ accept_queue' = Append(accept_queue, <<t, c>>)
      /\ accept_queue' \in Seq(Task \X Conn) /\ Len(accept_queue) \in Nat
      /\ Len(accept_queue') = Len(accept_queue) + 1
      /\ \A i \in 1..Len(accept_queue) : accept_queue'[i] = accept_queue[i] /\ accept_queue[i] \in Task \X Conn
      /\ accept_queue'[Len(accept_queue) + 1] = <<t, c>>
  <2>1. <<t, c>> \in Task \X Conn /\ accept_queue \in Seq(Task \X Conn)
    BY DEF IndInv, TypeOK
  <2>2. accept_queue' = Append(accept_queue, <<t, c>>)
    BY DEF Accept
  <2> QED
    BY <2>1, <2>2, AppendAt
<1>3. CASE ~accepting /\ taken
  <2>1. in_use' /\ accepting' = accepting /\ waits' = waits /\ ret' = [ret EXCEPT ![t] = "address_in_use"]
    BY <1>3 DEF Accept
  <2>2. TypeOK'
    BY <1>1, <1>2, <2>1 DEF Accept, IndInv, TypeOK
  <2>3. QueueInv' /\ BeforeListen'
    BY <1>1, <1>3, <2>1 DEF IndInv, QueueInv, BeforeListen
  <2>4. ConnectInv' /\ WritesInv' /\ OwnersInv' /\ FieldsAgree'
    BY <1>1, <2>1 DEF IndInv, ConnectInv, WritesInv, OwnersInv, FieldsAgree
  <2> QED
    BY <2>2, <2>3, <2>4 DEF IndInv
<1>4. CASE ~(~accepting /\ taken)
  <2>1. /\ accepting' = TRUE /\ in_use' = in_use
        /\ waits' = [waits EXCEPT ![t] = <<"accept", c>>]
        /\ ret' = [ret EXCEPT ![t] = "unfinished"]
    BY <1>4 DEF Accept, Begin
  <2>2. TypeOK'
    BY <1>1, <1>2, <2>1 DEF Accept, IndInv, TypeOK, Ops
  <2>3. waits'[t] = <<"accept", c>> /\ \A u \in Task : u # t => waits'[u] = waits[u]
    BY <2>1 DEF IndInv, TypeOK
  <2>4. QueueInv'
    <3>1. \A i \in 1..Len(accept_queue) : /\ waits[accept_queue[i][1]] = <<"accept", accept_queue[i][2]>>
                                          /\ accept_queue[i][1] # t /\ accept_queue[i][1] \in Task
      <4> SUFFICES ASSUME NEW i \in 1..Len(accept_queue)
                   PROVE  /\ waits[accept_queue[i][1]] = <<"accept", accept_queue[i][2]>>
                          /\ accept_queue[i][1] # t /\ accept_queue[i][1] \in Task
        OBVIOUS
      <4>1. accepting
        BY DEF IndInv, BeforeListen
      <4>2. waits[accept_queue[i][1]] = <<"accept", accept_queue[i][2]>>
        BY <4>1 DEF IndInv, QueueInv
      <4>3. accept_queue[i][1] \in Task
        BY Entries DEF IndInv
      <4> QED
        BY <1>1, <4>2, <4>3 DEF Idle
    <3>2. \A i \in 1..Len(accept_queue') : i \in 1..Len(accept_queue) \/ i = Len(accept_queue) + 1
      BY <1>2
    <3>3. \A i \in 1..Len(accept_queue') : waits'[accept_queue'[i][1]] = <<"accept", accept_queue'[i][2]>>
      <4>1. \A i \in 1..Len(accept_queue) : waits'[accept_queue'[i][1]] = <<"accept", accept_queue'[i][2]>>
        <5> SUFFICES ASSUME NEW i \in 1..Len(accept_queue)
                     PROVE  waits'[accept_queue'[i][1]] = <<"accept", accept_queue'[i][2]>>
          OBVIOUS
        <5>1. accept_queue'[i] = accept_queue[i]
          BY <1>2
        <5>2. waits'[accept_queue[i][1]] = waits[accept_queue[i][1]]
          BY <2>3, <3>1
        <5> QED
          BY <3>1, <5>1, <5>2
      <4>2. <<t, c>>[1] = t /\ <<t, c>>[2] = c
        OBVIOUS
      <4> QED
        BY <1>2, <2>3, <3>2, <4>1, <4>2
    <3>4. \A i, j \in 1..Len(accept_queue') : accept_queue'[i][1] = accept_queue'[j][1] => i = j
      <4>1. \A i, j \in 1..Len(accept_queue) : accept_queue[i][1] = accept_queue[j][1] => i = j
        BY DEF IndInv, QueueInv, BeforeListen
      <4> QED
        BY <1>2, <3>1, <3>2, <4>1
    <3>5. \A u \in Task, d \in Conn : waits'[u] = <<"accept", d>> =>
               \E i \in 1..Len(accept_queue') : accept_queue'[i][1] = u
      <4> SUFFICES ASSUME NEW u \in Task, NEW d \in Conn, waits'[u] = <<"accept", d>>
                   PROVE  \E i \in 1..Len(accept_queue') : accept_queue'[i][1] = u
        OBVIOUS
      <4>1. CASE u = t
        BY <1>2, <4>1
      <4>2. CASE u # t
        <5>1. accepting /\ \E i \in 1..Len(accept_queue) : accept_queue[i][1] = u
          BY <2>3, <4>2 DEF IndInv, QueueInv, BeforeListen
        <5> QED
          BY <1>2, <5>1
      <4> QED
        BY <4>1, <4>2
    <3> QED
      BY <3>3, <3>4, <3>5 DEF QueueInv
  <2>5. BeforeListen'
    BY <1>1, <2>1 DEF BeforeListen
  <2>6. ConnectInv'
    BY <1>1, <2>3 DEF IndInv, ConnectInv, Idle
  <2>7. WritesInv'
    BY <1>1, <2>3, WritesFrame DEF Idle
  <2>8. OwnersInv'
    <3>1. connect_req[c] = None
      BY <1>1, ReqCases DEF IndInv, ConnectInv, FieldsAgree
    <3> QED
      BY <1>1, <2>3, <3>1 DEF IndInv, OwnersInv
  <2>9. FieldsAgree'
    BY <1>1 DEF IndInv, FieldsAgree
  <2> QED
    BY <2>2, <2>4, <2>5, <2>6, <2>7, <2>8, <2>9 DEF IndInv
<1> QED
  BY <1>3, <1>4

LEMMA CancelAcceptOK ==
    ASSUME IndInv, NEW t \in Task, CancelAccept(t)
    PROVE  IndInv'
<1> USE NullAssumption
<1>1. /\ UNCHANGED <<listening, accepting, in_use, taken, backlog, peers, alive, established, broken,
                     sock, connect_req, writes, ret>>
      /\ accept_queue' = Unqueued(t)
      /\ waits' = [waits EXCEPT ![t] = Idle] /\ waits[t][1] = "accept"
  BY DEF CancelAccept, Canceled, connVars, loopVars
<1>2. PICK c \in Conn : waits[t] = <<"accept", c>>
  BY <1>1 DEF IndInv, TypeOK, Idle
<1>3. accepting
  BY <1>2 DEF IndInv, BeforeListen
<1>4. PosOf(t) \in 1..Len(accept_queue) /\ accept_queue[PosOf(t)][1] = t
  <2>1. \E i \in 1..Len(accept_queue) : accept_queue[i][1] = t
    BY <1>2, <1>3 DEF IndInv, QueueInv
  <2>2. DOMAIN accept_queue = 1..Len(accept_queue)
    BY LenProperties DEF IndInv, TypeOK
  <2> QED
    BY <2>1, <2>2 DEF PosOf
<1> DEFINE k == PosOf(t)
           q == accept_queue
           r == accept_queue'
<1>5. /\ r \in Seq(Task \X Conn) /\ Len(q) \in Nat /\ Len(r) = Len(q) - 1
      /\ \A i \in 1..(Len(q) - 1) : r[i] = IF i < k THEN q[i] ELSE q[i + 1]
  <2>1. q \in Seq(Task \X Conn) /\ r = RemoveAt(q, k) /\ k \in 1..Len(q)
    BY <1>1, <1>4 DEF Unqueued, IndInv, TypeOK
  <2> HIDE DEF k, q, r
  <2> QED
    BY <2>1, RemoveAtAt
<1>6. waits'[t] = Idle /\ \A u \in Task : u # t => waits'[u] = waits[u]
  BY <1>1 DEF IndInv, TypeOK
<1>7. TypeOK'
  BY <1>1, <1>5 DEF IndInv, TypeOK
<1> HIDE DEF k
<1>8. QueueInv'
  <2>1. \A i \in 1..Len(q) : q[i][1] \in Task /\ q[i][2] \in Conn /\ waits[q[i][1]] = <<"accept", q[i][2]>>
    BY <1>3, Entries DEF IndInv, QueueInv
  <2>2. \A i, j \in 1..Len(q) : q[i][1] = q[j][1] => i = j
    BY <1>3 DEF IndInv, QueueInv
  <2>3. k \in 1..Len(q) /\ q[k][1] = t
    BY <1>4 DEF k
  <2>4. ASSUME NEW i \in 1..Len(r)
        PROVE  /\ r[i] = q[IF i < k THEN i ELSE i + 1]
               /\ (IF i < k THEN i ELSE i + 1) \in 1..Len(q) /\ (IF i < k THEN i ELSE i + 1) # k
    BY <1>5, <2>3
  <2>5. ASSUME NEW i \in 1..Len(r) PROVE waits'[r[i][1]] = <<"accept", r[i][2]>>
    <3>1. PICK j \in 1..Len(q) : r[i] = q[j] /\ j # k
      BY <2>4
    <3>2. q[j][1] # t /\ q[j][1] \in Task
      BY <2>1, <2>2, <2>3, <3>1
    <3> QED
      BY <1>6, <2>1, <3>1, <3>2
  <2>6. ASSUME NEW i \in 1..Len(r), NEW j \in 1..Len(r), r[i][1] = r[j][1] PROVE i = j
    <3>1. (IF i < k THEN i ELSE i + 1) = (IF j < k THEN j ELSE j + 1)
      BY <2>2, <2>4, <2>6
    <3> QED
      BY <1>5, <2>3, <3>1
  <2>7. ASSUME NEW u \in Task, NEW d \in Conn, waits'[u] = <<"accept", d>>
        PROVE  \E i \in 1..Len(r) : r[i][1] = u
    <3>1. u # t /\ waits[u] = <<"accept", d>>
      BY <1>6, <2>7 DEF Idle
    <3>2. PICK j \in 1..Len(q) : q[j][1] = u
      BY <1>3, <3>1 DEF IndInv, QueueInv
    <3>3. CASE j < k
      <4>1. j \in 1..Len(r) /\ r[j] = q[j]
        BY <1>5, <2>3, <3>3
      <4> QED
        BY <3>2, <4>1
    <3>4. CASE ~(j < k)
      <4>1. j # k
        BY <2>3, <3>1, <3>2
      <4>2. j - 1 \in 1..Len(r) /\ ~(j - 1 < k) /\ (j - 1) + 1 = j
        BY <1>5, <2>3, <3>4, <4>1
      <4>3. r[j - 1] = q[j]
        BY <1>5, <4>2
      <4> QED
        BY <3>2, <4>2, <4>3
    <3> QED
      BY <3>3, <3>4
  <2> QED
    BY <2>5, <2>6, <2>7 DEF QueueInv
<1>9. BeforeListen'
  BY <1>1, <1>3 DEF IndInv, BeforeListen
<1>10. ConnectInv' /\ WritesInv'
  <2>1. \A u \in Task, d \in Conn :
          /\ waits'[u] = <<"connect", d>> <=> waits[u] = <<"connect", d>>
          /\ waits'[u] = <<"send", d>> <=> waits[u] = <<"send", d>>
    BY <1>2, <1>6 DEF Idle
  <2> QED
    BY <1>1, <2>1, WritesFrame DEF IndInv, ConnectInv
<1>11. OwnersInv'
  <2>1. \A u \in Task, d \in Conn, op \in Ops : waits'[u] = <<op, d>> => waits[u] = <<op, d>>
    BY <1>6 DEF Idle, Ops
  <2> QED
    BY <1>1, <2>1 DEF IndInv, OwnersInv, Ops
<1>12. FieldsAgree'
  BY <1>1 DEF IndInv, FieldsAgree
<1> QED
  BY <1>7, <1>8, <1>9, <1>10, <1>11, <1>12 DEF IndInv

LEMMA tcp_accept_cbOK ==
    ASSUME IndInv, tcp_accept_cb
    PROVE  IndInv'
<1> USE NullAssumption
<1>1. /\ UNCHANGED <<listening, accepting, in_use, taken, peers, alive, broken, connect_req, writes>>
      /\ backlog > 0 /\ backlog' = backlog - 1 /\ backlog \in Nat
  BY DEF tcp_accept_cb, IndInv, TypeOK
<1>2. accepting /\ backlog' \in Nat
  BY <1>1 DEF IndInv, BeforeListen
<1>3. CASE accept_queue = <<>>
  <2>1. UNCHANGED <<established, sock, accept_queue, waits, ret>>
    BY <1>3 DEF tcp_accept_cb, taskVars
  <2>2. TypeOK'
    BY <1>1, <1>2, <2>1 DEF IndInv, TypeOK
  <2>3. QueueInv' /\ BeforeListen' /\ WritesInv'
    BY <1>1, <1>2, <2>1, QueueFrame, WritesFrame
  <2>4. ConnectInv' /\ OwnersInv' /\ FieldsAgree'
    BY <1>1, <2>1 DEF IndInv, ConnectInv, OwnersInv, FieldsAgree
  <2> QED
    BY <2>2, <2>3, <2>4 DEF IndInv
<1>4. CASE accept_queue # <<>>
  <2> DEFINE q == accept_queue
             t == Head(q)[1]
             c == Head(q)[2]
  <2>1. /\ q' \in Seq(Task \X Conn) /\ Len(q) \in Nat /\ Len(q) >= 1 /\ Len(q') = Len(q) - 1
        /\ Head(q) = q[1] /\ \A i \in 1..(Len(q) - 1) : q'[i] = q[i + 1]
    <3>1. accept_queue \in Seq(Task \X Conn) /\ accept_queue' = Tail(accept_queue)
      BY <1>4 DEF tcp_accept_cb, IndInv, TypeOK
    <3> QED
      BY <1>4, <3>1, TailAt
  <2>2. \A i \in 1..Len(q) : q[i][1] \in Task /\ q[i][2] \in Conn /\ waits[q[i][1]] = <<"accept", q[i][2]>>
    BY <1>2, Entries DEF IndInv, QueueInv
  <2>3. t = q[1][1] /\ c = q[1][2] /\ t \in Task /\ c \in Conn /\ waits[t] = <<"accept", c>>
    <3>1. Head(q) = q[1] /\ 1 \in 1..Len(q)
      BY <2>1
    <3> QED
      BY <2>2, <3>1
  <2>4. /\ established' = [established EXCEPT ![c] = TRUE]
        /\ sock' = [sock EXCEPT ![c] = "up"]
        /\ waits' = [waits EXCEPT ![t] = Idle]
        /\ ret' = [ret EXCEPT ![t] = "success"]
    BY <1>4 DEF tcp_accept_cb, Resume
  <2> HIDE DEF t, c
  <2>5. TypeOK'
    BY <1>1, <1>2, <2>1, <2>3, <2>4 DEF IndInv, TypeOK
  <2>6. /\ waits'[t] = Idle /\ \A u \in Task : u # t => waits'[u] = waits[u]
        /\ established'[c] /\ sock'[c] = "up"
        /\ \A d \in Conn : d # c => established'[d] = established[d] /\ sock'[d] = sock[d]
    BY <2>3, <2>4 DEF IndInv, TypeOK
  <2>7. QueueInv'
    <3>1. \A i, j \in 1..Len(q) : q[i][1] = q[j][1] => i = j
      BY <1>2 DEF IndInv, QueueInv
    <3>2. ASSUME NEW i \in 1..Len(q') PROVE i + 1 \in 1..Len(q) /\ q'[i] = q[i + 1] /\ i + 1 # 1
      BY <2>1
    <3>3. ASSUME NEW i \in 1..Len(q') PROVE waits'[q'[i][1]] = <<"accept", q'[i][2]>>
      <4>1. q[i + 1][1] # t /\ q[i + 1][1] \in Task
        BY <2>1, <2>2, <2>3, <3>1, <3>2
      <4>2. waits'[q[i + 1][1]] = waits[q[i + 1][1]]
        BY <2>6, <4>1
      <4> QED
        BY <2>2, <3>2, <4>2
    <3>4. ASSUME NEW i \in 1..Len(q'), NEW j \in 1..Len(q'), q'[i][1] = q'[j][1] PROVE i = j
      <4>1. i + 1 = j + 1
        BY <3>1, <3>2, <3>4
      <4> QED
        BY <2>1, <4>1
    <3>5. ASSUME NEW u \in Task, NEW d \in Conn, waits'[u] = <<"accept", d>>
          PROVE  \E i \in 1..Len(q') : q'[i][1] = u
      <4>1. u # t /\ waits[u] = <<"accept", d>>
        BY <2>6, <3>5 DEF Idle
      <4>2. PICK j \in 1..Len(q) : q[j][1] = u
        BY <1>2, <4>1 DEF IndInv, QueueInv
      <4>3. j # 1
        BY <2>3, <4>1, <4>2
      <4>4. j - 1 \in 1..Len(q') /\ (j - 1) + 1 = j
        BY <2>1, <4>3
      <4>5. q'[j - 1] = q[j]
        BY <2>1, <4>4
      <4> QED
        BY <4>2, <4>4, <4>5
    <3> QED
      BY <3>3, <3>4, <3>5 DEF QueueInv
  <2>8. BeforeListen'
    BY <1>1, <1>2 DEF IndInv, BeforeListen
  <2>9. ConnectInv' /\ WritesInv'
    <3>1. \A u \in Task, d \in Conn :
            /\ waits'[u] = <<"connect", d>> <=> waits[u] = <<"connect", d>>
            /\ waits'[u] = <<"send", d>> <=> waits[u] = <<"send", d>>
      BY <2>3, <2>6 DEF Idle
    <3> QED
      BY <1>1, <3>1, WritesFrame DEF IndInv, ConnectInv
  <2>10. OwnersInv'
    <3>1. \A u \in Task, d \in Conn, op \in Ops : waits'[u] = <<op, d>> => u # t /\ waits[u] = <<op, d>>
      BY <2>6 DEF Idle, Ops
    <3>2. \A u \in Task : waits[u] = <<"accept", c>> => u = t
      BY <2>3 DEF IndInv, OwnersInv
    <3> QED
      BY <1>1, <2>6, <3>1, <3>2 DEF IndInv, OwnersInv, Ops
  <2>11. FieldsAgree'
    <3>1. connect_req[c] = None /\ ~broken[c]
      BY <2>3 DEF IndInv, OwnersInv
    <3> QED
      BY <1>1, <2>6, <3>1 DEF IndInv, FieldsAgree, None
  <2> QED
    BY <2>5, <2>7, <2>8, <2>9, <2>10, <2>11 DEF IndInv
<1> QED
  BY <1>3, <1>4

-----------------------------------------------------------------------------
LEMMA ConnectOK ==
    ASSUME IndInv, NEW t \in Task, NEW c \in Conn, Connect(t, c)
    PROVE  IndInv'
<1> USE NullAssumption
<1>1. /\ waits[t] = Idle /\ alive[c] /\ sock[c] = "idle" /\ ~broken[c]
      /\ \A u \in Task : waits[u] # <<"accept", c>> /\ waits[u] # <<"connect", c>>
      /\ UNCHANGED <<listening, accepting, accept_queue, in_use, taken, backlog, peers,
                     alive, established, broken, sock, writes>>
      /\ connect_req' = [connect_req EXCEPT ![c] = <<t>>]
      /\ waits' = [waits EXCEPT ![t] = <<"connect", c>>]
      /\ ret' = [ret EXCEPT ![t] = "unfinished"]
  BY DEF Connect, Begin, Used, Waiting, Ops, connVars, listenVars
<1>2. TypeOK'
  <2>1. <<t>> \in {None} \cup {<<u>> : u \in Task \cup {NULL}} /\ <<"connect", c>> \in Ops \X Conn
    BY DEF Ops
  <2> QED
    BY <1>1, <2>1 DEF IndInv, TypeOK
<1>3. /\ waits'[t] = <<"connect", c>> /\ \A u \in Task : u # t => waits'[u] = waits[u]
      /\ connect_req'[c] = <<t>> /\ \A d \in Conn : d # c => connect_req'[d] = connect_req[d]
  BY <1>1 DEF IndInv, TypeOK
<1>4. QueueInv' /\ BeforeListen' /\ WritesInv'
  <2>1. \A u \in Task, d \in Conn :
          /\ waits'[u] = <<"accept", d>> <=> waits[u] = <<"accept", d>>
          /\ waits'[u] = <<"send", d>> <=> waits[u] = <<"send", d>>
    BY <1>1, <1>3 DEF Idle
  <2>2. ~accepting => backlog' = 0
    BY <1>1 DEF IndInv, BeforeListen
  <2> QED
    BY <1>1, <2>1, <2>2, QueueFrame, WritesFrame
<1>5. ConnectInv'
  <2> SUFFICES ASSUME NEW u \in Task, NEW d \in Conn
               PROVE  connect_req'[d] = <<u>> <=> waits'[u] = <<"connect", d>>
    BY DEF ConnectInv
  <2>1. connect_req[d] = <<u>> <=> waits[u] = <<"connect", d>>
    BY DEF IndInv, ConnectInv
  <2>2. CASE d = c
    BY <1>1, <1>3, <2>2
  <2>3. CASE d # c /\ u = t
    BY <1>1, <1>3, <2>1, <2>3 DEF Idle
  <2>4. CASE d # c /\ u # t
    BY <1>3, <2>1, <2>4
  <2> QED
    BY <2>2, <2>3, <2>4
<1>6. OwnersInv'
  <2>1. \A u \in Task, d \in Conn :
          /\ waits'[u] = <<"accept", d>> <=> waits[u] = <<"accept", d>>
          /\ waits'[u] = <<"send", d>> <=> waits[u] = <<"send", d>>
          /\ waits'[u] = <<"connect", d>> => d = c \/ waits[u] = <<"connect", d>>
          /\ waits'[u] = <<"accept", d>> => d # c
    BY <1>1, <1>3 DEF Idle
  <2> QED
    BY <1>1, <1>3, <2>1 DEF IndInv, OwnersInv
<1>7. FieldsAgree'
  <2>1. <<t>> # <<NULL>> /\ ~established[c]
    BY <1>1 DEF IndInv, FieldsAgree
  <2> QED
    BY <1>1, <1>3, <2>1 DEF IndInv, FieldsAgree
<1> QED
  BY <1>2, <1>4, <1>5, <1>6, <1>7 DEF IndInv

LEMMA CancelConnectOK ==
    ASSUME IndInv, NEW t \in Task, CancelConnect(t)
    PROVE  IndInv'
<1> USE NullAssumption
<1>1. PICK c \in Conn : waits[t] = <<"connect", c>>
  BY DEF CancelConnect, IndInv, TypeOK, Idle
<1>2. /\ UNCHANGED <<listening, accepting, accept_queue, in_use, taken, backlog, peers,
                     alive, established, sock, writes, ret>>
      /\ broken' = [broken EXCEPT ![c] = TRUE]
      /\ connect_req' = [connect_req EXCEPT ![c] = <<NULL>>]
      /\ waits' = [waits EXCEPT ![t] = Idle]
  BY <1>1 DEF CancelConnect, MarkBroken, DropData, Canceled, listenVars
<1>3. TypeOK'
  <2>1. <<NULL>> \in {None} \cup {<<u>> : u \in Task \cup {NULL}}
    OBVIOUS
  <2> QED
    BY <1>2, <2>1 DEF IndInv, TypeOK
<1>4. /\ waits'[t] = Idle /\ \A u \in Task : u # t => waits'[u] = waits[u]
      /\ connect_req'[c] = <<NULL>> /\ \A d \in Conn : d # c => connect_req'[d] = connect_req[d]
      /\ broken'[c] /\ \A d \in Conn : d # c => broken'[d] = broken[d]
  BY <1>2 DEF IndInv, TypeOK
<1>5. QueueInv' /\ BeforeListen' /\ WritesInv'
  <2>1. \A u \in Task, d \in Conn :
          /\ waits'[u] = <<"accept", d>> <=> waits[u] = <<"accept", d>>
          /\ waits'[u] = <<"send", d>> <=> waits[u] = <<"send", d>>
    BY <1>1, <1>4 DEF Idle
  <2>2. ~accepting => backlog' = 0
    BY <1>2 DEF IndInv, BeforeListen
  <2> QED
    BY <1>2, <2>1, <2>2, QueueFrame, WritesFrame
<1>6. connect_req[c] = <<t>> /\ \A u \in Task : waits[u] = <<"connect", c>> => u = t
  BY <1>1 DEF IndInv, ConnectInv
<1>7. ConnectInv'
  <2> SUFFICES ASSUME NEW u \in Task, NEW d \in Conn
               PROVE  connect_req'[d] = <<u>> <=> waits'[u] = <<"connect", d>>
    BY DEF ConnectInv
  <2>1. connect_req[d] = <<u>> <=> waits[u] = <<"connect", d>>
    BY DEF IndInv, ConnectInv
  <2>2. CASE d = c
    <3>1. <<u>> # <<NULL>>
      OBVIOUS
    <3>2. u # t => waits'[u] # <<"connect", c>>
      BY <1>4, <1>6
    <3> QED
      BY <1>4, <2>2, <3>1, <3>2 DEF Idle
  <2>3. CASE d # c /\ u = t
    BY <1>1, <1>4, <2>1, <2>3 DEF Idle
  <2>4. CASE d # c /\ u # t
    BY <1>4, <2>1, <2>4
  <2> QED
    BY <2>2, <2>3, <2>4
<1>8. OwnersInv'
  <2>1. \A u \in Task, d \in Conn, op \in Ops : waits'[u] = <<op, d>> => u # t /\ waits[u] = <<op, d>>
    BY <1>4 DEF Idle, Ops
  <2>2. \A u \in Task : waits[u] # <<"accept", c>>
    BY <1>6 DEF IndInv, OwnersInv, None
  <2> QED
    BY <1>2, <1>4, <1>6, <2>1, <2>2 DEF IndInv, OwnersInv, Ops
<1>9. FieldsAgree'
  BY <1>2, <1>4, <1>6 DEF IndInv, FieldsAgree, None
<1> QED
  BY <1>3, <1>5, <1>7, <1>8, <1>9 DEF IndInv

LEMMA tcp_connect_cbOK ==
    ASSUME IndInv, NEW c \in Conn, NEW ok \in BOOLEAN, tcp_connect_cb(c, ok)
    PROVE  IndInv'
<1> USE NullAssumption
<1>1. /\ UNCHANGED <<listening, accepting, accept_queue, in_use, taken, backlog, peers, alive, writes>>
      /\ connect_req[c] # None /\ (alive[c] \/ ~ok)
      /\ AnswerUnlessCanceled(connect_req[c][1], c, ok)
      /\ sock' = [sock EXCEPT ![c] = IF ok THEN "up" ELSE "dead"]
      /\ connect_req' = [connect_req EXCEPT ![c] = None]
  BY DEF tcp_connect_cb, listenVars
<1>2. /\ connect_req'[c] = None /\ \A d \in Conn : d # c => connect_req'[d] = connect_req[d]
      /\ sock'[c] \in {"up", "dead"} /\ (sock'[c] = "up" => ok)
      /\ (ok => sock'[c] = "up") /\ \A d \in Conn : d # c => sock'[d] = sock[d]
      /\ connect_req' \in [Conn -> {None} \cup {<<t>> : t \in Task \cup {NULL}}]
      /\ sock' \in [Conn -> {"idle", "up", "dead"}]
  BY <1>1 DEF IndInv, TypeOK
<1>3. \A u \in Task : waits[u] # <<"accept", c>> /\ waits[u] # <<"send", c>> /\ ~established[c]
  BY <1>1 DEF IndInv, OwnersInv, FieldsAgree
<1>4. ~accepting => backlog' = 0
  BY <1>1 DEF IndInv, BeforeListen
<1>5. CASE connect_req[c] = <<NULL>>
  <2>1. UNCHANGED <<established, broken, waits, ret>> /\ broken[c]
    BY <1>1, <1>5 DEF AnswerUnlessCanceled, taskVars, IndInv, FieldsAgree
  <2>2. TypeOK'
    BY <1>1, <1>2, <2>1 DEF IndInv, TypeOK
  <2>3. QueueInv' /\ BeforeListen' /\ WritesInv'
    BY <1>1, <1>4, <2>1, QueueFrame, WritesFrame
  <2>4. ConnectInv'
    <3>1. \A u \in Task : <<u>> # <<NULL>> /\ <<u>> # None
      BY DEF None
    <3>2. \A u \in Task : waits[u] # <<"connect", c>>
      BY <1>5, <3>1 DEF IndInv, ConnectInv
    <3> QED
      BY <1>2, <2>1, <3>1, <3>2 DEF IndInv, ConnectInv
  <2>5. OwnersInv'
    BY <1>1, <1>2, <1>3, <2>1 DEF IndInv, OwnersInv
  <2>6. FieldsAgree'
    BY <1>1, <1>2, <1>3, <2>1 DEF IndInv, FieldsAgree, None
  <2> QED
    BY <2>2, <2>3, <2>4, <2>5, <2>6 DEF IndInv
<1>6. ASSUME NEW t \in Task, connect_req[c] = <<t>> PROVE IndInv'
  <2>1. waits[t] = <<"connect", c>> /\ alive[c] /\ ~broken[c] /\ \A u \in Task : waits[u] = <<"connect", c>> => u = t
    BY <1>6 DEF IndInv, ConnectInv, OwnersInv
  <2>2. Answer(t, c, ok)
    BY <1>1, <1>6, <2>1 DEF AnswerUnlessCanceled
  <2>3. /\ waits' = [waits EXCEPT ![t] = Idle]
        /\ ret' \in [Task -> {"unfinished", "success", "failure", "address_in_use"}]
        /\ established' = IF ok THEN [established EXCEPT ![c] = TRUE] ELSE established
        /\ broken' = IF ok THEN broken ELSE [broken EXCEPT ![c] = TRUE]
    BY <2>2 DEF Answer, Resume, MarkBroken, IndInv, TypeOK
  <2>4. /\ established' \in [Conn -> BOOLEAN] /\ broken' \in [Conn -> BOOLEAN]
        /\ established'[c] <=> ok
        /\ broken'[c] <=> ~ok
        /\ \A d \in Conn : d # c => established'[d] = established[d] /\ broken'[d] = broken[d]
    <3>1. CASE ok
      BY <1>3, <2>1, <2>3, <3>1 DEF IndInv, TypeOK
    <3>2. CASE ~ok
      BY <1>3, <1>6, <2>1, <2>3, <3>2 DEF IndInv, TypeOK
    <3> QED
      BY <3>1, <3>2
  <2>5. TypeOK'
    BY <1>1, <1>2, <2>3, <2>4 DEF IndInv, TypeOK
  <2>6. waits'[t] = Idle /\ \A u \in Task : u # t => waits'[u] = waits[u]
    BY <2>3 DEF IndInv, TypeOK
  <2>7. QueueInv' /\ BeforeListen' /\ WritesInv'
    <3>1. \A u \in Task, d \in Conn :
            /\ waits'[u] = <<"accept", d>> <=> waits[u] = <<"accept", d>>
            /\ waits'[u] = <<"send", d>> <=> waits[u] = <<"send", d>>
      BY <2>1, <2>6 DEF Idle
    <3> QED
      BY <1>1, <1>4, <3>1, QueueFrame, WritesFrame
  <2>8. ConnectInv'
    <3> SUFFICES ASSUME NEW u \in Task, NEW d \in Conn
                 PROVE  connect_req'[d] = <<u>> <=> waits'[u] = <<"connect", d>>
      BY DEF ConnectInv
    <3>1. connect_req[d] = <<u>> <=> waits[u] = <<"connect", d>>
      BY DEF IndInv, ConnectInv
    <3>2. CASE d = c
      BY <1>2, <2>1, <2>6, <3>2 DEF None, Idle
    <3>3. CASE d # c /\ u = t
      BY <1>2, <2>1, <2>6, <3>1, <3>3 DEF Idle
    <3>4. CASE d # c /\ u # t
      BY <1>2, <2>6, <3>1, <3>4
    <3> QED
      BY <3>2, <3>3, <3>4
  <2>9. OwnersInv'
    <3>1. \A u \in Task, d \in Conn, op \in Ops : waits'[u] = <<op, d>> => u # t /\ waits[u] = <<op, d>>
      BY <2>6 DEF Idle, Ops
    <3> QED
      BY <1>1, <1>2, <1>3, <2>1, <2>4, <3>1 DEF IndInv, OwnersInv, Ops
  <2>10. FieldsAgree'
    BY <1>1, <1>2, <1>3, <2>4 DEF IndInv, FieldsAgree, None
  <2> QED
    BY <2>5, <2>7, <2>8, <2>9, <2>10 DEF IndInv
<1> QED
  BY <1>1, <1>5, <1>6, ReqCases DEF IndInv

-----------------------------------------------------------------------------
LEMMA SendOK ==
    ASSUME IndInv, NEW t \in Task, NEW c \in Conn, Send(t, c)
    PROVE  IndInv'
<1> USE NullAssumption
<1> DEFINE W == Task \X {"queued", "written", "failed"}
<1>1. /\ waits[t] = Idle /\ alive[c] /\ established[c] /\ ~broken[c]
      /\ UNCHANGED <<listening, accepting, accept_queue, in_use, taken, backlog, peers,
                     alive, established, broken, sock, connect_req>>
      /\ writes' = [writes EXCEPT ![c] = Append(@, <<t, "queued">>)]
      /\ waits' = [waits EXCEPT ![t] = <<"send", c>>]
      /\ ret' = [ret EXCEPT ![t] = "unfinished"]
  BY DEF Send, Begin, connVars, listenVars
<1>2. /\ writes'[c] = Append(writes[c], <<t, "queued">>)
      /\ \A d \in Conn : d # c => writes'[d] = writes[d]
      /\ writes[c] \in Seq(W) /\ <<t, "queued">> \in W
  BY <1>1 DEF IndInv, TypeOK
<1> HIDE DEF W
<1>3. /\ writes'[c] \in Seq(W) /\ Len(writes[c]) \in Nat /\ Len(writes'[c]) = Len(writes[c]) + 1
      /\ \A i \in 1..Len(writes[c]) : writes'[c][i] = writes[c][i]
      /\ writes'[c][Len(writes[c]) + 1] = <<t, "queued">>
  BY <1>2, AppendAt
<1>4. TypeOK'
  <2>1. <<"send", c>> \in Ops \X Conn
    BY DEF Ops
  <2>2. writes' \in [Conn -> Seq(W)]
    BY <1>1, <1>2, <1>3 DEF IndInv, TypeOK, W
  <2> QED
    BY <1>1, <2>1, <2>2 DEF IndInv, TypeOK, W
<1>5. waits'[t] = <<"send", c>> /\ \A u \in Task : u # t => waits'[u] = waits[u]
  BY <1>1 DEF IndInv, TypeOK
<1>6. \A u \in Task, d \in Conn :
          /\ waits'[u] = <<"accept", d>> <=> waits[u] = <<"accept", d>>
          /\ waits'[u] = <<"connect", d>> <=> waits[u] = <<"connect", d>>
          /\ waits'[u] = <<"send", d>> => (u = t /\ d = c) \/ waits[u] = <<"send", d>>
  BY <1>1, <1>5 DEF Idle
<1>7. QueueInv' /\ BeforeListen' /\ ConnectInv' /\ FieldsAgree'
  <2>1. ~accepting => backlog' = 0
    BY <1>1 DEF IndInv, BeforeListen
  <2> QED
    BY <1>1, <1>6, <2>1, QueueFrame DEF IndInv, ConnectInv, FieldsAgree
<1>8. OwnersInv'
  BY <1>1, <1>6 DEF IndInv, OwnersInv
<1>9. WritesInv'
  <2> SUFFICES ASSUME NEW d \in Conn
               PROVE  /\ \A i \in 1..Len(writes'[d]) : waits'[writes'[d][i][1]] = <<"send", d>>
                      /\ \A i, j \in 1..Len(writes'[d]) : writes'[d][i][1] = writes'[d][j][1] => i = j
                      /\ \A u \in Task : waits'[u] = <<"send", d>> =>
                             \E i \in 1..Len(writes'[d]) : writes'[d][i][1] = u
    BY DEF WritesInv
  <2>1. /\ \A i \in 1..Len(writes[d]) : writes[d][i][1] \in Task /\ waits[writes[d][i][1]] = <<"send", d>>
        /\ \A i, j \in 1..Len(writes[d]) : writes[d][i][1] = writes[d][j][1] => i = j
        /\ \A u \in Task : waits[u] = <<"send", d>> => \E i \in 1..Len(writes[d]) : writes[d][i][1] = u
    BY Entries DEF IndInv, WritesInv
  <2>2. \A i \in 1..Len(writes[d]) : /\ writes[d][i][1] # t
                                     /\ waits'[writes[d][i][1]] = <<"send", d>>
    <3> SUFFICES ASSUME NEW i \in 1..Len(writes[d])
                 PROVE  writes[d][i][1] # t /\ waits'[writes[d][i][1]] = <<"send", d>>
      OBVIOUS
    <3>1. writes[d][i][1] # t
      BY <1>1, <2>1 DEF Idle
    <3> QED
      BY <1>5, <2>1, <3>1
  <2>3. CASE d # c
    <3>1. writes'[d] = writes[d]
      BY <1>2, <2>3
    <3>2. \A u \in Task : waits'[u] = <<"send", d>> => waits[u] = <<"send", d>>
      BY <1>6, <2>3
    <3> QED
      BY <2>1, <2>2, <3>1, <3>2
  <2>4. CASE d = c
    <3>1. \A i \in 1..Len(writes'[c]) : i \in 1..Len(writes[c]) \/ i = Len(writes[c]) + 1
      BY <1>3
    <3>2. <<t, "queued">>[1] = t
      OBVIOUS
    <3>3. \A i \in 1..Len(writes'[c]) : waits'[writes'[c][i][1]] = <<"send", c>>
      BY <1>3, <1>5, <2>2, <2>4, <3>1, <3>2
    <3>4. \A i, j \in 1..Len(writes'[c]) : writes'[c][i][1] = writes'[c][j][1] => i = j
      <4> SUFFICES ASSUME NEW i \in 1..Len(writes'[c]), NEW j \in 1..Len(writes'[c]),
                          writes'[c][i][1] = writes'[c][j][1]
                   PROVE  i = j
        OBVIOUS
      <4>1. \A m \in 1..Len(writes[c]) : writes'[c][m][1] = writes[c][m][1] /\ writes[c][m][1] # t
        BY <1>3, <2>2, <2>4
      <4>2. writes'[c][Len(writes[c]) + 1][1] = t
        BY <1>3, <3>2
      <4>3. CASE i \in 1..Len(writes[c]) /\ j \in 1..Len(writes[c])
        BY <2>1, <2>4, <4>1, <4>3
      <4>4. CASE i = Len(writes[c]) + 1 \/ j = Len(writes[c]) + 1
        BY <3>1, <4>1, <4>2, <4>4
      <4> QED
        BY <3>1, <4>3, <4>4
    <3>5. ASSUME NEW u \in Task, waits'[u] = <<"send", c>>
          PROVE  \E i \in 1..Len(writes'[c]) : writes'[c][i][1] = u
      <4>1. CASE u = t
        BY <1>3, <3>2, <4>1
      <4>2. CASE u # t
        <5>1. PICK i \in 1..Len(writes[c]) : writes[c][i][1] = u
          BY <1>6, <2>1, <2>4, <3>5, <4>2
        <5> QED
          BY <1>3, <5>1
      <4> QED
        BY <4>1, <4>2
    <3> QED
      BY <2>4, <3>3, <3>4, <3>5
  <2> QED
    BY <2>3, <2>4
<1> QED
  BY <1>4, <1>7, <1>8, <1>9 DEF IndInv

\* libuv changes the state of one write; whose it is stays.
LEMMA WriteOK ==
    ASSUME IndInv, NEW c \in Conn, NEW s \in {"written", "failed"}, Write(c, s)
    PROVE  IndInv'
<1> DEFINE W == Task \X {"queued", "written", "failed"}
<1>1. PICK k \in 1..Len(writes[c]) : writes' = [writes EXCEPT ![c][k][2] = s]
  BY DEF Write
<1>2. UNCHANGED <<listening, accepting, accept_queue, in_use, taken, backlog, peers,
                  alive, established, broken, sock, connect_req, waits, ret>>
  BY DEF Write, listenVars, connVars, taskVars
<1>3. writes[c] \in Seq(W) /\ writes[c][k] \in W
  <2>1. writes[c] \in Seq(W)
    BY DEF IndInv, TypeOK
  <2> HIDE DEF W
  <2> QED
    BY <2>1, ElementOfSeq
<1> DEFINE e == [writes[c][k] EXCEPT ![2] = s]
<1>4. e \in W /\ e[1] = writes[c][k][1]
  BY <1>3
<1>5. writes'[c] = [writes[c] EXCEPT ![k] = e] /\ \A d \in Conn : d # c => writes'[d] = writes[d]
  BY <1>1 DEF IndInv, TypeOK
<1> HIDE DEF W, e
<1>6. /\ writes'[c] \in Seq(W) /\ Len(writes'[c]) = Len(writes[c])
      /\ \A j \in 1..Len(writes[c]) : writes'[c][j] = IF j = k THEN e ELSE writes[c][j]
  BY <1>3, <1>4, <1>5, ExceptSeq
<1>7. \A d \in Conn : /\ Len(writes'[d]) = Len(writes[d])
                      /\ \A i \in 1..Len(writes[d]) : writes'[d][i][1] = writes[d][i][1]
  BY <1>4, <1>5, <1>6
<1>8. TypeOK'
  <2>1. writes' \in [Conn -> Seq(W)]
    BY <1>1, <1>5, <1>6 DEF IndInv, TypeOK, W
  <2> QED
    BY <1>2, <2>1 DEF IndInv, TypeOK, W
<1>9. WritesInv'
  <2> SUFFICES ASSUME NEW d \in Conn
               PROVE  /\ \A i \in 1..Len(writes'[d]) : waits'[writes'[d][i][1]] = <<"send", d>>
                      /\ \A i, j \in 1..Len(writes'[d]) : writes'[d][i][1] = writes'[d][j][1] => i = j
                      /\ \A u \in Task : waits'[u] = <<"send", d>> =>
                             \E i \in 1..Len(writes'[d]) : writes'[d][i][1] = u
    BY DEF WritesInv
  <2>1. /\ \A i \in 1..Len(writes[d]) : waits[writes[d][i][1]] = <<"send", d>>
        /\ \A i, j \in 1..Len(writes[d]) : writes[d][i][1] = writes[d][j][1] => i = j
        /\ \A u \in Task : waits[u] = <<"send", d>> => \E i \in 1..Len(writes[d]) : writes[d][i][1] = u
    BY DEF IndInv, WritesInv
  <2>2. /\ Len(writes'[d]) = Len(writes[d]) /\ waits' = waits
        /\ \A i \in 1..Len(writes[d]) : writes'[d][i][1] = writes[d][i][1]
    BY <1>2, <1>7
  <2> QED
    BY <2>1, <2>2
<1>10. QueueInv' /\ BeforeListen'
  BY <1>2 DEF IndInv, QueueInv, BeforeListen
<1>11. ConnectInv' /\ OwnersInv' /\ FieldsAgree'
  BY <1>2 DEF IndInv, ConnectInv, OwnersInv, FieldsAgree
<1> QED
  BY <1>8, <1>9, <1>10, <1>11 DEF IndInv

LEMMA tcp_send_cbOK ==
    ASSUME IndInv, NEW c \in Conn, tcp_send_cb(c)
    PROVE  IndInv'
<1> USE NullAssumption
<1> DEFINE W == Task \X {"queued", "written", "failed"}
           w == writes[c]
           t == Head(writes[c])[1]
<1>1. /\ UNCHANGED <<listening, accepting, accept_queue, in_use, taken, backlog, peers,
                     alive, established, sock, connect_req>>
      /\ w # <<>> /\ (alive[c] => Head(w)[2] # "queued")
      /\ Report(t, c, Head(w)[2])
      /\ writes' = [writes EXCEPT ![c] = Tail(w)]
  BY DEF tcp_send_cb, listenVars
<1>2. writes'[c] = Tail(w) /\ w \in Seq(W) /\ \A d \in Conn : d # c => writes'[d] = writes[d]
  BY <1>1 DEF IndInv, TypeOK
<1> HIDE DEF W
<1>3. /\ writes'[c] \in Seq(W) /\ Len(w) \in Nat /\ Len(w) >= 1 /\ Len(writes'[c]) = Len(w) - 1
      /\ Head(w) = w[1] /\ \A i \in 1..(Len(w) - 1) : writes'[c][i] = w[i + 1]
  <2>1. w \in Seq(W) /\ w # <<>>
    BY <1>1, <1>2
  <2>2. /\ Tail(w) \in Seq(W) /\ Len(w) \in Nat /\ Len(w) >= 1 /\ Len(Tail(w)) = Len(w) - 1
        /\ Head(w) = w[1] /\ \A i \in 1..(Len(w) - 1) : Tail(w)[i] = w[i + 1]
    BY <2>1, TailAt
  <2> QED
    BY <1>2, <2>2
<1>4. \A i \in 1..Len(w) : w[i][1] \in Task /\ waits[w[i][1]] = <<"send", c>>
  BY Entries DEF IndInv, WritesInv
<1>5. t = w[1][1] /\ t \in Task /\ waits[t] = <<"send", c>>
  <2>1. 1 \in 1..Len(w) /\ Head(w) = w[1]
    BY <1>3
  <2> QED
    BY <1>4, <2>1
<1>6. alive[c] /\ established[c]
  BY <1>5 DEF IndInv, OwnersInv
<1>7. /\ waits' = [waits EXCEPT ![t] = Idle]
      /\ ret' \in [Task -> {"unfinished", "success", "failure", "address_in_use"}]
      /\ broken' \in [Conn -> BOOLEAN]
      /\ broken' = broken \/ broken' = [broken EXCEPT ![c] = TRUE]
  <2> HIDE DEF w, t
  <2>1. Head(w)[2] # "queued"
    BY <1>1, <1>6
  <2>2. CASE Head(w)[2] = "written"
    BY <1>1, <1>5, <2>2 DEF Report, Resume, IndInv, TypeOK
  <2>3. CASE Head(w)[2] # "written"
    BY <1>1, <1>5, <2>1, <2>3 DEF Report, Resume, MarkBroken, IndInv, TypeOK
  <2> QED
    BY <2>2, <2>3
<1>8. TypeOK'
  <2>1. writes' \in [Conn -> Seq(W)]
    BY <1>1, <1>2, <1>3 DEF IndInv, TypeOK, W
  <2> QED
    BY <1>1, <1>7, <2>1 DEF IndInv, TypeOK, W
<1> HIDE DEF t
<1>9. waits'[t] = Idle /\ \A u \in Task : u # t => waits'[u] = waits[u]
  BY <1>5, <1>7 DEF IndInv, TypeOK
<1>10. \A u \in Task, d \in Conn :
          /\ waits'[u] = <<"accept", d>> <=> waits[u] = <<"accept", d>>
          /\ waits'[u] = <<"connect", d>> <=> waits[u] = <<"connect", d>>
          /\ waits'[u] = <<"send", d>> => u # t /\ waits[u] = <<"send", d>>
  BY <1>5, <1>9 DEF Idle
<1>11. QueueInv' /\ BeforeListen' /\ ConnectInv'
  <2>1. ~accepting => backlog' = 0
    BY <1>1 DEF IndInv, BeforeListen
  <2> QED
    BY <1>1, <1>10, <2>1, QueueFrame DEF IndInv, ConnectInv
<1>12. connect_req[c] = None /\ \A u \in Task : waits[u] # <<"connect", c>> /\ waits[u] # <<"accept", c>>
  <2>1. sock[c] = "up"
    BY <1>6 DEF IndInv, FieldsAgree
  <2>2. connect_req[c] = None
    BY <2>1 DEF IndInv, FieldsAgree
  <2>3. \A u \in Task : <<u>> # None
    BY DEF None
  <2> QED
    BY <2>1, <2>2, <2>3 DEF IndInv, OwnersInv, ConnectInv
<1>13. \A d \in Conn : /\ d # c => broken'[d] = broken[d]
                       /\ broken[d] => broken'[d]
  BY <1>7 DEF IndInv, TypeOK
<1>14. OwnersInv' /\ FieldsAgree'
  <2>1. OwnersInv'
    BY <1>1, <1>10, <1>12, <1>13 DEF IndInv, OwnersInv
  <2>2. FieldsAgree'
    BY <1>1, <1>12, <1>13 DEF IndInv, FieldsAgree
  <2> QED
    BY <2>1, <2>2
<1>15. WritesInv'
  <2> SUFFICES ASSUME NEW d \in Conn
               PROVE  /\ \A i \in 1..Len(writes'[d]) : waits'[writes'[d][i][1]] = <<"send", d>>
                      /\ \A i, j \in 1..Len(writes'[d]) : writes'[d][i][1] = writes'[d][j][1] => i = j
                      /\ \A u \in Task : waits'[u] = <<"send", d>> =>
                             \E i \in 1..Len(writes'[d]) : writes'[d][i][1] = u
    BY DEF WritesInv
  <2>1. /\ \A i \in 1..Len(writes[d]) : writes[d][i][1] \in Task /\ waits[writes[d][i][1]] = <<"send", d>>
        /\ \A i, j \in 1..Len(writes[d]) : writes[d][i][1] = writes[d][j][1] => i = j
        /\ \A u \in Task : waits[u] = <<"send", d>> => \E i \in 1..Len(writes[d]) : writes[d][i][1] = u
    BY Entries DEF IndInv, WritesInv
  <2>2. CASE d # c
    <3>1. ASSUME NEW i \in 1..Len(writes[d]) PROVE waits'[writes[d][i][1]] = <<"send", d>>
      <4>1. writes[d][i][1] # t
        BY <1>5, <2>1, <2>2
      <4> QED
        BY <1>9, <2>1, <4>1
    <3> QED
      BY <1>2, <1>10, <2>1, <2>2, <3>1
  <2>3. CASE d = c
    <3>1. ASSUME NEW i \in 1..Len(writes'[c]) PROVE i + 1 \in 1..Len(w) /\ writes'[c][i] = w[i + 1] /\ i + 1 # 1
      BY <1>3
    <3>2. ASSUME NEW i \in 1..Len(writes'[c]) PROVE waits'[writes'[c][i][1]] = <<"send", c>>
      <4>1. w[i + 1][1] # t /\ w[i + 1][1] \in Task
        BY <1>3, <1>5, <2>1, <2>3, <3>1
      <4>2. waits'[w[i + 1][1]] = waits[w[i + 1][1]]
        BY <1>9, <4>1
      <4> QED
        BY <1>4, <3>1, <4>2
    <3>3. ASSUME NEW i \in 1..Len(writes'[c]), NEW j \in 1..Len(writes'[c]), writes'[c][i][1] = writes'[c][j][1]
          PROVE  i = j
      <4>1. w[i + 1][1] = w[j + 1][1] /\ i + 1 \in 1..Len(w) /\ j + 1 \in 1..Len(w)
        BY <3>1, <3>3
      <4>2. i + 1 = j + 1
        BY <2>1, <2>3, <4>1
      <4> QED
        BY <1>3, <4>2
    <3>4. ASSUME NEW u \in Task, waits'[u] = <<"send", c>>
          PROVE  \E i \in 1..Len(writes'[c]) : writes'[c][i][1] = u
      <4>1. u # t /\ waits[u] = <<"send", c>>
        BY <1>10, <3>4
      <4>2. PICK j \in 1..Len(w) : w[j][1] = u
        BY <2>1, <2>3, <4>1
      <4>3. j # 1
        BY <1>5, <4>1, <4>2
      <4>4. j - 1 \in 1..Len(writes'[c]) /\ (j - 1) + 1 = j
        BY <1>3, <4>3
      <4>5. writes'[c][j - 1] = w[j]
        BY <1>3, <4>4
      <4> QED
        BY <4>2, <4>4, <4>5
    <3> QED
      BY <2>3, <3>2, <3>3, <3>4
  <2> QED
    BY <2>2, <2>3
<1> QED
  BY <1>8, <1>11, <1>14, <1>15 DEF IndInv

\* Steps of the network and the destructors.
LEMMA OutsideOK ==
    ASSUME IndInv,
           \/ AddressFreed \/ PeerConnects \/ CloseListening
           \/ \E c \in Conn : ~Used(c) /\ DestroyConn(c)
           \/ UNCHANGED vars
    PROVE  IndInv'
<1>1. UNCHANGED <<accepting, accept_queue, in_use, established, broken, sock, connect_req, writes, waits, ret>>
  BY DEF AddressFreed, PeerConnects, CloseListening, DestroyConn, vars, listenVars, connVars, loopVars, taskVars
<1>2. /\ listening' \in BOOLEAN /\ taken' \in BOOLEAN /\ peers' \in Nat /\ backlog' \in Nat
      /\ alive' \in [Conn -> BOOLEAN] /\ (~accepting => backlog' = 0)
  <2>1. CASE AddressFreed
    BY <2>1 DEF AddressFreed, connVars, IndInv, TypeOK, BeforeListen
  <2>4. CASE CloseListening
    BY <2>4 DEF CloseListening, connVars, IndInv, TypeOK, BeforeListen
  <2>5. CASE UNCHANGED vars
    BY <2>5 DEF vars, listenVars, connVars, IndInv, TypeOK, BeforeListen
  <2>2. CASE PeerConnects
    BY <2>2 DEF PeerConnects, connVars, IndInv, TypeOK, BeforeListen
  <2>3. CASE \E c \in Conn : ~Used(c) /\ DestroyConn(c)
    BY <2>3 DEF DestroyConn, listenVars, IndInv, TypeOK, BeforeListen
  <2> QED
    BY <2>1, <2>2, <2>3, <2>4, <2>5
<1>3. \A u \in Task, d \in Conn, op \in Ops : waits[u] = <<op, d>> /\ alive[d] => alive'[d]
  <2>1. CASE UNCHANGED alive
    BY <2>1
  <2>2. CASE \E c \in Conn : ~Used(c) /\ DestroyConn(c)
    <3>1. PICK c \in Conn : ~Used(c) /\ alive' = [alive EXCEPT ![c] = FALSE]
      BY <2>2 DEF DestroyConn
    <3>2. \A u \in Task, op \in Ops : waits[u] # <<op, c>>
      BY <3>1 DEF Used, Waiting
    <3> QED
      BY <3>1, <3>2 DEF IndInv, TypeOK
  <2> QED
    BY <2>1, <2>2 DEF AddressFreed, PeerConnects, CloseListening, vars, connVars
<1>4. TypeOK'
  BY <1>1, <1>2 DEF IndInv, TypeOK
<1>5. QueueInv' /\ BeforeListen' /\ WritesInv'
  BY <1>1, <1>2, QueueFrame, WritesFrame
<1>6. ConnectInv' /\ FieldsAgree'
  BY <1>1 DEF IndInv, ConnectInv, FieldsAgree
<1>7. OwnersInv'
  BY <1>1, <1>3 DEF IndInv, OwnersInv, Ops
<1> QED
  BY <1>4, <1>5, <1>6, <1>7 DEF IndInv

LEMMA NextOK == IndInv /\ [Next]_vars => IndInv'
<1> SUFFICES ASSUME IndInv, [Next]_vars PROVE IndInv'
  OBVIOUS
<1>1. CASE Loop
  BY <1>1, tcp_accept_cbOK, tcp_send_cbOK, tcp_connect_cbOK DEF Loop
<1>2. CASE Net
  BY <1>2, OutsideOK, WriteOK DEF Net
<1>3. CASE User
  BY <1>3, OutsideOK, ConnectOK, SendOK, CancelAcceptOK, CancelConnectOK DEF User
<1>4. CASE FirstAccepts
  BY <1>4, AcceptOK DEF FirstAccepts
<1>5. CASE DestroyUnused \/ UNCHANGED vars
  BY <1>5, OutsideOK DEF DestroyUnused
<1> QED
  BY <1>1, <1>2, <1>3, <1>4, <1>5 DEF Next

LEMMA Invariance == Spec => []IndInv
<1>1. Init => IndInv
  BY InitOK
<1>2. IndInv /\ [Next]_vars => IndInv'
  BY NextOK
<1> QED
  BY <1>1, <1>2, PTL DEF Spec

\* However accepts, connects, sends, their cancellation and late answers
\* interleave: the queue and the requests that the callbacks go through name
\* exactly the tasks that wait, each once.
THEOREM WaitersSafe == Spec => []WaitersKnown
<1>1. IndInv => QueueIsWaiters
  <2> SUFFICES ASSUME IndInv, accepting
               PROVE  /\ Range(accept_queue) = {e \in Task \X Conn : waits[e[1]] = <<"accept", e[2]>>}
                      /\ \A i, j \in 1..Len(accept_queue) : accept_queue[i] = accept_queue[j] => i = j
    BY DEF QueueIsWaiters
  <2>1. accept_queue \in Seq(Task \X Conn)
    BY DEF IndInv, TypeOK
  <2>2. Range(accept_queue) = {accept_queue[i] : i \in 1..Len(accept_queue)}
    BY <2>1, LenProperties DEF Range
  <2>3. \A i \in 1..Len(accept_queue) :
            accept_queue[i] \in Task \X Conn /\ waits[accept_queue[i][1]] = <<"accept", accept_queue[i][2]>>
    BY <2>1, ElementOfSeq DEF IndInv, QueueInv
  <2>4. ASSUME NEW e \in Task \X Conn, waits[e[1]] = <<"accept", e[2]>>
        PROVE  \E i \in 1..Len(accept_queue) : accept_queue[i] = e
    <3>1. PICK i \in 1..Len(accept_queue) : accept_queue[i][1] = e[1]
      BY <2>4 DEF IndInv, QueueInv
    <3>2. accept_queue[i][2] = e[2] /\ accept_queue[i] \in Task \X Conn
      BY <2>3, <2>4, <3>1
    <3>3. accept_queue[i] = e
      BY <3>1, <3>2
    <3> QED
      BY <3>3
  <2>5. \A i, j \in 1..Len(accept_queue) : accept_queue[i] = accept_queue[j] => i = j
    BY DEF IndInv, QueueInv
  <2> QED
    BY <2>2, <2>3, <2>4, <2>5
<1>2. IndInv => RequestsNameWaiters
  <2> SUFFICES ASSUME IndInv, NEW t \in Task, NEW c \in Conn
               PROVE  Cardinality({i \in 1..Len(writes[c]) : writes[c][i][1] = t})
                        = IF waits[t] = <<"send", c>> THEN 1 ELSE 0
    BY DEF RequestsNameWaiters, IndInv, ConnectInv
  <2> DEFINE P == {i \in 1..Len(writes[c]) : writes[c][i][1] = t}
  <2>1. CASE waits[t] = <<"send", c>>
    <3>1. PICK i \in 1..Len(writes[c]) : writes[c][i][1] = t
      BY <2>1 DEF IndInv, WritesInv
    <3>2. P = {i}
      BY <3>1 DEF IndInv, WritesInv
    <3>3. Cardinality(P) = 1
      BY <3>2, FS_Singleton
    <3> QED
      BY <2>1, <3>3
  <2>2. CASE waits[t] # <<"send", c>>
    <3>1. P = {}
      <4>1. ASSUME NEW i \in 1..Len(writes[c]), writes[c][i][1] = t PROVE FALSE
        <5>1. waits[writes[c][i][1]] = <<"send", c>>
          BY DEF IndInv, WritesInv
        <5> QED
          BY <2>2, <4>1, <5>1
      <4> QED
        BY <4>1
    <3>2. Cardinality(P) = 0
      BY <3>1, FS_EmptySet
    <3> QED
      BY <2>2, <3>2
  <2> QED
    BY <2>1, <2>2
<1>3. IndInv => WaitersKnown
  BY <1>1, <1>2 DEF WaitersKnown, IndInv
<1> QED
  BY <1>3, Invariance, PTL

\* A connection that comes about after its connect was canceled is marked, and
\* none is lost.
THEOREM ConnectionsSafe == Spec => []ConnectionsAccounted
<1>1. IndInv => ConnectionsAccounted
  BY DEF IndInv, FieldsAgree, ConnectionsAccounted
<1> QED
  BY <1>1, Invariance, PTL

\* Nobody finds an object established that was not told so, and none that was
\* given up becomes established.
THEOREM EstablishedSafe == Spec => EstablishedWhenTold
<1> DEFINE A == \A c \in Conn : ~established[c] /\ established'[c] =>
                    /\ ~broken[c]
                    /\ \E t \in Waiting("accept", c) \cup Waiting("connect", c) :
                           waits'[t] = Idle /\ ret'[t] = "success"
<1>1. ASSUME IndInv, tcp_accept_cb PROVE A
  <2>1. CASE accept_queue = <<>>
    BY <1>1, <2>1 DEF tcp_accept_cb
  <2>2. CASE accept_queue # <<>>
    <3> DEFINE t == Head(accept_queue)[1]
               c == Head(accept_queue)[2]
    <3>1. /\ established' = [established EXCEPT ![c] = TRUE]
          /\ waits' = [waits EXCEPT ![t] = Idle] /\ ret' = [ret EXCEPT ![t] = "success"]
      BY <1>1, <2>2 DEF tcp_accept_cb, Resume
    <3>2. accepting
      BY <1>1 DEF tcp_accept_cb, IndInv, TypeOK, BeforeListen
    <3>3. t \in Task /\ c \in Conn /\ waits[t] = <<"accept", c>>
      <4>1. Head(accept_queue) = accept_queue[1] /\ Len(accept_queue) >= 1 /\ Len(accept_queue) \in Nat
        BY <1>1, <2>2, TailAt DEF IndInv, TypeOK
      <4>2. 1 \in 1..Len(accept_queue)
        BY <4>1
      <4> QED
        BY <1>1, <3>2, <4>1, <4>2, Entries DEF IndInv, QueueInv
    <3> HIDE DEF t, c
    <3>4. ~broken[c] /\ t \in Waiting("accept", c)
      BY <1>1, <3>3 DEF IndInv, OwnersInv, Waiting
    <3>5. waits'[t] = Idle /\ ret'[t] = "success" /\ \A d \in Conn : d # c => established'[d] = established[d]
      BY <1>1, <3>1, <3>3 DEF IndInv, TypeOK
    <3> QED
      BY <3>4, <3>5
  <2> QED
    BY <2>1, <2>2
<1>2. ASSUME IndInv, NEW c \in Conn, NEW ok \in BOOLEAN, tcp_connect_cb(c, ok) PROVE A
  <2>1. CASE UNCHANGED established
    BY <2>1
  <2>2. CASE established' # established
    <3>1. /\ connect_req[c] # None /\ connect_req[c][1] # NULL
          /\ Answer(connect_req[c][1], c, ok) /\ ok
      BY <1>2, <2>2 DEF tcp_connect_cb, AnswerUnlessCanceled, Answer
    <3>2. PICK t \in Task : connect_req[c] = <<t>>
      BY <1>2, <3>1, ReqCases DEF IndInv
    <3>3. /\ established' = [established EXCEPT ![c] = TRUE]
          /\ waits' = [waits EXCEPT ![t] = Idle] /\ ret' = [ret EXCEPT ![t] = "success"]
      BY <3>1, <3>2 DEF Answer, Resume
    <3>4. ~broken[c] /\ t \in Waiting("connect", c)
      BY <1>2, <3>2 DEF IndInv, ConnectInv, OwnersInv, Waiting
    <3>5. waits'[t] = Idle /\ ret'[t] = "success" /\ \A d \in Conn : d # c => established'[d] = established[d]
      BY <1>2, <3>3 DEF IndInv, TypeOK
    <3> QED
      BY <3>4, <3>5
  <2> QED
    BY <2>1, <2>2
<1>3. ASSUME IndInv, [Next]_vars PROVE A
  <2>1. CASE Loop
    <3>1. ASSUME NEW c \in Conn, tcp_send_cb(c) PROVE A
      BY <3>1 DEF tcp_send_cb
    <3> QED
      BY <1>1, <1>2, <1>3, <2>1, <3>1 DEF Loop
  <2>2. CASE Net \/ User \/ FirstAccepts \/ DestroyUnused \/ UNCHANGED vars
    <3>1. UNCHANGED established
      BY <2>2 DEF Net, User, FirstAccepts, DestroyUnused, AddressFreed, PeerConnects, Write, CloseListening,
                  Connect, Send, CancelAccept, CancelConnect, Accept, DestroyConn, vars, connVars
    <3> QED
      BY <3>1
  <2> QED
    BY <1>3, <2>1, <2>2 DEF Next
<1>4. IndInv /\ [Next]_vars => [A]_vars
  BY <1>3
<1> QED
  BY <1>4, Invariance, PTL DEF Spec, EstablishedWhenTold

=============================================================================
