------------------------------- MODULE TcpConn -------------------------------
(***************************************************************************)
(* How connections of src/tcp.cc come to be and are written to: one        *)
(* listening object with its queue of accepts, connected objects, connect  *)
(* and send.  Receiving is in TcpRecvTill and TcpChannel.                  *)
(*                                                                         *)
(* User code runs between the callbacks of the event loop and inside the   *)
(* __task_stand that ends each of them; nothing follows that call but the  *)
(* free() of a request no user code can reach, so a callback is one step.  *)
(* Buffers and addresses are left out.  A connected object is used for one *)
(* connection, as its documentation demands, and its memory for one object.*)
(***************************************************************************)
EXTENDS Naturals, FiniteSets, SequencesExt

CONSTANTS
    Task,       \* tasks, in one operation at a time
    Conn,       \* connected objects
    NULL,
    MaxPeers    \* bound: peers that connect to the listening socket

ASSUME NullAssumption == NULL \notin Task \cup Conn

VARIABLES
    \* the listening object
    listening,      \* it has not been destroyed
    accepting,      \* uv_listen succeeded
    accept_queue,   \* the accepts in it, as <<task, conn>>
    in_use,         \* an accept returned address_in_use
    taken,          \* another socket listens on the address
    backlog,        \* peers waiting in the kernel for uv_accept
    peers,          \* peers so far
    \* the connected objects
    alive, established, broken,
    \* libuv: the sockets and their requests
    sock,           \* "idle", "up", "dead"
    connect_req,    \* the pending uv_connect_t of a socket: its data, or None
    writes,         \* pending uv_write_t of a socket: <<task, state>>
    \* the tasks
    waits,          \* <<operation, conn>>, or Idle
    ret             \* what the last operation returned

listenVars == <<listening, accepting, accept_queue, in_use, taken, backlog, peers>>
connVars == <<alive, established, broken>>
loopVars == <<sock, connect_req, writes>>
taskVars == <<waits, ret>>
vars == <<listenVars, connVars, loopVars, taskVars>>

None == <<>>
Idle == <<"no", NULL>>
Waiting(op, c) == {t \in Task : waits[t] = <<op, c>>}
Ops == {"accept", "connect", "send"}
Used(c) == \E op \in Ops : Waiting(op, c) # {}

-----------------------------------------------------------------------------
\* The constructors listening() and connected().
Init ==
    /\ listening = TRUE /\ accepting = FALSE /\ accept_queue = <<>>
    /\ in_use = FALSE /\ taken \in BOOLEAN /\ backlog = 0 /\ peers = 0
    /\ alive = [c \in Conn |-> TRUE]
    /\ established = [c \in Conn |-> FALSE]
    /\ broken = [c \in Conn |-> FALSE]
    /\ sock = [c \in Conn |-> "idle"]
    /\ connect_req = [c \in Conn |-> None]
    /\ writes = [c \in Conn |-> <<>>]
    /\ waits = [t \in Task |-> Idle]
    /\ ret = [t \in Task |-> "unfinished"]

\* Outside the program: the other socket on the address closes; a peer connects.
AddressFreed ==
    /\ taken /\ taken' = FALSE
    /\ UNCHANGED <<listening, accepting, accept_queue, in_use, backlog, peers,
                   connVars, loopVars, taskVars>>

PeerConnects ==
    /\ listening /\ accepting /\ peers < MaxPeers
    /\ peers' = peers + 1 /\ backlog' = backlog + 1
    /\ UNCHANGED <<listening, accepting, accept_queue, in_use, taken,
                   connVars, loopVars, taskVars>>

\* An operation begins, and ends with r: the bookkeeping of the task.
Begin(t, op, c) ==
    /\ waits' = [waits EXCEPT ![t] = <<op, c>>]
    /\ ret' = [ret EXCEPT ![t] = "unfinished"]
Resume(t, r) ==
    /\ waits' = [waits EXCEPT ![t] = Idle]
    /\ ret' = [ret EXCEPT ![t] = r]
Canceled(t) == waits' = [waits EXCEPT ![t] = Idle] /\ UNCHANGED ret

-----------------------------------------------------------------------------
\* accept::run.  An accept that finds the address in use returns without
\* leaving the queue it has just entered.
Accept(t, c) ==
    /\ listening
    /\ waits[t] = Idle /\ alive[c] /\ sock[c] = "idle" /\ ~broken[c] /\ ~Used(c)
    /\ accept_queue' = Append(accept_queue, <<t, c>>)
    /\ IF ~accepting /\ taken
         THEN /\ in_use' = TRUE
              /\ ret' = [ret EXCEPT ![t] = "address_in_use"]
              /\ UNCHANGED <<accepting, waits>>
         ELSE /\ accepting' = TRUE
              /\ Begin(t, "accept", c)
              /\ UNCHANGED in_use
    /\ UNCHANGED <<listening, taken, backlog, peers, connVars, loopVars>>

\* accept::cancel: accept_queue.erase(pos).
PosOf(t) == CHOOSE i \in DOMAIN accept_queue : accept_queue[i][1] = t
Unqueued(t) == RemoveAt(accept_queue, PosOf(t))
CancelAccept(t) ==
    /\ waits[t][1] = "accept"
    /\ accept_queue' = Unqueued(t)
    /\ Canceled(t)
    /\ UNCHANGED <<listening, accepting, in_use, taken, backlog, peers, connVars, loopVars>>

\* listening::tcp_accept_cb: the connection is for the accept that has waited
\* longest, and is closed when there is none.
tcp_accept_cb ==
    /\ listening /\ backlog > 0
    /\ backlog' = backlog - 1
    /\ IF accept_queue # <<>>
         THEN LET t == Head(accept_queue)[1]
                  c == Head(accept_queue)[2]
              IN  /\ established' = [established EXCEPT ![c] = TRUE]
                  /\ sock' = [sock EXCEPT ![c] = "up"]
                  /\ accept_queue' = Tail(accept_queue)
                  /\ Resume(t, "success")
         ELSE UNCHANGED <<established, sock, accept_queue, taskVars>>
    /\ UNCHANGED <<listening, accepting, in_use, taken, peers, alive, broken,
                   connect_req, writes>>

\* listening::~listening, when no task is in an accept.
CloseListening ==
    /\ listening /\ \A c \in Conn : Waiting("accept", c) = {}
    /\ listening' = FALSE
    /\ backlog' = 0
    /\ UNCHANGED <<accepting, accept_queue, in_use, taken, peers, connVars, loopVars, taskVars>>

-----------------------------------------------------------------------------
\* connect::run
Connect(t, c) ==
    /\ waits[t] = Idle /\ alive[c] /\ sock[c] = "idle" /\ ~broken[c] /\ ~Used(c)
    /\ connect_req' = [connect_req EXCEPT ![c] = <<t>>]
    /\ Begin(t, "connect", c)
    /\ UNCHANGED <<listenVars, connVars, sock, writes>>

\* connect::cancel: the request stays with libuv and its data becomes NULL; the
\* object is given up.  (Seeded bugs: the data stays; the object is not marked.)
KeepData(t, c) == connect_req' = connect_req
DropData(t, c) == connect_req' = [connect_req EXCEPT ![c] = <<NULL>>]
NotMarked(c) == UNCHANGED broken
MarkBroken(c) == broken' = [broken EXCEPT ![c] = TRUE]
CancelConnect(t) ==
    LET c == waits[t][2]
    IN  /\ waits[t][1] = "connect"
        /\ MarkBroken(c)
        /\ DropData(t, c)
        /\ Canceled(t)
        /\ UNCHANGED <<listenVars, alive, established, sock, writes>>

\* connected::tcp_connect_cb, with the outcome the network decides; libuv reports
\* UV_ECANCELED once the socket is closed.  The request is freed in every case.
\* (Seeded bug: a request without data is taken for a success.)
Answer(t, c, ok) ==
    IF ok THEN /\ established' = [established EXCEPT ![c] = TRUE]
               /\ Resume(t, "success")
               /\ UNCHANGED broken
    ELSE /\ MarkBroken(c)
         /\ Resume(t, "failure")
         /\ UNCHANGED established
AnswerAnyway(t, c, ok) ==
    IF ~alive[c] THEN UNCHANGED <<established, broken, taskVars>>
    ELSE IF t # NULL THEN Answer(t, c, ok)
    ELSE /\ established' = [established EXCEPT ![c] = ok]
         /\ UNCHANGED <<broken, taskVars>>
AnswerUnlessCanceled(t, c, ok) ==
    IF t = NULL \/ ~alive[c] THEN UNCHANGED <<established, broken, taskVars>>
    ELSE Answer(t, c, ok)
tcp_connect_cb(c, ok) ==
    /\ connect_req[c] # None
    /\ alive[c] \/ ~ok
    /\ AnswerUnlessCanceled(connect_req[c][1], c, ok)
    /\ sock' = [sock EXCEPT ![c] = IF ok THEN "up" ELSE "dead"]
    /\ connect_req' = [connect_req EXCEPT ![c] = None]
    /\ UNCHANGED <<listenVars, alive, writes>>

-----------------------------------------------------------------------------
\* send::send (all forms) and send::run
Send(t, c) ==
    /\ waits[t] = Idle /\ alive[c] /\ established[c] /\ ~broken[c]
    /\ writes' = [writes EXCEPT ![c] = Append(@, <<t, "queued">>)]
    /\ Begin(t, "send", c)
    /\ UNCHANGED <<listenVars, connVars, sock, connect_req>>

\* libuv writes, in order, or fails to; the callback comes in a later step.
Write(c, s) ==
    \E i \in 1..Len(writes[c]) :
        /\ alive[c]
        /\ writes[c][i][2] = "queued"
        /\ \A j \in 1..(i-1) : writes[c][j][2] # "queued"
        /\ writes' = [writes EXCEPT ![c][i][2] = s]
        /\ UNCHANGED <<listenVars, connVars, sock, connect_req, taskVars>>

\* connected::tcp_send_cb.  A write that was still queued when the socket was
\* closed is reported as UV_ECANCELED, and its task is not resumed.  (Seeded
\* bug: a failure is not reported to the task.)
ReportSuccess(t, c, s) ==
    IF s = "queued" THEN UNCHANGED <<broken, taskVars>>
    ELSE IF s = "written" THEN Resume(t, "success") /\ UNCHANGED broken
    ELSE MarkBroken(c) /\ UNCHANGED taskVars
Report(t, c, s) ==
    IF s = "queued" THEN UNCHANGED <<broken, taskVars>>
    ELSE IF s = "written" THEN Resume(t, "success") /\ UNCHANGED broken
    ELSE MarkBroken(c) /\ Resume(t, "failure")
tcp_send_cb(c) ==
    /\ writes[c] # <<>>
    /\ alive[c] => Head(writes[c])[2] # "queued"
    /\ Report(Head(writes[c])[1], c, Head(writes[c])[2])
    /\ writes' = [writes EXCEPT ![c] = Tail(@)]
    /\ UNCHANGED <<listenVars, alive, established, sock, connect_req>>

\* connected::~connected: the socket is closed, its requests are called back later.
DestroyConn(c) ==
    /\ alive[c]
    /\ alive' = [alive EXCEPT ![c] = FALSE]
    /\ UNCHANGED <<listenVars, established, broken, loopVars, taskVars>>

-----------------------------------------------------------------------------
\* A program that keeps to the documented use: it gives up the listening object
\* after address_in_use, passes each operation a connected object that may be
\* used for it, and destroys none that an operation in progress refers to.
Loop ==
    \/ tcp_accept_cb
    \/ \E c \in Conn : tcp_send_cb(c) \/ \E ok \in BOOLEAN : tcp_connect_cb(c, ok)
Net ==
    \/ AddressFreed \/ PeerConnects
    \/ \E c \in Conn, s \in {"written", "failed"} : Write(c, s)
User ==
    \/ CloseListening
    \/ \E t \in Task, c \in Conn : Connect(t, c) \/ Send(t, c)
    \/ \E t \in Task : CancelAccept(t) \/ CancelConnect(t)
FirstAccepts == \E t \in Task, c \in Conn : ~in_use /\ Accept(t, c)
DestroyUnused == \E c \in Conn : ~Used(c) /\ DestroyConn(c)

Next == Loop \/ Net \/ User \/ FirstAccepts \/ DestroyUnused

\* The loop calls back what is ready, and a write ends one way or the other.
Fairness ==
    /\ WF_vars(tcp_accept_cb)
    /\ \A c \in Conn :
        /\ WF_vars(tcp_send_cb(c))
        /\ WF_vars(\E ok \in BOOLEAN : tcp_connect_cb(c, ok))
        /\ WF_vars(\E s \in {"written", "failed"} : Write(c, s))

Spec == Init /\ [][Next]_vars /\ Fairness

\* The same with another accept after address_in_use, ...
RetrySpec == Init /\ [][Next \/ \E t \in Task, c \in Conn : Accept(t, c)]_vars /\ Fairness
\* ... and with a connected object destroyed under the operations of other tasks.
DestroySpec == Init /\ [][Next \/ \E c \in Conn : DestroyConn(c)]_vars /\ Fairness

-----------------------------------------------------------------------------
\* Type invariant.
TypeOK ==
    /\ listening \in BOOLEAN /\ accepting \in BOOLEAN
    /\ in_use \in BOOLEAN /\ taken \in BOOLEAN
    /\ accept_queue \in Seq(Task \X Conn)
    /\ backlog \in Nat /\ peers \in Nat
    /\ alive \in [Conn -> BOOLEAN] /\ established \in [Conn -> BOOLEAN]
    /\ broken \in [Conn -> BOOLEAN]
    /\ sock \in [Conn -> {"idle", "up", "dead"}]
    /\ connect_req \in [Conn -> {None} \cup {<<t>> : t \in Task \cup {NULL}}]
    /\ writes \in [Conn -> Seq(Task \X {"queued", "written", "failed"})]
    /\ waits \in [Task -> {Idle} \cup (Ops \X Conn)]
    /\ ret \in [Task -> {"unfinished", "success", "failure", "address_in_use"}]

\* tcp_accept_cb writes through the entry it finds and resumes its task: while
\* the socket listens, the queue holds the accepts that wait, each once.
QueueIsWaiters ==
    accepting =>
        /\ Range(accept_queue) = {e \in Task \X Conn : waits[e[1]] = <<"accept", e[2]>>}
        /\ \A i, j \in 1..Len(accept_queue) : accept_queue[i] = accept_queue[j] => i = j

\* tcp_connect_cb and tcp_send_cb resume the task their request names: it is one
\* that waits for exactly this request, however late the answer comes, and no
\* task waits for a request that does not exist.
RequestsNameWaiters ==
    \A t \in Task, c \in Conn :
        /\ connect_req[c] = <<t>> <=> waits[t] = <<"connect", c>>
        /\ Cardinality({i \in 1..Len(writes[c]) : writes[c][i][1] = t})
             = IF waits[t] = <<"send", c>> THEN 1 ELSE 0

\* Callbacks and waiting tasks know each other.
WaitersKnown == TypeOK /\ QueueIsWaiters /\ RequestsNameWaiters

\* A connection that came about after its connect was canceled can not be used
\* by mistake, nor is one lost: a socket that is connected belongs to an object
\* that says so or is marked broken, and an object that says so has one.
ConnectionsAccounted ==
    \A c \in Conn : alive[c] =>
        /\ sock[c] = "up" => established[c] \/ broken[c]
        /\ established[c] => sock[c] = "up"
        /\ sock[c] = "idle" /\ connect_req[c] = <<NULL>> => broken[c]

\* An object becomes established only in the step that tells the task which
\* asked for the connection, and never after it was given up.
EstablishedWhenTold ==
    [][\A c \in Conn : ~established[c] /\ established'[c] =>
            /\ ~broken[c]
            /\ \E t \in Waiting("accept", c) \cup Waiting("connect", c) :
                   waits'[t] = Idle /\ ret'[t] = "success"]_vars

\* Every send ends, every connect ends and its request is freed even when the
\* task is gone, and an accept at the head of the queue gets the next peer.
RequestsEnd ==
    /\ \A t \in Task, c \in Conn :
        waits[t] \in {<<"send", c>>, <<"connect", c>>} ~> waits[t] = Idle
    /\ \A c \in Conn : connect_req[c] # None ~> connect_req[c] = None
    /\ \A t \in Task, c \in Conn :
        accept_queue # <<>> /\ Head(accept_queue) = <<t, c>> /\ backlog > 0
            ~> waits[t] # <<"accept", c>>

=============================================================================
