----------------------------- MODULE TcpRecvTill -----------------------------
(***************************************************************************)
(* tcp::recv_till on one tcp::connected object (src/tcp.cc): several tasks *)
(* take turns in cutting a byte stream into pieces, each "until my buffer  *)
(* is full" or "until the bytes end with my pattern".                      *)
(*                                                                         *)
(* The bytes of a behaviour are the sequence stream; a byte in a buffer is *)
(* its position in the stream, so that its place and its value are known.  *)
(* The socket gives the bytes in order, in pieces of any size (a read      *)
(* returns as many as have arrived), and may fail at any time.             *)
(*                                                                         *)
(* User code runs while the event loop handles other events (phase "loop") *)
(* and inside each __task_stand of a callback ("stand", "broken"), after   *)
(* which the callback goes on with the state that user code left.          *)
(***************************************************************************)
EXTENDS Integers, FiniteSets, FiniteSetsExt, SequencesExt

CONSTANTS
    Task,       \* tasks that use the connection, one recv_till at a time
    Streams,    \* byte streams
    Requests,   \* {<<len, pattern>>}; no pattern is <<>>
    FirstSize,  \* initial size of the internal buffer, 1024
    NULL, End   \* no task; end() of the queue

Letters == UNION {ToSet(s) : s \in Streams}

ASSUME TillAssumption ==
    /\ FirstSize \in Nat \ {0}
    /\ \A s \in Streams : s \in Seq(Letters)
    /\ \A q \in Requests : q \in (Nat \ {0}) \X Seq(Letters)
    /\ NULL \notin Task /\ End \notin Task /\ NULL # End

VARIABLES
    stream,     \* never changes
    pos,        \* bytes of it that have been read from the socket
    \* connected
    alive, broken,
    reading,        \* receiving = tcp_receiving_recv_till
    recv_queue1, cur_alloc1,
    buf1, size1,    \* the internal buffer, its capacity (0: not allocated)
    async_cancel1,  \* "none", "open", "sent"
    \* recv_till objects
    req,        \* [len, pattern, got]: got is what buf holds up to cur
    ret,        \* "unfinished", "success", "failure"
    waits,      \* in its __task_yield
    \* control
    phase,
    via,        \* the handle check_remaining was called with
    iter,       \* the iterator of break_all_recv
    \* history
    out,        \* the bytes of all successful recv_tills, in order
    displaced   \* a canceled recv_till has put its bytes behind later ones

connVars == <<alive, broken, reading, recv_queue1, cur_alloc1, buf1, size1, async_cancel1>>
taskVars == <<req, ret, waits>>
vars == <<stream, pos, connVars, taskVars, phase, via, iter, out, displaced>>

NoRequest == [len |-> 1, pattern |-> <<>>, got |-> <<>>]
UserCode == alive /\ phase \in {"loop", "stand", "broken"}

Init ==
    /\ stream \in Streams
    /\ pos = 0
    /\ alive = TRUE /\ broken = FALSE /\ reading = FALSE
    /\ recv_queue1 = <<>>
    /\ cur_alloc1 = NULL
    /\ buf1 = <<>> /\ size1 = 0
    /\ async_cancel1 = "none"
    /\ req = [t \in Task |-> NoRequest]
    /\ ret = [t \in Task |-> "unfinished"]
    /\ waits = [t \in Task |-> FALSE]
    /\ phase = "loop" /\ via = "sock" /\ iter = NULL
    /\ out = <<>> /\ displaced = FALSE

-----------------------------------------------------------------------------
\* Where the pattern ends in b.
Ends(b, pattern) ==
    {k \in Len(pattern)..Len(b) :
        \A j \in DOMAIN pattern : stream[b[k - Len(pattern) + j]] = pattern[j]}

\* bufbuf: the end of the first occurrence, 0 for NULL.
BufBuf(b, pattern) ==
    IF Ends(b, pattern) = {} THEN 0 ELSE Min(Ends(b, pattern))

\* left, the room in the task's buffer.
Left(r) == r.len - Len(r.got)

\* recv_till::remaining: what request r takes of the internal buffer b, and
\* whether that completes it.  Without a match the last bytes stay, because
\* they may be the beginning of the pattern.  (Seeded bug: they are taken.)
Take(r, b, n, done) ==
    [done |-> done, req |-> [r EXCEPT !.got = @ \o SubSeq(b, 1, n)],
     buf |-> SubSeq(b, n + 1, Len(b))]
UnmatchedAll(r, b) == Len(b)
Unmatched(r, b) == Len(b) - Len(r.pattern) + 1
Remaining(r, b) ==
    IF r.pattern = <<>>
      THEN Take(r, b, Min({Len(b), Left(r)}), Len(b) >= Left(r))
    ELSE IF Len(b) < Len(r.pattern)
      THEN Take(r, b, 0, FALSE)
    ELSE LET match == BufBuf(b, r.pattern)
             copy == IF match > 0 THEN match ELSE Unmatched(r, b)
         IN  IF copy >= Left(r) THEN Take(r, b, Left(r), TRUE)
                                ELSE Take(r, b, copy, match > 0)

-----------------------------------------------------------------------------
\* recv_till::run: at once from the internal buffer, ...
RunAtOnce(t, r) ==
    LET rem == Remaining(r, buf1)
    IN  /\ UserCode /\ ~waits[t] /\ ~broken
        /\ buf1 # <<>> /\ recv_queue1 = <<>> /\ rem.done
        /\ buf1' = rem.buf
        /\ req' = [req EXCEPT ![t] = rem.req]
        /\ ret' = [ret EXCEPT ![t] = "success"]
        /\ out' = out \o rem.req.got
        /\ UNCHANGED <<stream, pos, alive, broken, reading, recv_queue1, cur_alloc1, size1,
                       async_cancel1, waits, phase, via, iter, displaced>>

\* ... or queued, perhaps with a part of it.  (Seeded bug: the internal buffer
\* is not used.)
MayTakeNever == FALSE
MayTake == buf1 # <<>> /\ recv_queue1 = <<>>
RunQueued(t, r) ==
    LET rem == IF MayTake THEN Remaining(r, buf1) ELSE Take(r, buf1, 0, FALSE)
    IN  /\ UserCode /\ ~waits[t] /\ ~broken
        /\ ~rem.done
        /\ buf1' = rem.buf
        /\ req' = [req EXCEPT ![t] = rem.req]
        /\ ret' = [ret EXCEPT ![t] = "unfinished"]
        /\ waits' = [waits EXCEPT ![t] = TRUE]
        /\ reading' = TRUE
        /\ async_cancel1' = IF reading THEN async_cancel1 ELSE "open"
        /\ recv_queue1' = Append(recv_queue1, t)
        /\ UNCHANGED <<stream, pos, alive, broken, cur_alloc1, size1, phase, via, iter, out,
                       displaced>>

\* recv_till::cancel: what it has got so far goes back to the internal buffer,
\* behind the bytes that are there.  The socket is read on until the async handle
\* has its turn.
PosOf(t) == CHOOSE i \in DOMAIN recv_queue1 : recv_queue1[i] = t
Unqueued(t) == RemoveAt(recv_queue1, PosOf(t))
CapacityFor(n) == IF n > size1 - Len(buf1) THEN size1 + Len(buf1) + n ELSE size1
Cancel(t) ==
    /\ UserCode /\ waits[t]
    /\ recv_queue1' = Unqueued(t)
    /\ size1' = CapacityFor(Len(req[t].got))
    /\ buf1' = buf1 \o req[t].got
    /\ async_cancel1' = "sent"
    /\ waits' = [waits EXCEPT ![t] = FALSE]
    /\ req' = [req EXCEPT ![t] = NoRequest]
    /\ displaced' = (displaced \/ (buf1 # <<>> /\ req[t].got # <<>>))
    /\ UNCHANGED <<stream, pos, alive, broken, reading, cur_alloc1, ret, phase, via, iter, out>>

\* connected::~connected, when no task uses the object any more.
Destroy ==
    /\ UserCode /\ \A t \in Task : ~waits[t]
    /\ alive' = FALSE /\ reading' = FALSE
    /\ async_cancel1' = "none"
    /\ buf1' = <<>> /\ size1' = 0
    /\ UNCHANGED <<stream, pos, broken, recv_queue1, cur_alloc1, taskVars, phase, via, iter, out,
                   displaced>>

-----------------------------------------------------------------------------
\* tcp_alloc_cb1, and the room it offers, which libuv asserts not to be none.  A
\* CHECK or an assertion that fails aborts the program.
Room(t) == IF req[t].pattern = <<>> THEN Left(req[t])
           ELSE (IF size1 = 0 THEN FirstSize ELSE size1) - Len(buf1)
AllocChecks ==
    /\ recv_queue1 # <<>> /\ cur_alloc1 = NULL
    /\ req[Head(recv_queue1)].pattern = <<>> => buf1 = <<>>
AllocOK == AllocChecks /\ Room(Head(recv_queue1)) > 0
AllocCb1 ==
    /\ phase = "loop" /\ reading /\ AllocOK
    /\ cur_alloc1' = Head(recv_queue1)
    /\ recv_queue1' = Tail(recv_queue1)
    /\ size1' = IF req[Head(recv_queue1)].pattern # <<>> /\ size1 = 0 THEN FirstSize ELSE size1
    /\ phase' = "alloc"
    /\ UNCHANGED <<stream, pos, alive, broken, reading, buf1, async_cancel1, taskVars, via,
                   iter, out, displaced>>
AllocCb1Aborts ==
    /\ phase = "loop" /\ reading /\ ~AllocOK
    /\ phase' = "aborted"
    /\ UNCHANGED <<stream, pos, connVars, taskVars, via, iter, out, displaced>>

\* tcp_recv_cb1: nothing to read; ...
BackToFront == recv_queue1' = <<cur_alloc1>> \o recv_queue1 /\ cur_alloc1' = NULL
RecvCb1Nothing ==
    /\ phase = "alloc"
    /\ BackToFront
    /\ phase' = "loop"
    /\ UNCHANGED <<stream, pos, alive, broken, reading, buf1, size1, async_cancel1, taskVars,
                   via, iter, out, displaced>>

\* Completion of t, which is no longer in the queue, with request r.
Complete(t, r) ==
    /\ req' = [req EXCEPT ![t] = r]
    /\ ret' = [ret EXCEPT ![t] = "success"]
    /\ waits' = [waits EXCEPT ![t] = FALSE]
    /\ out' = out \o r.got

\* ... n bytes, straight into the task's buffer or behind the internal one.
\* check_remaining follows in both cases, after a __task_stand if the task is
\* complete.
Bytes(n) == [i \in 1..n |-> pos + i]
Received(r, n) ==
    IF r.pattern = <<>>
      THEN [done |-> n = Left(r), req |-> [r EXCEPT !.got = @ \o Bytes(n)], buf |-> buf1]
      ELSE Remaining(r, buf1 \o Bytes(n))
RecvCb1(n) ==
    LET t == cur_alloc1
        rem == Received(req[t], n)
    IN  /\ phase = "alloc"
        /\ pos + n <= Len(stream) /\ n <= Room(t)
        /\ pos' = pos + n
        /\ buf1' = rem.buf
        /\ via' = "sock"
        /\ IF rem.done
             THEN /\ Complete(t, rem.req)
                  /\ cur_alloc1' = NULL
                  /\ phase' = "stand"
                  /\ UNCHANGED recv_queue1
             ELSE /\ req' = [req EXCEPT ![t] = rem.req]
                  /\ BackToFront
                  /\ phase' = "check"
                  /\ UNCHANGED <<ret, waits, out>>
        /\ UNCHANGED <<stream, alive, broken, reading, size1, async_cancel1, iter, displaced>>

\* tcp_fallback_cb1
FallbackCb1 ==
    /\ phase = "loop" /\ async_cancel1 = "sent"
    /\ async_cancel1' = "open"
    /\ via' = "async"
    /\ phase' = "check"
    /\ UNCHANGED <<stream, pos, alive, broken, reading, recv_queue1, cur_alloc1, buf1, size1,
                   taskVars, iter, out, displaced>>

\* The test "obj == handle->data" after a __task_stand: the destructor clears
\* the data of the socket handle, not that of the async handle.
SeemsValid == alive \/ via = "async"

\* check_remaining: the object is gone, noticed or not; ...
CheckGone ==
    /\ phase = "stand" /\ ~alive
    /\ phase' = IF SeemsValid THEN "freed" ELSE "loop"
    /\ UNCHANGED <<stream, pos, connVars, taskVars, via, iter, out, displaced>>

\* ... the first task takes what it can of the internal buffer; ...
CheckTake ==
    LET t == Head(recv_queue1)
        rem == Remaining(req[t], buf1)
    IN  /\ phase \in {"stand", "check"} /\ alive
        /\ buf1 # <<>> /\ recv_queue1 # <<>>
        /\ buf1' = rem.buf
        /\ IF rem.done
             THEN /\ Complete(t, rem.req)
                  /\ recv_queue1' = Tail(recv_queue1)
                  /\ phase' = "stand"
             ELSE /\ req' = [req EXCEPT ![t] = rem.req]
                  /\ phase' = "loop"
                  /\ UNCHANGED <<recv_queue1, ret, waits, out>>
        /\ UNCHANGED <<stream, pos, alive, broken, reading, cur_alloc1, size1, async_cancel1,
                       via, iter, displaced>>

\* ... nothing is left to do, and nobody left to read for.  (Seeded bugs: never
\* stop; stop when the internal buffer is empty.)
NeverLeft == FALSE
NothingLeft == buf1 = <<>>
NobodyLeft == recv_queue1 = <<>>
CheckEnd ==
    /\ phase \in {"stand", "check"} /\ alive
    /\ buf1 = <<>> \/ recv_queue1 = <<>>
    /\ phase' = "loop"
    /\ IF NobodyLeft
         THEN reading' = FALSE /\ async_cancel1' = "none"
         ELSE UNCHANGED <<reading, async_cancel1>>
    /\ UNCHANGED <<stream, pos, alive, broken, recv_queue1, cur_alloc1, buf1, size1, taskVars,
                   via, iter, out, displaced>>

-----------------------------------------------------------------------------
Fail(t) ==
    /\ ret' = [ret EXCEPT ![t] = "failure"]
    /\ waits' = [waits EXCEPT ![t] = FALSE]
    /\ req' = [req EXCEPT ![t] = NoRequest]

\* tcp_recv_cb1, end of stream or an error: the task fails, ...
RecvCb1Error ==
    /\ phase = "alloc"
    /\ broken' = TRUE
    /\ Fail(cur_alloc1)
    /\ cur_alloc1' = NULL
    /\ phase' = "broken"
    /\ iter' = NULL
    /\ UNCHANGED <<stream, pos, alive, reading, recv_queue1, buf1, size1, async_cancel1, via, out,
                   displaced>>

\* ... then, in break_all_recv, those queued, one __task_stand after the other.
Position == IF iter # NULL THEN iter ELSE IF recv_queue1 = <<>> THEN End ELSE Head(recv_queue1)
After(t) == IF PosOf(t) = Len(recv_queue1) THEN End ELSE recv_queue1[PosOf(t) + 1]
BreakNext ==
    /\ phase = "broken" /\ alive
    /\ Position \in ToSet(recv_queue1)
    /\ Fail(Position)
    /\ recv_queue1' = Unqueued(Position)
    /\ iter' = After(Position)
    /\ UNCHANGED <<stream, pos, alive, broken, reading, cur_alloc1, buf1, size1, async_cancel1,
                   phase, via, out, displaced>>

\* The end of break_all_recv: the object is gone; the iterator's task was
\* canceled meanwhile; or seqer->drop_all, on a connection that has no seqer.
BreakEnd ==
    /\ phase = "broken"
    /\ ~alive \/ Position \notin ToSet(recv_queue1)
    /\ phase' = IF ~alive THEN "loop" ELSE IF Position = End THEN "null" ELSE "dangling"
    /\ UNCHANGED <<stream, pos, connVars, taskVars, via, iter, out, displaced>>

-----------------------------------------------------------------------------
Callback == \/ AllocCb1 \/ AllocCb1Aborts \/ (\E n \in 1..Len(stream) : RecvCb1(n))
            \/ FallbackCb1 \/ CheckGone \/ CheckTake \/ CheckEnd \/ BreakNext \/ BreakEnd
            \/ RecvCb1Nothing \/ RecvCb1Error

Run == \E t \in Task, q \in Requests :
          LET r == [len |-> q[1], pattern |-> q[2], got |-> <<>>]
          IN  RunAtOnce(t, r) \/ RunQueued(t, r)

Next == Run \/ (\E t \in Task : Cancel(t)) \/ Destroy \/ Callback

\* A callback that has begun goes on.  Each round of the event loop polls every
\* handle, so a readable socket gets its turn however often others are served,
\* and a read finds the bytes that are there.
Fairness == /\ WF_vars(Callback)
            /\ SF_vars(AllocCb1 \/ AllocCb1Aborts)
            /\ SF_vars(\E n \in 1..Len(stream) : RecvCb1(n))
Spec == Init /\ [][Next]_vars /\ Fairness

-----------------------------------------------------------------------------
\* Type invariant.
Request == [len : Nat \ {0}, pattern : Seq(Letters), got : Seq(1..Len(stream))]
TypeOK ==
    /\ pos \in 0..Len(stream)
    /\ alive \in BOOLEAN /\ broken \in BOOLEAN /\ reading \in BOOLEAN
    /\ recv_queue1 \in Seq(Task) /\ cur_alloc1 \in Task \cup {NULL}
    /\ buf1 \in Seq(1..Len(stream)) /\ size1 \in Nat
    /\ async_cancel1 \in {"none", "open", "sent"}
    /\ req \in [Task -> Request]
    /\ \A t \in Task : /\ <<req[t].len, req[t].pattern>> \in Requests \cup {<<1, <<>>>>}
                       /\ Len(req[t].got) <= req[t].len
    /\ ret \in [Task -> {"unfinished", "success", "failure"}]
    /\ waits \in [Task -> BOOLEAN]
    /\ phase \in {"loop", "alloc", "stand", "check", "broken", "aborted", "freed", "null",
                 "dangling"}
    /\ via \in {"sock", "async"} /\ iter \in Task \cup {NULL, End} /\ displaced \in BOOLEAN

\* The tasks in order, the one being served first.
Waiters == (IF cur_alloc1 = NULL THEN <<>> ELSE <<cur_alloc1>>) \o recv_queue1

\* Nobody is canceled and not yet noticed by tcp_fallback_cb1.
NoCancelPending == async_cancel1 # "sent"

\* The CHECKs of tcp_alloc_cb1: the socket is read only while a task is queued, and
\* never past bytes that are still in the internal buffer, whatever user code does in
\* the callbacks, but for the time from recv_till::cancel to its async callback, in
\* which a read aborts the program.  There is room to read into, too, unless the
\* internal buffer was made by recv_till::cancel, for the bytes it put back: it may
\* then be shorter than the next pattern and full.
AllocFailsOnlyAfterCancel ==
    phase = "loop" /\ reading /\ NoCancelPending =>
        AllocChecks /\ (Room(Head(recv_queue1)) > 0 \/ size1 \in 1..(FirstSize - 1))

\* No byte is lost or duplicated: what the tasks have received, what the first of
\* them has so far and the internal buffer make up the bytes read from the socket,
\* while the connection works and whoever is canceled.  They are in order unless a
\* canceled recv_till had put bytes behind others.
StreamKept ==
    alive /\ ~broken =>
        LET first == IF Waiters = <<>> THEN <<>> ELSE req[Head(Waiters)].got
            all == out \o first \o buf1
        IN  /\ Len(all) = pos /\ ToSet(all) = 1..pos
            /\ ~displaced => all = [i \in 1..pos |-> i]
            /\ \A k \in 2..Len(Waiters) : req[Waiters[k]].got = <<>>

\* A task does not wait for bytes that are already there (lost wakeup), unless a
\* cancellation has just put them there.
NoBytesForWaiter ==
    phase = "loop" /\ alive /\ recv_queue1 # <<>> /\ NoCancelPending =>
        ~Remaining(req[Head(recv_queue1)], buf1).done

\* The piece a task gets: with a pattern it holds no occurrence but one at its end,
\* also one that came in several reads, and without that it fills the buffer, as it
\* does without a pattern.
EndsRight(r) ==
    IF r.pattern = <<>> THEN Left(r) = 0
    ELSE /\ Ends(r.got, r.pattern) \subseteq {Len(r.got)}
         /\ Ends(r.got, r.pattern) # {} \/ Left(r) = 0
PieceEndsRight == \A t \in Task : ret[t] = "success" /\ ~waits[t] => EndsRight(req[t])

\* recv_till::remaining cuts the stream where it may, and the pieces put together
\* are it.  That a full buffer without the pattern is a success is what the code
\* does; PatternOrError is what the documentation says.
StreamCutRight == StreamKept /\ PieceEndsRight

\* The connection reads, and has its async handle, exactly while tasks wait, seen
\* from the event loop until the connection breaks; only a cancellation that
\* tcp_fallback_cb1 has yet to notice leaves it reading for nobody.
ReadsForWaiters ==
    /\ alive => (async_cancel1 # "none" <=> reading)
    /\ phase = "loop" /\ ~broken =>
        /\ recv_queue1 # <<>> => reading
        /\ reading /\ NoCancelPending => recv_queue1 # <<>>

\* A task that waits needs bytes that are not there, and they are being read.
WaitersFed == TypeOK /\ NoBytesForWaiter /\ ReadsForWaiters

\* With a pattern, a buffer that is full without it is an error: the documentation
\* of tcp::recv_till.
PatternOrError ==
    \A t \in Task : ret[t] = "success" /\ req[t].pattern # <<>> => Ends(req[t].got, req[t].pattern) # {}

\* Bytes that have arrived are read as long as tasks want them and the connection
\* works, unless a read in the wrong moment aborts the program.
BytesAreRead ==
    (recv_queue1 # <<>> /\ pos < Len(stream)) ~>
        (recv_queue1 = <<>> \/ pos = Len(stream) \/ broken \/ phase = "aborted")
=============================================================================
