------------------------- MODULE TcpRecvTillProofs -------------------------
(***************************************************************************)
(* Proofs about TcpRecvTill, for any tasks, byte streams, patterns and     *)
(* buffer lengths.                                                         *)
(*                                                                         *)
(* What makes a piece end at the first occurrence of its pattern is that   *)
(* recv_till::remaining keeps the last bytes in the internal buffer when   *)
(* it finds no match: an occurrence that begins in the bytes a task has    *)
(* taken would have been complete in the buffer they were taken from.      *)
(* Clean states this for the first task in line, and Remaining keeps it    *)
(* (RemainingOK).  The rest of the invariant says that only the first task *)
(* in line has bytes, that whoever waits has been offered the buffer       *)
(* before the event loop has control, but for a pending cancellation       *)
(* (Settled), that no byte is lost or doubled (Whole), and how the state   *)
(* of the connection goes with the phase of a callback (Control).          *)
(***************************************************************************)
EXTENDS TcpRecvTill, SharedLemmas

\* The task whose turn it is.
First == IF cur_alloc1 # NULL THEN cur_alloc1
         ELSE IF recv_queue1 # <<>> THEN Head(recv_queue1) ELSE NULL
Begin == IF recv_queue1 = <<>> THEN End ELSE Head(recv_queue1)

\* The task of an iterator has been canceled.
Erased(t) == t \in Task /\ t \notin ToSet(recv_queue1)

QueueInv ==
    /\ IsInjective(recv_queue1)
    /\ ToSet(recv_queue1) = {t \in Task : waits[t] /\ t # cur_alloc1}
    /\ cur_alloc1 # NULL => waits[cur_alloc1]

Control ==
    /\ phase = "alloc" <=> cur_alloc1 # NULL
    /\ phase = "alloc" => alive /\ reading
    /\ phase \in {"alloc", "stand", "check"} => ~broken
    /\ phase = "loop" /\ alive => ~broken /\ (reading /\ NoCancelPending => recv_queue1 # <<>>)
    /\ phase = "check" => alive
    /\ phase = "broken" => broken /\ (iter # NULL => iter = Begin \/ Erased(iter))
    /\ alive => (async_cancel1 # "none" <=> reading)
    /\ ~alive => ~reading /\ async_cancel1 = "none" /\ \A t \in Task : ~waits[t]
    /\ \A t \in Task : waits[t] => reading

\* The internal buffer is inside its memory.
Capacity ==
    /\ Len(buf1) <= size1
    /\ phase = "alloc" /\ req[cur_alloc1].pattern # <<>> => size1 # 0

\* No occurrence of the pattern begins in what request r has got: it would be
\* complete in b.
Clean(r, b) ==
    r.pattern # <<>> =>
        /\ r.got # <<>> => Len(b) >= Len(r.pattern) - 1
        /\ \A k \in Ends(r.got \o b, r.pattern) : k >= Len(r.got) + Len(r.pattern)

\* Request r has been offered b.
Settled(r, b) == IF r.pattern = <<>> THEN b = <<>> ELSE Len(b) < Len(r.pattern)

Turns ==
    /\ \A t \in Task : waits[t] => /\ ret[t] = "unfinished"
                                   /\ Len(req[t].got) < req[t].len
                                   /\ t # First => req[t].got = <<>>
    /\ First # NULL => Clean(req[First], buf1)
    /\ First # NULL /\ phase \in {"loop", "alloc"} /\ NoCancelPending => Settled(req[First], buf1)
    /\ First # NULL /\ phase = "alloc" /\ req[First].pattern = <<>> => buf1 = <<>>

\* s holds the first p bytes of the stream, each of them once, and in order unless d.
Whole(s, p, d) ==
    /\ s \in Seq(Nat) /\ Len(s) = p /\ ToSet(s) = 1..p
    /\ ~d => s = [i \in 1..p |-> i]

\* The bytes that were read.
FirstGot == IF First = NULL THEN <<>> ELSE req[First].got
Order == alive /\ ~broken => Whole((out \o FirstGot) \o buf1, pos, displaced)

IndInv == /\ TypeOK /\ stream \in Seq(Letters) /\ out \in Seq(Nat)
          /\ QueueInv /\ Control /\ Capacity /\ Turns /\ Order /\ PieceEndsRight

-----------------------------------------------------------------------------
\* Occurrences of a pattern in c followed by d: those that end in c, and those
\* that begin behind it.
LEMMA EndsIs ==
    ASSUME NEW S, NEW b \in Seq(S), NEW w \in Seq(Letters)
    PROVE  /\ Ends(b, w) \subseteq Nat
           /\ \A k \in Nat : k \in Ends(b, w) <=>
                  /\ Len(w) <= k /\ k <= Len(b)
                  /\ \A j \in 1..Len(w) : stream[b[k - Len(w) + j]] = w[j]
           /\ Len(b) \in Nat /\ Len(w) \in Nat
<1>1. Len(b) \in Nat /\ Len(w) \in Nat /\ DOMAIN w = 1..Len(w)
  BY LenProperties
<1>2. Len(w)..Len(b) \subseteq Nat /\ \A k \in Nat : k \in Len(w)..Len(b) <=> Len(w) <= k /\ k <= Len(b)
  BY <1>1
<1> QED
  BY <1>1, <1>2 DEF Ends

LEMMA EndsPrefix ==
    ASSUME NEW S, NEW c \in Seq(S), NEW d \in Seq(S), NEW w \in Seq(Letters), NEW k \in Nat
    PROVE  k \in Ends(c, w) <=> k \in Ends(c \o d, w) /\ k <= Len(c)
<1> DEFINE b == c \o d
<1>1. /\ b \in Seq(S) /\ Len(c) \in Nat /\ Len(d) \in Nat /\ Len(b) = Len(c) + Len(d)
      /\ \A i \in 1..Len(c) : b[i] = c[i]
  BY ConcatAt
<1> HIDE DEF b
<1>2. Len(w) \in Nat
  BY LenProperties
<1>3. ASSUME Len(w) <= k, k <= Len(c), NEW j \in 1..Len(w)
      PROVE  b[k - Len(w) + j] = c[k - Len(w) + j]
  <2>1. k - Len(w) + j \in 1..Len(c)
    BY <1>1, <1>2, <1>3
  <2> QED
    BY <1>1, <2>1
<1>4. k \in Ends(c, w) <=> /\ Len(w) <= k /\ k <= Len(c)
                           /\ \A j \in 1..Len(w) : stream[c[k - Len(w) + j]] = w[j]
  BY EndsIs
<1>5. k \in Ends(b, w) <=> /\ Len(w) <= k /\ k <= Len(b)
                           /\ \A j \in 1..Len(w) : stream[b[k - Len(w) + j]] = w[j]
  <2>1. b \in Seq(S)
    BY <1>1
  <2> QED
    BY <2>1, EndsIs
<1>6. k <= Len(c) => k <= Len(b)
  BY <1>1
<1> QED
  BY <1>3, <1>4, <1>5, <1>6 DEF b

LEMMA EndsSuffix ==
    ASSUME NEW S, NEW c \in Seq(S), NEW d \in Seq(S), NEW w \in Seq(Letters), NEW k \in Nat, Len(w) <= k
    PROVE  Len(c) + k \in Ends(c \o d, w) <=> k \in Ends(d, w)
<1> DEFINE b == c \o d
           h == Len(c) + k
<1>1. /\ b \in Seq(S) /\ Len(c) \in Nat /\ Len(d) \in Nat /\ Len(b) = Len(c) + Len(d)
      /\ \A i \in 1..Len(d) : b[Len(c) + i] = d[i]
  BY ConcatAt
<1> HIDE DEF b
<1>2. Len(w) \in Nat /\ h \in Nat /\ Len(w) <= h /\ (h <= Len(b) <=> k <= Len(d))
  <2>1. Len(w) \in Nat
    BY LenProperties
  <2> QED
    BY <1>1, <2>1
<1>3. k \in Ends(d, w) <=> /\ Len(w) <= k /\ k <= Len(d)
                           /\ \A j \in 1..Len(w) : stream[d[k - Len(w) + j]] = w[j]
  BY EndsIs
<1>4. ASSUME k <= Len(d), NEW j \in 1..Len(w)
      PROVE  b[h - Len(w) + j] = d[k - Len(w) + j]
  <2>1. k - Len(w) + j \in 1..Len(d) /\ h - Len(w) + j = Len(c) + (k - Len(w) + j)
    BY <1>1, <1>2, <1>4
  <2> QED
    BY <1>1, <2>1
<1> HIDE DEF h
<1>5. h \in Ends(b, w) <=> /\ Len(w) <= h /\ h <= Len(b)
                           /\ \A j \in 1..Len(w) : stream[b[h - Len(w) + j]] = w[j]
  <2>1. b \in Seq(S) /\ h \in Nat
    BY <1>1, <1>2
  <2> QED
    BY <2>1, EndsIs
<1> QED
  BY <1>2, <1>3, <1>4, <1>5 DEF b, h

-----------------------------------------------------------------------------
\* x is what Take makes of r and b, n bytes being moved.
Taken(r, b, n, x) ==
    /\ x.req \in Request /\ x.req.len = r.len /\ x.req.pattern = r.pattern
    /\ Len(r.got) \in Nat /\ Len(b) \in Nat /\ r.len \in Nat
    /\ Len(x.req.got) = Len(r.got) + n
    /\ x.buf \in Seq(1..Len(stream)) /\ Len(x.buf) = Len(b) - n
    /\ x.req.got \o x.buf = r.got \o b
    /\ n = 0 => x.req = r /\ x.buf = b

LEMMA TakeIs ==
    ASSUME stream \in Seq(Letters), NEW r \in Request, NEW b \in Seq(1..Len(stream)),
           NEW n \in 0..Len(b), NEW d \in BOOLEAN
    PROVE  /\ Taken(r, b, n, Take(r, b, n, d))
           /\ Take(r, b, n, d).done \in BOOLEAN /\ (Take(r, b, n, d).done <=> d)
<1> DEFINE P == 1..Len(stream)
           o == r.got
           g == o \o SubSeq(b, 1, n)
           c == SubSeq(b, n + 1, Len(b))
<1>1. o \in Seq(P) /\ r.len \in Nat \ {0} /\ r.pattern \in Seq(Letters) /\ b \in Seq(P)
  BY DEF Request
<1> HIDE DEF P, o
<1>2. g \in Seq(P) /\ Len(g) = Len(o) + n /\ Len(o) \in Nat /\ Len(b) \in Nat
  BY <1>1, MoveAt
<1>3. c \in Seq(P) /\ Len(c) = Len(b) - n
  <2>1. n \in Nat /\ n <= Len(b)
    BY <1>2
  <2> QED
    BY <1>1, <2>1, DropAt
<1>4. g \o c = o \o b
  BY <1>1, MoveKeeps
<1>5. ASSUME n = 0 PROVE g = o /\ c = b
  <2>1. SubSeq(b, 1, 0) = <<>> /\ n + 1 = 1
    BY <1>5, SubSeqEmpty
  <2>2. o \o <<>> = o /\ SubSeq(b, 1, Len(b)) = b
    BY <1>1, ConcatEmptySeq, SubSeqFull
  <2> QED
    BY <1>5, <2>1, <2>2
<1> DEFINE q == [r EXCEPT !.got = g]
<1>6. Take(r, b, n, d) = [done |-> d, req |-> q, buf |-> c]
  BY DEF Take, o
<1> HIDE DEF g, c
<1>7. q \in Request /\ q.got = g /\ q.len = r.len /\ q.pattern = r.pattern /\ (g = o => q = r)
  BY <1>1, <1>2 DEF Request, P, o
<1> HIDE DEF q
<1> DEFINE x == Take(r, b, n, d)
<1>8. x.done = d /\ x.req = q /\ x.buf = c
  BY <1>6
<1> HIDE DEF x
<1>9. Taken(r, b, n, x)
  BY <1>1, <1>2, <1>3, <1>4, <1>5, <1>7, <1>8 DEF P, o, Taken
<1> QED
  BY <1>8, <1>9 DEF x

\* A request that is not complete, in front of the internal buffer b.
Pending(r, b) ==
    /\ r \in Request /\ b \in Seq(1..Len(stream))
    /\ Len(r.got) < r.len
    /\ Clean(r, b)

\* What is left of it: x is a record of Take.
Outcome(r, b, x) ==
    /\ x.done \in BOOLEAN
    /\ x.req \in Request /\ x.req.len = r.len /\ x.req.pattern = r.pattern
    /\ Len(x.req.got) <= r.len
    /\ x.buf \in Seq(1..Len(stream)) /\ Len(x.buf) <= Len(b)
    /\ x.req.got \o x.buf = r.got \o b
    /\ x.done => EndsRight(x.req)
    /\ ~x.done => Pending(x.req, x.buf) /\ Settled(x.req, x.buf)

\* Occurrences of the pattern in what was taken and in b are those in b.
LEMMA PendingEnds ==
    ASSUME stream \in Seq(Letters), NEW r, NEW b, Pending(r, b), r.pattern # <<>>
    PROVE  /\ Len(r.got) \in Nat /\ Len(b) \in Nat /\ Len(r.pattern) \in Nat \ {0}
           /\ Ends(r.got \o b, r.pattern) \subseteq Nat /\ Ends(b, r.pattern) \subseteq Nat
           /\ \A k \in Nat : k \in Ends(r.got \o b, r.pattern) <=>
                             k >= Len(r.got) /\ k - Len(r.got) \in Ends(b, r.pattern)
           /\ \A e \in Ends(b, r.pattern) : Len(r.pattern) <= e /\ e <= Len(b)
<1> DEFINE P == 1..Len(stream)
           o == r.got
           w == r.pattern
           a == o \o b
<1>1. o \in Seq(P) /\ w \in Seq(Letters) /\ b \in Seq(P)
  BY DEF Pending, Request
<1>2. \A k \in Ends(a, w) : k >= Len(o) + Len(w)
  BY DEF Pending, Clean
<1> HIDE DEF P, o, w
<1>3. Len(o) \in Nat /\ Len(b) \in Nat /\ Len(w) \in Nat /\ a \in Seq(P)
  BY <1>1, ConcatAt
<1>4. Len(w) # 0
  BY <1>1, SeqBasics DEF w
<1>5. Ends(a, w) \subseteq Nat /\ Ends(b, w) \subseteq Nat
  BY <1>1, <1>3, EndsIs
<1>6. \A e \in Ends(b, w) : Len(w) <= e /\ e <= Len(b)
  BY <1>1, <1>5, EndsIs
<1>7. ASSUME NEW k \in Nat, k \in Ends(a, w)
      PROVE  k >= Len(o) /\ k - Len(o) \in Ends(b, w)
  <2>1. k >= Len(o) + Len(w)
    BY <1>2, <1>7
  <2>2. k - Len(o) \in Nat /\ Len(w) <= k - Len(o) /\ Len(o) + (k - Len(o)) = k /\ k >= Len(o)
    BY <1>3, <2>1
  <2> QED
    BY <1>1, <1>7, <2>2, EndsSuffix
<1>8. ASSUME NEW k \in Nat, k >= Len(o), k - Len(o) \in Ends(b, w)
      PROVE  k \in Ends(a, w)
  <2>1. k - Len(o) \in Nat /\ Len(w) <= k - Len(o) /\ Len(o) + (k - Len(o)) = k
    BY <1>3, <1>5, <1>6, <1>8
  <2> QED
    BY <1>1, <1>8, <2>1, EndsSuffix
<1> QED
  BY <1>3, <1>4, <1>5, <1>6, <1>7, <1>8 DEF o, w

\* A piece with a pattern is complete with n bytes more if no occurrence ends
\* before them and one ends there, or the buffer is full.
LEMMA TakeEndsRight ==
    ASSUME stream \in Seq(Letters), NEW r, NEW b, Pending(r, b), r.pattern # <<>>,
           NEW n \in 0..Len(b), NEW d \in BOOLEAN,
           \A e \in Ends(b, r.pattern) : n <= e,
           n \in Ends(b, r.pattern) \/ n = Left(r)
    PROVE  EndsRight(Take(r, b, n, d).req)
<1>0. r \in Request /\ b \in Seq(1..Len(stream))
  BY DEF Pending
<1> DEFINE x == Take(r, b, n, d)
<1>a. /\ x.req \in Request /\ x.req.len = r.len /\ x.req.pattern = r.pattern
      /\ Len(x.req.got) = Len(r.got) + n /\ x.buf \in Seq(1..Len(stream))
      /\ x.req.got \o x.buf = r.got \o b /\ r.len \in Nat
  <2>1. Taken(r, b, n, x)
    BY <1>0, TakeIs
  <2> HIDE DEF x
  <2> QED
    BY <2>1 DEF Taken
<1> HIDE DEF x
<1> DEFINE P == 1..Len(stream)
           w == r.pattern
           o == r.got
           g == x.req.got
           c == x.buf
<1>1. /\ x.req \in Request /\ x.req.len = r.len /\ x.req.pattern = w
      /\ Len(g) = Len(o) + n /\ c \in Seq(P) /\ g \o c = o \o b /\ r.len \in Nat
  BY <1>a
<1>2. g \in Seq(P) /\ w \in Seq(Letters)
  BY <1>1 DEF Request
<1>3. /\ Len(o) \in Nat /\ Len(b) \in Nat
      /\ \A k \in Nat : k \in Ends(o \o b, w) <=> k >= Len(o) /\ k - Len(o) \in Ends(b, w)
      /\ Ends(b, w) \subseteq Nat
  BY PendingEnds
<1> HIDE DEF P, g, c, o, w
<1>4. \A k \in Nat : k \in Ends(g, w) <=> k \in Ends(o \o b, w) /\ k <= Len(g)
  BY <1>1, <1>2, EndsPrefix
<1>5. Ends(g, w) \subseteq Nat
  BY <1>2, EndsIs
<1>6. ASSUME NEW k \in Ends(g, w) PROVE k = Len(g)
  <2>1. k \in Nat /\ k >= Len(o) /\ k - Len(o) \in Ends(b, w) /\ k <= Len(o) + n
    BY <1>1, <1>3, <1>4, <1>5
  <2>2. n <= k - Len(o)
    BY <2>1 DEF w
  <2>3. Len(g) = Len(o) + n /\ Len(o) \in Nat /\ n \in Nat
    BY <1>1, <1>3
  <2> QED
    BY <2>1, <2>2, <2>3
<1>7. n \in Ends(b, w) => Len(g) \in Ends(g, w)
  <2>1. Len(g) \in Nat /\ Len(g) >= Len(o) /\ Len(g) - Len(o) = n /\ Len(g) <= Len(g)
    BY <1>1, <1>3
  <2> QED
    BY <1>3, <1>4, <2>1
<1>8. n = Left(r) => Left(x.req) = 0
  BY <1>1, <1>3 DEF Left, g, o
<1>9. EndsRight(x.req)
  BY <1>1, <1>6, <1>7, <1>8 DEF EndsRight, w, g
<1> QED
  BY <1>9 DEF x

\* recv_till::remaining takes no more than the task wants, loses nothing, completes
\* a piece only where it has to end, and otherwise leaves the bytes in which the
\* pattern may have begun.
LEMMA RemainingOK ==
    ASSUME stream \in Seq(Letters), NEW r, NEW b, Pending(r, b)
    PROVE  Outcome(r, b, Remaining(r, b))
<1> DEFINE L == Len(r.got)
           m == Len(r.pattern)
<1>1. /\ r \in Request /\ b \in Seq(1..Len(stream)) /\ Clean(r, b)
      /\ L \in Nat /\ Len(b) \in Nat /\ m \in Nat /\ r.len \in Nat /\ L < r.len
      /\ r.pattern \in Seq(Letters)
  <2>1. /\ r.got \in Seq(1..Len(stream)) /\ r.pattern \in Seq(Letters) /\ r.len \in Nat
        /\ b \in Seq(1..Len(stream))
    BY DEF Pending, Request
  <2> QED
    BY <2>1, LenProperties DEF Pending
<1>2. Left(r) = r.len - L /\ Left(r) \in Nat /\ Left(r) > 0
  BY <1>1 DEF Left
\* A complete piece.
<1>3. ASSUME NEW n \in 0..Len(b), n <= Left(r), EndsRight(Take(r, b, n, TRUE).req)
      PROVE  Outcome(r, b, Take(r, b, n, TRUE))
  <2> DEFINE x == Take(r, b, n, TRUE)
  <2>1. Taken(r, b, n, x) /\ x.done \in BOOLEAN /\ x.done
    BY <1>1, TakeIs
  <2>2. EndsRight(x.req)
    BY <1>3
  <2> HIDE DEF x
  <2>3. Len(x.req.got) <= r.len /\ Len(x.buf) <= Len(b)
    BY <1>1, <1>2, <1>3, <2>1 DEF Taken
  <2>4. Outcome(r, b, x)
    BY <2>1, <2>2, <2>3 DEF Taken, Outcome
  <2> QED
    BY <2>4 DEF x
\* An incomplete one.
<1>4. ASSUME NEW n \in 0..Len(b), n < Left(r),
             Clean(Take(r, b, n, FALSE).req, Take(r, b, n, FALSE).buf),
             IF r.pattern = <<>> THEN n = Len(b) ELSE Len(b) - n < m
      PROVE  Outcome(r, b, Take(r, b, n, FALSE))
  <2> DEFINE x == Take(r, b, n, FALSE)
  <2>1. Taken(r, b, n, x) /\ x.done \in BOOLEAN /\ ~x.done
    BY <1>1, TakeIs
  <2>2. Clean(x.req, x.buf)
    BY <1>4
  <2> HIDE DEF x
  <2>3. Len(x.req.got) < r.len /\ Len(x.req.got) <= r.len /\ Len(x.buf) <= Len(b)
    BY <1>1, <1>2, <1>4, <2>1 DEF Taken
  <2>4. Settled(x.req, x.buf)
    <3>1. CASE r.pattern = <<>>
      <4>1. Len(x.buf) = 0 /\ x.buf \in Seq(1..Len(stream)) /\ x.req.pattern = <<>>
        BY <1>1, <1>4, <2>1, <3>1 DEF Taken
      <4>2. x.buf = <<>>
        BY <4>1, SeqBasics
      <4> QED
        BY <4>1, <4>2 DEF Settled
    <3>2. CASE r.pattern # <<>>
      BY <1>4, <2>1, <3>2 DEF Taken, Settled
    <3> QED
      BY <3>1, <3>2
  <2>5. Pending(x.req, x.buf)
    BY <2>1, <2>2, <2>3 DEF Taken, Pending
  <2>6. Outcome(r, b, x)
    BY <2>1, <2>3, <2>4, <2>5 DEF Taken, Outcome
  <2> QED
    BY <2>6 DEF x
<1>5. CASE r.pattern = <<>>
  <2> DEFINE n == Min({Len(b), Left(r)})
  <2>1. n \in {Len(b), Left(r)} /\ n <= Len(b) /\ n <= Left(r)
    <3>1. {Len(b), Left(r)} \in SUBSET Nat /\ {Len(b), Left(r)} # {}
      BY <1>1, <1>2
    <3> QED
      BY <3>1, MinIsLeast
  <2>2. n \in 0..Len(b)
    BY <1>1, <1>2, <2>1
  <2> HIDE DEF n
  <2>3. CASE Len(b) >= Left(r)
    <3>1. n = Left(r)
      BY <1>1, <1>2, <2>1, <2>3
    <3>2. Remaining(r, b) = Take(r, b, n, TRUE)
      BY <1>5, <2>3 DEF Remaining, n
    <3>3. EndsRight(Take(r, b, n, TRUE).req)
      <4> DEFINE x == Take(r, b, n, TRUE)
      <4>1. Taken(r, b, n, x)
        BY <1>1, <2>2, TakeIs
      <4> HIDE DEF x
      <4>2. x.req.pattern = <<>> /\ Left(x.req) = 0
        BY <1>1, <1>2, <1>5, <3>1, <4>1 DEF Taken, Left
      <4> QED
        BY <4>2 DEF EndsRight, x
    <3> QED
      BY <1>3, <2>1, <2>2, <3>2, <3>3
  <2>4. CASE ~(Len(b) >= Left(r))
    <3>1. n = Len(b) /\ n < Left(r)
      BY <1>1, <1>2, <2>1, <2>4
    <3>2. Remaining(r, b) = Take(r, b, n, FALSE)
      <4>1. (Len(b) >= Left(r)) = FALSE
        BY <2>4
      <4> QED
        BY <1>5, <4>1 DEF Remaining, n
    <3>3. Clean(Take(r, b, n, FALSE).req, Take(r, b, n, FALSE).buf)
      <4> DEFINE x == Take(r, b, n, FALSE)
      <4>1. Taken(r, b, n, x)
        BY <1>1, <2>2, TakeIs
      <4> HIDE DEF x
      <4>2. x.req.pattern = <<>>
        BY <1>5, <4>1 DEF Taken
      <4> QED
        BY <4>2 DEF Clean, x
    <3> QED
      BY <1>4, <1>5, <2>2, <3>1, <3>2, <3>3
  <2> QED
    BY <2>3, <2>4
<1>6. CASE r.pattern # <<>> /\ Len(b) < m
  <2>1. Remaining(r, b) = Take(r, b, 0, FALSE) /\ 0 \in 0..Len(b) /\ 0 < Left(r) /\ Len(b) - 0 < m
    BY <1>1, <1>2, <1>6 DEF Remaining
  <2>2. Clean(Take(r, b, 0, FALSE).req, Take(r, b, 0, FALSE).buf)
    <3>1. Taken(r, b, 0, Take(r, b, 0, FALSE))
      BY <1>1, <2>1, TakeIs
    <3>2. Take(r, b, 0, FALSE).req = r /\ Take(r, b, 0, FALSE).buf = b
      BY <3>1 DEF Taken
    <3> QED
      BY <1>1, <3>2
  <2> QED
    BY <1>4, <1>6, <2>1, <2>2
<1>7. CASE r.pattern # <<>> /\ Len(b) >= m
  <2> DEFINE E == Ends(b, r.pattern)
             match == BufBuf(b, r.pattern)
             copy == IF match > 0 THEN match ELSE Unmatched(r, b)
  <2>1. /\ Remaining(r, b) = IF copy >= Left(r) THEN Take(r, b, Left(r), TRUE)
                             ELSE Take(r, b, copy, match > 0)
    <3>1. ~(Len(b) < m)
      BY <1>1, <1>7
    <3> QED
      BY <1>7, <3>1 DEF Remaining
  <2>2. /\ m \in Nat \ {0} /\ E \subseteq Nat
        /\ Ends(r.got \o b, r.pattern) \subseteq Nat
        /\ \A k \in Nat : k \in Ends(r.got \o b, r.pattern) <=> k >= L /\ k - L \in E
        /\ \A e \in E : m <= e /\ e <= Len(b)
    BY <1>7, PendingEnds
  <2>3. CASE E # {}
    <3>1. match \in E /\ \A e \in E : match <= e
      BY <2>2, <2>3, MinIsLeast DEF BufBuf
    <3>2. match \in Nat /\ match > 0 /\ match <= Len(b) /\ copy = match
      <4>1. match \in Nat /\ m <= match /\ match <= Len(b)
        BY <2>2, <3>1
      <4> QED
        BY <2>2, <4>1
    <3> HIDE DEF match, copy, E
    <3>3. CASE copy >= Left(r)
      <4>1. Left(r) \in 0..Len(b) /\ Left(r) <= match /\ Left(r) <= Left(r)
        BY <1>1, <1>2, <3>2, <3>3
      <4>2. \A e \in E : Left(r) <= e
        BY <1>2, <2>2, <3>1, <3>2, <4>1
      <4>3. EndsRight(Take(r, b, Left(r), TRUE).req)
        BY <1>7, <4>1, <4>2, TakeEndsRight DEF E
      <4> QED
        BY <1>3, <2>1, <3>3, <4>1, <4>3
    <3>4. CASE ~(copy >= Left(r))
      <4>1. match \in 0..Len(b) /\ match <= Left(r)
        BY <1>1, <1>2, <3>2, <3>4
      <4>2. EndsRight(Take(r, b, match, TRUE).req)
        BY <1>7, <3>1, <4>1, TakeEndsRight DEF E
      <4>3. Remaining(r, b) = Take(r, b, match, TRUE)
        <5>1. (match > 0) = TRUE
          BY <3>2
        <5> QED
          BY <2>1, <3>2, <3>4, <5>1
      <4> QED
        BY <1>3, <4>1, <4>2, <4>3
    <3> QED
      BY <3>3, <3>4
  <2>4. CASE E = {}
    <3>1. match = 0 /\ ~(match > 0) /\ copy = Len(b) - m + 1
      BY <2>4 DEF BufBuf, Unmatched
    <3>a. \A y, z \in Nat : y >= z /\ z # 0 =>
             y - z + 1 \in Nat /\ y - z + 1 <= y /\ y - z + 1 > 0 /\ y - (y - z + 1) = z - 1
      OBVIOUS
    <3>b. Len(b) \in Nat /\ m \in Nat /\ m # 0 /\ Len(b) >= m
      BY <1>1, <1>7, <2>2
    <3> HIDE DEF match, copy, E
    <3>2. copy \in Nat /\ copy <= Len(b) /\ copy > 0 /\ Len(b) - copy = m - 1
      BY <3>a, <3>b, <3>1
    <3>3. CASE copy >= Left(r)
      <4>1. Left(r) \in 0..Len(b) /\ Left(r) <= Left(r)
        BY <1>1, <1>2, <3>2, <3>3
      <4>2. EndsRight(Take(r, b, Left(r), TRUE).req)
        BY <1>7, <2>4, <4>1, TakeEndsRight DEF E
      <4> QED
        BY <1>3, <2>1, <3>3, <4>1, <4>2
    <3>4. CASE ~(copy >= Left(r))
      <4>1. copy \in 0..Len(b) /\ copy < Left(r) /\ Len(b) - copy < m /\ Len(b) - copy >= m - 1
        BY <1>2, <3>b, <3>2, <3>4
      <4> DEFINE x == Take(r, b, copy, FALSE)
      <4>2. Taken(r, b, copy, x)
        BY <1>1, <4>1, TakeIs
      <4> HIDE DEF x
      <4>3. Clean(x.req, x.buf)
        <5>1. Ends(r.got \o b, r.pattern) = {}
          BY <2>2, <2>4
        <5>2. Ends(x.req.got \o x.buf, x.req.pattern) = {}
          BY <4>2, <5>1 DEF Taken
        <5>3. Len(x.buf) >= Len(x.req.pattern) - 1
          BY <4>1, <4>2 DEF Taken
        <5> QED
          BY <5>2, <5>3 DEF Clean
      <4>4. Remaining(r, b) = Take(r, b, copy, FALSE)
        <5>1. (match > 0) = FALSE
          BY <3>1
        <5> QED
          BY <2>1, <3>4, <5>1
      <4> QED
        BY <1>4, <1>7, <4>1, <4>3, <4>4 DEF x
    <3> QED
      BY <3>3, <3>4
  <2> QED
    BY <2>3, <2>4
<1>8. Len(b) < m \/ Len(b) >= m
  BY <1>1
<1> QED
  BY <1>5, <1>6, <1>7, <1>8

\* A request that has been offered the buffer is not completed by it.
LEMMA SettledNotDone ==
    ASSUME stream \in Seq(Letters), NEW r, NEW b, Pending(r, b), Settled(r, b)
    PROVE  ~Remaining(r, b).done
<1>1. r \in Request /\ b \in Seq(1..Len(stream)) /\ Len(r.got) < r.len
  BY DEF Pending
<1>2. Len(r.got) \in Nat /\ Len(b) \in Nat /\ r.len \in Nat
  <2>1. r.got \in Seq(1..Len(stream)) /\ r.len \in Nat
    BY <1>1 DEF Request
  <2> QED
    BY <1>1, <2>1, LenProperties
<1>3. CASE r.pattern = <<>>
  <2>1. Len(b) = 0
    BY <1>1, <1>3, SeqBasics DEF Settled
  <2>2. (Len(b) >= Left(r)) = FALSE
    BY <1>1, <1>2, <2>1 DEF Left
  <2>3. Remaining(r, b) = Take(r, b, Min({Len(b), Left(r)}), FALSE)
    BY <1>3, <2>2 DEF Remaining
  <2> QED
    BY <2>3 DEF Take
<1>4. CASE r.pattern # <<>>
  <2>1. Remaining(r, b) = Take(r, b, 0, FALSE)
    BY <1>4 DEF Remaining, Settled
  <2> QED
    BY <2>1 DEF Take
<1> QED
  BY <1>3, <1>4

\* A request that has got nothing yet.
LEMMA FreshClean ==
    ASSUME stream \in Seq(Letters), NEW r \in Request, NEW b \in Seq(1..Len(stream)), r.got = <<>>
    PROVE  Clean(r, b)
<1>1. r.pattern \in Seq(Letters)
  BY DEF Request
<1>2. r.got \o b = b /\ Len(r.got) = 0
  BY ConcatEmptySeq
<1>3. ASSUME NEW k \in Ends(b, r.pattern) PROVE k >= 0 + Len(r.pattern)
  <2>1. k \in Nat /\ Len(r.pattern) \in Nat /\ Len(r.pattern) <= k
    BY <1>1, EndsIs
  <2> QED
    BY <2>1
<1> QED
  BY <1>2, <1>3 DEF Clean

LEMMA SettledEmpty ==
    ASSUME NEW r \in Request
    PROVE  Settled(r, <<>>)
<1>1. r.pattern \in Seq(Letters)
  BY DEF Request
<1>2. r.pattern # <<>> => Len(r.pattern) # 0 /\ Len(r.pattern) \in Nat
  BY <1>1, SeqBasics
<1>3. r.pattern # <<>> => 0 < Len(r.pattern)
  BY <1>2
<1> QED
  BY <1>3 DEF Settled

\* Bytes that arrive behind the internal buffer leave a request as it is.
LEMMA CleanGrows ==
    ASSUME stream \in Seq(Letters), NEW r, NEW b, Pending(r, b), NEW c \in Seq(1..Len(stream))
    PROVE  Pending(r, b \o c)
<1> DEFINE P == 1..Len(stream)
           o == r.got
           w == r.pattern
<1>1. /\ r \in Request /\ b \in Seq(P) /\ c \in Seq(P) /\ o \in Seq(P) /\ w \in Seq(Letters)
      /\ Len(o) < r.len
  BY DEF Pending, Request
<1>2. w # <<>> => /\ o # <<>> => Len(b) >= Len(w) - 1
                  /\ \A k \in Ends(o \o b, w) : k >= Len(o) + Len(w)
  BY DEF Pending, Clean
<1> HIDE DEF P, o, w
<1>3. /\ b \o c \in Seq(P) /\ Len(b \o c) = Len(b) + Len(c)
      /\ Len(b) \in Nat /\ Len(c) \in Nat /\ Len(o) \in Nat /\ Len(w) \in Nat
  BY <1>1, ConcatAt, LenProperties
<1>4. CASE o = <<>>
  <2>1. Clean(r, b \o c)
    BY <1>1, <1>3, <1>4, FreshClean DEF P, o
  <2> QED
    BY <1>1, <1>3, <2>1 DEF Pending, P, o
<1>5. CASE o # <<>> /\ w # <<>>
  <2>1. Len(b) >= Len(w) - 1 /\ \A k \in Ends(o \o b, w) : k >= Len(o) + Len(w)
    BY <1>2, <1>5
  <2>2. Len(b \o c) >= Len(w) - 1
    BY <1>3, <2>1
  <2>3. o \o (b \o c) = (o \o b) \o c
    <3>1. o \in Seq(P) /\ b \in Seq(P) /\ c \in Seq(P)
      BY <1>1
    <3> QED
      BY <3>1, ConcatAssociative
  <2>4. o \o b \in Seq(P) /\ Len(o \o b) = Len(o) + Len(b) /\ (o \o b) \o c \in Seq(P)
    BY <1>1, ConcatAt
  <2>5. Ends((o \o b) \o c, w) \subseteq Nat
    BY <1>1, <2>4, EndsIs
  <2>6. ASSUME NEW k \in Ends((o \o b) \o c, w) PROVE k >= Len(o) + Len(w)
    <3>1. k \in Nat
      BY <2>5
    <3>2. CASE k <= Len(o \o b)
      <4>1. k \in Ends(o \o b, w)
        BY <1>1, <2>4, <3>1, <3>2, EndsPrefix
      <4> QED
        BY <2>1, <4>1
    <3>3. CASE ~(k <= Len(o \o b))
      <4>1. k > Len(o) + Len(b)
        BY <1>3, <2>4, <3>1, <3>3
      <4> QED
        BY <1>3, <2>1, <3>1, <4>1
    <3> QED
      BY <3>2, <3>3
  <2>7. Clean(r, b \o c)
    BY <2>2, <2>3, <2>6 DEF Clean, o, w
  <2> QED
    BY <1>1, <1>3, <2>7 DEF Pending, P, o
<1>6. CASE w = <<>>
  BY <1>1, <1>3, <1>6 DEF Pending, Clean, P, o, w
<1> QED
  BY <1>4, <1>5, <1>6

\* What tcp_recv_cb1 makes of n bytes: the same as recv_till::remaining does when
\* they are behind the internal buffer.
LEMMA ReceivedOK ==
    ASSUME stream \in Seq(Letters), pos \in Nat, NEW r, Pending(r, buf1), r.pattern = <<>> => buf1 = <<>>,
           NEW n \in Nat, pos + n <= Len(stream), r.pattern = <<>> => n <= Left(r)
    PROVE  /\ Bytes(n) \in Seq(1..Len(stream)) /\ Len(Bytes(n)) = n
           /\ Outcome(r, buf1 \o Bytes(n), Received(r, n))
<1> DEFINE P == 1..Len(stream)
           c == Bytes(n)
<1>1. Len(stream) \in Nat
  BY LenProperties
<1>2. c \in Seq(P) /\ Len(c) = n
  <2>1. \A i \in 1..n : pos + i \in 1..Len(stream)
    BY <1>1
  <2>2. c \in [1..n -> P] /\ DOMAIN c = 1..n
    BY <2>1 DEF Bytes
  <2> HIDE DEF c, P
  <2>3. c \in Seq(P)
    BY <2>2
  <2> QED
    BY <2>2, <2>3, LenProperties
<1> HIDE DEF c
<1>3. Pending(r, buf1 \o c)
  BY <1>2, CleanGrows
<1>4. CASE r.pattern # <<>>
  <2>1. Received(r, n) = Remaining(r, buf1 \o c)
    BY <1>4 DEF Received, c
  <2>2. Outcome(r, buf1 \o c, Remaining(r, buf1 \o c))
    BY <1>3, RemainingOK
  <2> QED
    BY <1>2, <2>1, <2>2 DEF c
<1>5. CASE r.pattern = <<>>
  <2>1. buf1 = <<>> /\ n <= Left(r)
    BY <1>5
  <2>2. r \in Request /\ r.got \in Seq(P) /\ r.len \in Nat \ {0} /\ Len(r.got) < r.len
    BY DEF Pending, Request
  <2>3. Len(r.got) \in Nat /\ r.got \o c \in Seq(P) /\ Len(r.got \o c) = Len(r.got) + n
    BY <1>2, <2>2, ConcatAt
  <2> DEFINE g == r.got \o c
             q == [r EXCEPT !.got = g]
             x == Received(r, n)
  <2>4. x.done = (n = Left(r)) /\ x.req = q /\ x.buf = <<>>
    BY <1>5, <2>1 DEF Received, c
  <2> HIDE DEF x
  <2>5. q \in Request /\ q.got = g /\ q.len = r.len /\ q.pattern = r.pattern
    BY <2>2, <2>3 DEF Request
  <2>6. g \o <<>> = g /\ <<>> \o c = c /\ <<>> \in Seq(P)
    BY <1>2, <2>3, ConcatEmptySeq
  <2> HIDE DEF q, g
  <2>7. Len(g) = Len(r.got) + n
    BY <2>3 DEF g
  <2>8. Len(g) <= r.len /\ (n = Left(r) => Left(q) = 0) /\ (n # Left(r) => Len(g) < r.len)
    BY <2>1, <2>2, <2>3, <2>5, <2>7 DEF Left
  <2>9. x.done \in BOOLEAN /\ (x.done <=> n = Left(r))
    BY <2>4
  <2>10. x.done => EndsRight(x.req)
    BY <1>5, <2>4, <2>5, <2>8, <2>9 DEF EndsRight
  <2>11. ~x.done => Pending(x.req, x.buf) /\ Settled(x.req, x.buf)
    BY <1>5, <2>4, <2>5, <2>6, <2>8, <2>9 DEF Pending, Settled, Clean
  <2>12. buf1 \o c = c /\ Len(<<>>) <= n
    BY <2>1, <2>6
  <2>13. x.req.got \o x.buf = r.got \o c
    BY <2>4, <2>5, <2>6 DEF g
  <2>14. Outcome(r, c, x)
    BY <1>2, <2>4, <2>5, <2>6, <2>8, <2>9, <2>10, <2>11, <2>12, <2>13 DEF Outcome
  <2> QED
    BY <1>2, <2>12, <2>14 DEF c, x
<1> QED
  BY <1>4, <1>5

\* The first p bytes, and n more.
LEMMA BytesFollow ==
    ASSUME pos \in Nat, NEW n \in Nat
    PROVE  [i \in 1..pos |-> i] \o Bytes(n) = [i \in 1..(pos + n) |-> i]
<1> DEFINE a == [i \in 1..pos |-> i]
           c == Bytes(n)
           z == [i \in 1..(pos + n) |-> i]
<1>1. a \in Seq(Nat) /\ Len(a) = pos /\ \A i \in 1..pos : a[i] = i
  <2>1. a \in [1..pos -> Nat] /\ DOMAIN a = 1..pos /\ \A i \in 1..pos : a[i] = i
    OBVIOUS
  <2> HIDE DEF a
  <2> QED
    BY <2>1, LenProperties
<1>2. c \in Seq(Nat) /\ Len(c) = n /\ \A i \in 1..n : c[i] = pos + i
  <2>1. c \in [1..n -> Nat] /\ DOMAIN c = 1..n /\ \A i \in 1..n : c[i] = pos + i
    BY DEF Bytes
  <2> HIDE DEF c
  <2> QED
    BY <2>1, LenProperties
<1>3. z \in Seq(Nat) /\ Len(z) = pos + n /\ \A i \in 1..(pos + n) : z[i] = i
  <2>1. z \in [1..(pos + n) -> Nat] /\ DOMAIN z = 1..(pos + n) /\ \A i \in 1..(pos + n) : z[i] = i
    OBVIOUS
  <2> HIDE DEF z
  <2>2. pos + n \in Nat
    OBVIOUS
  <2> QED
    BY <2>1, <2>2, LenProperties
<1> HIDE DEF a, c, z
<1>4. /\ a \o c \in Seq(Nat) /\ Len(a \o c) = pos + n
      /\ \A i \in 1..pos : (a \o c)[i] = a[i]
      /\ \A i \in 1..n : (a \o c)[pos + i] = c[i]
  <2>1. a \in Seq(Nat) /\ c \in Seq(Nat)
    BY <1>1, <1>2
  <2>2. /\ a \o c \in Seq(Nat) /\ Len(a \o c) = Len(a) + Len(c)
        /\ \A i \in 1..Len(a) : (a \o c)[i] = a[i]
        /\ \A i \in 1..Len(c) : (a \o c)[Len(a) + i] = c[i]
    BY <2>1, ConcatAt
  <2>3. Len(a) = pos /\ Len(c) = n
    BY <1>1, <1>2
  <2> QED
    BY <2>2, <2>3
<1>5. ASSUME NEW i \in 1..(pos + n) PROVE (a \o c)[i] = z[i]
  <2>1. CASE i <= pos
    BY <1>1, <1>3, <1>4, <2>1
  <2>2. CASE ~(i <= pos)
    <3>1. i - pos \in 1..n /\ pos + (i - pos) = i
      BY <2>2
    <3>2. (a \o c)[pos + (i - pos)] = c[i - pos]
      BY <1>4, <3>1
    <3>3. c[i - pos] = pos + (i - pos)
      BY <1>2, <3>1
    <3> QED
      BY <1>3, <3>1, <3>2, <3>3
  <2> QED
    BY <2>1, <2>2
<1>6. a \o c = z
  BY <1>3, <1>4, <1>5, SeqEqual
<1> QED
  BY <1>6 DEF a, c, z

LEMMA ConcatSet ==
    ASSUME NEW S, NEW p \in Seq(S), NEW q \in Seq(S)
    PROVE  ToSet(p \o q) = ToSet(p) \cup ToSet(q)
<1> DEFINE c == p \o q
<1>1. /\ c \in Seq(S) /\ Len(p) \in Nat /\ Len(q) \in Nat /\ Len(c) = Len(p) + Len(q)
      /\ \A i \in 1..Len(p) : c[i] = p[i]
      /\ \A i \in 1..Len(q) : c[Len(p) + i] = q[i]
  BY ConcatAt
<1> HIDE DEF c
<1>2. \A i \in 1..Len(p) : p[i] \in ToSet(p)
  BY SeqBasics
<1>3. \A i \in 1..Len(q) : q[i] \in ToSet(q)
  BY SeqBasics
<1>4. \A i \in 1..Len(c) : c[i] \in ToSet(c)
  BY <1>1, SeqBasics
<1>5. ASSUME NEW e \in ToSet(c) PROVE e \in ToSet(p) \cup ToSet(q)
  <2>1. PICK i \in 1..Len(c) : c[i] = e
    BY <1>1, SeqBasics
  <2>2. CASE i <= Len(p)
    BY <1>1, <1>2, <2>1, <2>2
  <2>3. CASE ~(i <= Len(p))
    <3>1. i - Len(p) \in 1..Len(q) /\ Len(p) + (i - Len(p)) = i
      BY <1>1, <2>1, <2>3
    <3>2. c[Len(p) + (i - Len(p))] = q[i - Len(p)]
      BY <1>1, <3>1
    <3> QED
      BY <1>3, <2>1, <3>1, <3>2
  <2> QED
    BY <2>2, <2>3
<1>6. ASSUME NEW e \in ToSet(p) PROVE e \in ToSet(c)
  <2>1. PICK i \in 1..Len(p) : p[i] = e
    BY SeqBasics
  <2>2. i \in 1..Len(c) /\ c[i] = e
    BY <1>1, <2>1
  <2> QED
    BY <1>4, <2>2
<1>7. ASSUME NEW e \in ToSet(q) PROVE e \in ToSet(c)
  <2>1. PICK i \in 1..Len(q) : q[i] = e
    BY SeqBasics
  <2>2. Len(p) + i \in 1..Len(c) /\ c[Len(p) + i] = e
    BY <1>1, <2>1
  <2> QED
    BY <1>4, <2>2
<1> QED
  BY <1>5, <1>6, <1>7 DEF c

\* n bytes more, behind the first ones.
LEMMA WholeGrows ==
    ASSUME pos \in Nat, NEW n \in Nat, pos' = pos + n, displaced' = displaced
    PROVE  \A w : Whole(w, pos, displaced) => Whole(w \o Bytes(n), pos', displaced')
<1> SUFFICES ASSUME NEW w, Whole(w, pos, displaced) PROVE Whole(w \o Bytes(n), pos', displaced')
  OBVIOUS
<1> DEFINE c == Bytes(n)
<1>1. c \in Seq(Nat) /\ Len(c) = n /\ \A i \in 1..n : c[i] = pos + i
  <2>1. c \in [1..n -> Nat] /\ DOMAIN c = 1..n /\ \A i \in 1..n : c[i] = pos + i
    BY DEF Bytes
  <2> HIDE DEF c
  <2> QED
    BY <2>1, LenProperties
<1>2. [i \in 1..pos |-> i] \o c = [i \in 1..(pos + n) |-> i]
  BY BytesFollow
<1> HIDE DEF c
<1>3. w \in Seq(Nat) /\ Len(w) = pos /\ ToSet(w) = 1..pos /\ (~displaced => w = [i \in 1..pos |-> i])
  BY DEF Whole
<1>4. w \o c \in Seq(Nat) /\ Len(w \o c) = pos + n /\ ToSet(w \o c) = 1..pos \cup ToSet(c)
  <2>1. w \in Seq(Nat) /\ c \in Seq(Nat)
    BY <1>1, <1>3
  <2>2. w \o c \in Seq(Nat) /\ Len(w \o c) = Len(w) + Len(c)
    BY <2>1, ConcatAt
  <2>3. ToSet(w \o c) = ToSet(w) \cup ToSet(c)
    BY <2>1, ConcatSet
  <2> QED
    BY <1>1, <1>3, <2>2, <2>3
<1>5. ToSet(c) = (pos + 1)..(pos + n)
  <2>1. \A i \in 1..n : c[i] \in ToSet(c)
    BY <1>1, SeqBasics
  <2>2. \A e \in ToSet(c) : \E i \in 1..n : c[i] = e
    BY <1>1, SeqBasics
  <2>3. ASSUME NEW e \in ToSet(c) PROVE e \in (pos + 1)..(pos + n)
    BY <1>1, <2>2
  <2>4. ASSUME NEW e \in (pos + 1)..(pos + n) PROVE e \in ToSet(c)
    <3>1. e - pos \in 1..n /\ pos + (e - pos) = e
      OBVIOUS
    <3>2. c[e - pos] = e
      BY <1>1, <3>1
    <3> QED
      BY <2>1, <3>1, <3>2
  <2> QED
    BY <2>3, <2>4
<1>6. 1..pos \cup (pos + 1)..(pos + n) = 1..(pos + n)
  OBVIOUS
<1>7. Whole(w \o c, pos', displaced')
  BY <1>2, <1>3, <1>4, <1>5, <1>6 DEF Whole
<1> QED
  BY <1>7 DEF c

-----------------------------------------------------------------------------
\* Who is first in line.
LEMMA FirstIs ==
    ASSUME IndInv
    PROVE  /\ recv_queue1 \in Seq(Task) /\ IsInjective(recv_queue1) /\ cur_alloc1 \in Task \cup {NULL}
           /\ First # NULL => First \in Task /\ waits[First]
           /\ First = NULL => cur_alloc1 = NULL /\ recv_queue1 = <<>> /\ \A t \in Task : ~waits[t]
           /\ cur_alloc1 # NULL => First = cur_alloc1
           /\ cur_alloc1 = NULL /\ recv_queue1 # <<>> => First = Head(recv_queue1)
           /\ recv_queue1 # <<>> => Head(recv_queue1) \in ToSet(recv_queue1)
<1>1. recv_queue1 \in Seq(Task) /\ IsInjective(recv_queue1) /\ cur_alloc1 \in Task \cup {NULL}
  BY DEF IndInv, TypeOK, QueueInv
<1>2. recv_queue1 # <<>> => Head(recv_queue1) \in ToSet(recv_queue1) /\ Head(recv_queue1) \in Task
  BY <1>1, Dequeue
<1>3. ToSet(recv_queue1) = {t \in Task : waits[t] /\ t # cur_alloc1} /\ (cur_alloc1 # NULL => waits[cur_alloc1])
  BY DEF IndInv, QueueInv
<1>4. First # NULL => First \in Task /\ waits[First]
  BY <1>1, <1>2, <1>3 DEF First
<1>5. First = NULL => cur_alloc1 = NULL /\ recv_queue1 = <<>>
  BY <1>1, <1>2, TillAssumption DEF First
<1>6. First = NULL => \A t \in Task : ~waits[t]
  <2>1. recv_queue1 = <<>> => ToSet(recv_queue1) = {}
    BY <1>1, SeqBasics
  <2> QED
    BY <1>3, <1>5, <2>1, TillAssumption
<1> QED
  BY <1>1, <1>2, <1>4, <1>5, <1>6 DEF First

LEMMA RequestIs ==
    ASSUME IndInv, NEW t \in Task
    PROVE  /\ req[t] \in Request /\ req[t].got \in Seq(1..Len(stream)) /\ req[t].got \in Seq(Nat)
           /\ Len(req[t].got) \in Nat /\ Len(req[t].got) <= req[t].len /\ req[t].len \in Nat \ {0}
           /\ <<req[t].len, req[t].pattern>> \in Requests \cup {<<1, <<>>>>}
           /\ buf1 \in Seq(1..Len(stream)) /\ buf1 \in Seq(Nat) /\ Len(buf1) \in Nat
<1>1. req[t] \in Request /\ Len(req[t].got) <= req[t].len /\ buf1 \in Seq(1..Len(stream))
  BY DEF IndInv, TypeOK
<1>2. <<req[t].len, req[t].pattern>> \in Requests \cup {<<1, <<>>>>}
  BY DEF IndInv, TypeOK
<1>3. req[t].got \in Seq(1..Len(stream)) /\ req[t].len \in Nat \ {0}
  BY <1>1 DEF Request
<1>4. Len(stream) \in Nat
  BY LenProperties DEF IndInv
<1>5. \A q : q \in Seq(1..Len(stream)) => q \in Seq(Nat) /\ Len(q) \in Nat
  BY <1>4, LenProperties
<1> QED
  BY <1>1, <1>2, <1>3, <1>5

LEMMA PendingFirst ==
    ASSUME IndInv, First # NULL
    PROVE  Pending(req[First], buf1)
<1>1. First \in Task /\ waits[First]
  BY FirstIs
<1>2. req[First] \in Request /\ buf1 \in Seq(1..Len(stream))
  BY <1>1, RequestIs
<1> QED
  BY <1>1, <1>2 DEF IndInv, Turns, Pending

\* The parts of the invariant about patterns, when the bytes of the stream stay.
LEMMA TurnsNext ==
    ASSUME stream' = stream,
           \A t \in Task : waits'[t] => /\ ret'[t] = "unfinished"
                                        /\ Len(req'[t].got) < req'[t].len
                                        /\ t # First' => req'[t].got = <<>>,
           First' # NULL => Clean(req'[First'], buf1'),
           First' # NULL /\ phase' \in {"loop", "alloc"} /\ async_cancel1' # "sent" => Settled(req'[First'], buf1'),
           First' # NULL /\ phase' = "alloc" /\ req'[First'].pattern = <<>> => buf1' = <<>>
    PROVE  Turns'
<1> DEFINE f == First'
           r == req'[f]
           b == buf1'
<1>1. Clean(r, b) => Clean(req[First], buf1)'
  BY DEF Clean, Ends
<1>2. Settled(r, b) => Settled(req[First], buf1)'
  BY DEF Settled
<1> QED
  BY <1>1, <1>2 DEF Turns, NoCancelPending

LEMMA PieceNext ==
    ASSUME stream' = stream,
           \A t \in Task : ret'[t] = "success" /\ ~waits'[t] => EndsRight(req'[t])
    PROVE  PieceEndsRight'
<1>1. ASSUME NEW t \in Task, EndsRight(req'[t])
      PROVE  EndsRight(req[t])'
  BY <1>1 DEF EndsRight, Ends, Left
<1> QED
  BY <1>1 DEF PieceEndsRight

\* Concatenation as an operator that the provers do not look into.
Cat(a, b) == a \o b

LEMMA CatFacts ==
    \A o, g, b \in Seq(Nat) : /\ Cat(o, g) \in Seq(Nat) /\ Cat(o, <<>>) = o
                              /\ Cat(Cat(o, g), b) = Cat(o, Cat(g, b))
<1> TAKE o, g, b \in Seq(Nat)
<1>1. o \o g \in Seq(Nat)
  BY ConcatProperties
<1>2. (o \o g) \o b = o \o (g \o b)
  BY ConcatAssociative
<1>3. o \o <<>> = o
  BY ConcatEmptySeq
<1> QED
  BY <1>1, <1>2, <1>3 DEF Cat

\* w is what was delivered, followed by what the first task has and the buffer.
InOrder(o, g, b, w) == (o \o g) \o b = w
SameBytes(h, c, g, b) == h \o c = g \o b

\* Bytes that move between the internal buffer, the first task and what has been
\* delivered stay in order, in front of the bytes that arrive.
LEMMA OrderMoves ==
    ASSUME NEW o \in Seq(Nat), NEW g \in Seq(Nat), NEW b \in Seq(Nat), NEW w, InOrder(o, g, b, w),
           NEW h \in Seq(Nat), NEW c \in Seq(Nat), NEW d \in Seq(Nat), SameBytes(h, c, g, b \o d)
    PROVE  InOrder(o, h, c, w \o d) /\ InOrder(o \o h, <<>>, c, w \o d) /\ o \o h \in Seq(Nat)
<1>1. /\ Cat(o, h) \in Seq(Nat) /\ Cat(Cat(o, h), <<>>) = Cat(o, h)
      /\ Cat(Cat(o, h), c) = Cat(o, Cat(h, c))
  BY CatFacts
<1>2. Cat(o, Cat(g, Cat(b, d))) = Cat(Cat(Cat(o, g), b), d)
  BY CatFacts
<1> QED
  BY <1>1, <1>2 DEF Cat, InOrder, SameBytes

\* The same while nothing arrives.
LEMMA OrderKeeps ==
    ASSUME NEW o \in Seq(Nat), NEW g \in Seq(Nat), NEW b \in Seq(Nat), NEW w, InOrder(o, g, b, w),
           NEW h \in Seq(Nat), NEW c \in Seq(Nat), SameBytes(h, c, g, b)
    PROVE  InOrder(o, h, c, w) /\ InOrder(o \o h, <<>>, c, w)
<1>1. /\ Cat(o, h) \in Seq(Nat) /\ Cat(Cat(o, h), <<>>) = Cat(o, h)
      /\ Cat(Cat(o, h), c) = Cat(o, Cat(h, c))
  BY CatFacts
<1>2. Cat(Cat(o, g), b) = Cat(o, Cat(g, b))
  BY CatFacts
<1> QED
  BY <1>1, <1>2 DEF Cat, InOrder, SameBytes

LEMMA InitOK == Init => IndInv
<1> SUFFICES ASSUME Init PROVE IndInv
  OBVIOUS
<1>1. stream \in Seq(Letters)
  BY TillAssumption DEF Init
<1>2. Len(stream) \in Nat
  BY <1>1, LenProperties
<1>3. NoRequest \in Request
  BY DEF NoRequest, Request
<1>4. TypeOK
  <2>1. pos \in 0..Len(stream)
    BY <1>2 DEF Init
  <2>2. /\ alive \in BOOLEAN /\ broken \in BOOLEAN /\ reading \in BOOLEAN
        /\ cur_alloc1 \in Task \cup {NULL}
        /\ size1 \in Nat /\ async_cancel1 \in {"none", "open", "sent"}
    BY DEF Init
  <2>7. recv_queue1 \in Seq(Task) /\ buf1 \in Seq(1..Len(stream))
    BY DEF Init
  <2>3. req \in [Task -> Request]
    BY <1>3 DEF Init
  <2>4. \A t \in Task : /\ <<req[t].len, req[t].pattern>> \in Requests \cup {<<1, <<>>>>}
                        /\ Len(req[t].got) <= req[t].len
    BY DEF Init, NoRequest
  <2>5. ret \in [Task -> {"unfinished", "success", "failure"}] /\ waits \in [Task -> BOOLEAN]
    BY DEF Init
  <2>6. /\ phase \in {"loop", "alloc", "stand", "check", "broken", "aborted", "freed", "null", "dangling"}
        /\ via \in {"sock", "async"} /\ iter \in Task \cup {NULL, End} /\ displaced \in BOOLEAN
    BY DEF Init
  <2> QED
    BY <2>1, <2>2, <2>3, <2>4, <2>5, <2>6, <2>7 DEF TypeOK
<1>5. QueueInv
  <2>1. ToSet(recv_queue1) = {} /\ IsInjective(recv_queue1)
    BY EmptyQueue DEF Init
  <2> QED
    BY <2>1 DEF Init, QueueInv
<1>6. Control
  BY DEF Init, Control, NoCancelPending
<1>7. Capacity
  BY DEF Init, Capacity
<1>8. First = NULL
  BY DEF Init, First
<1>9. Turns
  BY <1>8 DEF Init, Turns
<1>10. Order
  <2>1. (out \o FirstGot) \o buf1 = <<>> /\ pos = 0
    BY <1>8, ConcatEmptySeq DEF Init, FirstGot
  <2>2. [i \in 1..0 |-> i] = <<>> /\ 1..0 = {} /\ <<>> \in Seq(Nat) /\ Len(<<>>) = 0
    OBVIOUS
  <2> QED
    BY <2>1, <2>2, EmptyQueue DEF Order, Whole
<1>11. PieceEndsRight
  BY DEF Init, PieceEndsRight
<1>12. out \in Seq(Nat)
  BY DEF Init
<1> QED
  BY <1>1, <1>4, <1>5, <1>6, <1>7, <1>9, <1>10, <1>11, <1>12 DEF IndInv

-----------------------------------------------------------------------------
\* The requests, when that of t becomes r.
ReqOK == /\ req \in [Task -> Request]
         /\ \A t \in Task : /\ <<req[t].len, req[t].pattern>> \in Requests \cup {<<1, <<>>>>}
                            /\ Len(req[t].got) <= req[t].len

LEMMA ReqNext ==
    ASSUME IndInv, stream' = stream, NEW t \in Task, NEW r \in Request, Len(r.got) <= r.len,
           <<r.len, r.pattern>> \in Requests \cup {<<1, <<>>>>}, req' = [req EXCEPT ![t] = r]
    PROVE  ReqOK' /\ req'[t] = r /\ \A u \in Task : u # t => req'[u] = req[u]
<1>1. /\ req \in [Task -> Request]
      /\ \A u \in Task : /\ <<req[u].len, req[u].pattern>> \in Requests \cup {<<1, <<>>>>}
                         /\ Len(req[u].got) <= req[u].len
  BY DEF IndInv, TypeOK
<1>2. Request' = Request
  BY DEF Request
<1>3. req' \in [Task -> Request] /\ req'[t] = r /\ \A u \in Task : u # t => req'[u] = req[u]
  BY <1>1
<1>4. ASSUME NEW u \in Task
      PROVE  /\ <<req'[u].len, req'[u].pattern>> \in Requests \cup {<<1, <<>>>>}
             /\ Len(req'[u].got) <= req'[u].len
  BY <1>1, <1>3
<1> QED
  BY <1>2, <1>3, <1>4 DEF ReqOK

LEMMA NoRequestOK ==
    /\ NoRequest \in Request /\ NoRequest.got = <<>> /\ Len(NoRequest.got) <= NoRequest.len
    /\ <<NoRequest.len, NoRequest.pattern>> \in Requests \cup {<<1, <<>>>>}
BY DEF NoRequest, Request

LEMMA NewRequest ==
    ASSUME IndInv, NEW q \in Requests, NEW r, r = [len |-> q[1], pattern |-> q[2], got |-> <<>>]
    PROVE  /\ r \in Request /\ r.got = <<>> /\ Len(r.got) <= r.len /\ Pending(r, buf1)
           /\ <<r.len, r.pattern>> \in Requests \cup {<<1, <<>>>>}
<1>1. q \in (Nat \ {0}) \X Seq(Letters)
  BY TillAssumption
<1>2. q = <<q[1], q[2]>> /\ q[1] \in Nat \ {0} /\ q[2] \in Seq(Letters)
  BY <1>1
<1>3. r.len = q[1] /\ r.pattern = q[2] /\ r.got = <<>>
  OBVIOUS
<1>4. r \in Request
  BY <1>2 DEF Request
<1>5. Len(r.got) < r.len /\ Len(r.got) <= r.len
  BY <1>2, <1>3
<1>6. stream \in Seq(Letters) /\ buf1 \in Seq(1..Len(stream))
  BY DEF IndInv, TypeOK
<1>7. Clean(r, buf1)
  BY <1>3, <1>4, <1>6, FreshClean
<1> QED
  BY <1>2, <1>3, <1>4, <1>5, <1>6, <1>7 DEF Pending

\* Steps that change neither the tasks nor the internal buffer.
LEMMA TurnsFrame ==
    ASSUME IndInv, UNCHANGED <<stream, buf1, req, ret, waits>>, First' = First,
           First # NULL /\ phase' \in {"loop", "alloc"} /\ async_cancel1' # "sent" => Settled(req[First], buf1),
           First # NULL /\ phase' = "alloc" /\ req[First].pattern = <<>> => buf1 = <<>>
    PROVE  Turns' /\ PieceEndsRight'
<1>1. /\ \A t \in Task : waits[t] => /\ ret[t] = "unfinished"
                                     /\ Len(req[t].got) < req[t].len
                                     /\ t # First => req[t].got = <<>>
      /\ First # NULL => Clean(req[First], buf1)
      /\ \A t \in Task : ret[t] = "success" /\ ~waits[t] => EndsRight(req[t])
  BY DEF IndInv, Turns, PieceEndsRight
<1>2. Turns'
  BY <1>1, TurnsNext
<1>3. PieceEndsRight'
  BY <1>1, PieceNext
<1> QED
  BY <1>2, <1>3

LEMMA TypeFrame ==
    ASSUME IndInv, UNCHANGED <<stream, req, ret>>
    PROVE  ReqOK' /\ ret' \in [Task -> {"unfinished", "success", "failure"}]
<1>1. Request' = Request
  BY DEF Request
<1> QED
  BY <1>1 DEF IndInv, TypeOK, ReqOK

LEMMA DestroyOK ==
    ASSUME IndInv, Destroy
    PROVE  IndInv'
<1>1. /\ UserCode /\ \A t \in Task : ~waits[t]
      /\ alive' = FALSE /\ reading' = FALSE /\ async_cancel1' = "none" /\ buf1' = <<>> /\ size1' = 0
      /\ UNCHANGED <<stream, pos, broken, recv_queue1, cur_alloc1, req, ret, waits, phase, via, iter, out, displaced>>
  BY DEF Destroy, taskVars
<1>2. First = NULL /\ First' = First /\ FirstGot' = <<>>
  <2>1. First = NULL
    BY <1>1, FirstIs
  <2> QED
    BY <1>1, <2>1 DEF First, FirstGot
<1>3. TypeOK'
  <2>1. buf1' \in Seq(1..Len(stream'))
    BY <1>1
  <2> QED
    BY <1>1, <2>1, TypeFrame DEF IndInv, TypeOK, ReqOK
<1>4. QueueInv' /\ stream' \in Seq(Letters) /\ out' \in Seq(Nat)
  BY <1>1 DEF IndInv, QueueInv
<1>5. Control'
  BY <1>1 DEF IndInv, Control, UserCode, Begin, Erased
<1>6. Capacity'
  BY <1>1 DEF IndInv, Capacity, UserCode
<1>7. Turns'
  <2>1. First' = NULL
    BY <1>2
  <2> QED
    BY <1>1, <2>1 DEF Turns
<1>8. PieceEndsRight'
  BY <1>1, PieceNext DEF IndInv, PieceEndsRight
<1>9. Order'
  BY <1>1 DEF Order
<1> QED
  BY <1>3, <1>4, <1>5, <1>6, <1>7, <1>8, <1>9 DEF IndInv

LEMMA AllocCb1OK ==
    ASSUME IndInv, AllocCb1
    PROVE  IndInv'
<1>1. /\ phase = "loop" /\ reading /\ recv_queue1 # <<>> /\ cur_alloc1 = NULL
      /\ cur_alloc1' = Head(recv_queue1) /\ recv_queue1' = Tail(recv_queue1)
      /\ size1' = IF req[Head(recv_queue1)].pattern # <<>> /\ size1 = 0 THEN FirstSize ELSE size1
      /\ phase' = "alloc" /\ (req[Head(recv_queue1)].pattern = <<>> => buf1 = <<>>)
      /\ UNCHANGED <<stream, pos, alive, broken, reading, buf1, async_cancel1, req, ret, waits, via, iter, out, displaced>>
  BY DEF AllocCb1, AllocOK, AllocChecks, taskVars
<1>2. alive /\ ~broken
  BY <1>1 DEF IndInv, Control
<1> DEFINE t == Head(recv_queue1)
<1>3. /\ recv_queue1' \in Seq(Task) /\ IsInjective(recv_queue1')
      /\ t \in Task /\ t \in ToSet(recv_queue1) /\ ToSet(recv_queue1') = ToSet(recv_queue1) \ {t}
  BY <1>1, FirstIs, Dequeue
<1>4. First = t /\ First' = t /\ waits[t] /\ t # NULL
  BY <1>1, <1>3, FirstIs, TillAssumption DEF First
<1> HIDE DEF t
<1>5. TypeOK'
  <2>1. size1' \in Nat
    BY <1>1, TillAssumption DEF IndInv, TypeOK
  <2> QED
    BY <1>1, <1>3, <2>1, TypeFrame DEF IndInv, TypeOK, ReqOK, t
<1>6. QueueInv' /\ stream' \in Seq(Letters) /\ out' \in Seq(Nat)
  <2>1. cur_alloc1' = t
    BY <1>1 DEF t
  <2>2. ToSet(recv_queue1) = {u \in Task : waits[u] /\ u # NULL}
    BY <1>1 DEF IndInv, QueueInv
  <2>3. ToSet(recv_queue1') = {u \in Task : waits'[u] /\ u # cur_alloc1'}
    BY <1>1, <1>3, <2>1, <2>2, TillAssumption
  <2> QED
    BY <1>1, <1>3, <1>4, <2>1, <2>3 DEF IndInv, QueueInv
<1>7. Control'
  BY <1>1, <1>2, <1>4 DEF IndInv, Control, t
<1>8. Capacity'
  <2>1. Len(buf1) <= size1 /\ size1 \in Nat /\ Len(buf1) \in Nat
    BY LenProperties DEF IndInv, TypeOK, Capacity
  <2>2. Len(buf1) <= size1'
    BY <1>1, <2>1, TillAssumption
  <2>3. req[t].pattern # <<>> => size1' # 0
    BY <1>1, TillAssumption DEF t
  <2> QED
    BY <1>1, <2>2, <2>3 DEF Capacity, t
<1>9. Turns' /\ PieceEndsRight'
  BY <1>1, <1>4, TurnsFrame DEF t, IndInv, Turns, NoCancelPending
<1>10. Order'
  BY <1>1, <1>4 DEF IndInv, Order, FirstGot
<1> QED
  BY <1>5, <1>6, <1>7, <1>8, <1>9, <1>10 DEF IndInv

LEMMA AllocCb1AbortsOK ==
    ASSUME IndInv, AllocCb1Aborts
    PROVE  IndInv'
<1>1. /\ phase = "loop" /\ reading /\ phase' = "aborted"
      /\ UNCHANGED <<stream, pos, alive, broken, reading, recv_queue1, cur_alloc1, buf1, size1,
                     async_cancel1, req, ret, waits, via, iter, out, displaced>>
  BY DEF AllocCb1Aborts, connVars, taskVars
<1>2. First' = First /\ cur_alloc1 = NULL
  BY <1>1 DEF First, IndInv, Control
<1>3. TypeOK'
  BY <1>1, TypeFrame DEF IndInv, TypeOK, ReqOK
<1>4. QueueInv'
  BY <1>1 DEF IndInv, QueueInv
<1>5. Control' /\ Capacity'
  BY <1>1, <1>2 DEF IndInv, Control, Capacity
<1>6. Turns' /\ PieceEndsRight'
  BY <1>1, <1>2, TurnsFrame
<1>7. Order'
  BY <1>1, <1>2 DEF IndInv, Order, FirstGot
<1> QED
  BY <1>1, <1>3, <1>4, <1>5, <1>6, <1>7 DEF IndInv

\* A task that is being served, put back to the front.
LEMMA ToFront ==
    ASSUME IndInv, phase = "alloc", BackToFront
    PROVE  /\ cur_alloc1 \in Task /\ waits[cur_alloc1] /\ First = cur_alloc1 /\ First' = cur_alloc1
           /\ recv_queue1' \in Seq(Task) /\ recv_queue1' # <<>> /\ cur_alloc1' = NULL
           /\ waits' = waits => QueueInv'
           /\ alive /\ ~broken /\ reading
<1> DEFINE t == cur_alloc1
<1>1. t # NULL /\ t \in Task /\ waits[t] /\ First = t
  BY FirstIs DEF IndInv, Control
<1>2. recv_queue1' = <<t>> \o recv_queue1 /\ cur_alloc1' = NULL
  BY DEF BackToFront
<1>3. ToSet(recv_queue1) = {u \in Task : waits[u] /\ u # t}
  BY DEF IndInv, QueueInv
<1> HIDE DEF t
<1>4. /\ recv_queue1' \in Seq(Task) /\ IsInjective(recv_queue1')
      /\ ToSet(recv_queue1') = ToSet(recv_queue1) \cup {t}
      /\ recv_queue1' # <<>> /\ Head(recv_queue1') = t
  BY <1>1, <1>2, <1>3, FirstIs, PutBackQueue
<1>5. First' = t
  BY <1>2, <1>4 DEF First
<1>6. waits' = waits => QueueInv'
  BY <1>1, <1>2, <1>3, <1>4, TillAssumption DEF QueueInv
<1>7. alive /\ ~broken /\ reading
  BY DEF IndInv, Control
<1> QED
  BY <1>1, <1>2, <1>4, <1>5, <1>6, <1>7 DEF t

LEMMA RecvCb1NothingOK ==
    ASSUME IndInv, RecvCb1Nothing
    PROVE  IndInv'
<1>1. /\ phase = "alloc" /\ BackToFront /\ phase' = "loop"
      /\ UNCHANGED <<stream, pos, alive, broken, reading, buf1, size1, async_cancel1, req, ret, waits, via, iter, out, displaced>>
  BY DEF RecvCb1Nothing, taskVars
<1>2. /\ First \in Task /\ First' = First /\ recv_queue1' \in Seq(Task) /\ recv_queue1' # <<>>
      /\ cur_alloc1' = NULL /\ QueueInv' /\ alive /\ ~broken /\ reading
  BY <1>1, ToFront
<1>3. TypeOK'
  BY <1>1, <1>2, TypeFrame DEF IndInv, TypeOK, ReqOK
<1>4. Control'
  BY <1>1, <1>2 DEF IndInv, Control
<1>5. Capacity'
  BY <1>1 DEF IndInv, Capacity
<1>6. Turns' /\ PieceEndsRight'
  BY <1>1, <1>2, TurnsFrame DEF IndInv, Turns, NoCancelPending
<1>7. Order'
  BY <1>1, <1>2 DEF IndInv, Order, FirstGot
<1> QED
  BY <1>1, <1>2, <1>3, <1>4, <1>5, <1>6, <1>7 DEF IndInv

LEMMA FallbackCb1OK ==
    ASSUME IndInv, FallbackCb1
    PROVE  IndInv'
<1>1. /\ phase = "loop" /\ async_cancel1 = "sent" /\ async_cancel1' = "open" /\ via' = "async" /\ phase' = "check"
      /\ UNCHANGED <<stream, pos, alive, broken, reading, recv_queue1, cur_alloc1, buf1, size1, req, ret, waits, iter, out, displaced>>
  BY DEF FallbackCb1, taskVars
<1>2. alive /\ ~broken /\ cur_alloc1 = NULL
  BY <1>1 DEF IndInv, Control
<1>3. First' = First
  BY <1>1 DEF First
<1>4. TypeOK'
  BY <1>1, TypeFrame DEF IndInv, TypeOK, ReqOK
<1>5. QueueInv'
  BY <1>1 DEF IndInv, QueueInv
<1>6. Control'
  BY <1>1, <1>2 DEF IndInv, Control
<1>7. Capacity'
  BY <1>1 DEF IndInv, Capacity
<1>8. Turns' /\ PieceEndsRight'
  BY <1>1, <1>3, TurnsFrame
<1>9. Order'
  BY <1>1, <1>3 DEF IndInv, Order, FirstGot
<1> QED
  BY <1>1, <1>4, <1>5, <1>6, <1>7, <1>8, <1>9 DEF IndInv

LEMMA CheckGoneOK ==
    ASSUME IndInv, CheckGone
    PROVE  IndInv'
<1>1. /\ phase = "stand" /\ ~alive
      /\ phase' = IF SeemsValid THEN "freed" ELSE "loop"
      /\ UNCHANGED <<stream, pos, alive, broken, reading, recv_queue1, cur_alloc1, buf1, size1,
                     async_cancel1, req, ret, waits, via, iter, out, displaced>>
  BY DEF CheckGone, connVars, taskVars
<1>2. phase' \in {"freed", "loop"}
  BY <1>1
<1>3. First' = First /\ First = NULL
  <2>1. First # NULL => First \in Task /\ waits[First]
    BY FirstIs
  <2>2. \A t \in Task : ~waits[t]
    BY <1>1 DEF IndInv, Control
  <2> QED
    BY <1>1, <2>1, <2>2 DEF First
<1>4. TypeOK'
  BY <1>1, <1>2, TypeFrame DEF IndInv, TypeOK, ReqOK
<1>5. QueueInv'
  BY <1>1 DEF IndInv, QueueInv
<1>6. Control'
  BY <1>1, <1>2 DEF IndInv, Control
<1>7. Capacity'
  BY <1>1, <1>2 DEF IndInv, Capacity
<1>8. Turns' /\ PieceEndsRight'
  BY <1>1, <1>3, TurnsFrame
<1>9. Order'
  BY <1>1 DEF Order
<1> QED
  BY <1>1, <1>4, <1>5, <1>6, <1>7, <1>8, <1>9 DEF IndInv

LEMMA CheckEndOK ==
    ASSUME IndInv, CheckEnd
    PROVE  IndInv'
<1>1. /\ phase \in {"stand", "check"} /\ alive /\ phase' = "loop"
      /\ buf1 = <<>> \/ recv_queue1 = <<>>
      /\ IF recv_queue1 = <<>> THEN reading' = FALSE /\ async_cancel1' = "none"
         ELSE UNCHANGED <<reading, async_cancel1>>
      /\ UNCHANGED <<stream, pos, alive, broken, recv_queue1, cur_alloc1, buf1, size1,
                     req, ret, waits, via, iter, out, displaced>>
  BY DEF CheckEnd, NobodyLeft, taskVars
<1>2. cur_alloc1 = NULL /\ ~broken /\ First' = First
  BY <1>1 DEF IndInv, Control, First
<1>3. CASE recv_queue1 = <<>>
  <2>1. First = NULL /\ \A t \in Task : ~waits[t]
    <3>1. First = NULL
      BY <1>2, <1>3 DEF First
    <3> QED
      BY <3>1, FirstIs
  <2>2. TypeOK'
    BY <1>1, <1>3, TypeFrame DEF IndInv, TypeOK, ReqOK
  <2>3. QueueInv'
    BY <1>1 DEF IndInv, QueueInv
  <2>4. Control'
    BY <1>1, <1>2, <1>3, <2>1 DEF IndInv, Control
  <2>5. Capacity'
    BY <1>1 DEF IndInv, Capacity
  <2>6. Turns' /\ PieceEndsRight'
    BY <1>1, <1>2, <2>1, TurnsFrame
  <2>7. Order'
    BY <1>1, <1>2 DEF IndInv, Order, FirstGot
  <2> QED
    BY <1>1, <2>2, <2>3, <2>4, <2>5, <2>6, <2>7 DEF IndInv
<1>4. CASE recv_queue1 # <<>>
  <2>1. First \in Task /\ buf1 = <<>>
    BY <1>1, <1>2, <1>4, FirstIs
  <2>2. TypeOK'
    BY <1>1, <1>4, TypeFrame DEF IndInv, TypeOK, ReqOK
  <2>3. QueueInv'
    BY <1>1 DEF IndInv, QueueInv
  <2>4. Control'
    BY <1>1, <1>2, <1>4 DEF IndInv, Control
  <2>5. Capacity'
    BY <1>1 DEF IndInv, Capacity
  <2>6. Settled(req[First], buf1)
    BY <2>1, RequestIs, SettledEmpty
  <2>7. Turns' /\ PieceEndsRight'
    BY <1>1, <1>2, <2>6, TurnsFrame
  <2>8. Order'
    BY <1>1, <1>2 DEF IndInv, Order, FirstGot
  <2> QED
    BY <1>1, <2>2, <2>3, <2>4, <2>5, <2>7, <2>8 DEF IndInv
<1> QED
  BY <1>3, <1>4

LEMMA BreakEndOK ==
    ASSUME IndInv, BreakEnd
    PROVE  IndInv'
<1>1. /\ phase = "broken"
      /\ ~alive \/ Position \notin ToSet(recv_queue1)
      /\ phase' = IF ~alive THEN "loop" ELSE IF Position = End THEN "null" ELSE "dangling"
      /\ UNCHANGED <<stream, pos, alive, broken, reading, recv_queue1, cur_alloc1, buf1, size1,
                     async_cancel1, req, ret, waits, via, iter, out, displaced>>
  BY DEF BreakEnd, connVars, taskVars
<1>2. broken /\ cur_alloc1 = NULL /\ First' = First
  BY <1>1 DEF IndInv, Control, First
<1>3. phase' \in {"loop", "null", "dangling"} /\ (phase' = "loop" => ~alive)
  BY <1>1
<1>4. ~alive => First = NULL
  <2>1. First # NULL => First \in Task /\ waits[First]
    BY FirstIs
  <2> QED
    BY <1>1, <2>1 DEF IndInv, Control
<1>5. phase' = "loop" => First = NULL
  BY <1>3, <1>4
<1>6. TypeOK'
  BY <1>1, <1>3, TypeFrame DEF IndInv, TypeOK, ReqOK
<1>7. QueueInv'
  BY <1>1 DEF IndInv, QueueInv
<1>8. Control'
  BY <1>1, <1>2, <1>3 DEF IndInv, Control
<1>9. Capacity'
  BY <1>1, <1>3 DEF IndInv, Capacity
<1>10. Turns' /\ PieceEndsRight'
  BY <1>1, <1>2, <1>3, <1>5, TurnsFrame
<1>11. Order'
  BY <1>1, <1>2 DEF Order
<1> QED
  BY <1>1, <1>6, <1>7, <1>8, <1>9, <1>10, <1>11 DEF IndInv

\* Whoever is next in line begins with nothing.
LEMMA NextClean ==
    ASSUME IndInv, NEW u \in Task, waits[u], u # First, NEW b \in Seq(1..Len(stream))
    PROVE  req[u].got = <<>> /\ Clean(req[u], b) /\ req[u] \in Request
<1>1. req[u].got = <<>> /\ req[u] \in Request /\ stream \in Seq(Letters)
  BY RequestIs DEF IndInv, Turns
<1> QED
  BY <1>1, FreshClean

LEMMA RecvCb1ErrorOK ==
    ASSUME IndInv, RecvCb1Error
    PROVE  IndInv'
<1> DEFINE t == cur_alloc1
<1>1. /\ phase = "alloc" /\ broken' = TRUE /\ phase' = "broken" /\ iter' = NULL /\ cur_alloc1' = NULL
      /\ ret' = [ret EXCEPT ![t] = "failure"] /\ waits' = [waits EXCEPT ![t] = FALSE]
      /\ req' = [req EXCEPT ![t] = NoRequest]
      /\ UNCHANGED <<stream, pos, alive, reading, recv_queue1, buf1, size1, async_cancel1, via, out, displaced>>
  BY DEF RecvCb1Error, Fail
<1>2. t # NULL /\ t \in Task /\ waits[t] /\ First = t /\ alive /\ reading
  BY <1>1, FirstIs DEF IndInv, Control
<1>3. ReqOK' /\ req'[t] = NoRequest /\ \A u \in Task : u # t => req'[u] = req[u]
  BY <1>1, <1>2, NoRequestOK, ReqNext
<1>4. /\ ret' \in [Task -> {"unfinished", "success", "failure"}] /\ waits' \in [Task -> BOOLEAN]
      /\ ret'[t] = "failure" /\ ~waits'[t]
      /\ \A u \in Task : u # t => waits'[u] = waits[u] /\ ret'[u] = ret[u]
  BY <1>1, <1>2 DEF IndInv, TypeOK
<1>5. TypeOK'
  BY <1>1, <1>3, <1>4 DEF IndInv, TypeOK, ReqOK
<1>6. QueueInv'
  BY <1>1, <1>2, <1>4, TillAssumption DEF IndInv, QueueInv
<1>7. Control'
  <2>1. \A u \in Task : waits'[u] => reading'
    BY <1>1, <1>2
  <2> QED
    BY <1>1, <1>2, <2>1 DEF IndInv, Control
<1>8. Capacity'
  BY <1>1 DEF IndInv, Capacity
<1>9. First' # NULL => First' \in Task /\ First' # t /\ waits[First']
  <2>1. recv_queue1 # <<>> => Head(recv_queue1) \in {u \in Task : waits[u] /\ u # t}
    BY FirstIs DEF IndInv, QueueInv
  <2> QED
    BY <1>1, <2>1 DEF First
<1>10. Turns'
  <2>1. ASSUME NEW u \in Task, waits'[u]
        PROVE  ret'[u] = "unfinished" /\ Len(req'[u].got) < req'[u].len /\ req'[u].got = <<>>
    BY <1>2, <1>3, <1>4, <2>1 DEF IndInv, Turns
  <2>2. ASSUME First' # NULL PROVE Clean(req'[First'], buf1')
    <3> DEFINE f == First'
    <3>1. f \in Task /\ f # First /\ waits[f] /\ req'[f] = req[f] /\ buf1' = buf1 /\ buf1 \in Seq(1..Len(stream))
      BY <1>1, <1>2, <1>3, <1>9, <2>2 DEF IndInv, TypeOK
    <3> HIDE DEF f
    <3>2. Clean(req'[f], buf1')
      BY <3>1, NextClean
    <3> QED
      BY <3>2 DEF f
  <2> QED
    BY <1>1, <2>1, <2>2, TurnsNext
<1>11. PieceEndsRight'
  <2>1. \A u \in Task : ret'[u] = "success" /\ ~waits'[u] => EndsRight(req'[u])
    BY <1>3, <1>4 DEF IndInv, PieceEndsRight
  <2> QED
    BY <1>1, <2>1, PieceNext
<1>12. Order'
  BY <1>1 DEF Order
<1> QED
  BY <1>1, <1>5, <1>6, <1>7, <1>8, <1>10, <1>11, <1>12 DEF IndInv

\* Where a queued task is, and the queue without it.
LEMMA UnqueuedIs ==
    ASSUME IndInv, NEW t \in ToSet(recv_queue1)
    PROVE  /\ t \in Task /\ PosOf(t) \in 1..Len(recv_queue1) /\ recv_queue1[PosOf(t)] = t
           /\ Unqueued(t) \in Seq(Task) /\ IsInjective(Unqueued(t))
           /\ ToSet(Unqueued(t)) = ToSet(recv_queue1) \ {t}
           /\ Len(recv_queue1) \in Nat /\ Len(Unqueued(t)) = Len(recv_queue1) - 1
           /\ \A i \in 1..(Len(recv_queue1) - 1) :
                  Unqueued(t)[i] = IF i < PosOf(t) THEN recv_queue1[i] ELSE recv_queue1[i + 1]
<1>1. recv_queue1 \in Seq(Task) /\ IsInjective(recv_queue1)
  BY FirstIs
<1>2. PosOf(t) \in 1..Len(recv_queue1) /\ recv_queue1[PosOf(t)] = t
  BY <1>1, PositionOf DEF PosOf
<1>3. t \in Task
  BY <1>1, SeqBasics
<1> DEFINE k == PosOf(t)
           r == RemoveAt(recv_queue1, k)
<1>4. k \in 1..Len(recv_queue1) /\ recv_queue1[k] = t
  BY <1>2
<1> HIDE DEF k
<1>5. /\ r \in Seq(Task) /\ IsInjective(r) /\ ToSet(r) = ToSet(recv_queue1) \ {t}
      /\ Len(r) = Len(recv_queue1) - 1 /\ Len(recv_queue1) \in Nat
      /\ \A i \in 1..(Len(recv_queue1) - 1) : r[i] = IF i < k THEN recv_queue1[i] ELSE recv_queue1[i + 1]
  BY <1>1, <1>4, EraseAt
<1>6. Unqueued(t) = r
  BY DEF Unqueued, k
<1> QED
  BY <1>2, <1>3, <1>5, <1>6 DEF k

\* The front of the queue stays, or the second is the new one.
LEMMA FrontIs ==
    ASSUME IndInv, NEW t \in ToSet(recv_queue1)
    PROVE  /\ recv_queue1 # <<>>
           /\ t # Head(recv_queue1) => Unqueued(t) # <<>> /\ Head(Unqueued(t)) = Head(recv_queue1)
           /\ t = Head(recv_queue1) => /\ PosOf(t) = 1
                                       /\ Len(recv_queue1) = 1 => Unqueued(t) = <<>>
                                       /\ Len(recv_queue1) # 1 => /\ Unqueued(t) # <<>>
                                                                  /\ Head(Unqueued(t)) = recv_queue1[2]
                                                                  /\ recv_queue1[2] \in Task
<1> DEFINE q == recv_queue1
           r == Unqueued(t)
           k == PosOf(t)
<1>1. q \in Seq(Task) /\ IsInjective(q)
  BY FirstIs
<1>2. /\ k \in 1..Len(q) /\ q[k] = t /\ r \in Seq(Task) /\ Len(q) \in Nat /\ Len(r) = Len(q) - 1
      /\ \A i \in 1..(Len(q) - 1) : r[i] = IF i < k THEN q[i] ELSE q[i + 1]
  BY UnqueuedIs
<1> HIDE DEF q, r, k
<1>3. Len(q) >= 1 /\ q # <<>> /\ Head(q) = q[1] /\ DOMAIN q = 1..Len(q) /\ 1 \in 1..Len(q) /\ k >= 1 /\ k \in Nat
  <2>1. Len(q) >= 1 /\ 1 \in 1..Len(q) /\ k >= 1 /\ k \in Nat
    BY <1>2
  <2>2. DOMAIN q = 1..Len(q) /\ q # <<>>
    BY <1>1, <1>2, <2>1, SeqBasics
  <2> QED
    BY <1>1, <2>1, <2>2, TailAt
<1>4. \A s \in Seq(Task) : Len(s) >= 1 => s # <<>> /\ Head(s) = s[1]
  BY HeadTailProperties, LenProperties
<1>5. ASSUME t # Head(q) PROVE r # <<>> /\ Head(r) = Head(q)
  <2>1. k # 1
    BY <1>2, <1>3, <1>5
  <2>2. 1 < k /\ 1 \in 1..(Len(q) - 1) /\ Len(r) >= 1
    BY <1>2, <1>3, <2>1
  <2>3. r[1] = q[1]
    BY <1>2, <2>2
  <2> QED
    BY <1>2, <1>3, <1>4, <2>2, <2>3
<1>6. ASSUME t = Head(q)
      PROVE  /\ k = 1 /\ Len(q) = 1 => r = <<>>
             /\ Len(q) # 1 => r # <<>> /\ Head(r) = q[2] /\ q[2] \in Task
  <2>1. k = 1
    BY <1>1, <1>2, <1>3, <1>6 DEF IsInjective
  <2>2. Len(q) = 1 => r = <<>>
    BY <1>2, SeqBasics
  <2>3. ASSUME Len(q) # 1 PROVE r # <<>> /\ Head(r) = q[2] /\ q[2] \in Task
    <3>1. 1 \in 1..(Len(q) - 1) /\ ~(1 < k) /\ Len(r) >= 1 /\ 2 \in 1..Len(q)
      BY <1>2, <1>3, <2>1, <2>3
    <3>2. r[1] = q[1 + 1]
      BY <1>2, <3>1
    <3>3. q[2] \in Task
      BY <1>1, <3>1, SeqBasics
    <3> QED
      BY <1>2, <1>4, <3>1, <3>2, <3>3
  <2> QED
    BY <2>1, <2>2, <2>3
<1>7. t = Head(q) => k = 1
  BY <1>1, <1>2, <1>3 DEF IsInjective
<1> QED
  BY <1>3, <1>5, <1>6, <1>7 DEF q, r, k

LEMMA BreakNextOK ==
    ASSUME IndInv, BreakNext
    PROVE  IndInv'
<1> DEFINE t == Position
<1>1. /\ phase = "broken" /\ alive /\ t \in ToSet(recv_queue1)
      /\ ret' = [ret EXCEPT ![t] = "failure"] /\ waits' = [waits EXCEPT ![t] = FALSE]
      /\ req' = [req EXCEPT ![t] = NoRequest]
      /\ recv_queue1' = Unqueued(t) /\ iter' = After(t)
      /\ UNCHANGED <<stream, pos, alive, broken, reading, cur_alloc1, buf1, size1, async_cancel1, phase, via, out, displaced>>
  BY DEF BreakNext, Fail
<1>2. broken /\ cur_alloc1 = NULL /\ t = Begin
  BY <1>1 DEF IndInv, Control, Position, Begin, Erased
<1> HIDE DEF t
<1>3. /\ t \in Task /\ recv_queue1' \in Seq(Task) /\ IsInjective(recv_queue1')
      /\ ToSet(recv_queue1') = ToSet(recv_queue1) \ {t} /\ Len(recv_queue1) \in Nat
  BY <1>1, UnqueuedIs
<1>4. recv_queue1 # <<>> /\ t = Head(recv_queue1)
  BY <1>1, <1>2, FrontIs DEF Begin
<1>5. /\ PosOf(t) = 1
      /\ Len(recv_queue1) = 1 => recv_queue1' = <<>>
      /\ Len(recv_queue1) # 1 => /\ recv_queue1' # <<>> /\ Head(recv_queue1') = recv_queue1[2]
                                 /\ recv_queue1[2] \in Task
  BY <1>1, <1>4, FrontIs
<1>6. First = t /\ waits[t]
  BY <1>1, <1>2, <1>4, FirstIs DEF IndInv, QueueInv
<1>7. iter' = Begin' /\ iter' \in Task \cup {NULL, End}
  <2>1. iter' = IF Len(recv_queue1) = 1 THEN End ELSE recv_queue1[2]
    BY <1>1, <1>5 DEF After
  <2>2. Begin' = IF recv_queue1' = <<>> THEN End ELSE Head(recv_queue1')
    BY DEF Begin
  <2> QED
    BY <1>5, <2>1, <2>2
<1>8. ReqOK' /\ req'[t] = NoRequest /\ \A u \in Task : u # t => req'[u] = req[u]
  BY <1>1, <1>3, NoRequestOK, ReqNext
<1>9. /\ ret' \in [Task -> {"unfinished", "success", "failure"}] /\ waits' \in [Task -> BOOLEAN]
      /\ ret'[t] = "failure" /\ ~waits'[t]
      /\ \A u \in Task : u # t => waits'[u] = waits[u] /\ ret'[u] = ret[u]
  BY <1>1, <1>3 DEF IndInv, TypeOK
<1>10. TypeOK'
  BY <1>1, <1>3, <1>7, <1>8, <1>9 DEF IndInv, TypeOK, ReqOK
<1>11. QueueInv'
  <2>1. ToSet(recv_queue1) = {u \in Task : waits[u] /\ u # NULL}
    BY <1>2 DEF IndInv, QueueInv
  <2>2. ToSet(recv_queue1') = {u \in Task : waits'[u] /\ u # cur_alloc1'}
    BY <1>1, <1>2, <1>3, <1>9, <2>1
  <2> QED
    BY <1>1, <1>2, <1>3, <2>2 DEF QueueInv
<1>12. Control'
  <2>1. \A u \in Task : waits'[u] => reading'
    BY <1>1, <1>9 DEF IndInv, Control
  <2> QED
    BY <1>1, <1>2, <1>7, <2>1 DEF IndInv, Control
<1>13. Capacity'
  BY <1>1 DEF IndInv, Capacity
<1>14. First' # NULL => First' \in Task /\ First' # t /\ waits[First']
  <2>1. recv_queue1' # <<>> => Head(recv_queue1') \in ToSet(recv_queue1')
    BY <1>3, Dequeue
  <2>2. ToSet(recv_queue1) \subseteq {u \in Task : waits[u]}
    BY DEF IndInv, QueueInv
  <2>3. First' = IF recv_queue1' # <<>> THEN Head(recv_queue1') ELSE NULL
    BY <1>1, <1>2 DEF First
  <2> QED
    BY <1>3, <2>1, <2>2, <2>3
<1>15. Turns'
  <2>1. ASSUME NEW u \in Task, waits'[u]
        PROVE  ret'[u] = "unfinished" /\ Len(req'[u].got) < req'[u].len /\ req'[u].got = <<>>
    BY <1>6, <1>8, <1>9, <2>1 DEF IndInv, Turns
  <2>2. ASSUME First' # NULL PROVE Clean(req'[First'], buf1')
    <3> DEFINE f == First'
    <3>1. f \in Task /\ f # First /\ waits[f] /\ req'[f] = req[f] /\ buf1' = buf1 /\ buf1 \in Seq(1..Len(stream))
      BY <1>1, <1>6, <1>8, <1>14, <2>2 DEF IndInv, TypeOK
    <3> HIDE DEF f
    <3>2. Clean(req'[f], buf1')
      BY <3>1, NextClean
    <3> QED
      BY <3>2 DEF f
  <2> QED
    BY <1>1, <2>1, <2>2, TurnsNext
<1>16. PieceEndsRight'
  <2>1. \A u \in Task : ret'[u] = "success" /\ ~waits'[u] => EndsRight(req'[u])
    BY <1>8, <1>9 DEF IndInv, PieceEndsRight
  <2> QED
    BY <1>1, <2>1, PieceNext
<1>17. Order'
  BY <1>1, <1>2 DEF Order
<1> QED
  BY <1>1, <1>10, <1>11, <1>12, <1>13, <1>15, <1>16, <1>17 DEF IndInv

\* What a canceled task had goes behind the internal buffer.
LEMMA WholePutBack ==
    ASSUME NEW o \in Seq(Nat), NEW g \in Seq(Nat), NEW b \in Seq(Nat), NEW p, NEW d \in BOOLEAN,
           Whole((o \o g) \o b, p, d)
    PROVE  Whole((o \o <<>>) \o (b \o g), p, d \/ (b # <<>> /\ g # <<>>))
<1> DEFINE v == g \o b
           w == b \o g
<1>1. v \in Seq(Nat) /\ w \in Seq(Nat) /\ Len(w) = Len(v) /\ ToSet(w) = ToSet(v)
  <2>1. Len(g) \in Nat /\ Len(b) \in Nat /\ Len(v) = Len(g) + Len(b) /\ Len(w) = Len(b) + Len(g)
    BY ConcatAt
  <2>2. v \in Seq(Nat) /\ w \in Seq(Nat)
    BY ConcatAt
  <2>3. ToSet(v) = ToSet(g) \cup ToSet(b) /\ ToSet(w) = ToSet(b) \cup ToSet(g)
    BY ConcatSet
  <2> HIDE DEF v, w
  <2> QED
    BY <2>1, <2>2, <2>3
<1>2. (o \o g) \o b = o \o v /\ (o \o <<>>) \o w = o \o w
  <2>1. (o \o g) \o b = o \o (g \o b)
    BY ConcatAssociative
  <2>2. o \o <<>> = o
    BY ConcatEmptySeq
  <2> QED
    BY <2>1, <2>2
<1>3. b = <<>> \/ g = <<>> => w = v
  <2>1. g \o <<>> = g /\ <<>> \o g = g /\ b \o <<>> = b /\ <<>> \o b = b
    BY ConcatEmptySeq
  <2> QED
    BY <2>1
<1> HIDE DEF v, w
<1>4. /\ o \o v \in Seq(Nat) /\ Len(o \o v) = Len(o) + Len(v) /\ ToSet(o \o v) = ToSet(o) \cup ToSet(v)
      /\ o \o w \in Seq(Nat) /\ Len(o \o w) = Len(o) + Len(w) /\ ToSet(o \o w) = ToSet(o) \cup ToSet(w)
  <2>1. v \in Seq(Nat) /\ w \in Seq(Nat)
    BY <1>1
  <2>2. /\ o \o v \in Seq(Nat) /\ Len(o \o v) = Len(o) + Len(v)
        /\ o \o w \in Seq(Nat) /\ Len(o \o w) = Len(o) + Len(w)
    BY <2>1, ConcatAt
  <2>3. ToSet(o \o v) = ToSet(o) \cup ToSet(v) /\ ToSet(o \o w) = ToSet(o) \cup ToSet(w)
    BY <2>1, ConcatSet
  <2> QED
    BY <2>2, <2>3
<1>5. Whole(o \o v, p, d)
  BY <1>2
<1>6. Whole(o \o w, p, d \/ (b # <<>> /\ g # <<>>))
  BY <1>1, <1>3, <1>4, <1>5 DEF Whole
<1> QED
  BY <1>2, <1>6 DEF w

LEMMA CancelOK ==
    ASSUME IndInv, NEW t \in Task, Cancel(t)
    PROVE  IndInv'
<1>2. /\ UserCode /\ waits[t] /\ recv_queue1' = Unqueued(t)
      /\ size1' = CapacityFor(Len(req[t].got)) /\ buf1' = buf1 \o req[t].got
      /\ async_cancel1' = "sent" /\ waits' = [waits EXCEPT ![t] = FALSE]
      /\ req' = [req EXCEPT ![t] = NoRequest]
      /\ displaced' = (displaced \/ (buf1 # <<>> /\ req[t].got # <<>>))
      /\ UNCHANGED <<stream, pos, alive, broken, reading, cur_alloc1, ret, phase, via, iter, out>>
  BY DEF Cancel
<1>3. alive /\ cur_alloc1 = NULL /\ reading /\ phase \in {"loop", "stand", "broken"}
  BY <1>2 DEF IndInv, Control, UserCode
<1>1. t \in ToSet(recv_queue1)
  BY <1>2, <1>3, TillAssumption DEF IndInv, QueueInv
<1>4. /\ recv_queue1' \in Seq(Task) /\ IsInjective(recv_queue1')
      /\ ToSet(recv_queue1') = ToSet(recv_queue1) \ {t} /\ Len(recv_queue1) \in Nat
  BY <1>1, <1>2, UnqueuedIs
<1>5. First = Head(recv_queue1) /\ recv_queue1 # <<>> /\ First \in Task
  BY <1>1, <1>3, FrontIs, FirstIs, TailAt
\* Only the first task has anything to put back.
<1>6. /\ t # First => req[t].got = <<>> /\ recv_queue1' # <<>> /\ Head(recv_queue1') = First
      /\ req[t].got \in Seq(Nat) /\ req[t].got \in Seq(1..Len(stream)) /\ Len(req[t].got) \in Nat
      /\ buf1 \in Seq(Nat) /\ buf1 \in Seq(1..Len(stream)) /\ Len(buf1) \in Nat
  <2>1. t # First => req[t].got = <<>>
    BY <1>2 DEF IndInv, Turns
  <2>2. t # First => recv_queue1' # <<>> /\ Head(recv_queue1') = First
    BY <1>1, <1>2, <1>5, FrontIs
  <2> QED
    BY <2>1, <2>2, RequestIs
<1>7. /\ buf1' \in Seq(1..Len(stream)) /\ Len(buf1') = Len(buf1) + Len(req[t].got)
      /\ t # First => buf1' = buf1
  <2>1. buf1' \in Seq(1..Len(stream)) /\ Len(buf1') = Len(buf1) + Len(req[t].got)
    BY <1>2, <1>6, ConcatAt
  <2>2. buf1 \o <<>> = buf1
    BY <1>6, ConcatEmptySeq
  <2> QED
    BY <1>2, <1>6, <2>1, <2>2
<1>8. size1' \in Nat /\ Len(buf1') <= size1'
  <2>1. size1 \in Nat /\ Len(buf1) <= size1
    BY DEF IndInv, TypeOK, Capacity
  <2>2. \A z, b, n \in Nat : b <= z =>
            LET k == IF n > z - b THEN z + b + n ELSE z IN k \in Nat /\ b + n <= k
    OBVIOUS
  <2> QED
    BY <1>2, <1>6, <1>7, <2>1, <2>2 DEF CapacityFor
<1>9. ReqOK' /\ req'[t] = NoRequest /\ \A u \in Task : u # t => req'[u] = req[u]
  BY <1>2, NoRequestOK, ReqNext
<1>10. /\ waits' \in [Task -> BOOLEAN] /\ ~waits'[t] /\ \A u \in Task : u # t => waits'[u] = waits[u]
  BY <1>2 DEF IndInv, TypeOK
<1>11. TypeOK'
  BY <1>2, <1>4, <1>7, <1>8, <1>9, <1>10 DEF IndInv, TypeOK, ReqOK
<1>12. QueueInv'
  <2>1. ToSet(recv_queue1) = {u \in Task : waits[u] /\ u # NULL}
    BY <1>3 DEF IndInv, QueueInv
  <2>2. ToSet(recv_queue1') = {u \in Task : waits'[u] /\ u # cur_alloc1'}
    BY <1>2, <1>3, <1>4, <1>10, <2>1
  <2> QED
    BY <1>2, <1>3, <1>4, <2>2 DEF QueueInv
<1>13. Control'
  <2>1. \A u \in Task : waits'[u] => reading'
    BY <1>2, <1>3
  <2>2. Begin = First
    BY <1>5 DEF Begin
  <2>3. iter = Begin => iter = Begin' \/ Erased(iter)'
    BY <1>2, <1>4, <1>5, <1>6, <2>2 DEF Begin, Erased
  <2>4. Erased(iter) => Erased(iter)'
    BY <1>2, <1>4 DEF Erased
  <2>5. phase' = "broken" => broken' /\ (iter' # NULL => iter' = Begin' \/ Erased(iter)')
    BY <1>2, <2>3, <2>4 DEF IndInv, Control
  <2>6. ~NoCancelPending'
    BY <1>2 DEF NoCancelPending
  <2> QED
    BY <1>2, <1>3, <2>1, <2>5, <2>6 DEF IndInv, Control
<1>14. Capacity'
  BY <1>2, <1>3, <1>8 DEF Capacity
<1> DEFINE f == First'
<1>15. /\ f # NULL => f \in Task /\ f # t /\ waits[f] /\ req'[f] = req[f]
       /\ t # First => f = First
  <2>1. recv_queue1' # <<>> => Head(recv_queue1') \in ToSet(recv_queue1')
    BY <1>4, Dequeue
  <2>2. ToSet(recv_queue1) \subseteq {u \in Task : waits[u]}
    BY DEF IndInv, QueueInv
  <2>3. f = IF recv_queue1' # <<>> THEN Head(recv_queue1') ELSE NULL
    BY <1>2, <1>3 DEF First
  <2> QED
    BY <1>4, <1>6, <1>9, <2>1, <2>2, <2>3
<1> HIDE DEF f
<1>16. f # NULL => Clean(req[f], buf1') /\ (t = First => req[f].got = <<>>)
  <2>1. CASE t # First
    BY <1>5, <1>7, <1>15, <2>1, TillAssumption DEF IndInv, Turns
  <2>2. CASE t = First
    BY <1>7, <1>15, <2>2, NextClean
  <2> QED
    BY <2>1, <2>2
<1>17. Turns'
  <2>1. ASSUME NEW u \in Task, waits'[u]
        PROVE  ret'[u] = "unfinished" /\ Len(req'[u].got) < req'[u].len /\ (u # f => req'[u].got = <<>>)
    <3>1. u # t /\ waits[u] /\ req'[u] = req[u] /\ ret'[u] = ret[u]
      BY <1>2, <1>9, <1>10, <2>1
    <3>2. u # f => u # First
      BY <1>15, <3>1
    <3> QED
      BY <3>1, <3>2 DEF IndInv, Turns
  <2>2. f # NULL => Clean(req'[f], buf1')
    BY <1>15, <1>16
  <2>3. phase' # "alloc"
    BY <1>2, <1>3
  <2> QED
    BY <1>2, <2>1, <2>2, <2>3, TurnsNext DEF f
<1>18. PieceEndsRight'
  <2>1. \A u \in Task : ret'[u] = "success" /\ ~waits'[u] => EndsRight(req'[u])
    <3>1. ret'[t] = "unfinished"
      BY <1>2, <1>3 DEF IndInv, Turns
    <3> QED
      BY <1>2, <1>9, <1>10, <3>1 DEF IndInv, PieceEndsRight
  <2> QED
    BY <1>2, <2>1, PieceNext
<1>19. Order'
  <2>1. FirstGot = req[First].got
    BY <1>5, TillAssumption DEF FirstGot
  <2>2. FirstGot' = IF f = NULL THEN <<>> ELSE req'[f].got
    BY DEF FirstGot, f
  <2>3. CASE t # First
    <3>1. FirstGot' = FirstGot /\ buf1' = buf1 /\ displaced' = displaced
      BY <1>2, <1>5, <1>6, <1>7, <1>15, <2>1, <2>2, <2>3, TillAssumption DEF IndInv, TypeOK
    <3> QED
      BY <1>2, <3>1 DEF IndInv, Order
  <2>4. CASE t = First
    <3>1. FirstGot' = <<>>
      BY <1>15, <1>16, <2>2, <2>4
    <3> DEFINE o == out
               g == req[t].got
               b == buf1
    <3>2. o \in Seq(Nat) /\ g \in Seq(Nat) /\ b \in Seq(Nat) /\ displaced \in BOOLEAN
      BY <1>6 DEF IndInv, TypeOK
    <3>3. alive /\ ~broken => Whole((o \o g) \o b, pos, displaced)
      BY <2>1, <2>4 DEF IndInv, Order
    <3>4. /\ out' = o /\ buf1' = b \o g /\ pos' = pos /\ displaced' = (displaced \/ (b # <<>> /\ g # <<>>))
          /\ alive' = alive /\ broken' = broken
      BY <1>2
    <3> HIDE DEF o, g, b
    <3>5. alive /\ ~broken => Whole((o \o <<>>) \o (b \o g), pos, displaced \/ (b # <<>> /\ g # <<>>))
      BY <3>2, <3>3, WholePutBack
    <3> QED
      BY <3>1, <3>4, <3>5 DEF Order
  <2> QED
    BY <2>3, <2>4
<1> QED
  BY <1>2, <1>11, <1>12, <1>13, <1>14, <1>17, <1>18, <1>19 DEF IndInv

\* recv_till::run, at once.
LEMMA RunAtOnceOK ==
    ASSUME IndInv, NEW t \in Task, NEW q \in Requests, NEW r,
           r = [len |-> q[1], pattern |-> q[2], got |-> <<>>], RunAtOnce(t, r)
    PROVE  IndInv'
<1> DEFINE x == Remaining(r, buf1)
<1>1. /\ UserCode /\ ~waits[t] /\ ~broken /\ recv_queue1 = <<>> /\ x.done
      /\ buf1' = x.buf /\ req' = [req EXCEPT ![t] = x.req]
      /\ ret' = [ret EXCEPT ![t] = "success"] /\ out' = out \o x.req.got
      /\ UNCHANGED <<stream, pos, alive, broken, reading, recv_queue1, cur_alloc1, size1,
                     async_cancel1, waits, phase, via, iter, displaced>>
  BY DEF RunAtOnce
<1>2. /\ r \in Request /\ r.got = <<>> /\ Pending(r, buf1)
      /\ <<r.len, r.pattern>> \in Requests \cup {<<1, <<>>>>}
  BY NewRequest
<1>3. stream \in Seq(Letters) /\ buf1 \in Seq(1..Len(stream)) /\ buf1 \in Seq(Nat) /\ Len(buf1) \in Nat
  BY RequestIs DEF IndInv
<1>4. Outcome(r, buf1, x)
  BY <1>2, <1>3, RemainingOK
<1> HIDE DEF x
<1>5. /\ x.req \in Request /\ x.req.len = r.len /\ x.req.pattern = r.pattern /\ Len(x.req.got) <= r.len
      /\ x.buf \in Seq(1..Len(stream)) /\ Len(x.buf) <= Len(buf1)
      /\ x.req.got \o x.buf = <<>> \o buf1 /\ EndsRight(x.req)
  BY <1>1, <1>2, <1>4 DEF Outcome
<1>6. ReqOK' /\ req'[t] = x.req /\ \A u \in Task : u # t => req'[u] = req[u]
  <2>1. /\ <<x.req.len, x.req.pattern>> \in Requests \cup {<<1, <<>>>>}
        /\ Len(x.req.got) <= x.req.len
    BY <1>2, <1>5
  <2> QED
    BY <1>1, <1>5, <2>1, ReqNext
<1>7. cur_alloc1 = NULL /\ First = NULL /\ First' = NULL /\ FirstGot = <<>> /\ FirstGot' = <<>>
  BY <1>1 DEF IndInv, Control, UserCode, First, FirstGot
<1>8. /\ ret' \in [Task -> {"unfinished", "success", "failure"}]
      /\ \A u \in Task : u # t => ret'[u] = ret[u]
  BY <1>1 DEF IndInv, TypeOK
<1>9. TypeOK'
  BY <1>1, <1>5, <1>6, <1>8 DEF IndInv, TypeOK, ReqOK
<1>10. QueueInv'
  BY <1>1 DEF IndInv, QueueInv
<1>11. Control'
  BY <1>1 DEF IndInv, Control, UserCode, Begin, Erased, NoCancelPending
<1>12. Capacity'
  <2>1. Len(buf1') <= size1
    <3>1. Len(x.buf) \in Nat /\ size1 \in Nat /\ Len(buf1) <= size1
      BY <1>5, LenProperties DEF IndInv, TypeOK, Capacity
    <3> QED
      BY <1>1, <1>3, <1>5, <3>1
  <2> QED
    BY <1>1, <2>1 DEF IndInv, Capacity, UserCode
<1>13. Turns'
  <2>1. \A u \in Task : ~waits'[u]
    BY <1>1, <1>7, FirstIs
  <2> QED
    BY <1>7, <2>1 DEF Turns
<1>14. PieceEndsRight'
  <2>1. \A u \in Task : ret'[u] = "success" /\ ~waits'[u] => EndsRight(req'[u])
    BY <1>1, <1>5, <1>6, <1>8 DEF IndInv, PieceEndsRight
  <2> QED
    BY <1>1, <2>1, PieceNext
<1>15. Len(stream) \in Nat /\ x.req.got \in Seq(Nat) /\ x.buf \in Seq(Nat)
  <2>1. x.req.got \in Seq(1..Len(stream)) /\ Len(stream) \in Nat
    BY <1>3, <1>5, LenProperties DEF Request
  <2> QED
    BY <1>5, <2>1
<1>16. out' \in Seq(Nat) /\ Order'
  <2> DEFINE o == out
             h == x.req.got
             c == x.buf
             b == buf1
             w == (out \o <<>>) \o buf1
  <2>1. o \in Seq(Nat) /\ h \in Seq(Nat) /\ c \in Seq(Nat) /\ b \in Seq(Nat) /\ <<>> \in Seq(Nat)
    BY <1>3, <1>15 DEF IndInv
  <2>2. SameBytes(h, c, <<>>, b)
    BY <1>5 DEF SameBytes
  <2>3. InOrder(o, <<>>, b, w) /\ (alive /\ ~broken => Whole(w, pos, displaced))
    BY <1>7 DEF IndInv, Order, InOrder
  <2>4. /\ out' = o \o h /\ buf1' = c /\ pos' = pos /\ (alive' /\ ~broken' <=> alive /\ ~broken)
        /\ displaced' = displaced
    BY <1>1
  <2> HIDE DEF o, h, c, b, w
  <2>5. InOrder(o \o h, <<>>, c, w)
    BY <2>1, <2>2, <2>3, OrderKeeps
  <2>6. o \o h \in Seq(Nat)
    BY <2>1, ConcatProperties
  <2>7. (out' \o FirstGot') \o buf1' = w
    BY <1>7, <2>4, <2>5 DEF InOrder
  <2> QED
    BY <2>3, <2>4, <2>6, <2>7 DEF Order
<1> QED
  BY <1>1, <1>3, <1>9, <1>10, <1>11, <1>12, <1>13, <1>14, <1>16 DEF IndInv

\* ... or queued.
LEMMA RunQueuedOK ==
    ASSUME IndInv, NEW t \in Task, NEW q \in Requests, NEW r,
           r = [len |-> q[1], pattern |-> q[2], got |-> <<>>], RunQueued(t, r)
    PROVE  IndInv'
<1> DEFINE x == IF MayTake THEN Remaining(r, buf1) ELSE Take(r, buf1, 0, FALSE)
<1>1. /\ UserCode /\ ~waits[t] /\ ~broken /\ ~x.done
      /\ buf1' = x.buf /\ req' = [req EXCEPT ![t] = x.req]
      /\ ret' = [ret EXCEPT ![t] = "unfinished"] /\ waits' = [waits EXCEPT ![t] = TRUE]
      /\ reading' = TRUE /\ async_cancel1' = IF reading THEN async_cancel1 ELSE "open"
      /\ recv_queue1' = Append(recv_queue1, t)
      /\ UNCHANGED <<stream, pos, alive, broken, cur_alloc1, size1, phase, via, iter, out, displaced>>
  BY DEF RunQueued
<1>2. /\ r \in Request /\ r.got = <<>> /\ Pending(r, buf1)
      /\ <<r.len, r.pattern>> \in Requests \cup {<<1, <<>>>>}
  BY NewRequest
<1>3. stream \in Seq(Letters) /\ buf1 \in Seq(1..Len(stream)) /\ buf1 \in Seq(Nat) /\ Len(buf1) \in Nat
  BY RequestIs DEF IndInv
<1>4. cur_alloc1 = NULL /\ alive /\ phase \in {"loop", "stand"}
  BY <1>1 DEF IndInv, Control, UserCode
\* A queued task leaves the internal buffer to those before it.
<1>5. /\ x.req \in Request /\ x.req.len = r.len /\ x.req.pattern = r.pattern /\ Len(x.req.got) < r.len
      /\ x.buf \in Seq(1..Len(stream)) /\ Len(x.buf) <= Len(buf1)
      /\ x.req.got \o x.buf = <<>> \o buf1
      /\ recv_queue1 = <<>> => Clean(x.req, x.buf) /\ Settled(x.req, x.buf)
      /\ recv_queue1 # <<>> => x.req = r /\ x.buf = buf1
  <2>1. CASE MayTake
    <3>1. Outcome(r, buf1, x)
      BY <1>2, <1>3, <2>1, RemainingOK
    <3> HIDE DEF x
    <3>2. Pending(x.req, x.buf) /\ Settled(x.req, x.buf)
      BY <1>1, <3>1 DEF Outcome
    <3> QED
      BY <1>2, <2>1, <3>1, <3>2 DEF Outcome, Pending, MayTake
  <2>2. CASE ~MayTake
    <3>1. Taken(r, buf1, 0, x)
      <4>1. 0 \in 0..Len(buf1)
        BY <1>3
      <4>2. Taken(r, buf1, 0, Take(r, buf1, 0, FALSE))
        BY <1>2, <1>3, <4>1, TakeIs
      <4> QED
        BY <2>2, <4>2
    <3> HIDE DEF x
    <3>2. x.req = r /\ x.buf = buf1
      BY <3>1 DEF Taken
    <3>3. recv_queue1 = <<>> => Clean(r, buf1) /\ Settled(r, buf1)
      BY <1>2, <2>2, SettledEmpty DEF MayTake, Pending
    <3> QED
      BY <1>2, <1>3, <3>2, <3>3 DEF Pending
  <2> QED
    BY <2>1, <2>2
<1> HIDE DEF x
<1>6. ReqOK' /\ req'[t] = x.req /\ \A u \in Task : u # t => req'[u] = req[u]
  <2>1. r.len \in Nat /\ Len(x.req.got) \in Nat
    BY <1>2, <1>5, LenProperties DEF Request
  <2>2. /\ <<x.req.len, x.req.pattern>> \in Requests \cup {<<1, <<>>>>}
        /\ Len(x.req.got) <= x.req.len
    BY <1>2, <1>5, <2>1
  <2> QED
    BY <1>1, <1>5, <2>2, ReqNext
<1>7. /\ ret' \in [Task -> {"unfinished", "success", "failure"}] /\ waits' \in [Task -> BOOLEAN]
      /\ ret'[t] = "unfinished" /\ waits'[t]
      /\ \A u \in Task : u # t => ret'[u] = ret[u] /\ waits'[u] = waits[u]
  BY <1>1 DEF IndInv, TypeOK
<1>8. /\ recv_queue1' \in Seq(Task) /\ IsInjective(recv_queue1') /\ t \notin ToSet(recv_queue1)
      /\ ToSet(recv_queue1') = ToSet(recv_queue1) \cup {t}
  <2>1. recv_queue1 \in Seq(Task) /\ IsInjective(recv_queue1) /\ t \notin ToSet(recv_queue1)
    BY <1>1 DEF IndInv, TypeOK, QueueInv
  <2> QED
    BY <1>1, <2>1, Enqueue
<1>9. First' = (IF recv_queue1 = <<>> THEN t ELSE First) /\ recv_queue1' # <<>>
  <2>1. recv_queue1 \in Seq(Task) /\ recv_queue1' # <<>>
    BY <1>8, FirstIs, SeqBasics
  <2>2. recv_queue1 = <<>> => Head(recv_queue1') = t
    BY <1>1
  <2>3. recv_queue1 # <<>> => Head(recv_queue1') = Head(recv_queue1)
    <3>1. ASSUME recv_queue1 # <<>> PROVE Append(recv_queue1, t)[1] = recv_queue1[1] /\ Head(recv_queue1) = recv_queue1[1]
      BY <2>1, <3>1, AppendAt, TailAt
    <3>2. Head(recv_queue1') = recv_queue1'[1]
      BY <1>8, <2>1, TailAt
    <3> QED
      BY <1>1, <3>1, <3>2
  <2> QED
    BY <1>1, <1>4, <2>1, <2>2, <2>3 DEF First
<1>10. TypeOK'
  BY <1>1, <1>5, <1>6, <1>7, <1>8 DEF IndInv, TypeOK, ReqOK
<1>11. QueueInv'
  <2>1. ToSet(recv_queue1) = {u \in Task : waits[u] /\ u # NULL}
    BY <1>4 DEF IndInv, QueueInv
  <2>2. ToSet(recv_queue1') = {u \in Task : waits'[u] /\ u # cur_alloc1'}
    BY <1>1, <1>4, <1>7, <1>8, <2>1, TillAssumption
  <2> QED
    BY <1>1, <1>4, <1>8, <2>2 DEF QueueInv
<1>12. Control'
  BY <1>1, <1>4, <1>9 DEF IndInv, Control
<1>13. Capacity'
  <2>1. Len(buf1') <= size1
    <3>1. Len(x.buf) \in Nat /\ size1 \in Nat /\ Len(buf1) <= size1
      BY <1>5, LenProperties DEF IndInv, TypeOK, Capacity
    <3> QED
      BY <1>1, <1>3, <1>5, <3>1
  <2> QED
    BY <1>1, <1>4, <2>1 DEF IndInv, Capacity
<1>14. recv_queue1 # <<>> => First \in Task /\ waits[First] /\ First # t /\ First # NULL
  BY <1>1, <1>4, FirstIs, TillAssumption
<1>15. recv_queue1 = <<>> => First = NULL /\ \A u \in Task : ~waits[u]
  <2>1. recv_queue1 = <<>> => First = NULL
    BY <1>4 DEF First
  <2> QED
    BY <2>1, FirstIs
<1>16. Turns'
  <2>1. ASSUME NEW u \in Task, waits'[u]
        PROVE  ret'[u] = "unfinished" /\ Len(req'[u].got) < req'[u].len /\ (u # First' => req'[u].got = <<>>)
    <3>1. CASE u = t
      <4>1. ret'[t] = "unfinished" /\ req'[t] = x.req /\ Len(x.req.got) < x.req.len
        BY <1>5, <1>6, <1>7
      <4>2. t # First' => x.req.got = <<>>
        BY <1>2, <1>5, <1>9
      <4> QED
        BY <3>1, <4>1, <4>2
    <3>2. CASE u # t
      <4>1. recv_queue1 # <<>> /\ waits[u] /\ ret'[u] = ret[u] /\ req'[u] = req[u] /\ First' = First
        BY <1>6, <1>7, <1>9, <1>15, <2>1, <3>2
      <4> QED
        BY <4>1 DEF IndInv, Turns
    <3> QED
      BY <3>1, <3>2
  <2> DEFINE f == First'
  <2>2. Clean(req'[f], buf1') /\ (phase = "loop" /\ async_cancel1' # "sent" => Settled(req'[f], buf1'))
    <3>1. CASE recv_queue1 = <<>>
      BY <1>1, <1>5, <1>6, <1>9, <3>1
    <3>2. CASE recv_queue1 # <<>>
      <4>1. f = First /\ req'[First] = req[First] /\ buf1' = buf1
        BY <1>1, <1>5, <1>6, <1>9, <1>14, <3>2
      <4>2. Clean(req[First], buf1) /\ (phase = "loop" /\ async_cancel1 # "sent" => Settled(req[First], buf1))
        BY <1>14, <3>2 DEF IndInv, Turns, NoCancelPending
      <4>3. async_cancel1' = async_cancel1
        BY <1>1, <1>14, <3>2 DEF IndInv, Control
      <4> QED
        BY <4>1, <4>2, <4>3
    <3> QED
      BY <3>1, <3>2
  <2> QED
    BY <1>1, <1>4, <2>1, <2>2, TurnsNext
<1>17. PieceEndsRight'
  <2>1. \A u \in Task : ret'[u] = "success" /\ ~waits'[u] => EndsRight(req'[u])
    BY <1>6, <1>7 DEF IndInv, PieceEndsRight
  <2> QED
    BY <1>1, <2>1, PieceNext
<1>18. Order'
  <2>1. CASE recv_queue1 # <<>>
    <3>1. FirstGot' = FirstGot /\ buf1' = buf1
      BY <1>1, <1>5, <1>6, <1>9, <1>14, <2>1 DEF FirstGot
    <3> QED
      BY <1>1, <3>1 DEF IndInv, Order
  <2>2. CASE recv_queue1 = <<>>
    <3> DEFINE o == out
               h == x.req.got
               c == x.buf
               b == buf1
               w == (out \o <<>>) \o buf1
    <3>1. FirstGot' = h /\ FirstGot = <<>>
      BY <1>6, <1>9, <1>15, <2>2, TillAssumption DEF FirstGot
    <3>2. o \in Seq(Nat) /\ h \in Seq(Nat) /\ c \in Seq(Nat) /\ b \in Seq(Nat) /\ <<>> \in Seq(Nat)
      <4>1. x.req.got \in Seq(1..Len(stream)) /\ Len(stream) \in Nat /\ x.buf \in Seq(1..Len(stream))
        BY <1>3, <1>5, LenProperties DEF Request
      <4>2. x.req.got \in Seq(Nat) /\ x.buf \in Seq(Nat)
        BY <4>1
      <4> QED
        BY <1>3, <4>2 DEF IndInv
    <3>3. SameBytes(h, c, <<>>, b)
      BY <1>5 DEF SameBytes
    <3>4. InOrder(o, <<>>, b, w) /\ (alive /\ ~broken => Whole(w, pos, displaced))
      BY <3>1 DEF IndInv, Order, InOrder
    <3>5. /\ out' = o /\ buf1' = c /\ pos' = pos /\ (alive' /\ ~broken' <=> alive /\ ~broken)
          /\ displaced' = displaced
      BY <1>1
    <3> HIDE DEF o, h, c, b, w
    <3>6. InOrder(o, h, c, w)
      BY <3>2, <3>3, <3>4, OrderKeeps
    <3>7. (out' \o FirstGot') \o buf1' = w
      BY <3>1, <3>5, <3>6 DEF InOrder
    <3> QED
      BY <3>4, <3>5, <3>7 DEF Order
  <2> QED
    BY <2>1, <2>2
<1> QED
  BY <1>1, <1>10, <1>11, <1>12, <1>13, <1>16, <1>17, <1>18 DEF IndInv

-----------------------------------------------------------------------------
\* d arrives behind the internal buffer (it may be empty), and x is what the first
\* task t makes of them.
Serves(t, d, x) ==
    /\ First = t /\ t \in Task
    /\ stream' = stream /\ alive' = alive /\ broken' = broken /\ buf1' = x.buf
    /\ d \in Seq(1..Len(stream))
    /\ \A w : Whole(w, pos, displaced) => Whole(w \o d, pos', displaced')
    /\ Outcome(req[t], buf1 \o d, x)

Served == /\ ReqOK /\ buf1 \in Seq(1..Len(stream)) /\ out \in Seq(Nat)
          /\ ret \in [Task -> {"unfinished", "success", "failure"}] /\ waits \in [Task -> BOOLEAN]
          /\ Turns /\ PieceEndsRight /\ Order

LEMMA ServesMeans ==
    ASSUME IndInv, NEW t, NEW d, NEW x, Serves(t, d, x)
    PROVE  /\ x.req \in Request /\ x.req.got \in Seq(Nat) /\ x.buf \in Seq(Nat)
           /\ buf1' \in Seq(1..Len(stream'))
           /\ Len(x.req.got) <= x.req.len
           /\ <<x.req.len, x.req.pattern>> \in Requests \cup {<<1, <<>>>>}
           /\ x.done => EndsRight(x.req)
           /\ ~x.done => Len(x.req.got) < x.req.len /\ Clean(x.req, x.buf) /\ Settled(x.req, x.buf)
           /\ alive /\ ~broken => /\ Whole((out \o x.req.got) \o x.buf, pos', displaced')
                                  /\ Whole(((out \o x.req.got) \o <<>>) \o x.buf, pos', displaced')
           /\ out \o x.req.got \in Seq(Nat)
<1>1. First = t /\ t \in Task /\ stream' = stream /\ buf1' = x.buf
  BY DEF Serves
<1>2. /\ req[t] \in Request /\ req[t].got \in Seq(Nat) /\ buf1 \in Seq(Nat) /\ t # NULL
      /\ <<req[t].len, req[t].pattern>> \in Requests \cup {<<1, <<>>>>}
  BY <1>1, RequestIs, TillAssumption
<1>3. /\ x.req \in Request /\ x.req.len = req[t].len /\ x.req.pattern = req[t].pattern
      /\ Len(x.req.got) <= req[t].len /\ x.buf \in Seq(1..Len(stream))
      /\ x.req.got \o x.buf = req[t].got \o (buf1 \o d)
      /\ x.done => EndsRight(x.req)
      /\ ~x.done => Pending(x.req, x.buf) /\ Settled(x.req, x.buf)
  BY DEF Serves, Outcome
<1>4. Len(stream) \in Nat /\ d \in Seq(1..Len(stream)) /\ x.req.got \in Seq(1..Len(stream))
  BY <1>3, LenProperties DEF IndInv, Serves, Request
<1>5. d \in Seq(Nat) /\ x.req.got \in Seq(Nat) /\ x.buf \in Seq(Nat)
  BY <1>3, <1>4
<1>6. ~x.done => Len(x.req.got) < x.req.len /\ Clean(x.req, x.buf) /\ Settled(x.req, x.buf)
  BY <1>3 DEF Pending
<1> DEFINE o == out
           g == req[t].got
           b == buf1
           h == x.req.got
           c == x.buf
           w == (out \o req[t].got) \o buf1
<1>7. /\ o \in Seq(Nat) /\ g \in Seq(Nat) /\ b \in Seq(Nat) /\ h \in Seq(Nat) /\ c \in Seq(Nat)
      /\ d \in Seq(Nat)
  BY <1>2, <1>5 DEF IndInv
<1>8. SameBytes(h, c, g, b \o d)
  BY <1>3 DEF SameBytes
<1>9. InOrder(o, g, b, w) /\ (alive /\ ~broken => Whole(w, pos, displaced))
  BY <1>1, <1>2 DEF IndInv, Order, FirstGot, InOrder
<1>10. Whole(w, pos, displaced) => Whole(w \o d, pos', displaced')
  BY DEF Serves
<1> HIDE DEF o, g, b, h, c, w
<1>11. InOrder(o, h, c, w \o d) /\ InOrder(o \o h, <<>>, c, w \o d)
  BY <1>7, <1>8, <1>9, OrderMoves
<1>12. o \o h \in Seq(Nat)
  BY <1>7, ConcatProperties
<1>13. alive /\ ~broken => /\ Whole((o \o h) \o c, pos', displaced')
                           /\ Whole(((o \o h) \o <<>>) \o c, pos', displaced')
  BY <1>9, <1>10, <1>11 DEF InOrder
<1> QED
  BY <1>1, <1>2, <1>3, <1>5, <1>6, <1>12, <1>13 DEF o, h, c

\* It completes, and the next in line is first.
LEMMA CompleteServes ==
    ASSUME IndInv, NEW t, NEW d, NEW x, Serves(t, d, x), x.done, Complete(t, x.req), phase' = "stand",
           First' # NULL => First' \in Task /\ First' # t /\ waits[First']
    PROVE  /\ Served' /\ t \in Task /\ ~waits'[t] /\ \A u \in Task : u # t => waits'[u] = waits[u]
<1>1. /\ First = t /\ t \in Task /\ stream' = stream /\ buf1' = x.buf
      /\ alive' = alive /\ broken' = broken
  BY DEF Serves
<1>2. /\ x.req \in Request /\ buf1' \in Seq(1..Len(stream')) /\ Len(x.req.got) <= x.req.len
      /\ <<x.req.len, x.req.pattern>> \in Requests \cup {<<1, <<>>>>}
      /\ EndsRight(x.req) /\ out \o x.req.got \in Seq(Nat)
  BY ServesMeans
<1>3. alive /\ ~broken => Whole(((out \o x.req.got) \o <<>>) \o x.buf, pos', displaced')
  BY ServesMeans
<1>4. /\ req' = [req EXCEPT ![t] = x.req] /\ ret' = [ret EXCEPT ![t] = "success"]
      /\ waits' = [waits EXCEPT ![t] = FALSE] /\ out' = out \o x.req.got
  BY DEF Complete
<1>5. ReqOK' /\ req'[t] = x.req /\ \A u \in Task : u # t => req'[u] = req[u]
  BY <1>1, <1>2, <1>4, ReqNext
<1>6. /\ ret' \in [Task -> {"unfinished", "success", "failure"}] /\ waits' \in [Task -> BOOLEAN]
      /\ ~waits'[t] /\ \A u \in Task : u # t => waits'[u] = waits[u] /\ ret'[u] = ret[u]
  BY <1>1, <1>4 DEF IndInv, TypeOK
<1>7. Turns'
  <2>1. ASSUME NEW u \in Task, waits'[u]
        PROVE  ret'[u] = "unfinished" /\ Len(req'[u].got) < req'[u].len /\ req'[u].got = <<>>
    BY <1>1, <1>5, <1>6, <2>1 DEF IndInv, Turns
  <2>2. ASSUME First' # NULL PROVE Clean(req'[First'], buf1')
    <3> DEFINE f == First'
    <3>1. f \in Task /\ f # First /\ waits[f] /\ req'[f] = req[f] /\ buf1' \in Seq(1..Len(stream))
      BY <1>1, <1>2, <1>5, <2>2
    <3> HIDE DEF f
    <3>2. Clean(req'[f], buf1')
      BY <3>1, NextClean
    <3> QED
      BY <3>2 DEF f
  <2> QED
    BY <1>1, <2>1, <2>2, TurnsNext
<1>8. PieceEndsRight'
  <2>1. \A u \in Task : ret'[u] = "success" /\ ~waits'[u] => EndsRight(req'[u])
    BY <1>2, <1>5, <1>6 DEF IndInv, PieceEndsRight
  <2> QED
    BY <1>1, <2>1, PieceNext
<1>9. Order'
  <2>1. FirstGot' = <<>>
    <3> DEFINE f == First'
    <3>1. f # NULL => f \in Task /\ f # First /\ waits[f] /\ req'[f] = req[f] /\ buf1' \in Seq(1..Len(stream))
      BY <1>1, <1>2, <1>5
    <3>2. FirstGot' = IF f = NULL THEN <<>> ELSE req'[f].got
      BY DEF FirstGot
    <3> HIDE DEF f
    <3>3. f # NULL => req'[f].got = <<>>
      BY <3>1, NextClean
    <3> QED
      BY <3>2, <3>3
  <2> QED
    BY <1>1, <1>3, <1>4, <2>1 DEF Order
<1> QED
  BY <1>1, <1>2, <1>4, <1>5, <1>6, <1>7, <1>8, <1>9 DEF Served

\* It goes on waiting.
LEMMA WaitServes ==
    ASSUME IndInv, NEW t, NEW d, NEW x, Serves(t, d, x), ~x.done,
           req' = [req EXCEPT ![t] = x.req], UNCHANGED <<ret, waits, out>>, First' = t,
           phase' # "alloc"
    PROVE  Served'
<1>1. /\ First = t /\ t \in Task /\ stream' = stream /\ buf1' = x.buf
      /\ alive' = alive /\ broken' = broken
  BY DEF Serves
<1>2. /\ x.req \in Request /\ buf1' \in Seq(1..Len(stream')) /\ Len(x.req.got) <= x.req.len
      /\ <<x.req.len, x.req.pattern>> \in Requests \cup {<<1, <<>>>>}
      /\ Len(x.req.got) < x.req.len /\ Clean(x.req, x.buf) /\ Settled(x.req, x.buf)
  BY ServesMeans
<1>3. alive /\ ~broken => Whole((out \o x.req.got) \o x.buf, pos', displaced')
  BY ServesMeans
<1>4. ReqOK' /\ req'[t] = x.req /\ \A u \in Task : u # t => req'[u] = req[u]
  BY <1>1, <1>2, ReqNext
<1>5. waits[t]
  BY <1>1, FirstIs, TillAssumption
<1>6. Turns'
  <2>1. ASSUME NEW u \in Task, waits'[u]
        PROVE  ret'[u] = "unfinished" /\ Len(req'[u].got) < req'[u].len /\ (u # t => req'[u].got = <<>>)
    BY <1>1, <1>2, <1>4, <2>1 DEF IndInv, Turns
  <2>2. Clean(req'[t], buf1') /\ Settled(req'[t], buf1')
    BY <1>1, <1>2, <1>4
  <2> QED
    BY <1>1, <2>1, <2>2, TurnsNext
<1>7. PieceEndsRight'
  <2>1. \A u \in Task : ret'[u] = "success" /\ ~waits'[u] => EndsRight(req'[u])
    BY <1>4, <1>5 DEF IndInv, PieceEndsRight
  <2> QED
    BY <1>1, <2>1, PieceNext
<1>8. Order'
  <2>1. FirstGot' = x.req.got
    BY <1>1, <1>4, TillAssumption DEF FirstGot
  <2> QED
    BY <1>1, <1>3, <2>1 DEF Order
<1> QED
  BY <1>2, <1>4, <1>6, <1>7, <1>8 DEF Served, IndInv, TypeOK

\* tcp_recv_cb1 with n bytes.
LEMMA RecvCb1OK ==
    ASSUME IndInv, NEW n \in 1..Len(stream), RecvCb1(n)
    PROVE  IndInv'
<1> DEFINE t == cur_alloc1
           x == Received(req[t], n)
           d == Bytes(n)
<1>1. /\ phase = "alloc" /\ pos + n <= Len(stream) /\ n <= Room(t)
      /\ pos' = pos + n /\ buf1' = x.buf /\ via' = "sock"
      /\ IF x.done
           THEN /\ Complete(t, x.req)
                /\ cur_alloc1' = NULL
                /\ phase' = "stand"
                /\ UNCHANGED recv_queue1
           ELSE /\ req' = [req EXCEPT ![t] = x.req]
                /\ BackToFront
                /\ phase' = "check"
                /\ UNCHANGED <<ret, waits, out>>
      /\ UNCHANGED <<stream, alive, broken, reading, size1, async_cancel1, iter, displaced>>
  BY DEF RecvCb1
<1>2. t # NULL /\ t \in Task /\ waits[t] /\ First = t /\ alive /\ reading /\ ~broken
  BY <1>1, FirstIs DEF IndInv, Control
<1>3. /\ stream \in Seq(Letters) /\ Len(stream) \in Nat /\ n \in Nat /\ pos \in Nat
      /\ buf1 \in Seq(1..Len(stream)) /\ Len(buf1) \in Nat /\ size1 \in Nat /\ Len(buf1) <= size1
  BY LenProperties DEF IndInv, TypeOK, Capacity
<1>4. Pending(req[t], buf1) /\ (req[t].pattern = <<>> => buf1 = <<>>)
  BY <1>1, <1>2, PendingFirst DEF IndInv, Turns
<1>5. req[t].pattern = <<>> => n <= Left(req[t])
  BY <1>1 DEF Room
<1>6. d \in Seq(1..Len(stream)) /\ Len(d) = n /\ Outcome(req[t], buf1 \o d, x)
  BY <1>1, <1>3, <1>4, <1>5, ReceivedOK
<1>7. Len(buf1') <= size1
  <2>1. CASE req[t].pattern = <<>>
    BY <1>1, <1>3, <2>1 DEF Received
  <2>2. CASE req[t].pattern # <<>>
    <3>1. size1 # 0
      BY <1>1, <2>2 DEF IndInv, Capacity
    <3>2. n <= size1 - Len(buf1)
      BY <1>1, <2>2, <3>1 DEF Room
    <3> HIDE DEF x, d
    <3>3. Len(buf1 \o d) = Len(buf1) + Len(d)
      BY <1>3, <1>6, ConcatAt
    <3>4. Len(x.buf) <= Len(buf1 \o d) /\ Len(x.buf) \in Nat
      BY <1>6, LenProperties DEF Outcome
    <3> QED
      BY <1>1, <1>3, <1>6, <3>2, <3>3, <3>4
  <2> QED
    BY <2>1, <2>2
<1>8. \A w : Whole(w, pos, displaced) => Whole(w \o d, pos', displaced')
  BY <1>1, <1>3, WholeGrows
<1> HIDE DEF x, d
<1>9. Serves(t, d, x)
  BY <1>1, <1>2, <1>6, <1>8 DEF Serves
<1>10. pos' \in 0..Len(stream)
  BY <1>1, <1>3
<1>11. CASE x.done
  <2>1. ToSet(recv_queue1) = {u \in Task : waits[u] /\ u # t} /\ recv_queue1 \in Seq(Task) /\ IsInjective(recv_queue1)
    BY DEF IndInv, TypeOK, QueueInv
  <2>2. First' # NULL => First' \in Task /\ First' # t /\ waits[First']
    <3>1. recv_queue1 # <<>> => Head(recv_queue1) \in ToSet(recv_queue1)
      BY FirstIs
    <3> QED
      BY <1>1, <1>11, <2>1, <3>1 DEF First
  <2>3. Served' /\ ~waits'[t] /\ \A u \in Task : u # t => waits'[u] = waits[u]
    BY <1>1, <1>9, <1>11, <2>2, CompleteServes
  <2>4. TypeOK'
    BY <1>1, <1>10, <1>11, <2>1, <2>3 DEF IndInv, TypeOK, Served, ReqOK
  <2>5. QueueInv'
    BY <1>1, <1>11, <2>1, <2>3, TillAssumption DEF QueueInv
  <2>6. Control'
    BY <1>1, <1>2, <1>11 DEF IndInv, Control
  <2>7. Capacity'
    BY <1>1, <1>7, <1>11 DEF IndInv, Capacity
  <2> QED
    BY <1>1, <2>3, <2>4, <2>5, <2>6, <2>7 DEF IndInv, Served
<1>12. CASE ~x.done
  <2>1. /\ First' = t /\ recv_queue1' \in Seq(Task) /\ recv_queue1' # <<>> /\ cur_alloc1' = NULL /\ QueueInv'
    BY <1>1, <1>12, ToFront
  <2>2. Served'
    BY <1>1, <1>9, <1>12, <2>1, WaitServes
  <2>3. TypeOK'
    BY <1>1, <1>10, <1>12, <2>1, <2>2 DEF IndInv, TypeOK, Served, ReqOK
  <2>4. Control'
    BY <1>1, <1>2, <1>12, <2>1 DEF IndInv, Control
  <2>5. Capacity'
    BY <1>1, <1>7, <1>12 DEF IndInv, Capacity
  <2> QED
    BY <1>1, <2>1, <2>2, <2>3, <2>4, <2>5 DEF IndInv, Served
<1> QED
  BY <1>11, <1>12

\* check_remaining, one round.
LEMMA CheckTakeOK ==
    ASSUME IndInv, CheckTake
    PROVE  IndInv'
<1> DEFINE t == Head(recv_queue1)
           x == Remaining(req[t], buf1)
           d == <<>>
<1>1. /\ phase \in {"stand", "check"} /\ alive /\ buf1 # <<>> /\ recv_queue1 # <<>> /\ buf1' = x.buf
      /\ IF x.done
           THEN /\ Complete(t, x.req)
                /\ recv_queue1' = Tail(recv_queue1)
                /\ phase' = "stand"
           ELSE /\ req' = [req EXCEPT ![t] = x.req]
                /\ phase' = "loop"
                /\ UNCHANGED <<recv_queue1, ret, waits, out>>
      /\ UNCHANGED <<stream, pos, alive, broken, reading, cur_alloc1, size1, async_cancel1, via, iter, displaced>>
  BY DEF CheckTake
<1>2. cur_alloc1 = NULL /\ ~broken
  BY <1>1 DEF IndInv, Control
<1>3. First = t /\ t \in Task /\ waits[t] /\ First # NULL /\ reading
  <2>1. First = t /\ t \in ToSet(recv_queue1)
    BY <1>1, <1>2, FirstIs
  <2> QED
    BY <2>1, TillAssumption DEF IndInv, QueueInv, Control
<1>4. Pending(req[t], buf1)
  BY <1>3, PendingFirst
<1>5. /\ stream \in Seq(Letters) /\ Len(stream) \in Nat
      /\ buf1 \in Seq(1..Len(stream)) /\ Len(buf1) \in Nat /\ size1 \in Nat /\ Len(buf1) <= size1
  BY LenProperties DEF IndInv, TypeOK, Capacity
<1>6. Outcome(req[t], buf1, x)
  BY <1>4, <1>5, RemainingOK
<1> HIDE DEF x
<1>8. Serves(t, d, x)
  <2>1. buf1 \o d = buf1
    BY <1>5, ConcatEmptySeq
  <2>2. ASSUME NEW w, Whole(w, pos, displaced) PROVE Whole(w \o d, pos', displaced')
    <3>1. w \o d = w
      BY <2>2, ConcatEmptySeq DEF Whole
    <3> QED
      BY <1>1, <2>2, <3>1
  <2>3. d \in Seq(1..Len(stream))
    OBVIOUS
  <2> QED
    BY <1>1, <1>3, <1>6, <2>1, <2>2, <2>3 DEF Serves
<1> HIDE DEF d
<1>9. Len(buf1') <= size1
  <2>1. Len(x.buf) <= Len(buf1) /\ Len(x.buf) \in Nat
    BY <1>6, LenProperties DEF Outcome
  <2> QED
    BY <1>1, <1>5, <2>1
<1>10. /\ ToSet(recv_queue1) = {u \in Task : waits[u] /\ u # NULL}
       /\ recv_queue1 \in Seq(Task) /\ IsInjective(recv_queue1)
  BY <1>2 DEF IndInv, TypeOK, QueueInv
<1>11. CASE x.done
  <2>1. /\ recv_queue1' \in Seq(Task) /\ IsInjective(recv_queue1')
        /\ ToSet(recv_queue1') = ToSet(recv_queue1) \ {t}
    <3>1. recv_queue1' = Tail(recv_queue1) /\ recv_queue1 # <<>>
      BY <1>1, <1>11
    <3>2. recv_queue1 \in Seq(Task) /\ IsInjective(recv_queue1)
      BY <1>10
    <3> QED
      BY <3>1, <3>2, Dequeue
  <2>2. First' # NULL => First' \in Task /\ First' # t /\ waits[First']
    <3>1. recv_queue1' # <<>> => Head(recv_queue1') \in ToSet(recv_queue1')
      BY <2>1, Dequeue
    <3>2. First' = IF recv_queue1' # <<>> THEN Head(recv_queue1') ELSE NULL
      BY <1>1, <1>2 DEF First
    <3> QED
      BY <1>10, <2>1, <3>1, <3>2
  <2>3. Served' /\ ~waits'[t] /\ \A u \in Task : u # t => waits'[u] = waits[u]
    BY <1>1, <1>8, <1>11, <2>2, CompleteServes
  <2>4. TypeOK'
    BY <1>1, <1>11, <2>1, <2>3 DEF IndInv, TypeOK, Served, ReqOK
  <2>5. QueueInv'
    BY <1>1, <1>2, <1>10, <2>1, <2>3 DEF QueueInv
  <2>6. Control'
    BY <1>1, <1>2, <1>3, <1>11 DEF IndInv, Control
  <2>7. Capacity'
    BY <1>1, <1>9, <1>11 DEF IndInv, Capacity
  <2> QED
    BY <1>1, <2>3, <2>4, <2>5, <2>6, <2>7 DEF IndInv, Served
<1>12. CASE ~x.done
  <2>1. First' = t
    BY <1>1, <1>3, <1>12 DEF First
  <2>2. Served'
    BY <1>1, <1>8, <1>12, <2>1, WaitServes
  <2>3. TypeOK'
    BY <1>1, <1>12, <2>2 DEF IndInv, TypeOK, Served, ReqOK
  <2>4. Control'
    BY <1>1, <1>2, <1>12 DEF IndInv, Control
  <2>5. Capacity'
    BY <1>1, <1>9, <1>12 DEF IndInv, Capacity
  <2>6. QueueInv'
    BY <1>1, <1>12 DEF IndInv, QueueInv
  <2> QED
    BY <1>1, <2>2, <2>3, <2>4, <2>5, <2>6 DEF IndInv, Served
<1> QED
  BY <1>11, <1>12

-----------------------------------------------------------------------------
LEMMA StepOK == IndInv /\ [Next]_vars => IndInv'
<1> SUFFICES ASSUME IndInv, [Next]_vars PROVE IndInv'
  OBVIOUS
<1>1. CASE Run
  <2>1. PICK t \in Task, q \in Requests :
            \/ RunAtOnce(t, [len |-> q[1], pattern |-> q[2], got |-> <<>>])
            \/ RunQueued(t, [len |-> q[1], pattern |-> q[2], got |-> <<>>])
    BY <1>1 DEF Run
  <2> DEFINE r == [len |-> q[1], pattern |-> q[2], got |-> <<>>]
  <2>2. CASE RunAtOnce(t, r)
    BY <2>2, RunAtOnceOK
  <2>3. CASE RunQueued(t, r)
    BY <2>3, RunQueuedOK
  <2> QED
    BY <2>1, <2>2, <2>3
<1>2. CASE \E t \in Task : Cancel(t)
  BY <1>2, CancelOK
<1>3. CASE Destroy
  BY <1>3, DestroyOK
<1>4. CASE Callback
  <2>1. CASE \E n \in 1..Len(stream) : RecvCb1(n)
    BY <2>1, RecvCb1OK
  <2> QED
    BY <1>4, <2>1, AllocCb1OK, AllocCb1AbortsOK, FallbackCb1OK, CheckGoneOK, CheckTakeOK, CheckEndOK, BreakNextOK,
       BreakEndOK, RecvCb1NothingOK, RecvCb1ErrorOK DEF Callback
<1>5. CASE UNCHANGED vars
  <2>1. UNCHANGED <<stream, pos, alive, broken, reading, recv_queue1, cur_alloc1, buf1, size1,
                    async_cancel1, req, ret, waits, phase, via, iter, out, displaced>>
    BY <1>5 DEF vars, connVars, taskVars
  <2>2. First' = First /\ FirstGot' = FirstGot
    BY <2>1 DEF First, FirstGot
  <2>3. TypeOK'
    BY <2>1, TypeFrame DEF IndInv, TypeOK, ReqOK
  <2>4. QueueInv' /\ Control' /\ Capacity'
    BY <2>1 DEF IndInv, QueueInv, Control, Capacity, Begin, Erased, NoCancelPending
  <2>5. Turns' /\ PieceEndsRight'
    BY <2>1, <2>2, TurnsFrame DEF IndInv, Turns, NoCancelPending
  <2>6. Order'
    BY <2>1, <2>2 DEF IndInv, Order
  <2> QED
    BY <2>1, <2>3, <2>4, <2>5, <2>6 DEF IndInv
<1> QED
  BY <1>1, <1>2, <1>3, <1>4, <1>5 DEF Next

LEMMA InvHolds == Spec => []IndInv
BY InitOK, StepOK, PTL DEF Spec

\* The order of the tasks is that of First and the queue.
LEMMA WaitersAre ==
    ASSUME IndInv
    PROVE  /\ Waiters \in Seq(Task)
           /\ First = NULL => Waiters = <<>>
           /\ First # NULL => Waiters # <<>> /\ Head(Waiters) = First
           /\ \A k \in 2..Len(Waiters) : Waiters[k] \in Task /\ waits[Waiters[k]] /\ Waiters[k] # First
<1>1. recv_queue1 \in Seq(Task) /\ IsInjective(recv_queue1)
  BY FirstIs
<1>2. CASE cur_alloc1 = NULL
  <2>1. Waiters = recv_queue1
    BY <1>1, <1>2, ConcatEmptySeq DEF Waiters
  <2>2. ToSet(recv_queue1) \subseteq {t \in Task : waits[t]}
    BY DEF IndInv, QueueInv
  <2>3. First = NULL => recv_queue1 = <<>>
    BY FirstIs
  <2>4. First # NULL => recv_queue1 # <<>> /\ Head(recv_queue1) = First
    BY <1>2 DEF First
  <2>5. ASSUME NEW k \in 2..Len(recv_queue1)
        PROVE  recv_queue1[k] \in ToSet(recv_queue1) /\ recv_queue1[k] # First
    <3>1. Len(recv_queue1) \in Nat /\ DOMAIN recv_queue1 = 1..Len(recv_queue1)
      BY <1>1, SeqBasics
    <3>2. k \in 1..Len(recv_queue1) /\ 1 \in 1..Len(recv_queue1) /\ k # 1 /\ Len(recv_queue1) # 0
      BY <3>1
    <3>3. recv_queue1[k] # recv_queue1[1]
      BY <1>1, <3>1, <3>2 DEF IsInjective
    <3>4. recv_queue1[k] \in ToSet(recv_queue1) /\ recv_queue1 # <<>>
      BY <1>1, <3>2, SeqBasics
    <3>5. Head(recv_queue1) = recv_queue1[1] /\ First = Head(recv_queue1)
      BY <1>1, <1>2, <3>4, TailAt, FirstIs
    <3> QED
      BY <3>3, <3>4, <3>5
  <2> QED
    BY <1>1, <2>1, <2>2, <2>3, <2>4, <2>5
<1>3. CASE cur_alloc1 # NULL
  <2> DEFINE t == cur_alloc1
             q == recv_queue1
  <2>1. t \in Task /\ First = t /\ waits[t]
    BY <1>3, FirstIs
  <2>2. Waiters = <<t>> \o q
    BY <1>3 DEF Waiters
  <2>3. ToSet(q) = {u \in Task : waits[u] /\ u # t}
    BY DEF IndInv, QueueInv
  <2>4. q \in Seq(Task) /\ IsInjective(q)
    BY <1>1
  <2> HIDE DEF t, q
  <2>5. Waiters \in Seq(Task) /\ Waiters # <<>> /\ Head(Waiters) = t
    BY <2>1, <2>2, <2>3, <2>4, PutBackQueue
  <2>6. Len(q) \in Nat /\ Len(Waiters) = Len(q) + 1 /\ \A i \in 1..Len(q) : Waiters[i + 1] = q[i]
    BY <2>1, <2>2, <2>4, PrependAt
  <2>7. ASSUME NEW k \in 2..Len(Waiters) PROVE Waiters[k] \in ToSet(q)
    <3>1. k - 1 \in 1..Len(q) /\ (k - 1) + 1 = k
      BY <2>6
    <3>2. Waiters[(k - 1) + 1] = q[k - 1]
      BY <2>6, <3>1
    <3>3. q[k - 1] \in ToSet(q)
      BY <2>4, <3>1, SeqBasics
    <3> QED
      BY <3>1, <3>2, <3>3
  <2> QED
    BY <1>3, <2>1, <2>3, <2>5, <2>7 DEF t
<1> QED
  BY <1>2, <1>3

LEMMA CutMeans == IndInv => StreamCutRight
<1> SUFFICES ASSUME IndInv PROVE StreamCutRight
  OBVIOUS
<1> DEFINE first == IF Waiters = <<>> THEN <<>> ELSE req[Head(Waiters)].got
<1>1. first = FirstGot
  BY WaitersAre DEF FirstGot
<1>2. alive /\ ~broken => Whole((out \o first) \o buf1, pos, displaced)
  BY <1>1 DEF IndInv, Order
<1>3. \A k \in 2..Len(Waiters) : req[Waiters[k]].got = <<>>
  BY WaitersAre DEF IndInv, Turns
<1> QED
  BY <1>2, <1>3 DEF IndInv, StreamCutRight, StreamKept, Whole

LEMMA FedMeans == IndInv => WaitersFed
<1> SUFFICES ASSUME IndInv PROVE WaitersFed
  OBVIOUS
<1>1. NoBytesForWaiter
  <2> SUFFICES ASSUME phase = "loop", alive, recv_queue1 # <<>>, NoCancelPending
               PROVE  ~Remaining(req[Head(recv_queue1)], buf1).done
    BY DEF NoBytesForWaiter
  <2>1. cur_alloc1 = NULL /\ stream \in Seq(Letters)
    BY DEF IndInv, Control
  <2>2. First = Head(recv_queue1) /\ First # NULL
    BY <2>1, FirstIs, TillAssumption DEF IndInv, QueueInv
  <2>3. Settled(req[First], buf1) /\ Pending(req[First], buf1)
    BY <2>2, PendingFirst DEF IndInv, Turns
  <2>4. ~Remaining(req[First], buf1).done
    BY <2>1, <2>3, SettledNotDone
  <2> QED
    BY <2>2, <2>4
<1>2. ReadsForWaiters
  <2>1. recv_queue1 # <<>> => \E t \in Task : waits[t]
    BY FirstIs DEF IndInv, QueueInv
  <2>2. recv_queue1 # <<>> => reading
    BY <2>1 DEF IndInv, Control
  <2>3. phase = "loop" /\ reading /\ NoCancelPending => recv_queue1 # <<>>
    BY DEF IndInv, Control
  <2> QED
    BY <2>2, <2>3 DEF ReadsForWaiters, IndInv, Control
<1> QED
  BY <1>1, <1>2 DEF IndInv, WaitersFed

\* tcp::recv_till: while the connection works, and whoever is canceled, what the
\* tasks have received, what the first of them has and the internal buffer are the
\* bytes of the stream, none lost or doubled, and in order unless a canceled task
\* put bytes behind others; and a piece with a pattern holds no occurrence of it but
\* at its end, also where that came in several reads or through the buffers of
\* several tasks, and has one there unless the task's buffer is full.
THEOREM CutSafe == Spec => []StreamCutRight
BY InvHolds, CutMeans, PTL

\* recv_till::run, check_remaining: whenever the event loop has control and no
\* cancellation is pending, no task waits for bytes that are already in the internal
\* buffer, and the socket is read exactly while tasks wait.
THEOREM FedSafe == Spec => []WaitersFed
BY InvHolds, FedMeans, PTL

\* No pattern is longer than the internal buffer is at first, 1024 bytes.
PatternsFit == \A q \in Requests : Len(q[2]) <= FirstSize

\* The CHECKs of tcp_alloc_cb1 fail only between recv_till::cancel and its async
\* callback, and a read finds room unless recv_till::cancel made the internal buffer,
\* if patterns are no longer than the first internal buffer: with a longer one it may
\* fill up before the pattern can be recognised, which recv_till does not rule out.
THEOREM AllocSafe ==
    ASSUME PatternsFit
    PROVE  Spec => []AllocFailsOnlyAfterCancel
<1>1. IndInv => AllocFailsOnlyAfterCancel
  <2> DEFINE t == Head(recv_queue1)
             roomy == Room(t) > 0 \/ size1 \in 1..(FirstSize - 1)
  <2> SUFFICES ASSUME IndInv, phase = "loop", reading, NoCancelPending
               PROVE  AllocChecks /\ roomy
    BY DEF AllocFailsOnlyAfterCancel
  <2>1. cur_alloc1 = NULL /\ recv_queue1 # <<>>
    BY DEF IndInv, Control
  <2>2. First = t /\ t \in Task /\ waits[t] /\ First # NULL
    BY <2>1, FirstIs, TillAssumption DEF IndInv, QueueInv
  <2>3. Settled(req[t], buf1) /\ Len(req[t].got) < req[t].len
    BY <2>2 DEF IndInv, Turns
  <2>4. /\ Len(req[t].got) \in Nat /\ req[t].len \in Nat /\ Len(buf1) \in Nat /\ req[t] \in Request
        /\ <<req[t].len, req[t].pattern>> \in Requests \cup {<<1, <<>>>>}
    BY <2>2, RequestIs
  <2>5. AllocChecks
    BY <2>1, <2>3 DEF AllocChecks, Settled
  <2>6. CASE req[t].pattern = <<>>
    <3>1. Room(t) > 0
      BY <2>3, <2>4, <2>6 DEF Room, Left
    <3> QED
      BY <2>5, <3>1
  <2>7. CASE req[t].pattern # <<>>
    <3>1. <<req[t].len, req[t].pattern>> \in Requests
      BY <2>4, <2>7
    <3>2. Len(req[t].pattern) <= FirstSize
      BY <3>1 DEF PatternsFit
    <3>3. Len(req[t].pattern) \in Nat /\ Len(buf1) < Len(req[t].pattern) /\ FirstSize \in Nat \ {0}
      BY <2>3, <2>4, <2>7, LenProperties, TillAssumption DEF Settled, Request
    <3>4. size1 \in Nat
      BY DEF IndInv, TypeOK
    <3>5. \/ (IF size1 = 0 THEN FirstSize ELSE size1) - Len(buf1) > 0
          \/ size1 \in 1..(FirstSize - 1)
      BY <2>4, <3>2, <3>3, <3>4
    <3>6. Room(t) = (IF size1 = 0 THEN FirstSize ELSE size1) - Len(buf1)
      BY <2>7 DEF Room
    <3> QED
      BY <2>5, <3>5, <3>6
  <2> QED
    BY <2>6, <2>7
<1> QED
  BY <1>1, InvHolds, PTL
=============================================================================
