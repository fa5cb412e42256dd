---------------------------- MODULE SharedLemmas ----------------------------
(***************************************************************************)
(* Lemmas that the proofs about several components use.  Queues of waiting *)
(* tasks are sequences without repetitions: what enqueueing at the end,    *)
(* taking from the front, putting back at the front and erasing at a       *)
(* position do to their elements.  And the least element of a set of       *)
(* numbers, which serves in place of induction.                            *)
(***************************************************************************)
EXTENDS Integers, SequencesExt, SequenceTheorems, WellFoundedInduction, TLAPS

\* In place of induction: a set of numbers has a least one.
LEMMA Least ==
    ASSUME NEW T \in SUBSET Nat, T # {}
    PROVE  \E x \in T : \A y \in T : x <= y
<1>1. PICK x \in T : \A y \in T : ~(<<y, x>> \in OpToRel(<, Nat))
  BY NatLessThanWellFounded, WFMin
<1>2. ASSUME NEW y \in T PROVE x <= y
  <2>1. <<y, x>> \in Nat \X Nat /\ <<y, x>>[1] = y /\ <<y, x>>[2] = x
    OBVIOUS
  <2>2. y < x => <<y, x>> \in OpToRel(<, Nat)
    BY <2>1 DEF OpToRel
  <2>3. ~(y < x)
    BY <1>1, <2>2
  <2> QED
    BY <2>3
<1> QED
  BY <1>2

LEMMA MinIsLeast ==
    ASSUME NEW T \in SUBSET Nat, T # {}
    PROVE  Min(T) \in T /\ \A y \in T : Min(T) <= y
<1>1. \E x \in T : \A y \in T : x <= y
  BY Least
<1> QED
  BY <1>1 DEF Min

-----------------------------------------------------------------------------
LEMMA SeqBasics ==
    ASSUME NEW S, NEW q \in Seq(S)
    PROVE  /\ Len(q) \in Nat /\ DOMAIN q = 1..Len(q)
           /\ \A i \in 1..Len(q) : q[i] \in S /\ q[i] \in ToSet(q)
           /\ ToSet(q) \subseteq S
           /\ \A e \in ToSet(q) : \E i \in 1..Len(q) : q[i] = e
           /\ q = <<>> <=> ToSet(q) = {}
           /\ q = <<>> <=> Len(q) = 0
<1>1. Len(q) \in Nat /\ DOMAIN q = 1..Len(q) /\ \A i \in 1..Len(q) : q[i] \in S
  BY LenProperties, ElementOfSeq
<1>2. q = <<>> <=> Len(q) = 0
  BY EmptySeq
<1>3. ToSet(q) = {q[i] : i \in 1..Len(q)}
  BY <1>1 DEF ToSet
<1>4. Len(q) # 0 => 1 \in 1..Len(q)
  BY <1>1
<1> QED
  BY <1>1, <1>2, <1>3, <1>4

\* What the operators on sequences do, by position.

LEMMA RemoveAtAt ==
    ASSUME NEW S, NEW q \in Seq(S), NEW k \in 1..Len(q)
    PROVE  /\ RemoveAt(q, k) \in Seq(S) /\ Len(q) \in Nat /\ Len(RemoveAt(q, k)) = Len(q) - 1
           /\ \A i \in 1..(Len(q) - 1) : RemoveAt(q, k)[i] = IF i < k THEN q[i] ELSE q[i + 1]
           /\ \A i \in 1..Len(q) : q[i] \in S
<1> DEFINE a == SubSeq(q, 1, k - 1)
           b == SubSeq(q, k + 1, Len(q))
<1>1. Len(q) \in Nat /\ \A i \in 1..Len(q) : q[i] \in S
  BY LenProperties, ElementOfSeq
<1>2. a \in Seq(S) /\ Len(a) = k - 1 /\ \A i \in 1..(k-1) : a[i] = q[i]
  <2>1. k - 1 \in Int /\ \A i \in 1..(k - 1) : q[i] \in S
    BY <1>1
  <2>2. /\ a \in Seq(S) /\ Len(a) = IF 1 <= k - 1 THEN (k - 1) - 1 + 1 ELSE 0
        /\ \A i \in 1..((k - 1) - 1 + 1) : a[i] = q[1 + i - 1]
    BY <2>1, SubSeqProperties
  <2> QED
    BY <1>1, <2>2
<1>3. b \in Seq(S) /\ Len(b) = Len(q) - k /\ \A i \in 1..(Len(q) - k) : b[i] = q[k + i]
  <2>1. k + 1 \in Int /\ Len(q) \in Int /\ \A i \in (k + 1)..Len(q) : q[i] \in S
    BY <1>1
  <2>2. /\ b \in Seq(S) /\ Len(b) = IF k + 1 <= Len(q) THEN Len(q) - (k + 1) + 1 ELSE 0
        /\ \A i \in 1..(Len(q) - (k + 1) + 1) : b[i] = q[(k + 1) + i - 1]
    BY <2>1, SubSeqProperties
  <2> QED
    BY <1>1, <2>2
<1> HIDE DEF a, b
<1>4. RemoveAt(q, k) = a \o b
  BY DEF RemoveAt, a, b
<1>5. /\ a \o b \in Seq(S) /\ Len(a \o b) = Len(q) - 1
      /\ \A i \in 1..(Len(q) - 1) : (a \o b)[i] = IF i <= k - 1 THEN a[i] ELSE b[i - (k - 1)]
  <2>1. /\ a \o b \in Seq(S) /\ Len(a \o b) = Len(a) + Len(b)
        /\ \A i \in 1..(Len(a) + Len(b)) : (a \o b)[i] = IF i <= Len(a) THEN a[i] ELSE b[i - Len(a)]
    BY <1>2, <1>3, ConcatProperties
  <2>2. Len(a) + Len(b) = Len(q) - 1 /\ Len(a) = k - 1
    BY <1>1, <1>2, <1>3
  <2> QED
    BY <2>1, <2>2
<1>6. ASSUME NEW i \in 1..(Len(q) - 1)
      PROVE  (a \o b)[i] = IF i < k THEN q[i] ELSE q[i + 1]
  <2>1. CASE i < k
    BY <1>1, <1>2, <1>5, <2>1
  <2>2. CASE ~(i < k)
    <3>1. i - (k - 1) \in 1..(Len(q) - k)
      BY <1>1, <2>2
    <3>2. b[i - (k - 1)] = q[k + (i - (k - 1))]
      BY <1>3, <3>1
    <3> QED
      BY <1>1, <1>5, <2>2, <3>2
  <2> QED
    BY <2>1, <2>2
<1> QED
  BY <1>1, <1>4, <1>5, <1>6

LEMMA AppendAt ==
    ASSUME NEW S, NEW q \in Seq(S), NEW e \in S
    PROVE  /\ Append(q, e) \in Seq(S) /\ Len(q) \in Nat /\ Len(Append(q, e)) = Len(q) + 1
           /\ \A i \in 1..Len(q) : Append(q, e)[i] = q[i] /\ q[i] \in S
           /\ Append(q, e)[Len(q) + 1] = e
BY AppendProperties, ElementOfSeq, LenProperties

LEMMA TailAt ==
    ASSUME NEW S, NEW q \in Seq(S), q # <<>>
    PROVE  /\ Tail(q) \in Seq(S) /\ Len(q) \in Nat /\ Len(q) >= 1 /\ Len(Tail(q)) = Len(q) - 1
           /\ Head(q) = q[1] /\ Head(q) \in S
           /\ \A i \in 1..(Len(q) - 1) : Tail(q)[i] = q[i + 1]
           /\ \A i \in 1..Len(q) : q[i] \in S
<1>1. Len(q) \in Nat /\ Len(q) >= 1
  BY EmptySeq
<1> QED
  BY <1>1, HeadTailProperties, ElementOfSeq

LEMMA PrependAt ==
    ASSUME NEW S, NEW q \in Seq(S), NEW e \in S
    PROVE  /\ <<e>> \o q \in Seq(S) /\ Len(q) \in Nat /\ Len(<<e>> \o q) = Len(q) + 1
           /\ (<<e>> \o q)[1] = e
           /\ \A i \in 1..Len(q) : (<<e>> \o q)[i + 1] = q[i]
<1>1. <<e>> \in Seq(S) /\ Len(<<e>>) = 1 /\ <<e>>[1] = e /\ Len(q) \in Nat
  OBVIOUS
<1>2. /\ <<e>> \o q \in Seq(S) /\ Len(<<e>> \o q) = 1 + Len(q)
      /\ \A i \in 1..(1 + Len(q)) : (<<e>> \o q)[i] = IF i <= 1 THEN <<e>>[i] ELSE q[i - 1]
  BY <1>1, ConcatProperties
<1>3. ASSUME NEW i \in 1..Len(q) PROVE (<<e>> \o q)[i + 1] = q[i]
  <2>1. i + 1 \in 1..(1 + Len(q)) /\ ~(i + 1 <= 1) /\ (i + 1) - 1 = i
    BY <1>1
  <2> QED
    BY <1>2, <2>1
<1>4. 1 \in 1..(1 + Len(q)) /\ 1 <= 1
  BY <1>1
<1> QED
  BY <1>1, <1>2, <1>3, <1>4

\* Dropping the first n elements, and moving them behind another sequence.
LEMMA DropAt ==
    ASSUME NEW S, NEW q \in Seq(S), NEW n \in Nat
    PROVE  /\ SubSeq(q, n + 1, Len(q)) \in Seq(S) /\ Len(q) \in Nat
           /\ Len(SubSeq(q, n + 1, Len(q))) = IF n <= Len(q) THEN Len(q) - n ELSE 0
           /\ \A i \in 1..(Len(q) - n) : SubSeq(q, n + 1, Len(q))[i] = q[n + i]
<1> DEFINE b == SubSeq(q, n + 1, Len(q))
<1>1. Len(q) \in Nat /\ \A i \in 1..Len(q) : q[i] \in S
  BY LenProperties, ElementOfSeq
<1>2. n + 1 \in Int /\ Len(q) \in Int /\ \A i \in (n + 1)..Len(q) : q[i] \in S
  BY <1>1
<1>3. /\ b \in Seq(S) /\ Len(b) = IF n + 1 <= Len(q) THEN Len(q) - (n + 1) + 1 ELSE 0
      /\ \A i \in 1..(Len(q) - (n + 1) + 1) : b[i] = q[(n + 1) + i - 1]
  BY <1>2, SubSeqProperties
<1> HIDE DEF b
<1>4. Len(b) = IF n <= Len(q) THEN Len(q) - n ELSE 0
  BY <1>1, <1>3
<1>5. \A i \in 1..(Len(q) - n) : b[i] = q[n + i]
  BY <1>1, <1>3
<1> QED
  BY <1>1, <1>3, <1>4, <1>5 DEF b

LEMMA MoveAt ==
    ASSUME NEW S, NEW p \in Seq(S), NEW q \in Seq(S), NEW n \in 0..Len(q)
    PROVE  /\ p \o SubSeq(q, 1, n) \in Seq(S) /\ Len(p) \in Nat /\ Len(q) \in Nat
           /\ Len(p \o SubSeq(q, 1, n)) = Len(p) + n
           /\ \A i \in 1..Len(p) : (p \o SubSeq(q, 1, n))[i] = p[i]
           /\ \A i \in 1..n : (p \o SubSeq(q, 1, n))[Len(p) + i] = q[i]
<1> DEFINE a == SubSeq(q, 1, n)
<1>1. Len(q) \in Nat /\ Len(p) \in Nat /\ \A i \in 1..Len(q) : q[i] \in S
  BY LenProperties, ElementOfSeq
<1>2. 1 \in Int /\ n \in Int /\ \A i \in 1..n : q[i] \in S
  BY <1>1
<1>3. /\ a \in Seq(S) /\ Len(a) = IF 1 <= n THEN n - 1 + 1 ELSE 0
      /\ \A i \in 1..(n - 1 + 1) : a[i] = q[1 + i - 1]
  BY <1>2, SubSeqProperties
<1> HIDE DEF a
<1>4. Len(a) = n /\ \A i \in 1..n : a[i] = q[i]
  BY <1>1, <1>3
<1>5. /\ p \o a \in Seq(S) /\ Len(p \o a) = Len(p) + Len(a)
      /\ \A i \in 1..(Len(p) + Len(a)) : (p \o a)[i] = IF i <= Len(p) THEN p[i] ELSE a[i - Len(p)]
  BY <1>3, ConcatProperties
<1>6. ASSUME NEW i \in 1..Len(p) PROVE (p \o a)[i] = p[i]
  <2>1. i \in 1..(Len(p) + Len(a)) /\ i <= Len(p)
    BY <1>1, <1>4
  <2> QED
    BY <1>5, <2>1
<1>7. ASSUME NEW i \in 1..n PROVE (p \o a)[Len(p) + i] = q[i]
  <2>1. Len(p) + i \in 1..(Len(p) + Len(a)) /\ ~(Len(p) + i <= Len(p)) /\ (Len(p) + i) - Len(p) = i
    BY <1>1, <1>4
  <2> QED
    BY <1>4, <1>5, <2>1
<1> QED
  BY <1>1, <1>4, <1>5, <1>6, <1>7 DEF a

LEMMA ConcatAt ==
    ASSUME NEW S, NEW p \in Seq(S), NEW q \in Seq(S)
    PROVE  /\ p \o q \in Seq(S) /\ Len(p) \in Nat /\ Len(q) \in Nat /\ Len(p \o q) = Len(p) + Len(q)
           /\ \A i \in 1..Len(p) : (p \o q)[i] = p[i]
           /\ \A i \in 1..Len(q) : (p \o q)[Len(p) + i] = q[i]
<1>1. Len(p) \in Nat /\ Len(q) \in Nat
  BY LenProperties
<1>2. /\ p \o q \in Seq(S) /\ Len(p \o q) = Len(p) + Len(q)
      /\ \A i \in 1..(Len(p) + Len(q)) : (p \o q)[i] = IF i <= Len(p) THEN p[i] ELSE q[i - Len(p)]
  BY ConcatProperties
<1>3. ASSUME NEW i \in 1..Len(p) PROVE (p \o q)[i] = p[i]
  <2>1. i \in 1..(Len(p) + Len(q)) /\ i <= Len(p)
    BY <1>1
  <2> QED
    BY <1>2, <2>1
<1>4. ASSUME NEW i \in 1..Len(q) PROVE (p \o q)[Len(p) + i] = q[i]
  <2>1. Len(p) + i \in 1..(Len(p) + Len(q)) /\ ~(Len(p) + i <= Len(p)) /\ (Len(p) + i) - Len(p) = i
    BY <1>1
  <2> QED
    BY <1>2, <2>1
<1> QED
  BY <1>1, <1>2, <1>3, <1>4

\* Moving the first n elements of q behind p loses nothing.
LEMMA MoveKeeps ==
    ASSUME NEW S, NEW p \in Seq(S), NEW q \in Seq(S), NEW n \in 0..Len(q)
    PROVE  (p \o SubSeq(q, 1, n)) \o SubSeq(q, n + 1, Len(q)) = p \o q
<1> DEFINE a == SubSeq(q, 1, n)
           b == SubSeq(q, n + 1, Len(q))
<1>1. Len(q) \in Nat /\ n \in Nat /\ \A i \in 1..Len(q) : q[i] \in S
  BY LenProperties, ElementOfSeq
<1>2. a \in Seq(S) /\ b \in Seq(S)
  <2>1. 1 \in Int /\ n \in Int /\ \A i \in 1..n : q[i] \in S
    BY <1>1
  <2>2. b \in Seq(S)
    BY <1>1, DropAt
  <2> QED
    BY <2>1, <2>2, SubSeqProperties
<1>3. a \o b = q
  <2>1. 1 \in 1..(Len(q) + 1) /\ n \in (1 - 1)..Len(q) /\ Len(q) \in n..Len(q)
    BY <1>1
  <2>2. a \o b = SubSeq(q, 1, Len(q))
    BY <2>1, ConcatAdjacentSubSeq
  <2> QED
    BY <2>2, SubSeqFull
<1> HIDE DEF a, b
<1>4. (p \o a) \o b = p \o (a \o b)
  BY <1>2, ConcatAssociative
<1> QED
  BY <1>3, <1>4 DEF a, b

-----------------------------------------------------------------------------
\* The same by elements.

LEMMA EmptyQueue == <<>> \in Seq({}) /\ ToSet(<<>>) = {} /\ IsInjective(<<>>)
BY DEF ToSet, IsInjective

LEMMA Enqueue ==
    ASSUME NEW S, NEW q \in Seq(S), NEW e \in S, IsInjective(q), e \notin ToSet(q)
    PROVE  /\ Append(q, e) \in Seq(S) /\ IsInjective(Append(q, e))
           /\ ToSet(Append(q, e)) = ToSet(q) \cup {e}
<1> DEFINE r == Append(q, e)
<1>1. /\ r \in Seq(S) /\ Len(q) \in Nat /\ Len(r) = Len(q) + 1
      /\ \A i \in 1..Len(q) : r[i] = q[i] /\ q[i] \in ToSet(q)
      /\ r[Len(q) + 1] = e
  BY AppendAt, SeqBasics
<1> HIDE DEF r
<1>2. DOMAIN r = 1..Len(r) /\ DOMAIN q = 1..Len(q)
  BY <1>1, SeqBasics
<1>3. \A i \in 1..Len(r) : i \in 1..Len(q) \/ i = Len(q) + 1
  BY <1>1
<1>4. IsInjective(r)
  BY <1>1, <1>2, <1>3 DEF IsInjective
<1>5. \A i \in 1..Len(q) : i \in 1..Len(r)
  BY <1>1
<1>6. Len(q) + 1 \in 1..Len(r)
  BY <1>1
<1>7. ToSet(r) = ToSet(q) \cup {e}
  BY <1>1, <1>2, <1>3, <1>5, <1>6 DEF ToSet
<1> QED
  BY <1>1, <1>4, <1>7 DEF r

LEMMA Dequeue ==
    ASSUME NEW S, NEW q \in Seq(S), q # <<>>, IsInjective(q)
    PROVE  /\ Tail(q) \in Seq(S) /\ IsInjective(Tail(q))
           /\ Head(q) \in S /\ Head(q) \in ToSet(q)
           /\ ToSet(Tail(q)) = ToSet(q) \ {Head(q)}
<1> DEFINE r == Tail(q)
<1>1. /\ r \in Seq(S) /\ Len(q) \in Nat /\ Len(q) >= 1 /\ Len(r) = Len(q) - 1
      /\ Head(q) = q[1] /\ Head(q) \in S
      /\ \A i \in 1..(Len(q) - 1) : r[i] = q[i + 1]
  BY TailAt
<1> HIDE DEF r
<1>2. DOMAIN r = 1..Len(r) /\ DOMAIN q = 1..Len(q)
  BY <1>1, SeqBasics
<1>3. \A i \in 1..Len(r) : i + 1 \in 1..Len(q) /\ r[i] = q[i + 1] /\ i + 1 # 1
  BY <1>1
<1>4. \A i \in 1..Len(q) : i = 1 \/ (i - 1 \in 1..Len(r) /\ r[i - 1] = q[i])
  BY <1>1
<1>5. 1 \in 1..Len(q) /\ \A i, j \in 1..Len(q) : q[i] = q[j] => i = j
  BY <1>1, <1>2 DEF IsInjective
<1>6. ASSUME NEW i \in 1..Len(r), NEW j \in 1..Len(r), r[i] = r[j] PROVE i = j
  <2>1. i + 1 = j + 1
    BY <1>3, <1>5, <1>6
  <2> QED
    BY <1>1, <2>1
<1>7. Head(q) \in ToSet(q)
  BY <1>1, <1>2, <1>5 DEF ToSet
<1>8. ToSet(r) = ToSet(q) \ {Head(q)}
  <2>1. ASSUME NEW x \in ToSet(r) PROVE x \in ToSet(q) /\ x # q[1]
    <3>1. PICK i \in 1..Len(r) : x = r[i]
      BY <1>2 DEF ToSet
    <3> QED
      BY <1>2, <1>3, <1>5, <3>1 DEF ToSet
  <2>2. ASSUME NEW x \in ToSet(q), x # q[1] PROVE x \in ToSet(r)
    <3>1. PICK i \in 1..Len(q) : x = q[i]
      BY <1>2 DEF ToSet
    <3>2. i - 1 \in 1..Len(r) /\ x = r[i - 1]
      BY <1>4, <2>2, <3>1
    <3> QED
      BY <1>2, <3>2 DEF ToSet
  <2> QED
    BY <1>1, <2>1, <2>2
<1> QED
  BY <1>1, <1>2, <1>6, <1>7, <1>8 DEF IsInjective, r

LEMMA PutBackQueue ==
    ASSUME NEW S, NEW q \in Seq(S), NEW e \in S, IsInjective(q), e \notin ToSet(q)
    PROVE  /\ <<e>> \o q \in Seq(S) /\ IsInjective(<<e>> \o q)
           /\ ToSet(<<e>> \o q) = ToSet(q) \cup {e}
           /\ <<e>> \o q # <<>> /\ Head(<<e>> \o q) = e
<1> DEFINE r == <<e>> \o q
<1>1. /\ r \in Seq(S) /\ Len(q) \in Nat /\ Len(r) = Len(q) + 1 /\ r[1] = e
      /\ \A i \in 1..Len(q) : r[i + 1] = q[i] /\ q[i] \in ToSet(q)
  BY PrependAt, SeqBasics
<1> HIDE DEF r
<1>2. DOMAIN r = 1..Len(r) /\ DOMAIN q = 1..Len(q) /\ r # <<>> /\ Head(r) = r[1]
  <2>1. Len(r) # 0
    BY <1>1
  <2> QED
    BY <1>1, <2>1, SeqBasics, HeadTailProperties
<1>3. \A i \in 1..Len(r) : i = 1 \/ (i - 1 \in 1..Len(q) /\ r[i] = q[i - 1])
  <2> SUFFICES ASSUME NEW i \in 1..Len(r), i # 1 PROVE i - 1 \in 1..Len(q) /\ r[i] = q[i - 1]
    OBVIOUS
  <2>1. i - 1 \in 1..Len(q) /\ (i - 1) + 1 = i
    BY <1>1
  <2> QED
    BY <1>1, <2>1
<1>4. \A i, j \in 1..Len(q) : q[i] = q[j] => i = j
  BY <1>2 DEF IsInjective
<1>5. ASSUME NEW i \in 1..Len(r), NEW j \in 1..Len(r), r[i] = r[j] PROVE i = j
  <2>1. CASE i = 1 \/ j = 1
    BY <1>1, <1>3, <1>5, <2>1
  <2>2. CASE i # 1 /\ j # 1
    <3>1. i - 1 = j - 1
      BY <1>3, <1>4, <1>5, <2>2
    <3> QED
      BY <1>1, <3>1
  <2> QED
    BY <2>1, <2>2
<1>6. ToSet(r) = ToSet(q) \cup {e}
  <2>1. ASSUME NEW x \in ToSet(r) PROVE x \in ToSet(q) \/ x = e
    <3>1. PICK i \in 1..Len(r) : x = r[i]
      BY <1>2 DEF ToSet
    <3> QED
      BY <1>1, <1>3, <3>1
  <2>2. ASSUME NEW x \in ToSet(q) PROVE x \in ToSet(r)
    <3>1. PICK i \in 1..Len(q) : x = q[i]
      BY <1>2 DEF ToSet
    <3>2. i + 1 \in 1..Len(r) /\ r[i + 1] = x
      BY <1>1, <3>1
    <3> QED
      BY <1>2, <3>2 DEF ToSet
  <2>3. e \in ToSet(r)
    <3>1. 1 \in 1..Len(r)
      BY <1>1
    <3> QED
      BY <1>1, <1>2, <3>1 DEF ToSet
  <2> QED
    BY <2>1, <2>2, <2>3
<1> QED
  BY <1>1, <1>2, <1>5, <1>6 DEF IsInjective, r

LEMMA EraseAt ==
    ASSUME NEW S, NEW q \in Seq(S), IsInjective(q), NEW k \in 1..Len(q), NEW e, q[k] = e
    PROVE  /\ RemoveAt(q, k) \in Seq(S) /\ IsInjective(RemoveAt(q, k))
           /\ ToSet(RemoveAt(q, k)) = ToSet(q) \ {e}
           /\ Len(RemoveAt(q, k)) = Len(q) - 1 /\ Len(q) \in Nat
           /\ \A i \in 1..(Len(q) - 1) : RemoveAt(q, k)[i] = IF i < k THEN q[i] ELSE q[i + 1]
<1> DEFINE r == RemoveAt(q, k)
<1>1. DOMAIN q = 1..Len(q)
  BY SeqBasics
<1>2. k \in 1..Len(q) /\ q[k] = e
  OBVIOUS
<1>3. /\ r \in Seq(S) /\ Len(q) \in Nat /\ Len(r) = Len(q) - 1
      /\ \A i \in 1..(Len(q) - 1) : r[i] = IF i < k THEN q[i] ELSE q[i + 1]
  BY <1>2, RemoveAtAt
<1> HIDE DEF r
<1>4. DOMAIN r = 1..Len(r)
  BY <1>3, SeqBasics
<1> DEFINE at(n) == IF n < k THEN n ELSE n + 1
<1>5. ASSUME NEW i \in 1..Len(r) PROVE at(i) \in 1..Len(q) /\ at(i) # k /\ r[i] = q[at(i)]
  <2>1. /\ k \in Int /\ 1 <= k /\ k <= Len(q) /\ i \in Int /\ 1 <= i /\ i <= Len(q) - 1 /\ Len(q) \in Nat
        /\ i \in 1..(Len(q) - 1)
    BY <1>2, <1>3
  <2>2. r[i] = IF i < k THEN q[i] ELSE q[i + 1]
    BY <1>3, <2>1
  <2> QED
    BY <2>1, <2>2
<1>6. \A i, j \in 1..Len(q) : q[i] = q[j] => i = j
  BY <1>1 DEF IsInjective
<1>7. ASSUME NEW i \in 1..Len(r), NEW j \in 1..Len(r), r[i] = r[j] PROVE i = j
  <2>1. at(i) = at(j)
    BY <1>5, <1>6, <1>7
  <2> QED
    BY <1>2, <1>3, <2>1
<1>8. ASSUME NEW x \in ToSet(r) PROVE x \in ToSet(q) /\ x # e
  <2>1. PICK i \in 1..Len(r) : x = r[i]
    BY <1>4 DEF ToSet
  <2>2. PICK j \in 1..Len(q) : x = q[j] /\ j # k
    BY <1>5, <2>1
  <2> QED
    BY <1>1, <1>2, <1>6, <2>2 DEF ToSet
<1>9. ASSUME NEW x \in ToSet(q), x # e PROVE x \in ToSet(r)
  <2>1. PICK j \in 1..Len(q) : x = q[j]
    BY <1>1 DEF ToSet
  <2>2. j # k
    BY <1>2, <1>9, <2>1
  <2>3. CASE j < k
    <3>1. j \in 1..Len(r) /\ r[j] = q[j]
      BY <1>2, <1>3, <2>3
    <3> QED
      BY <1>4, <2>1, <3>1 DEF ToSet
  <2>4. CASE ~(j < k)
    <3>1. j - 1 \in 1..Len(r) /\ ~(j - 1 < k) /\ (j - 1) + 1 = j
      BY <1>2, <1>3, <2>2, <2>4
    <3>2. r[j - 1] = q[j]
      BY <1>3, <3>1
    <3> QED
      BY <1>4, <2>1, <3>1, <3>2 DEF ToSet
  <2> QED
    BY <2>3, <2>4
<1> QED
  BY <1>2, <1>3, <1>4, <1>7, <1>8, <1>9 DEF IsInjective, r

\* The position of an element, as the models look it up.
LEMMA PositionOf ==
    ASSUME NEW S, NEW q \in Seq(S), NEW e \in ToSet(q)
    PROVE  LET k == CHOOSE i \in DOMAIN q : q[i] = e IN k \in 1..Len(q) /\ q[k] = e
<1>1. DOMAIN q = 1..Len(q) /\ \E i \in DOMAIN q : q[i] = e
  BY SeqBasics
<1> QED
  BY <1>1

\* A queue together with the task taken from it.
LEMMA WithTaken ==
    ASSUME NEW S, NEW q \in Seq(S), NEW e \in S, IsInjective(q), e \notin ToSet(q)
    PROVE  IsInjective(q \o <<e>>) /\ ToSet(q \o <<e>>) = ToSet(q) \cup {e}
<1>1. q \o <<e>> = Append(q, e)
  BY AppendIsConcat
<1>2. IsInjective(Append(q, e)) /\ ToSet(Append(q, e)) = ToSet(q) \cup {e}
  BY Enqueue
<1> QED
  BY <1>1, <1>2, Zenon
=============================================================================
