----------------------------- MODULE VoiceProofs -----------------------------
(***************************************************************************)
(* Proofs about the play queue, the voice that keeps account with it and   *)
(* the speaker that plays with the voice.                                  *)
(***************************************************************************)
EXTENDS PlayQueue, Speaker, SequenceTheorems, FiniteSetTheorems, WellFoundedInduction, TLAPS

-----------------------------------------------------------------------------
(* Induction and recursion over numbers                                     *)

\* Every set of numbers has a least element.
LEMMA Least ==
    ASSUME NEW T \in SUBSET Nat, T # {}
    PROVE  \E n \in T : \A m \in T : n <= m
<1> DEFINE Less == {ss \in Nat \X Nat : ss[1] < ss[2]}
<1>1. IsWellFoundedOn(Less, Nat)
  BY NatLessThanWellFounded DEF OpToRel
<1>2. \A x, y \in Nat : x < y => <<x, y>> \in Less
  OBVIOUS
<1> HIDE DEF Less
<1>3. PICK x \in T : \A y \in T : <<y, x>> \notin Less
  BY <1>1, WFMin
<1>4. \A y \in T : x <= y
  <2> SUFFICES ASSUME NEW y \in T PROVE x <= y
    OBVIOUS
  <2>1. x \in Nat /\ y \in Nat /\ ~(y < x)
    BY <1>2, <1>3
  <2> QED
    BY <2>1
<1> QED
  BY <1>4

\* Induction, with a set for the property
LEMMA SetInduction ==
    ASSUME NEW T \in SUBSET Nat, 0 \in T, \A n \in T : n + 1 \in T PROVE T = Nat
<1> SUFFICES ASSUME T # Nat PROVE FALSE
  OBVIOUS
<1>1. PICK n \in Nat \ T : \A m \in Nat \ T : n <= m
  BY Least
<1>2. n - 1 \in T
  BY <1>1
<1> QED
  BY <1>1, <1>2

\* Induction up to a bound
LEMMA BoundedInduction ==
    ASSUME NEW N \in Nat, NEW T, 0 \in T, \A n \in 0 .. N : n \in T /\ n < N => n + 1 \in T
    PROVE  0 .. N \subseteq T
<1> DEFINE U == {n \in Nat : n <= N => n \in T}
<1>1. 0 \in U /\ U \in SUBSET Nat
  OBVIOUS
<1>2. ASSUME NEW n \in U PROVE n + 1 \in U
  <2>1. n \in Nat /\ n + 1 \in Nat
    OBVIOUS
  <2>2. ASSUME n + 1 <= N PROVE n + 1 \in T
    BY <2>1, <2>2
  <2> QED
    BY <2>1, <2>2
<1>3. 0 .. N \subseteq U => 0 .. N \subseteq T
  OBVIOUS
<1> HIDE DEF U
<1>4. U = Nat
  BY <1>1, <1>2, SetInduction
<1> QED
  BY <1>3, <1>4

\* A function may be defined by recursion up to a bound.
Iterates(f, x, step, N) == f[0] = x /\ \A n \in 1 .. N : f[n] = step[n][f[n - 1]]

LEMMA Recursion ==
    ASSUME NEW N \in Nat, NEW S, NEW x \in S, NEW step \in [Nat -> [S -> S]]
    PROVE  \E f \in [0 .. N -> S] : Iterates(f, x, step, N)
<1> DEFINE T == {k \in Nat : \E f \in [0 .. k -> S] : f[0] = x /\ \A n \in 1 .. k : f[n] = step[n][f[n - 1]]}
<1>1. 0 \in T
  <2> DEFINE f == [n \in 0 .. 0 |-> x]
  <2>1. f \in [0 .. 0 -> S] /\ f[0] = x /\ \A n \in 1 .. 0 : f[n] = step[n][f[n - 1]]
    OBVIOUS
  <2> QED
    BY <2>1
<1>2. ASSUME NEW k \in T PROVE k + 1 \in T
  <2>1. PICK f \in [0 .. k -> S] : f[0] = x /\ \A n \in 1 .. k : f[n] = step[n][f[n - 1]]
    OBVIOUS
  <2> DEFINE g == [n \in 0 .. k + 1 |-> IF n = k + 1 THEN step[k + 1][f[k]] ELSE f[n]]
  <2>0. k \in Nat OBVIOUS
  <2>2. g \in [0 .. k + 1 -> S]
    BY <2>0, <2>1
  <2>3. g[0] = x /\ \A n \in 1 .. k + 1 : g[n] = step[n][g[n - 1]]
    BY <2>0, <2>1
  <2>4. k + 1 \in Nat
    BY <2>0
  <2> HIDE DEF g
  <2>5. \E f2 \in [0 .. k + 1 -> S] : f2[0] = x /\ \A n \in 1 .. k + 1 : f2[n] = step[n][f2[n - 1]]
    BY <2>2, <2>3
  <2> QED
    BY <2>4, <2>5
<1> HIDE DEF T
<1>3. T = Nat
  <2>1. T \in SUBSET Nat
    BY DEF T
  <2> QED
    BY <1>1, <1>2, <2>1, SetInduction
<1> QED
  BY <1>3 DEF T, Iterates

-----------------------------------------------------------------------------
(* The lists of a play queue                                                *)

Backward(s) == [i \in 1 .. Len(s) |-> s[Len(s) + 1 - i]]

Distinct(s) == \A i, j \in 1 .. Len(s) : s[i] = s[j] => i = j

First(s) == IF s = <<>> THEN NULL ELSE s[1]
Final(s) == IF s = <<>> THEN NULL ELSE s[Len(s)]

\* The pointers lead from each element of s to the next.
Linked(pointers, s) == \A i \in 1 .. Len(s) : pointers[s[i]] = IF i = Len(s) THEN NULL ELSE s[i + 1]

Lists(V) ==
    [avail : Ids \cup {NULL}, queued : Ids \cup {NULL}, head : Ids \cup {NULL},
     next : [Ids -> Ids \cup {NULL}], prev : [Ids -> Ids \cup {NULL}], numBytes : [Ids -> V]]

\* No node is in both, and every node is in one.
Apart(q, p) == \A i \in 1 .. Len(q), j \in 1 .. Len(p) : q[i] # p[j]
Cover(q, p) == \A b \in Ids : (\E i \in 1 .. Len(q) : q[i] = b) \/ (\E j \in 1 .. Len(p) : p[j] = b)

\* q has the nodes in play, oldest first, and p those of the pool from the top.
Shared(q, p) ==
    /\ q \in Seq(Ids) /\ p \in Seq(Ids) /\ Distinct(q) /\ Distinct(p)
    /\ Apart(q, p) /\ Cover(q, p)
    /\ Len(q) + Len(p) = Len(Buffers)

Threads(l, q, p) ==
    /\ l.avail = First(p) /\ l.head = First(q) /\ l.queued = Final(q)
    /\ Linked(l.next, p) /\ Linked(l.prev, q)
    /\ \A i \in 1 .. Len(q) : l.next[q[i]] = IF i = 1 THEN NULL ELSE q[i - 1]

Represents(l, q, p) == Shared(q, p) /\ Threads(l, q, p)

Without(s, k) == [i \in 1 .. Len(s) - 1 |-> IF i < k THEN s[i] ELSE s[i + 1]]
Pushed(s, b) == [i \in 1 .. Len(s) + 1 |-> IF i = 1 THEN b ELSE s[i - 1]]

\* A function over an initial segment is a sequence.
LEMMA SegmentIsSeq ==
    ASSUME NEW S, NEW n \in Nat, NEW f \in [1 .. n -> S]
    PROVE  f \in Seq(S) /\ Len(f) = n /\ DOMAIN f = 1 .. n
  OBVIOUS

LEMMA WithoutType ==
    ASSUME NEW S, NEW s \in Seq(S), NEW k \in 1 .. Len(s)
    PROVE  /\ Without(s, k) \in Seq(S) /\ Len(Without(s, k)) = Len(s) - 1
           /\ \A i \in 1 .. Len(s) - 1 : Without(s, k)[i] = IF i < k THEN s[i] ELSE s[i + 1]
<1>1. Len(s) \in Nat /\ Len(s) - 1 \in Nat /\ \A i \in 1 .. Len(s) : s[i] \in S
  OBVIOUS
<1>2. Without(s, k) \in [1 .. Len(s) - 1 -> S]
  BY <1>1 DEF Without
<1> QED
  BY <1>1, <1>2, SegmentIsSeq DEF Without

LEMMA PushedType ==
    ASSUME NEW S, NEW s \in Seq(S), NEW b \in S
    PROVE  /\ Pushed(s, b) \in Seq(S) /\ Len(Pushed(s, b)) = Len(s) + 1
           /\ Pushed(s, b)[1] = b /\ \A i \in 1 .. Len(s) : Pushed(s, b)[i + 1] = s[i]
<1>1. Len(s) \in Nat /\ Len(s) + 1 \in Nat /\ \A i \in 1 .. Len(s) : s[i] \in S
  OBVIOUS
<1>2. Pushed(s, b) \in [1 .. Len(s) + 1 -> S]
  BY <1>1 DEF Pushed
<1> QED
  BY <1>1, <1>2, SegmentIsSeq DEF Pushed

\* The same by the operators for sequences
LEMMA WithoutIsRemoveAt ==
    ASSUME NEW S, NEW s \in Seq(S), NEW k \in 1 .. Len(s)
    PROVE  RemoveAt(s, k) = Without(s, k)
<1> DEFINE a == SubSeq(s, 1, k - 1)
           c == SubSeq(s, k + 1, Len(s))
<1>1. Len(s) \in Nat /\ \A i \in 1 .. Len(s) : s[i] \in S
  OBVIOUS
<1>2. a \in Seq(S) /\ Len(a) = k - 1 /\ \A i \in 1 .. k - 1 : a[i] = s[i]
  BY <1>1, SubSeqProperties
<1>3. c \in Seq(S) /\ Len(c) = Len(s) - k /\ \A i \in 1 .. Len(s) - k : c[i] = s[i + k]
  BY <1>1, SubSeqProperties
<1> HIDE DEF a, c
<1>4. a \o c \in Seq(S) /\ Len(a \o c) = Len(s) - 1
      /\ \A i \in 1 .. Len(s) - 1 : (a \o c)[i] = IF i < k THEN s[i] ELSE s[i + 1]
  <2>1. /\ a \o c \in Seq(S) /\ Len(a \o c) = Len(a) + Len(c)
        /\ \A i \in 1 .. Len(a) + Len(c) : (a \o c)[i] = IF i <= Len(a) THEN a[i] ELSE c[i - Len(a)]
    BY <1>2, <1>3, ConcatProperties
  <2>2. Len(a) + Len(c) = Len(s) - 1
    BY <1>1, <1>2, <1>3
  <2>3. ASSUME NEW i \in 1 .. Len(s) - 1 PROVE (a \o c)[i] = IF i < k THEN s[i] ELSE s[i + 1]
    <3>1. CASE i < k
      BY <1>1, <1>2, <2>1, <2>2, <3>1
    <3>2. CASE ~(i < k)
      <4>1. (a \o c)[i] = c[i - (k - 1)] /\ i - (k - 1) \in 1 .. Len(s) - k /\ (i - (k - 1)) + k = i + 1
        BY <1>1, <1>2, <2>1, <2>2, <3>2
      <4> QED
        BY <1>3, <3>2, <4>1
    <3> QED
      BY <3>1, <3>2
  <2> QED
    BY <2>1, <2>2, <2>3
<1>5. a \o c = Without(s, k)
  <2>1. /\ Without(s, k) \in Seq(S) /\ Len(Without(s, k)) = Len(s) - 1
        /\ \A i \in 1 .. Len(s) - 1 : Without(s, k)[i] = IF i < k THEN s[i] ELSE s[i + 1]
    BY WithoutType
  <2> QED
    BY <1>4, <2>1, SeqEqual
<1> QED
  BY <1>5 DEF RemoveAt, a, c

LEMMA TailIsWithout ==
    ASSUME NEW S, NEW s \in Seq(S), s # <<>>
    PROVE  Tail(s) = Without(s, 1) /\ Head(s) = s[1] /\ 1 \in 1 .. Len(s)
<1>1. Len(s) \in Nat /\ Len(s) # 0
  OBVIOUS
<1>2. 1 \in 1 .. Len(s)
  BY <1>1
<1>3. /\ Tail(s) \in Seq(S) /\ Len(Tail(s)) = Len(s) - 1
      /\ \A i \in 1 .. Len(s) - 1 : Tail(s)[i] = s[i + 1]
  BY HeadTailProperties
<1>4. /\ Without(s, 1) \in Seq(S) /\ Len(Without(s, 1)) = Len(s) - 1
      /\ \A i \in 1 .. Len(s) - 1 : Without(s, 1)[i] = s[i + 1]
  BY <1>2, WithoutType
<1>5. Tail(s) = Without(s, 1)
  BY <1>3, <1>4, SeqEqual
<1> QED
  BY <1>2, <1>5

LEMMA FrontIsWithout ==
    ASSUME NEW S, NEW s \in Seq(S), s # <<>>
    PROVE  Front(s) = Without(s, Len(s)) /\ Len(s) \in 1 .. Len(s)
<1>1. Len(s) \in Nat /\ Len(s) # 0 /\ Len(s) - 1 \in Nat /\ \A i \in 1 .. Len(s) : s[i] \in S
  OBVIOUS
<1>2. Len(s) \in 1 .. Len(s) /\ \A i \in 1 .. Len(s) - 1 : s[i] \in S
  BY <1>1
<1>3. /\ SubSeq(s, 1, Len(s) - 1) \in Seq(S) /\ Len(SubSeq(s, 1, Len(s) - 1)) = Len(s) - 1
      /\ \A i \in 1 .. Len(s) - 1 : SubSeq(s, 1, Len(s) - 1)[i] = s[i]
  <2> DEFINE m == Len(s) - 1
  <2>1. m \in Nat /\ \A i \in 1 .. m : s[i] \in S
    BY <1>1
  <2> HIDE DEF m
  <2>2. /\ SubSeq(s, 1, m) \in Seq(S) /\ Len(SubSeq(s, 1, m)) = IF 1 <= m THEN m - 1 + 1 ELSE 0
        /\ \A i \in 1 .. m - 1 + 1 : SubSeq(s, 1, m)[i] = s[1 + i - 1]
    BY <2>1, SubSeqProperties
  <2>3. Len(SubSeq(s, 1, m)) = m /\ \A i \in 1 .. m : SubSeq(s, 1, m)[i] = s[i]
    BY <2>1, <2>2
  <2> QED
    BY <2>2, <2>3 DEF m
<1>4. /\ Without(s, Len(s)) \in Seq(S) /\ Len(Without(s, Len(s))) = Len(s) - 1
      /\ \A i \in 1 .. Len(s) - 1 : Without(s, Len(s))[i] = s[i]
  BY <1>1, <1>2, WithoutType
<1>5. SubSeq(s, 1, Len(s) - 1) = Without(s, Len(s))
  BY <1>3, <1>4, SeqEqual
<1> QED
  BY <1>2, <1>5 DEF Front

\* A pointer walk meets the elements of a linked sequence.
LEMMA WalkMeets ==
    ASSUME NEW pointers, NEW s \in Seq(Ids), Len(s) <= Len(Buffers), Linked(pointers, s)
    PROVE  LET nth == Along(pointers, First(s)) IN
           /\ DOMAIN nth = 0 .. Len(Buffers)
           /\ \A n \in 0 .. Len(Buffers) : nth[n] = IF n < Len(s) THEN s[n + 1] ELSE NULL
<1> DEFINE first == First(s)
           Step(f) == [n \in 0 .. Len(Buffers) |->
                          IF n = 0 THEN first ELSE IF f[n - 1] = NULL THEN NULL ELSE pointers[f[n - 1]]]
           nth == CHOOSE f : f = Step(f)
           g == [n \in 0 .. Len(Buffers) |-> IF n < Len(s) THEN s[n + 1] ELSE NULL]
<1>1. /\ Len(Buffers) \in Nat /\ Len(s) \in Nat /\ NULL \notin Ids /\ \A i \in 1 .. Len(s) : s[i] \in Ids
      /\ s = <<>> <=> Len(s) = 0
  BY PQListAssumption
<1>2. \A n \in 0 .. Len(Buffers) : g[n] = Step(g)[n]
  <2> SUFFICES ASSUME NEW n \in 0 .. Len(Buffers) PROVE g[n] = Step(g)[n]
    OBVIOUS
  <2>1. CASE n = 0
    BY <1>1, <2>1 DEF First
  <2>2. CASE n # 0
    <3>1. n - 1 \in 0 .. Len(Buffers) /\ g[n - 1] = IF n - 1 < Len(s) THEN s[n] ELSE NULL
      BY <1>1, <2>2
    <3>2. CASE n - 1 < Len(s)
      BY <1>1, <2>2, <3>1, <3>2 DEF Linked
    <3>3. CASE ~(n - 1 < Len(s))
      BY <1>1, <2>2, <3>1, <3>3
    <3> QED
      BY <3>2, <3>3
  <2> QED
    BY <2>1, <2>2
<1>3. g = Step(g)
  BY <1>2
<1>4. nth = Step(nth)
  BY <1>3
<1>5. nth = Along(pointers, First(s))
  BY DEF Along
<1> HIDE DEF nth, g
<1> DEFINE T == {n \in 0 .. Len(Buffers) : nth[n] = g[n]}
<1>6. /\ DOMAIN nth = 0 .. Len(Buffers)
      /\ nth[0] = first
      /\ \A n \in 0 .. Len(Buffers) : n # 0 =>
             nth[n] = IF nth[n - 1] = NULL THEN NULL ELSE pointers[nth[n - 1]]
  <2>1. DOMAIN nth = DOMAIN Step(nth) /\ \A n \in 0 .. Len(Buffers) : nth[n] = Step(nth)[n]
    <3> HIDE DEF Step
    <3> QED
      BY <1>4
  <2> QED
    BY <1>1, <2>1
<1>7. /\ g[0] = first
      /\ \A n \in 0 .. Len(Buffers) : n # 0 =>
             g[n] = IF g[n - 1] = NULL THEN NULL ELSE pointers[g[n - 1]]
  BY <1>1, <1>2
<1> HIDE DEF first, Step
<1>8. 0 .. Len(Buffers) \subseteq T
  <2>1. 0 \in T
    BY <1>1, <1>6, <1>7
  <2>2. \A n \in 0 .. Len(Buffers) : n \in T /\ n < Len(Buffers) => n + 1 \in T
    BY <1>1, <1>6, <1>7
  <2> HIDE DEF T
  <2> QED
    BY <1>1, <2>1, <2>2, BoundedInduction
<1> QED
  BY <1>5, <1>6, <1>8 DEF g

LEMMA ChainMeets ==
    ASSUME NEW pointers, NEW s \in Seq(Ids), Len(s) <= Len(Buffers), Linked(pointers, s)
    PROVE  Chain(pointers, First(s)) = s
<1> DEFINE nth == Along(pointers, First(s))
           K == {k \in DOMAIN nth : nth[k] # NULL}
<1>1. /\ Len(Buffers) \in Nat /\ Len(s) \in Nat /\ NULL \notin Ids /\ \A i \in 1 .. Len(s) : s[i] \in Ids
  BY PQListAssumption
<1>2. /\ DOMAIN nth = 0 .. Len(Buffers)
      /\ \A n \in 0 .. Len(Buffers) : nth[n] = IF n < Len(s) THEN s[n + 1] ELSE NULL
  BY WalkMeets
<1> HIDE DEF nth
<1>3. K = 0 .. Len(s) - 1
  BY <1>1, <1>2
<1>4. Cardinality(K) = Len(s)
  <2>1. PICK m \in Int : m = Len(s) - 1
    BY <1>1
  <2>2. Cardinality(0 .. m) = IF 0 > m THEN 0 ELSE m - 0 + 1
    BY FS_Interval
  <2>3. K = 0 .. m
    BY <1>3, <2>1
  <2> HIDE DEF K
  <2> QED
    BY <1>1, <2>1, <2>2, <2>3
<1>5. [n \in 1 .. Len(s) |-> nth[n - 1]] = s
  <2>1. \A n \in 1 .. Len(s) : nth[n - 1] = s[n]
    BY <1>1, <1>2
  <2> QED
    BY <2>1
<1>6. Chain(pointers, First(s)) = [n \in 1 .. Cardinality(K) |-> nth[n - 1]]
  BY Zenon DEF Chain, nth, K
<1> HIDE DEF K
<1> QED
  BY <1>4, <1>5, <1>6

LEMMA BackwardType ==
    ASSUME NEW S, NEW s \in Seq(S)
    PROVE  /\ Backward(s) \in Seq(S) /\ Len(Backward(s)) = Len(s)
           /\ \A i \in 1 .. Len(s) : Backward(s)[i] = s[Len(s) + 1 - i]
<1>1. Len(s) \in Nat /\ \A i \in 1 .. Len(s) : s[i] \in S /\ Len(s) + 1 - i \in 1 .. Len(s)
  OBVIOUS
<1>2. Backward(s) \in [1 .. Len(s) -> S]
  BY <1>1 DEF Backward
<1> QED
  BY <1>1, <1>2, SegmentIsSeq DEF Backward

\* What the walks of the code find: the lists, in both directions.
LEMMA ListsMeet ==
    ASSUME NEW l, NEW q, NEW p, Represents(l, q, p)
    PROVE  /\ InPlay(l) = q /\ Pool(l) = p /\ Chain(l.next, l.queued) = Backward(q)
           /\ \A b \in Ids : IsQueued(l, b) <=> \E i \in 1 .. Len(q) : q[i] = b
<1>1. /\ q \in Seq(Ids) /\ p \in Seq(Ids) /\ Len(q) \in Nat /\ Len(p) \in Nat
      /\ Len(q) <= Len(Buffers) /\ Len(p) <= Len(Buffers)
  BY PQListAssumption DEF Represents, Shared
<1>2. InPlay(l) = q /\ Pool(l) = p
  BY <1>1, ChainMeets DEF Represents, Threads, InPlay, Pool
<1> DEFINE s == Backward(q)
<1>3. /\ s \in Seq(Ids) /\ Len(s) = Len(q) /\ \A i \in 1 .. Len(q) : s[i] = q[Len(q) + 1 - i]
  BY <1>1, BackwardType
<1> HIDE DEF s
<1>4. Linked(l.next, s)
  <2> SUFFICES ASSUME NEW i \in 1 .. Len(q)
               PROVE  l.next[s[i]] = IF i = Len(q) THEN NULL ELSE s[i + 1]
    BY <1>3 DEF Linked
  <2>1. l.next[s[i]] = IF Len(q) + 1 - i = 1 THEN NULL ELSE q[(Len(q) + 1 - i) - 1]
    <3>1. PICK j \in 1 .. Len(q) : j = Len(q) + 1 - i
      <4>1. PICK n \in Nat : n = Len(q)
        BY <1>1
      <4>2. i \in 1 .. n
        BY <4>1
      <4>3. n + 1 - i \in 1 .. n
        BY <4>2
      <4> QED
        BY <4>1, <4>3
    <3>2. \A k \in 1 .. Len(q) : l.next[q[k]] = IF k = 1 THEN NULL ELSE q[k - 1]
      BY DEF Represents, Threads
    <3> QED
      BY <1>3, <3>1, <3>2
  <2>2. CASE i = Len(q)
    BY <1>1, <2>1, <2>2
  <2>3. CASE i # Len(q)
    <3>1. i + 1 \in 1 .. Len(q) /\ Len(q) + 1 - (i + 1) = (Len(q) + 1 - i) - 1 /\ Len(q) + 1 - i # 1
      BY <1>1, <2>3
    <3> QED
      BY <1>3, <2>1, <2>3, <3>1
  <2> QED
    BY <2>2, <2>3
<1>5. First(s) = Final(q)
  <2>1. CASE q = <<>>
    BY <1>1, <1>3, <2>1 DEF First, Final
  <2>2. CASE q # <<>>
    BY <1>1, <1>3, <2>2 DEF First, Final
  <2> QED
    BY <2>1, <2>2
<1>6. Chain(l.next, l.queued) = s
  BY <1>1, <1>3, <1>4, <1>5, ChainMeets DEF Represents, Threads
<1>7. ASSUME NEW b \in Ids PROVE IsQueued(l, b) <=> \E i \in 1 .. Len(q) : q[i] = b
  <2>1. IsQueued(l, b) <=> \E i \in 1 .. Len(q) : s[i] = b
    BY <1>1, <1>3, <1>6 DEF IsQueued, Holds
  <2>2. ASSUME NEW i \in 1 .. Len(q) PROVE Len(q) + 1 - i \in 1 .. Len(q) /\ s[Len(q) + 1 - i] = q[i]
    BY <1>1, <1>3
  <2> QED
    BY <1>1, <1>3, <2>1, <2>2
<1> QED
  BY <1>2, <1>6, <1>7 DEF s

-----------------------------------------------------------------------------
(* What the operations do to the lists                                      *)

LEMMA CreatedRepresents ==
    ASSUME NEW V, 0 \in V
    PROVE  Created \in Lists(V) /\ Represents(Created, <<>>, Backward(Buffers))
<1> DEFINE n == Len(Buffers)
           p == Backward(Buffers)
           next == [b \in Ids |-> LET i == CHOOSE k \in DOMAIN Buffers : Buffers[k] = b
                                  IN IF i = 1 THEN NULL ELSE Buffers[i - 1]]
<1>1. /\ n \in Nat /\ DOMAIN Buffers = 1 .. n /\ \A i \in 1 .. n : Buffers[i] \in Ids
      /\ \A i, j \in 1 .. n : Buffers[i] = Buffers[j] => i = j
      /\ \A b \in Ids : \E i \in 1 .. n : Buffers[i] = b
      /\ Buffers = <<>> <=> n = 0
  BY PQListAssumption DEF Ids
<1>0. n \in Nat
  BY <1>1
<1>2. p \in Seq(Ids) /\ Len(p) = n /\ \A i \in 1 .. n : p[i] = Buffers[n + 1 - i]
  BY BackwardType, PQListAssumption
<1>3. ASSUME NEW i \in 1 .. n
      PROVE  next[Buffers[i]] = IF i = 1 THEN NULL ELSE Buffers[i - 1]
  <2>1. i = CHOOSE k \in DOMAIN Buffers : Buffers[k] = Buffers[i]
    BY <1>1
  <2> QED
    BY <1>1, <2>1
<1>4. next \in [Ids -> Ids \cup {NULL}]
  <2> SUFFICES ASSUME NEW b \in Ids PROVE next[b] \in Ids \cup {NULL}
    OBVIOUS
  <2>1. PICK i \in 1 .. n : Buffers[i] = b
    BY <1>1
  <2>2. i # 1 => i - 1 \in 1 .. n
    BY <1>1
  <2> QED
    BY <1>1, <1>3, <2>1, <2>2
<1> HIDE DEF next
<1>5. /\ Created.avail = (IF n = 0 THEN NULL ELSE Buffers[n]) /\ Created.queued = NULL
      /\ Created.head = NULL /\ Created.next = next
  BY <1>1 DEF Created, next
<1>6. Created \in Lists(V)
  BY <1>1, <1>4 DEF Created, Lists, next
<1>7. Created.avail = First(p)
  <2>1. n = 0 \/ 1 \in 1 .. n
    BY <1>1
  <2> QED
    BY <1>1, <1>2, <1>5, <2>1 DEF First
<1>8. Linked(next, p)
  <2> SUFFICES ASSUME NEW i \in 1 .. n PROVE next[p[i]] = IF i = n THEN NULL ELSE p[i + 1]
    BY <1>2 DEF Linked
  <2>1. n + 1 - i \in 1 .. n /\ p[i] = Buffers[n + 1 - i]
    BY <1>1, <1>2
  <2>2. i # n => i + 1 \in 1 .. n /\ n + 1 - (i + 1) = (n + 1 - i) - 1 /\ n + 1 - i # 1
    <3> HIDE DEF n
    <3> QED
      BY <1>0
  <2>3. i = n => n + 1 - i = 1
    BY <1>1
  <2> QED
    BY <1>2, <1>3, <2>1, <2>2, <2>3
<1>9. Shared(<<>>, p)
  <2>1. Distinct(p)
    <3> SUFFICES ASSUME NEW i \in 1 .. n, NEW j \in 1 .. n, p[i] = p[j] PROVE i = j
      BY <1>2 DEF Distinct
    <3>1. n + 1 - i \in 1 .. n /\ n + 1 - j \in 1 .. n
      BY <1>1
    <3>2. Buffers[n + 1 - i] = Buffers[n + 1 - j]
      BY <1>2
    <3>3. n + 1 - i = n + 1 - j
      <4> HIDE DEF n
      <4> QED
        BY <1>1, <3>1, <3>2
    <3> HIDE DEF n
    <3> QED
      BY <1>0, <3>3
  <2>2. ASSUME NEW b \in Ids PROVE \E j \in 1 .. n : p[j] = b
    <3>1. PICK i \in 1 .. n : Buffers[i] = b
      BY <1>1
    <3>2. n + 1 - i \in 1 .. n /\ n + 1 - (n + 1 - i) = i
      BY <1>1
    <3> QED
      BY <1>2, <3>1, <3>2
  <2>3. <<>> \in Seq(Ids) /\ Len(<<>>) = 0 /\ Distinct(<<>>)
    BY EmptySeq DEF Distinct
  <2> HIDE DEF p
  <2> QED
    BY <1>1, <1>2, <2>1, <2>2, <2>3 DEF Shared, Apart, Cover
<1>10. Threads(Created, <<>>, p)
  <2> HIDE DEF p
  <2> QED
    BY <1>5, <1>7, <1>8 DEF Threads, First, Final, Linked
<1> QED
  BY <1>6, <1>9, <1>10 DEF Represents

\* The fields after playq_remove() of the node b
RemovedFieldsAre(l, b) ==
    LET r == Removed(l, b) IN
    /\ r.avail = b /\ r.head = (IF l.next[b] = NULL THEN l.prev[b] ELSE l.head)
    /\ r.queued = (IF l.prev[b] = NULL THEN l.next[b] ELSE l.queued)
    /\ r.next[b] = l.avail /\ r.prev[b] = NULL
    /\ \A c \in Ids : c # b =>
           /\ r.next[c] = (IF c = l.prev[b] THEN l.next[b] ELSE l.next[c])
           /\ r.prev[c] = (IF c = l.next[b] THEN l.prev[b] ELSE l.prev[c])
    /\ r.numBytes = [l.numBytes EXCEPT ![b] = 0]

LEMMA RemovedFields ==
    ASSUME NEW V, NEW l \in Lists(V), 0 \in V, NEW b \in Ids
    PROVE  Removed(l, b) \in Lists(V) /\ RemovedFieldsAre(l, b)
<1> DEFINE next == Assigned(l.next, l.prev[b], l.next[b])
           prev == Assigned(l.prev, l.next[b], l.prev[b])
           r == Removed(l, b)
<1>1. /\ NULL \notin Ids /\ l.avail \in Ids \cup {NULL} /\ l.head \in Ids \cup {NULL}
      /\ l.queued \in Ids \cup {NULL} /\ l.numBytes \in [Ids -> V]
      /\ l.next \in [Ids -> Ids \cup {NULL}] /\ l.prev \in [Ids -> Ids \cup {NULL}]
  BY PQListAssumption DEF Lists
<1>2. /\ next \in [Ids -> Ids \cup {NULL}]
      /\ \A c \in Ids : next[c] = IF c = l.prev[b] THEN l.next[b] ELSE l.next[c]
  BY <1>1 DEF Assigned
<1>3. /\ prev \in [Ids -> Ids \cup {NULL}]
      /\ \A c \in Ids : prev[c] = IF c = l.next[b] THEN l.prev[b] ELSE l.prev[c]
  BY <1>1 DEF Assigned
<1>4. PICK w : w = [l EXCEPT !.head = IF l.next[b] = NULL THEN l.prev[b] ELSE @, !.next = next,
                             !.prev = prev, !.queued = IF l.prev[b] = NULL THEN l.next[b] ELSE @]
  OBVIOUS
<1>5. /\ w.avail = l.avail /\ w.queued = (IF l.prev[b] = NULL THEN l.next[b] ELSE l.queued)
      /\ w.head = (IF l.next[b] = NULL THEN l.prev[b] ELSE l.head)
      /\ w.next = next /\ w.prev = prev /\ w.numBytes = l.numBytes
      /\ w \in Lists(V)
  BY <1>1, <1>2, <1>3, <1>4 DEF Lists
<1>6. r = Recycled(w, b)
  BY <1>4 DEF Removed
<1>7. r = [avail |-> b, queued |-> w.queued, head |-> w.head, next |-> [w.next EXCEPT ![b] = w.avail],
           prev |-> [w.prev EXCEPT ![b] = NULL], numBytes |-> [w.numBytes EXCEPT ![b] = 0]]
  BY <1>5, <1>6 DEF Recycled, Lists
<1> HIDE DEF next, prev, r
<1>8. r \in Lists(V)
  BY <1>1, <1>2, <1>3, <1>5, <1>7 DEF Lists
<1> QED
  BY <1>1, <1>2, <1>3, <1>5, <1>7, <1>8 DEF r, RemovedFieldsAre

\* The sets of nodes
LEMMA RemovedShared ==
    ASSUME NEW q, NEW p, Shared(q, p), NEW k \in 1 .. Len(q)
    PROVE  Shared(Without(q, k), Pushed(p, q[k]))
<1>1. q \in Seq(Ids) /\ p \in Seq(Ids)
  BY DEF Shared
<1>0. PICK b \in Ids : b = q[k]
  BY <1>1
<1> DEFINE q1 == Without(q, k)
           p1 == Pushed(p, b)
<1>2. PICK n \in Nat, m \in Nat : n = Len(q) /\ m = Len(p)
  BY <1>1
<1>3. /\ q1 \in Seq(Ids) /\ Len(q1) = n - 1
      /\ \A i \in 1 .. n - 1 : q1[i] = IF i < k THEN q[i] ELSE q[i + 1]
  BY <1>1, <1>2, WithoutType, Zenon
<1>4. /\ p1 \in Seq(Ids) /\ Len(p1) = m + 1
      /\ p1[1] = b /\ \A i \in 1 .. m : p1[i + 1] = p[i]
  <2>1. /\ p1 \in Seq(Ids) /\ Len(p1) = Len(p) + 1
        /\ p1[1] = b /\ \A i \in 1 .. Len(p) : p1[i + 1] = p[i]
    BY <1>1, PushedType
  <2> QED
    BY <1>2, <2>1, Zenon
<1> HIDE DEF q1, p1
<1>5. \A i, j \in 1 .. n : q[i] = q[j] => i = j
  BY <1>2 DEF Shared, Distinct
<1>6. \A i, j \in 1 .. m : p[i] = p[j] => i = j
  BY <1>2 DEF Shared, Distinct
<1>7. \A i \in 1 .. n, j \in 1 .. m : q[i] # p[j]
  BY <1>2 DEF Shared, Apart
<1>8. \A c \in Ids : (\E i \in 1 .. n : q[i] = c) \/ (\E j \in 1 .. m : p[j] = c)
  BY <1>2 DEF Shared, Cover
<1>9. k \in 1 .. n
  BY <1>2
<1>11. ASSUME NEW i \in 1 .. m + 1, i # 1 PROVE i - 1 \in 1 .. m /\ p1[i] = p[i - 1]
  <2>1. i - 1 \in 1 .. m /\ (i - 1) + 1 = i
    BY <1>11
  <2> QED
    BY <1>4, <2>1
<1>12. ASSUME NEW i \in 1 .. n - 1
      PROVE  \E x \in 1 .. n : x # k /\ q1[i] = q[x] /\ x = IF i < k THEN i ELSE i + 1
  <2>1. CASE i < k
    BY <1>3, <1>9, <2>1
  <2>2. CASE ~(i < k)
    <3>1. i + 1 \in 1 .. n /\ i + 1 # k /\ q1[i] = q[i + 1]
      BY <1>3, <1>9, <2>2
    <3> QED
      BY <2>2, <3>1
  <2> QED
    BY <2>1, <2>2
<1>13. Distinct(q1)
  <2> SUFFICES ASSUME NEW i \in 1 .. n - 1, NEW j \in 1 .. n - 1, q1[i] = q1[j] PROVE i = j
    BY <1>3 DEF Distinct
  <2>1. PICK x \in 1 .. n : q1[i] = q[x] /\ x = IF i < k THEN i ELSE i + 1
    BY <1>12
  <2>2. PICK y \in 1 .. n : q1[j] = q[y] /\ y = IF j < k THEN j ELSE j + 1
    BY <1>12
  <2>3. x = y
    BY <1>5, <2>1, <2>2
  <2> QED
    BY <1>9, <2>1, <2>2, <2>3
<1>14. Distinct(p1)
  <2> SUFFICES ASSUME NEW i \in 1 .. m + 1, NEW j \in 1 .. m + 1, p1[i] = p1[j] PROVE i = j
    BY <1>4 DEF Distinct
  <2>1. ASSUME NEW x \in 1 .. m PROVE p[x] # p1[1]
    BY <1>4, <1>7, <1>9, <1>0
  <2>2. CASE i = 1 \/ j = 1
    BY <1>11, <2>1, <2>2
  <2>3. CASE i # 1 /\ j # 1
    <3>1. i - 1 \in 1 .. m /\ j - 1 \in 1 .. m /\ p[i - 1] = p[j - 1]
      BY <1>11, <2>3
    <3>2. i - 1 = j - 1
      BY <1>6, <3>1
    <3> QED
      BY <3>2
  <2> QED
    BY <2>2, <2>3
<1>15. Apart(q1, p1)
  <2> SUFFICES ASSUME NEW i \in 1 .. n - 1, NEW j \in 1 .. m + 1 PROVE q1[i] # p1[j]
    BY <1>3, <1>4 DEF Apart
  <2>1. PICK x \in 1 .. n : x # k /\ q1[i] = q[x]
    BY <1>12
  <2>2. CASE j = 1
    BY <1>4, <1>5, <1>9, <1>0, <2>1, <2>2
  <2>3. CASE j # 1
    BY <1>7, <1>11, <2>1, <2>3
  <2> QED
    BY <2>2, <2>3
<1>16. Cover(q1, p1)
  <2> SUFFICES ASSUME NEW c \in Ids
               PROVE  (\E i \in 1 .. n - 1 : q1[i] = c) \/ (\E j \in 1 .. m + 1 : p1[j] = c)
    BY <1>3, <1>4 DEF Cover
  <2>1. ASSUME NEW i \in 1 .. n, q[i] = c, i < k PROVE \E j \in 1 .. n - 1 : q1[j] = c
    BY <1>3, <1>9, <2>1
  <2>2. ASSUME NEW i \in 1 .. n, q[i] = c, i > k PROVE \E j \in 1 .. n - 1 : q1[j] = c
    <3>1. i - 1 \in 1 .. n - 1 /\ ~(i - 1 < k) /\ (i - 1) + 1 = i
      BY <1>9, <2>2
    <3> QED
      BY <1>3, <2>2, <3>1
  <2>3. ASSUME NEW j \in 1 .. m, p[j] = c PROVE \E i \in 1 .. m + 1 : p1[i] = c
    <3>1. j + 1 \in 1 .. m + 1
      OBVIOUS
    <3> QED
      BY <1>4, <2>3, <3>1
  <2>4. ASSUME q[k] = c PROVE \E i \in 1 .. m + 1 : p1[i] = c
    <3>1. 1 \in 1 .. m + 1
      OBVIOUS
    <3> QED
      BY <1>4, <1>0, <2>4, <3>1
  <2>5. \A i \in 1 .. n : i < k \/ i = k \/ i > k
    BY <1>9
  <2> QED
    BY <1>8, <2>1, <2>2, <2>3, <2>4, <2>5
<1>17. Len(q1) + Len(p1) = Len(Buffers)
  <2>1. n + m = Len(Buffers)
    BY <1>2 DEF Shared
  <2>2. Len(q1) = n - 1 /\ Len(p1) = m + 1
    BY <1>3, <1>4
  <2> QED
    BY <1>2, <2>1, <2>2
<1> QED
  BY <1>3, <1>4, <1>0, <1>13, <1>14, <1>15, <1>16, <1>17 DEF Shared, q1, p1

\* The pointers
LEMMA RemovedThreads ==
    ASSUME NEW V, NEW l \in Lists(V), 0 \in V, NEW q, NEW p, Represents(l, q, p), NEW k \in 1 .. Len(q)
    PROVE  Threads(Removed(l, q[k]), Without(q, k), Pushed(p, q[k]))
<1>1. q \in Seq(Ids) /\ p \in Seq(Ids) /\ NULL \notin Ids
  BY PQListAssumption DEF Represents, Shared
<1>2. PICK b \in Ids, n \in Nat, m \in Nat : b = q[k] /\ n = Len(q) /\ m = Len(p)
  <2>1. q[k] \in Ids /\ Len(q) \in Nat /\ Len(p) \in Nat
    BY <1>1
  <2> QED
    BY <2>1
<1>3. k \in 1 .. n /\ b = q[k] /\ n \in Nat
  BY <1>2
<1> DEFINE r == Removed(l, b)
           q1 == Without(q, k)
           p1 == Pushed(p, b)
<1>4. /\ Len(q1) = n - 1 /\ q1 \in Seq(Ids)
      /\ \A i \in 1 .. n - 1 : q1[i] = IF i < k THEN q[i] ELSE q[i + 1]
  BY <1>1, <1>2, WithoutType, Zenon
<1>5. /\ Len(p1) = m + 1 /\ p1 \in Seq(Ids)
      /\ p1[1] = b /\ \A i \in 1 .. m : p1[i + 1] = p[i]
  <2>1. /\ p1 \in Seq(Ids) /\ Len(p1) = Len(p) + 1
        /\ p1[1] = b /\ \A i \in 1 .. Len(p) : p1[i + 1] = p[i]
    BY <1>1, PushedType
  <2> QED
    BY <1>2, <2>1, Zenon
<1>6. /\ r.avail = b /\ r.head = (IF l.next[b] = NULL THEN l.prev[b] ELSE l.head)
      /\ r.queued = (IF l.prev[b] = NULL THEN l.next[b] ELSE l.queued)
      /\ r.next[b] = l.avail /\ r.prev[b] = NULL
      /\ \A c \in Ids : c # b =>
             /\ r.next[c] = (IF c = l.prev[b] THEN l.next[b] ELSE l.next[c])
             /\ r.prev[c] = (IF c = l.next[b] THEN l.prev[b] ELSE l.prev[c])
  <2>1. RemovedFieldsAre(l, b)
    BY RemovedFields
  <2> QED
    BY <2>1 DEF RemovedFieldsAre
<1> HIDE DEF r, q1, p1
<1>7. /\ \A i \in 1 .. n : q[i] \in Ids /\ q[i] # NULL
      /\ \A i, j \in 1 .. n : q[i] = q[j] => i = j
  BY <1>1, <1>2 DEF Represents, Shared, Distinct
<1>8. /\ \A i \in 1 .. m : p[i] \in Ids /\ p[i] # NULL
      /\ \A i \in 1 .. n, j \in 1 .. m : q[i] # p[j]
  BY <1>1, <1>2 DEF Represents, Shared, Apart
<1>9. /\ \A i \in 1 .. n : l.next[q[i]] = IF i = 1 THEN NULL ELSE q[i - 1]
      /\ \A i \in 1 .. n : l.prev[q[i]] = IF i = n THEN NULL ELSE q[i + 1]
  BY <1>2 DEF Represents, Threads, Linked
<1>10. /\ l.next[b] = IF k = 1 THEN NULL ELSE q[k - 1]
       /\ l.prev[b] = IF k = n THEN NULL ELSE q[k + 1]
  BY <1>3, <1>9
<1>11. /\ l.head = q[1] /\ l.queued = q[n] /\ l.avail = (IF m = 0 THEN NULL ELSE p[1])
       /\ \A j \in 1 .. m : l.next[p[j]] = IF j = m THEN NULL ELSE p[j + 1]
  <2>1. q # <<>> /\ (p = <<>> <=> m = 0)
    BY <1>1, <1>2, <1>3
  <2> QED
    BY <1>2, <2>1 DEF Represents, Threads, Linked, First, Final
<1>12. r.head = First(q1)
  <2>1. First(q1) = IF n = 1 THEN NULL ELSE q1[1]
    <3>1. q1 = <<>> <=> n - 1 = 0
      BY <1>4
    <3> QED
      BY <1>3, <3>1 DEF First
  <2>2. CASE k = 1
    BY <1>3, <1>4, <1>6, <1>10, <2>1, <2>2
  <2>3. CASE k # 1
    <3>1. k - 1 \in 1 .. n /\ 1 \in 1 .. n - 1 /\ 1 < k /\ n # 1
      BY <1>3, <2>3
    <3>2. r.head = l.head
      BY <1>6, <1>7, <1>10, <2>3, <3>1
    <3> QED
      BY <1>4, <1>11, <2>1, <3>1, <3>2
  <2> QED
    BY <2>2, <2>3
<1>13. r.queued = Final(q1)
  <2>1. Final(q1) = IF n = 1 THEN NULL ELSE q1[n - 1]
    <3>1. (q1 = <<>> <=> n - 1 = 0) /\ Len(q1) = n - 1
      BY <1>4
    <3> QED
      BY <1>3, <3>1 DEF Final
  <2>2. CASE k = n
    <3>1. n # 1 => n - 1 \in 1 .. n - 1 /\ n - 1 < k
      BY <1>3, <2>2
    <3> QED
      BY <1>4, <1>6, <1>10, <2>1, <2>2, <3>1
  <2>3. CASE k # n
    <3>1. k + 1 \in 1 .. n /\ n - 1 \in 1 .. n - 1 /\ ~(n - 1 < k) /\ n # 1 /\ (n - 1) + 1 = n
      BY <1>3, <2>3
    <3>2. r.queued = l.queued
      BY <1>6, <1>7, <1>10, <2>3, <3>1
    <3> QED
      BY <1>4, <1>11, <2>1, <3>1, <3>2
  <2> QED
    BY <2>2, <2>3
\* The i-th of the nodes that stay
<1>14. ASSUME NEW i \in 1 .. n - 1
       PROVE  /\ i < k => q1[i] = q[i] /\ i \in 1 .. n /\ q[i] # b
              /\ ~(i < k) => q1[i] = q[i + 1] /\ i + 1 \in 1 .. n /\ q[i + 1] # b
  <2>1. i < k => i \in 1 .. n /\ i # k
    BY <1>3
  <2>2. ~(i < k) => i + 1 \in 1 .. n /\ i + 1 # k
    BY <1>3
  <2> QED
    BY <1>3, <1>4, <1>7, <2>1, <2>2
<1>15. Linked(r.prev, q1)
  <2> SUFFICES ASSUME NEW i \in 1 .. n - 1 PROVE r.prev[q1[i]] = IF i = n - 1 THEN NULL ELSE q1[i + 1]
    BY <1>4 DEF Linked
  <2>1. CASE i < k - 1
    <3>1. i < k /\ i \in 1 .. n /\ i + 1 \in 1 .. n - 1 /\ i + 1 < k /\ i # n /\ i # n - 1
      BY <1>3, <2>1
    <3>2. k # 1 /\ k - 1 \in 1 .. n /\ i # k - 1
      BY <1>3, <2>1
    <3>3. q[i] # l.next[b]
      BY <1>7, <1>10, <3>1, <3>2
    <3>4. r.prev[q[i]] = l.prev[q[i]]
      BY <1>6, <1>7, <1>14, <3>1, <3>3
    <3> QED
      BY <1>9, <1>14, <3>1, <3>4
  <2>2. CASE i = k - 1
    <3>1. i < k /\ k # 1 /\ (i = n - 1 <=> k = n) /\ i + 1 = k /\ k \in 1 .. n /\ k - 1 \in 1 .. n
      BY <1>3, <2>2
    <3>2. r.prev[q1[i]] = l.prev[b]
      BY <1>6, <1>7, <1>10, <1>14, <2>2, <3>1
    <3>3. i # n - 1 => i + 1 \in 1 .. n - 1 /\ ~(i + 1 < k)
      BY <1>3, <2>2
    <3> QED
      BY <1>10, <1>14, <3>1, <3>2, <3>3
  <2>3. CASE ~(i < k)
    <3>1. /\ i + 1 \in 1 .. n /\ (i + 1 = n <=> i = n - 1)
          /\ k # 1 => k - 1 \in 1 .. n /\ i + 1 # k - 1
      BY <1>3, <2>3
    <3>2. q[i + 1] # l.next[b]
      BY <1>7, <1>10, <3>1
    <3>3. r.prev[q1[i]] = l.prev[q[i + 1]]
      BY <1>6, <1>7, <1>14, <2>3, <3>1, <3>2
    <3>4. i # n - 1 => i + 1 \in 1 .. n - 1 /\ ~(i + 1 < k)
      BY <1>3, <2>3
    <3> QED
      BY <1>9, <1>14, <3>1, <3>3, <3>4
  <2> QED
    BY <1>3, <2>1, <2>2, <2>3
<1>16. ASSUME NEW i \in 1 .. n - 1 PROVE r.next[q1[i]] = IF i = 1 THEN NULL ELSE q1[i - 1]
  <2>1. CASE i < k
    <3>1. /\ i \in 1 .. n /\ (i # 1 => i - 1 \in 1 .. n - 1 /\ i - 1 < k)
          /\ k # n => k + 1 \in 1 .. n /\ i # k + 1
      BY <1>3, <2>1
    <3>2. q[i] # l.prev[b]
      BY <1>7, <1>10, <3>1
    <3>3. r.next[q1[i]] = l.next[q[i]]
      BY <1>6, <1>7, <1>14, <2>1, <3>1, <3>2
    <3> QED
      BY <1>9, <1>14, <3>1, <3>3
  <2>2. CASE i = k
    <3>1. k # n /\ k + 1 \in 1 .. n /\ ~(i < k)
      BY <1>3, <2>2
    <3>2. r.next[q1[i]] = l.next[b]
      BY <1>6, <1>7, <1>10, <1>14, <2>2, <3>1
    <3>3. k # 1 => k - 1 \in 1 .. n - 1 /\ k - 1 < k
      BY <1>3, <2>2
    <3> QED
      BY <1>10, <1>14, <2>2, <3>2, <3>3
  <2>3. CASE i > k
    <3>1. /\ i + 1 \in 1 .. n /\ i + 1 # 1 /\ (i + 1) - 1 = i /\ i # 1 /\ ~(i < k)
          /\ i - 1 \in 1 .. n - 1 /\ ~(i - 1 < k) /\ (i - 1) + 1 = i
          /\ k # n => k + 1 \in 1 .. n /\ i + 1 # k + 1
      BY <1>3, <2>3
    <3>2. q[i + 1] # l.prev[b]
      BY <1>7, <1>10, <3>1
    <3>3. r.next[q1[i]] = l.next[q[i + 1]]
      BY <1>6, <1>7, <1>14, <3>1, <3>2
    <3>4. l.next[q[i + 1]] = q[i]
      BY <1>9, <3>1
    <3>5. q1[i - 1] = q[i]
      BY <1>14, <3>1
    <3> QED
      BY <3>1, <3>3, <3>4, <3>5
  <2> QED
    BY <1>3, <2>1, <2>2, <2>3
<1>17. Linked(r.next, p1)
  <2> SUFFICES ASSUME NEW j \in 1 .. m + 1 PROVE r.next[p1[j]] = IF j = m + 1 THEN NULL ELSE p1[j + 1]
    BY <1>5 DEF Linked
  <2>1. CASE j = 1
    <3>1. (m = 0 <=> j = m + 1) /\ (m # 0 => 1 \in 1 .. m)
      BY <2>1
    <3> QED
      BY <1>5, <1>6, <1>11, <2>1, <3>1
  <2>2. CASE j # 1
    <3>1. /\ j - 1 \in 1 .. m /\ (j - 1) + 1 = j /\ (j - 1 = m <=> j = m + 1)
          /\ j # m + 1 => j \in 1 .. m
          /\ k # n => k + 1 \in 1 .. n
      BY <1>3, <2>2
    <3>2. p[j - 1] # b
      BY <1>3, <1>8, <3>1
    <3>4. p[j - 1] # l.prev[b]
      BY <1>8, <1>10, <3>1
    <3>5. p1[j] = p[j - 1]
      BY <1>5, <3>1
    <3>3. r.next[p1[j]] = l.next[p[j - 1]]
      BY <1>6, <1>8, <3>1, <3>2, <3>4, <3>5
    <3> QED
      BY <1>5, <1>11, <3>1, <3>3
  <2> QED
    BY <2>1, <2>2
<1>18. r.avail = First(p1)
  <2>1. p1 # <<>>
    BY <1>5
  <2> QED
    BY <1>5, <1>6, <2>1 DEF First
<1> QED
  BY <1>2, <1>4, <1>12, <1>13, <1>15, <1>16, <1>17, <1>18 DEF Threads, r, q1, p1

\* playq_remove() takes out one node, wherever it is.
LEMMA RemovedRepresents ==
    ASSUME NEW V, NEW l \in Lists(V), 0 \in V, NEW q, NEW p, Represents(l, q, p), NEW k \in 1 .. Len(q)
    PROVE  /\ Removed(l, q[k]) \in Lists(V)
           /\ Represents(Removed(l, q[k]), Without(q, k), Pushed(p, q[k]))
           /\ Removed(l, q[k]).numBytes = [l.numBytes EXCEPT ![q[k]] = 0]
<1>1. q[k] \in Ids
  BY DEF Represents, Shared
<1>2. Removed(l, q[k]) \in Lists(V) /\ Removed(l, q[k]).numBytes = [l.numBytes EXCEPT ![q[k]] = 0]
  BY <1>1, RemovedFields DEF RemovedFieldsAre
<1>3. Shared(Without(q, k), Pushed(p, q[k]))
  BY RemovedShared DEF Represents
<1>4. Threads(Removed(l, q[k]), Without(q, k), Pushed(p, q[k]))
  BY RemovedThreads
<1> QED
  BY <1>2, <1>3, <1>4 DEF Represents

\* playq_dequeue() removes the head.
LEMMA DequeuedIsRemoved ==
    ASSUME NEW V, NEW l \in Lists(V), NEW q, NEW p, Represents(l, q, p), q # <<>>
    PROVE  Dequeued(l) = Removed(l, q[1]) /\ l.head = q[1] /\ 1 \in 1 .. Len(q)
<1>1. q \in Seq(Ids) /\ 1 \in 1 .. Len(q) /\ q[1] \in Ids
  BY DEF Represents, Shared
<1>2. l.head = q[1] /\ l.next[q[1]] = NULL
  BY <1>1 DEF Represents, Threads, First
<1>3. [l EXCEPT !.head = l.prev[q[1]], !.next = Assigned(@, l.prev[q[1]], NULL),
                !.queued = IF l.prev[q[1]] = NULL THEN NULL ELSE @]
      = [l EXCEPT !.head = l.prev[q[1]], !.next = Assigned(@, l.prev[q[1]], NULL), !.prev = @,
                  !.queued = IF l.prev[q[1]] = NULL THEN NULL ELSE @]
  BY DEF Lists
<1> QED
  BY <1>1, <1>2, <1>3 DEF Dequeued, Removed, Assigned

\* playq_enqueue() moves the top of the pool to the end of the queue.
LEMMA EnqueuedShared ==
    ASSUME NEW q, NEW p, Shared(q, p), p # <<>>
    PROVE  Shared(Append(q, p[1]), Without(p, 1))
<1>1. q \in Seq(Ids) /\ p \in Seq(Ids)
  BY DEF Shared
<1>2. PICK b \in Ids, n \in Nat, m \in Nat : b = p[1] /\ n = Len(q) /\ m = Len(p) /\ m # 0
  <2>1. p[1] \in Ids /\ Len(q) \in Nat /\ Len(p) \in Nat /\ Len(p) # 0
    BY <1>1
  <2> QED
    BY <2>1
<1> DEFINE q1 == Append(q, b)
           p1 == Without(p, 1)
<1>3. /\ q1 \in Seq(Ids) /\ Len(q1) = n + 1 /\ q1[n + 1] = b
      /\ \A i \in 1 .. n : q1[i] = q[i]
  BY <1>1, <1>2, AppendProperties
<1>4. p1 \in Seq(Ids) /\ Len(p1) = m - 1 /\ \A i \in 1 .. m - 1 : p1[i] = p[i + 1]
  <2>1. 1 \in 1 .. Len(p)
    BY <1>2
  <2>2. /\ p1 \in Seq(Ids) /\ Len(p1) = Len(p) - 1
        /\ \A i \in 1 .. Len(p) - 1 : p1[i] = IF i < 1 THEN p[i] ELSE p[i + 1]
    BY <1>1, <2>1, WithoutType
  <2> HIDE DEF p1
  <2> QED
    BY <1>2, <2>2
<1> HIDE DEF q1, p1
<1>5. \A i, j \in 1 .. n : q[i] = q[j] => i = j
  BY <1>2 DEF Shared, Distinct
<1>6. \A i, j \in 1 .. m : p[i] = p[j] => i = j
  BY <1>2 DEF Shared, Distinct
<1>7. \A i \in 1 .. n, j \in 1 .. m : q[i] # p[j]
  BY <1>2 DEF Shared, Apart
<1>8. \A c \in Ids : (\E i \in 1 .. n : q[i] = c) \/ (\E j \in 1 .. m : p[j] = c)
  BY <1>2 DEF Shared, Cover
<1>9. ASSUME NEW i \in 1 .. n PROVE q[i] # b
  BY <1>2, <1>7
<1>10. ASSUME NEW j \in 1 .. m - 1 PROVE j + 1 \in 1 .. m /\ j + 1 # 1 /\ p1[j] = p[j + 1]
  BY <1>2, <1>4
<1>11. Distinct(q1)
  <2> SUFFICES ASSUME NEW i \in 1 .. n + 1, NEW j \in 1 .. n + 1, q1[i] = q1[j] PROVE i = j
    BY <1>3 DEF Distinct
  <2>1. CASE i \in 1 .. n /\ j \in 1 .. n
    BY <1>3, <1>5, <2>1
  <2>2. CASE i \in 1 .. n /\ j = n + 1
    BY <1>3, <1>9, <2>2
  <2>3. CASE i = n + 1 /\ j \in 1 .. n
    BY <1>3, <1>9, <2>3
  <2> QED
    BY <2>1, <2>2, <2>3
<1>12. Distinct(p1)
  <2> SUFFICES ASSUME NEW i \in 1 .. m - 1, NEW j \in 1 .. m - 1, p1[i] = p1[j] PROVE i = j
    BY <1>4 DEF Distinct
  <2>1. i + 1 = j + 1
    BY <1>6, <1>10
  <2> QED
    BY <2>1
<1>13. Apart(q1, p1)
  <2> SUFFICES ASSUME NEW i \in 1 .. n + 1, NEW j \in 1 .. m - 1 PROVE q1[i] # p1[j]
    BY <1>3, <1>4 DEF Apart
  <2>1. CASE i \in 1 .. n
    BY <1>3, <1>7, <1>10, <2>1
  <2>2. CASE i = n + 1
    <3>1. 1 \in 1 .. m
      BY <1>2
    <3> QED
      BY <1>2, <1>3, <1>6, <1>10, <2>2, <3>1
  <2> QED
    BY <2>1, <2>2
<1>14. Cover(q1, p1)
  <2> SUFFICES ASSUME NEW c \in Ids
               PROVE  (\E i \in 1 .. n + 1 : q1[i] = c) \/ (\E j \in 1 .. m - 1 : p1[j] = c)
    BY <1>3, <1>4 DEF Cover
  <2>1. ASSUME NEW i \in 1 .. n, q[i] = c PROVE \E j \in 1 .. n + 1 : q1[j] = c
    BY <1>3, <2>1
  <2>2. ASSUME NEW j \in 1 .. m, p[j] = c, j # 1 PROVE \E i \in 1 .. m - 1 : p1[i] = c
    <3>1. j - 1 \in 1 .. m - 1 /\ (j - 1) + 1 = j
      BY <2>2
    <3> QED
      BY <1>4, <2>2, <3>1
  <2>3. ASSUME p[1] = c PROVE \E i \in 1 .. n + 1 : q1[i] = c
    <3>1. n + 1 \in 1 .. n + 1
      OBVIOUS
    <3> QED
      BY <1>2, <1>3, <2>3, <3>1
  <2> QED
    BY <1>8, <2>1, <2>2, <2>3
<1>15. Len(q1) + Len(p1) = Len(Buffers)
  <2>1. n + m = Len(Buffers)
    BY <1>2 DEF Shared
  <2>2. Len(q1) = n + 1 /\ Len(p1) = m - 1
    BY <1>3, <1>4
  <2> QED
    BY <1>2, <2>1, <2>2
<1> QED
  BY <1>2, <1>3, <1>4, <1>11, <1>12, <1>13, <1>14, <1>15 DEF Shared, q1, p1

\* The fields after playq_enqueue() of x in the node b
EnqueuedFieldsAre(l, x, b) ==
    LET r == Enqueued(l, x) IN
    /\ r.avail = l.next[b] /\ r.queued = b /\ r.head = (IF l.queued = NULL THEN b ELSE l.head)
    /\ r.next = [l.next EXCEPT ![b] = l.queued]
    /\ \A c \in Ids : r.prev[c] = IF c = l.queued THEN b ELSE IF c = b THEN NULL ELSE l.prev[c]
    /\ r.numBytes = [l.numBytes EXCEPT ![b] = x]

LEMMA EnqueuedFields ==
    ASSUME NEW V, NEW l \in Lists(V), NEW x \in V, NEW b \in Ids, l.avail = b
    PROVE  Enqueued(l, x) \in Lists(V) /\ EnqueuedFieldsAre(l, x, b)
<1> DEFINE prev == Assigned([l.prev EXCEPT ![b] = NULL], l.queued, b)
           r == Enqueued(l, x)
<1>1. /\ NULL \notin Ids /\ l.avail \in Ids \cup {NULL} /\ l.head \in Ids \cup {NULL}
      /\ l.queued \in Ids \cup {NULL} /\ l.numBytes \in [Ids -> V]
      /\ l.next \in [Ids -> Ids \cup {NULL}] /\ l.prev \in [Ids -> Ids \cup {NULL}]
  BY PQListAssumption DEF Lists
<1>2. /\ prev \in [Ids -> Ids \cup {NULL}]
      /\ \A c \in Ids : prev[c] = IF c = l.queued THEN b ELSE IF c = b THEN NULL ELSE l.prev[c]
  BY <1>1 DEF Assigned
<1>3. r = [avail |-> l.next[b], queued |-> b, head |-> IF l.queued = NULL THEN b ELSE l.head,
           next |-> [l.next EXCEPT ![b] = l.queued], prev |-> prev,
           numBytes |-> [l.numBytes EXCEPT ![b] = x]]
  <2>1. Enqueued(l, x) = [l EXCEPT !.avail = l.next[b], !.numBytes[b] = x, !.next[b] = l.queued,
                              !.prev = prev, !.queued = b, !.head = IF l.queued = NULL THEN b ELSE @]
    BY DEF Enqueued
  <2> HIDE DEF prev
  <2> QED
    BY <1>2, <2>1 DEF Lists
<1> HIDE DEF prev, r
<1>4. r \in Lists(V)
  BY <1>1, <1>2, <1>3 DEF Lists
<1> QED
  BY <1>1, <1>2, <1>3, <1>4 DEF r, EnqueuedFieldsAre

LEMMA EnqueuedRepresents ==
    ASSUME NEW V, NEW l \in Lists(V), NEW x \in V, NEW q, NEW p, Represents(l, q, p), CanEnqueue(l)
    PROVE  /\ p # <<>> /\ l.avail = p[1] /\ l.avail \in Ids
           /\ Enqueued(l, x) \in Lists(V)
           /\ Represents(Enqueued(l, x), Append(q, l.avail), Without(p, 1))
           /\ Enqueued(l, x).numBytes = [l.numBytes EXCEPT ![l.avail] = x]
<1>1. q \in Seq(Ids) /\ p \in Seq(Ids) /\ NULL \notin Ids
  BY PQListAssumption DEF Represents, Shared
<1>2. p # <<>> /\ l.avail = p[1] /\ Len(p) # 0
  BY <1>1 DEF Represents, Threads, First, CanEnqueue
<1>3. PICK b \in Ids, n \in Nat, m \in Nat : b = p[1] /\ n = Len(q) /\ m = Len(p) /\ m # 0
  <2>1. p[1] \in Ids /\ Len(q) \in Nat /\ Len(p) \in Nat /\ Len(p) # 0
    BY <1>1, <1>2
  <2> QED
    BY <2>1
<1> DEFINE r == Enqueued(l, x)
           q1 == Append(q, b)
           p1 == Without(p, 1)
<1>4. /\ q1 \in Seq(Ids) /\ Len(q1) = n + 1 /\ q1[n + 1] = b
      /\ \A i \in 1 .. n : q1[i] = q[i]
  BY <1>1, <1>3, AppendProperties
<1>5. p1 \in Seq(Ids) /\ Len(p1) = m - 1 /\ \A i \in 1 .. m - 1 : p1[i] = p[i + 1]
  <2>1. 1 \in 1 .. Len(p)
    BY <1>3
  <2>2. /\ p1 \in Seq(Ids) /\ Len(p1) = Len(p) - 1
        /\ \A i \in 1 .. Len(p) - 1 : p1[i] = IF i < 1 THEN p[i] ELSE p[i + 1]
    BY <1>1, <2>1, WithoutType
  <2> HIDE DEF p1
  <2> QED
    BY <1>3, <2>2
<1>6. /\ r \in Lists(V)
      /\ r.avail = l.next[b] /\ r.queued = b /\ r.head = (IF l.queued = NULL THEN b ELSE l.head)
      /\ r.next = [l.next EXCEPT ![b] = l.queued]
      /\ \A c \in Ids : r.prev[c] = IF c = l.queued THEN b ELSE IF c = b THEN NULL ELSE l.prev[c]
      /\ r.numBytes = [l.numBytes EXCEPT ![b] = x]
  <2>1. r \in Lists(V) /\ EnqueuedFieldsAre(l, x, b)
    BY <1>2, <1>3, EnqueuedFields
  <2> QED
    BY <2>1 DEF EnqueuedFieldsAre
<1>7. Shared(q1, p1)
  BY <1>2, <1>3, EnqueuedShared DEF Represents
<1> HIDE DEF r, q1, p1
<1>8. /\ \A i \in 1 .. n : q[i] \in Ids /\ q[i] # NULL /\ q[i] # b
      /\ \A i, j \in 1 .. n : q[i] = q[j] => i = j
  BY <1>1, <1>3 DEF Represents, Shared, Distinct, Apart
<1>9. /\ \A i \in 1 .. m : p[i] \in Ids
      /\ \A i, j \in 1 .. m : p[i] = p[j] => i = j
  BY <1>1, <1>3 DEF Represents, Shared, Distinct
<1>10. /\ \A i \in 1 .. n : l.next[q[i]] = IF i = 1 THEN NULL ELSE q[i - 1]
       /\ \A i \in 1 .. n : l.prev[q[i]] = IF i = n THEN NULL ELSE q[i + 1]
       /\ \A j \in 1 .. m : l.next[p[j]] = IF j = m THEN NULL ELSE p[j + 1]
  BY <1>3 DEF Represents, Threads, Linked
<1>11. /\ l.head = (IF n = 0 THEN NULL ELSE q[1]) /\ l.queued = (IF n = 0 THEN NULL ELSE q[n])
       /\ l.next \in [Ids -> Ids \cup {NULL}]
  <2>1. q = <<>> <=> n = 0
    BY <1>1, <1>3
  <2> QED
    BY <1>3, <2>1 DEF Represents, Threads, First, Final, Lists
<1>12. r.avail = First(p1)
  <2>1. First(p1) = IF m = 1 THEN NULL ELSE p1[1]
    <3>1. p1 = <<>> <=> m - 1 = 0
      BY <1>5
    <3> QED
      BY <1>3, <3>1 DEF First
  <2>2. 1 \in 1 .. m /\ (m # 1 => 1 \in 1 .. m - 1)
    BY <1>3
  <2>3. r.avail = IF m = 1 THEN NULL ELSE p[2]
    <3>1. l.next[p[1]] = IF 1 = m THEN NULL ELSE p[1 + 1]
      BY <1>10, <2>2
    <3> QED
      BY <1>3, <1>6, <3>1
  <2>4. m # 1 => p1[1] = p[2]
    BY <1>5, <2>2
  <2> QED
    BY <2>1, <2>3, <2>4
<1>13. r.head = First(q1) /\ r.queued = Final(q1)
  <2>1. q1 # <<>>
    BY <1>4
  <2>2. n # 0 => 1 \in 1 .. n /\ n \in 1 .. n
    OBVIOUS
  <2> QED
    BY <1>4, <1>6, <1>8, <1>11, <2>1, <2>2 DEF First, Final
<1>14. Linked(r.next, p1)
  <2> SUFFICES ASSUME NEW j \in 1 .. m - 1 PROVE r.next[p1[j]] = IF j = m - 1 THEN NULL ELSE p1[j + 1]
    BY <1>5 DEF Linked
  <2>1. /\ j + 1 \in 1 .. m /\ j + 1 # 1 /\ 1 \in 1 .. m /\ (j + 1 = m <=> j = m - 1)
        /\ j # m - 1 => j + 1 \in 1 .. m - 1
    BY <1>3
  <2>2. p[j + 1] # p[1] /\ p[j + 1] \in Ids
    BY <1>9, <2>1
  <2>4. p1[j] = p[j + 1] /\ b = p[1]
    BY <1>3, <1>5
  <2>3. r.next[p1[j]] = l.next[p[j + 1]]
    BY <1>6, <1>11, <2>2, <2>4
  <2> QED
    BY <1>5, <1>10, <2>1, <2>3
<1>15. Linked(r.prev, q1)
  <2> SUFFICES ASSUME NEW i \in 1 .. n + 1 PROVE r.prev[q1[i]] = IF i = n + 1 THEN NULL ELSE q1[i + 1]
    BY <1>4 DEF Linked
  <2>1. CASE i = n + 1
    <3>1. b # l.queued
      <4>1. n # 0 => n \in 1 .. n
        OBVIOUS
      <4> QED
        BY <1>1, <1>8, <1>11, <4>1
    <3> QED
      BY <1>4, <1>6, <2>1, <3>1
  <2>2. CASE i \in 1 .. n
    <3>1. n # 0 /\ n \in 1 .. n /\ i # n + 1 /\ (i # n => i + 1 \in 1 .. n)
      BY <2>2
    <3>2. q[i] = l.queued <=> i = n
      BY <1>8, <1>11, <2>2, <3>1
    <3>3. r.prev[q1[i]] = IF i = n THEN b ELSE l.prev[q[i]]
      BY <1>4, <1>6, <1>8, <2>2, <3>2
    <3> QED
      BY <1>4, <1>10, <2>2, <3>1, <3>3
  <2> QED
    BY <2>1, <2>2
<1>16. ASSUME NEW i \in 1 .. n + 1 PROVE r.next[q1[i]] = IF i = 1 THEN NULL ELSE q1[i - 1]
  <2>1. CASE i = n + 1
    <3>1. (i = 1 <=> n = 0) /\ i - 1 = n /\ (n # 0 => n \in 1 .. n)
      BY <2>1
    <3> QED
      BY <1>4, <1>6, <1>11, <2>1, <3>1
  <2>2. CASE i \in 1 .. n
    <3>1. i # 1 => i - 1 \in 1 .. n
      BY <2>2
    <3>2. r.next[q1[i]] = l.next[q[i]]
      BY <1>4, <1>6, <1>8, <1>11, <2>2
    <3> QED
      BY <1>4, <1>10, <2>2, <3>1, <3>2
  <2> QED
    BY <2>1, <2>2
<1>17. Threads(r, q1, p1)
  BY <1>4, <1>12, <1>13, <1>14, <1>15, <1>16 DEF Threads
<1> QED
  BY <1>2, <1>3, <1>6, <1>7, <1>17 DEF Represents, r, q1, p1

\* playq_drain() takes out everything.
LEMMA DrainedRepresents ==
    ASSUME NEW V, NEW l \in Lists(V), 0 \in V, NEW q, NEW p, Represents(l, q, p)
    PROVE  Drained(l) \in Lists(V) /\ \E p1 : Represents(Drained(l), <<>>, p1)
<1> DEFINE N == Len(Buffers)
           Once(y) == IF y.head = NULL THEN y ELSE Dequeued(y)
           S == {y \in Lists(V) : \E a, c : Represents(y, a, c)}
           step == [n \in Nat |-> [y \in S |-> Once(y)]]
           Next1(f) == [n \in 0 .. N |-> IF n = 0 THEN l ELSE Once(f[n - 1])]
           nth == CHOOSE f : f = Next1(f)
<1>1. N \in Nat /\ l \in S
  BY PQListAssumption
\* Once takes the head out, if there is one.
<1>2. ASSUME NEW y \in Lists(V), NEW a, NEW c, Represents(y, a, c)
      PROVE  /\ Once(y) \in Lists(V)
             /\ \E a1, c1 : Represents(Once(y), a1, c1) /\ (a1 = <<>> \/ Len(a1) = Len(a) - 1)
  <2>1. a \in Seq(Ids) /\ NULL \notin Ids
    BY <1>2, PQListAssumption DEF Represents, Shared
  <2>2. CASE a = <<>>
    <3>1. y.head = NULL
      BY <1>2, <2>2 DEF Represents, Threads, First
    <3> QED
      BY <1>2, <2>2, <3>1
  <2>3. CASE a # <<>>
    <3>1. Dequeued(y) = Removed(y, a[1]) /\ y.head = a[1] /\ 1 \in 1 .. Len(a)
      BY <1>2, <2>3, DequeuedIsRemoved
    <3>2. y.head # NULL
      BY <2>1, <3>1
    <3>3. /\ Removed(y, a[1]) \in Lists(V)
          /\ Represents(Removed(y, a[1]), Without(a, 1), Pushed(c, a[1]))
      BY <1>2, <3>1, RemovedRepresents
    <3>4. Len(Without(a, 1)) = Len(a) - 1
      BY <2>1, <3>1, WithoutType
    <3> QED
      BY <3>1, <3>2, <3>3, <3>4
  <2> QED
    BY <2>2, <2>3
<1> HIDE DEF Once
<1>3. step \in [Nat -> [S -> S]]
  BY <1>2
<1>4. \E f : f = Next1(f)
  <2> HIDE DEF step, S, N
  <2>1. PICK f \in [0 .. N -> S] : Iterates(f, l, step, N)
    BY <1>1, <1>3, Recursion
  <2>2. ASSUME NEW n \in 1 .. N PROVE f[n] = Once(f[n - 1])
    <3>1. n \in Nat /\ n - 1 \in 0 .. N
      BY <1>1
    <3> QED
      BY <2>1, <3>1 DEF step, Iterates
  <2>3. f = Next1(f)
    BY <1>1, <2>1, <2>2 DEF Iterates
  <2> QED
    BY <2>3
<1>5. nth = Next1(nth)
  BY <1>4
<1>6. Drained(l) = nth[N]
  BY DEF Drained, Once
<1> HIDE DEF nth
<1>7. nth[0] = l /\ \A n \in 0 .. N : n # 0 => nth[n] = Once(nth[n - 1])
  <2>1. \A n \in 0 .. N : nth[n] = Next1(nth)[n]
    <3> HIDE DEF Next1
    <3> QED
      BY <1>5
  <2> QED
    BY <1>1, <2>1
<1> HIDE DEF Next1, step, S
<1> DEFINE T == {n \in 0 .. N : /\ nth[n] \in Lists(V)
                                /\ \E a, c : Represents(nth[n], a, c) /\ (a = <<>> \/ Len(a) + n = Len(q))}
<1>8. q \in Seq(Ids) /\ Len(q) \in Nat /\ Len(q) <= N
  BY PQListAssumption DEF Represents, Shared
<1>9. 0 .. N \subseteq T
  <2>1. 0 \in T
    BY <1>1, <1>7, <1>8
  <2>2. ASSUME NEW n \in 0 .. N, n \in T, n < N PROVE n + 1 \in T
    <3>1. PICK a, c : Represents(nth[n], a, c) /\ (a = <<>> \/ Len(a) + n = Len(q))
      BY <2>2
    <3>2. n + 1 \in 0 .. N /\ nth[n + 1] = Once(nth[n]) /\ nth[n] \in Lists(V)
      BY <1>1, <1>7, <2>2
    <3>3. PICK a1, c1 : Represents(nth[n + 1], a1, c1) /\ (a1 = <<>> \/ Len(a1) = Len(a) - 1)
      BY <1>2, <3>1, <3>2
    <3>4. nth[n + 1] \in Lists(V)
      BY <1>2, <3>1, <3>2
    <3>5. a \in Seq(Ids) /\ a1 \in Seq(Ids) /\ Len(a) \in Nat /\ Len(a1) \in Nat /\ (a = <<>> => Len(a) = 0)
      BY <3>1, <3>3 DEF Represents, Shared
    <3>6. a1 = <<>> \/ Len(a1) + (n + 1) = Len(q)
      BY <1>1, <1>8, <3>1, <3>3, <3>5
    <3> QED
      BY <3>2, <3>3, <3>4, <3>6
  <2> HIDE DEF T
  <2> QED
    BY <1>1, <2>1, <2>2, BoundedInduction
<1>10. N \in T
  BY <1>1, <1>9
<1>11. PICK a, c : Represents(nth[N], a, c) /\ (a = <<>> \/ Len(a) + N = Len(q))
  BY <1>10
<1>12. a = <<>>
  <2>1. a \in Seq(Ids) /\ Len(a) \in Nat /\ (Len(a) = 0 => a = <<>>)
    BY <1>11 DEF Represents, Shared
  <2> QED
    BY <1>1, <1>8, <1>11, <2>1
<1> QED
  BY <1>6, <1>10, <1>11, <1>12

-----------------------------------------------------------------------------
(* The queue                                                                *)

NodesOf(l, q) == [i \in DOMAIN q |-> Node(l, q[i])]
QueueNode(V) == [nodeId : Ids, numBytes : V]

LEMMA NodesType ==
    ASSUME NEW V, NEW l \in Lists(V), NEW q \in Seq(Ids)
    PROVE  /\ NodesOf(l, q) \in Seq(QueueNode(V)) /\ Len(NodesOf(l, q)) = Len(q)
           /\ DOMAIN NodesOf(l, q) = 1 .. Len(q)
           /\ \A i \in 1 .. Len(q) : /\ NodesOf(l, q)[i] = Node(l, q[i])
                                     /\ NodesOf(l, q)[i].nodeId = q[i]
                                     /\ NodesOf(l, q)[i].numBytes = l.numBytes[q[i]]
           /\ NodesOf(l, q) = <<>> <=> q = <<>>
<1>1. Len(q) \in Nat /\ DOMAIN q = 1 .. Len(q) /\ \A i \in 1 .. Len(q) : q[i] \in Ids
  OBVIOUS
<1>2. \A b \in Ids : Node(l, b) \in QueueNode(V)
  BY DEF Node, QueueNode, Lists
<1>3. NodesOf(l, q) \in [1 .. Len(q) -> QueueNode(V)]
  BY <1>1, <1>2 DEF NodesOf
<1>4. NodesOf(l, q) \in Seq(QueueNode(V)) /\ Len(NodesOf(l, q)) = Len(q)
  BY <1>1, <1>3, SegmentIsSeq
<1>5. \A i \in 1 .. Len(q) : NodesOf(l, q)[i] = Node(l, q[i])
  BY <1>1 DEF NodesOf
<1>6. NodesOf(l, q) = <<>> <=> q = <<>>
  BY <1>4, EmptySeq
<1> QED
  BY <1>1, <1>3, <1>4, <1>5, <1>6 DEF Node

\* One node less, and the others as they were
LEMMA NodesWithout ==
    ASSUME NEW V, NEW l \in Lists(V), NEW r \in Lists(V), 0 \in V, NEW q \in Seq(Ids), Distinct(q),
           NEW k \in 1 .. Len(q), r.numBytes = [l.numBytes EXCEPT ![q[k]] = 0]
    PROVE  NodesOf(r, Without(q, k)) = Without(NodesOf(l, q), k)
<1> DEFINE s == NodesOf(l, q)
           q1 == Without(q, k)
<1>1. PICK n \in Nat : n = Len(q) /\ DOMAIN q = 1 .. n /\ \A i \in 1 .. n : q[i] \in Ids
  OBVIOUS
<1>2. q1 \in Seq(Ids) /\ Len(q1) = n - 1 /\ \A i \in 1 .. n - 1 : q1[i] = IF i < k THEN q[i] ELSE q[i + 1]
  BY <1>1, WithoutType
<1>3. s \in Seq(QueueNode(V)) /\ Len(s) = n /\ \A i \in 1 .. n : s[i] = Node(l, q[i])
  BY <1>1, NodesType
<1>4. /\ Without(s, k) \in Seq(QueueNode(V)) /\ Len(Without(s, k)) = n - 1
      /\ \A i \in 1 .. n - 1 : Without(s, k)[i] = IF i < k THEN s[i] ELSE s[i + 1]
  <2>1. k \in 1 .. Len(s)
    BY <1>1, <1>3
  <2> HIDE DEF s
  <2> QED
    BY <1>3, <2>1, WithoutType
<1>5. /\ NodesOf(r, q1) \in Seq(QueueNode(V)) /\ Len(NodesOf(r, q1)) = n - 1
      /\ \A i \in 1 .. n - 1 : NodesOf(r, q1)[i] = Node(r, q1[i])
  <2> HIDE DEF q1
  <2> QED
    BY <1>2, NodesType
<1> HIDE DEF s, q1
<1>6. ASSUME NEW i \in 1 .. n, i # k PROVE Node(r, q[i]) = Node(l, q[i])
  BY <1>1, <1>6 DEF Node, Lists, Distinct
<1>7. ASSUME NEW i \in 1 .. n - 1 PROVE NodesOf(r, q1)[i] = Without(s, k)[i]
  <2>1. CASE i < k
    <3>1. i \in 1 .. n /\ i # k
      BY <2>1
    <3> QED
      BY <1>2, <1>3, <1>4, <1>5, <1>6, <2>1, <3>1
  <2>2. CASE ~(i < k)
    <3>1. i + 1 \in 1 .. n /\ i + 1 # k
      BY <1>1, <2>2
    <3> QED
      BY <1>2, <1>3, <1>4, <1>5, <1>6, <2>2, <3>1
  <2> QED
    BY <2>1, <2>2
<1>8. NodesOf(r, q1) = Without(s, k)
  BY <1>4, <1>5, <1>7, SeqEqual
<1> QED
  BY <1>8 DEF s, q1

\* One node more, and the others as they were
LEMMA NodesAppend ==
    ASSUME NEW V, NEW l \in Lists(V), NEW r \in Lists(V), NEW x \in V, NEW q \in Seq(Ids), NEW b \in Ids,
           \A i \in 1 .. Len(q) : q[i] # b, r.numBytes = [l.numBytes EXCEPT ![b] = x]
    PROVE  /\ NodesOf(r, Append(q, b)) = Append(NodesOf(l, q), [nodeId |-> b, numBytes |-> x])
           /\ Node(r, b) = [nodeId |-> b, numBytes |-> x]
<1> DEFINE s == NodesOf(l, q)
           q1 == Append(q, b)
           e == [nodeId |-> b, numBytes |-> x]
<1>1. PICK n \in Nat : n = Len(q) /\ DOMAIN q = 1 .. n /\ \A i \in 1 .. n : q[i] \in Ids
  OBVIOUS
<1>2. q1 \in Seq(Ids) /\ Len(q1) = n + 1 /\ q1[n + 1] = b /\ \A i \in 1 .. n : q1[i] = q[i]
  BY <1>1, AppendProperties
<1>3. s \in Seq(QueueNode(V)) /\ Len(s) = n /\ \A i \in 1 .. n : s[i] = Node(l, q[i])
  BY <1>1, NodesType
<1>4. e \in QueueNode(V) /\ Node(r, b) = e
  BY DEF QueueNode, Node, Lists
<1>5. /\ Append(s, e) \in Seq(QueueNode(V)) /\ Len(Append(s, e)) = n + 1 /\ Append(s, e)[n + 1] = e
      /\ \A i \in 1 .. n : Append(s, e)[i] = s[i]
  <2> HIDE DEF s, e
  <2> QED
    BY <1>3, <1>4, AppendProperties
<1>6. /\ NodesOf(r, q1) \in Seq(QueueNode(V)) /\ Len(NodesOf(r, q1)) = n + 1
      /\ \A i \in 1 .. n + 1 : NodesOf(r, q1)[i] = Node(r, q1[i])
  <2> HIDE DEF q1
  <2> QED
    BY <1>2, NodesType
<1>7. \A i \in 1 .. n : Node(r, q[i]) = Node(l, q[i])
  BY <1>1 DEF Node, Lists
<1> HIDE DEF s, q1, e
<1>8. ASSUME NEW i \in 1 .. n + 1 PROVE NodesOf(r, q1)[i] = Append(s, e)[i]
  <2>1. NodesOf(r, q1)[i] = Node(r, q1[i])
    BY <1>6
  <2>2. CASE i \in 1 .. n
    <3>1. q1[i] = q[i] /\ s[i] = Node(l, q[i]) /\ Append(s, e)[i] = s[i]
      BY <1>2, <1>3, <1>5, <2>2
    <3> QED
      BY <1>7, <2>1, <2>2, <3>1
  <2>3. CASE i = n + 1
    BY <1>2, <1>4, <1>5, <2>1, <2>3
  <2>4. i \in 1 .. n \/ i = n + 1
    OBVIOUS
  <2> QED
    BY <2>2, <2>3, <2>4
<1>9. NodesOf(r, q1) = Append(s, e)
  BY <1>5, <1>6, <1>8, SeqEqual
<1> QED
  BY <1>4, <1>9 DEF s, q1, e

QueueOK == list \in Lists(Sizes \cup {0}) /\ \E q, p : Represents(list, q, p)

\* The buffers in play, with their nodes
InPlayNodes(l) == [i \in DOMAIN InPlay(l) |-> Node(l, InPlay(l)[i])]

LEMMA InPlayNodesAre ==
    ASSUME NEW l, NEW q, NEW p, Represents(l, q, p)
    PROVE  InPlayNodes(l) = NodesOf(l, q)
<1>1. InPlay(l) = q
  BY ListsMeet
<1> QED
  BY <1>1 DEF InPlayNodes, NodesOf

LEMMA QueueStep == QueueOK /\ [PlayQueueNext]_playqvars => QueueOK'
<1> SUFFICES ASSUME QueueOK, [PlayQueueNext]_playqvars PROVE QueueOK'
  OBVIOUS
<1> DEFINE V == Sizes \cup {0}
<1>1. list \in Lists(V) /\ 0 \in V
  BY DEF QueueOK
<1>2. PICK q, p : Represents(list, q, p)
  BY DEF QueueOK
<1> HIDE DEF V
<1>3. ASSUME NEW n \in Sizes, playq_enqueue(n) PROVE QueueOK'
  <2>1. CASE CanEnqueue(list) /\ list' = Enqueued(list, n)
    <3>1. n \in V
      BY DEF V
    <3> QED
      BY <1>1, <1>2, <2>1, <3>1, EnqueuedRepresents DEF QueueOK, V
  <2>2. CASE UNCHANGED list
    BY <2>2 DEF QueueOK
  <2> QED
    BY <1>3, <2>1, <2>2 DEF playq_enqueue
<1>4. CASE playq_dequeue
  <2>1. CASE list.head # NULL /\ list' = Dequeued(list)
    <3>1. q # <<>>
      BY <1>2, <2>1 DEF Represents, Threads, First
    <3>2. list' = Removed(list, q[1]) /\ 1 \in 1 .. Len(q)
      BY <1>1, <1>2, <2>1, <3>1, DequeuedIsRemoved
    <3> QED
      BY <1>1, <1>2, <3>2, RemovedRepresents DEF QueueOK, V
  <2>2. CASE UNCHANGED list
    BY <2>2 DEF QueueOK
  <2> QED
    BY <1>4, <2>1, <2>2 DEF playq_dequeue
<1>5. ASSUME NEW b \in Ids, playq_remove(b) PROVE QueueOK'
  <2>1. CASE IsQueued(list, b) /\ list' = Removed(list, b)
    <3>1. PICK k \in 1 .. Len(q) : q[k] = b
      BY <1>2, <2>1, ListsMeet
    <3> QED
      BY <1>1, <1>2, <2>1, <3>1, RemovedRepresents DEF QueueOK, V
  <2>2. CASE UNCHANGED list
    BY <2>2 DEF QueueOK
  <2> QED
    BY <1>5, <2>1, <2>2 DEF playq_remove
<1>6. CASE playq_drain
  BY <1>1, <1>2, <1>6, DrainedRepresents DEF playq_drain, QueueOK, V
<1>7. CASE playq_getHead \/ (\E b \in Ids : playq_get(b)) \/ UNCHANGED playqvars
  BY <1>7 DEF playq_getHead, playq_get, playqvars, QueueOK
<1> QED
  BY <1>3, <1>4, <1>5, <1>6, <1>7 DEF PlayQueueNext

LEMMA QueueInvariant == PlayQueueSpec => []QueueOK
<1>1. PlayQueueInit => QueueOK
  BY CreatedRepresents DEF PlayQueueInit, QueueOK
<1> QED
  BY <1>1, QueueStep, PTL DEF PlayQueueSpec

\* Whatever is put in play, withdrawn and drained, the two directions of the list in play
\* agree and no buffer is lost or in both lists (playqueue.c, lines 42 to 159).
THEOREM ListsAlwaysAgree == PlayQueueSpec => []ListsAgree
<1>1. QueueOK => ListsAgree
  <2> SUFFICES ASSUME QueueOK PROVE ListsAgree
    OBVIOUS
  <2>1. PICK q, p : Represents(list, q, p)
    BY DEF QueueOK
  <2>2. q \in Seq(Ids) /\ p \in Seq(Ids) /\ NULL \notin Ids
    BY <2>1, PQListAssumption DEF Represents, Shared
  <2>3. PICK n \in Nat, m \in Nat : n = Len(q) /\ m = Len(p) /\ DOMAIN q = 1 .. n /\ DOMAIN p = 1 .. m
    <3>1. Len(q) \in Nat /\ Len(p) \in Nat /\ DOMAIN q = 1 .. Len(q) /\ DOMAIN p = 1 .. Len(p)
      BY <2>2
    <3> QED
      BY <3>1
  <2> DEFINE s == Backward(q)
  <2>4. InPlay(list) = q /\ Pool(list) = p /\ Chain(list.next, list.queued) = s
    BY <2>1, ListsMeet
  <2>5. s \in Seq(Ids) /\ Len(s) = n /\ \A i \in 1 .. n : s[i] = q[n + 1 - i]
    BY <2>2, <2>3, BackwardType
  <2>6. DOMAIN s = 1 .. n
    BY <2>3 DEF Backward
  <2> HIDE DEF s
  <2>7. (list.head = NULL) = (list.queued = NULL)
    <3>1. list.head = First(q) /\ list.queued = Final(q)
      BY <2>1 DEF Represents, Threads
    <3>2. q # <<>> => q[1] \in Ids /\ q[Len(q)] \in Ids
      BY <2>2
    <3> QED
      BY <2>2, <3>1, <3>2 DEF First, Final
  <2>8. Len(s) = Len(q) /\ \A i \in DOMAIN s : s[i] = q[Len(s) + 1 - i]
    BY <2>3, <2>5, <2>6
  <2>9. Len(s) + Len(p) = Len(Buffers)
    BY <2>1, <2>3, <2>5 DEF Represents, Shared
  <2>10. ASSUME NEW b \in Ids PROVE Holds(s, b) # Holds(p, b)
    <3>1. Holds(s, b) <=> \E i \in 1 .. n : q[i] = b
      <4>1. ASSUME NEW i \in 1 .. n PROVE n + 1 - i \in 1 .. n /\ s[n + 1 - i] = q[i] /\ s[i] = q[n + 1 - i]
        BY <2>5
      <4> QED
        BY <2>6, <4>1 DEF Holds
    <3>2. Holds(p, b) <=> \E j \in 1 .. m : p[j] = b
      BY <2>3 DEF Holds
    <3>3. \A i \in 1 .. n, j \in 1 .. m : q[i] # p[j]
      BY <2>1, <2>3 DEF Represents, Shared, Apart
    <3>4. (\E i \in 1 .. n : q[i] = b) \/ (\E j \in 1 .. m : p[j] = b)
      BY <2>1, <2>3 DEF Represents, Shared, Cover
    <3>5. Holds(s, b) \in BOOLEAN /\ Holds(p, b) \in BOOLEAN
      BY DEF Holds
    <3> QED
      BY <3>1, <3>2, <3>3, <3>4, <3>5
  <2> QED
    BY <2>4, <2>7, <2>8, <2>9, <2>10 DEF ListsAgree
<1> QED
  BY <1>1, QueueInvariant, PTL

\* The pool of BufferQueue is that of the list.
LEMMA PoolIsRest ==
    ASSUME NEW V, NEW l \in Lists(V), NEW q, NEW p, Represents(l, q, p), NEW s, s = NodesOf(l, q), NEW b \in Ids
    PROVE  /\ b \in Ids \ {s[i].nodeId : i \in DOMAIN s} <=> \E j \in 1 .. Len(p) : p[j] = b
           /\ b \in Ids \ {s[i].nodeId : i \in DOMAIN s} <=> ~\E i \in 1 .. Len(q) : q[i] = b
<1>1. q \in Seq(Ids)
  BY DEF Represents, Shared
<1>2. DOMAIN s = 1 .. Len(q) /\ \A i \in 1 .. Len(q) : s[i].nodeId = q[i]
  BY <1>1, NodesType
<1>3. \A i \in 1 .. Len(q), j \in 1 .. Len(p) : q[i] # p[j]
  BY DEF Represents, Shared, Apart
<1>4. (\E i \in 1 .. Len(q) : q[i] = b) \/ (\E j \in 1 .. Len(p) : p[j] = b)
  BY DEF Represents, Shared, Cover
<1>5. b \in {s[i].nodeId : i \in DOMAIN s} <=> \E i \in 1 .. Len(q) : q[i] = b
  BY <1>2
<1> QED
  BY <1>3, <1>4, <1>5

\* Taking out the k-th node
LEMMA RemovedNodes ==
    ASSUME NEW V, NEW l \in Lists(V), 0 \in V, NEW q, NEW p, Represents(l, q, p), NEW k \in 1 .. Len(q)
    PROVE  /\ InPlayNodes(Removed(l, q[k])) = Without(NodesOf(l, q), k)
           /\ NodesOf(l, q)[k] = Node(l, q[k])
<1>1. /\ Removed(l, q[k]) \in Lists(V)
      /\ Represents(Removed(l, q[k]), Without(q, k), Pushed(p, q[k]))
      /\ Removed(l, q[k]).numBytes = [l.numBytes EXCEPT ![q[k]] = 0]
  BY RemovedRepresents
<1>2. q \in Seq(Ids) /\ Distinct(q)
  BY DEF Represents, Shared
<1>3. InPlayNodes(Removed(l, q[k])) = NodesOf(Removed(l, q[k]), Without(q, k))
  BY <1>1, InPlayNodesAre
<1>4. NodesOf(Removed(l, q[k]), Without(q, k)) = Without(NodesOf(l, q), k)
  BY <1>1, <1>2, NodesWithout
<1> QED
  BY <1>2, <1>3, <1>4, NodesType

\* Putting in the top of the pool
LEMMA EnqueuedNodes ==
    ASSUME NEW V, NEW l \in Lists(V), NEW x \in V, NEW q, NEW p, Represents(l, q, p), CanEnqueue(l)
    PROVE  /\ InPlayNodes(Enqueued(l, x)) = Append(NodesOf(l, q), [nodeId |-> l.avail, numBytes |-> x])
           /\ Node(Enqueued(l, x), l.avail) = [nodeId |-> l.avail, numBytes |-> x]
           /\ p # <<>> /\ l.avail = p[1] /\ l.avail \in Ids
<1>1. /\ p # <<>> /\ l.avail = p[1] /\ l.avail \in Ids
      /\ Enqueued(l, x) \in Lists(V)
      /\ Represents(Enqueued(l, x), Append(q, l.avail), Without(p, 1))
      /\ Enqueued(l, x).numBytes = [l.numBytes EXCEPT ![l.avail] = x]
  BY EnqueuedRepresents
<1>2. q \in Seq(Ids) /\ p \in Seq(Ids)
  BY DEF Represents, Shared
<1>3. \A i \in 1 .. Len(q) : q[i] # l.avail
  <2>1. 1 \in 1 .. Len(p)
    BY <1>1, <1>2
  <2> QED
    BY <1>1, <2>1 DEF Represents, Shared, Apart
<1>4. InPlayNodes(Enqueued(l, x)) = NodesOf(Enqueued(l, x), Append(q, l.avail))
  BY <1>1, InPlayNodesAre
<1>5. /\ NodesOf(Enqueued(l, x), Append(q, l.avail)) = Append(NodesOf(l, q), [nodeId |-> l.avail, numBytes |-> x])
      /\ Node(Enqueued(l, x), l.avail) = [nodeId |-> l.avail, numBytes |-> x]
  <2>1. PICK b \in Ids : b = l.avail
    BY <1>1
  <2> QED
    BY <1>1, <1>2, <1>3, <2>1, NodesAppend
<1> QED
  BY <1>1, <1>4, <1>5

\* Each call does to the linked lists, and answers, what BufferQueue promises: first in
\* first out, and any buffer can be withdrawn (playqueue.h, lines 34 to 53).
THEOREM IsQueue == PlayQueueSpec => IsBufferQueue
<1>1. PlayQueueInit => B!Init
  <2> SUFFICES ASSUME PlayQueueInit PROVE B!Init
    OBVIOUS
  <2>1. Created \in Lists({0}) /\ Represents(Created, <<>>, Backward(Buffers))
    BY CreatedRepresents
  <2>2. InPlayNodes(Created) = NodesOf(Created, <<>>)
    BY <2>1, InPlayNodesAre
  <2>3. NodesOf(Created, <<>>) = <<>>
    BY <2>1, NodesType, EmptySeq
  <2> QED
    BY <2>2, <2>3 DEF PlayQueueInit, B!Init, B!None, NoNode, InPlayNodes
<1>2. QueueOK /\ [PlayQueueNext]_playqvars => [B!Next]_B!queuevars
  <2> SUFFICES ASSUME QueueOK, [PlayQueueNext]_playqvars PROVE [B!Next]_B!queuevars
    OBVIOUS
  <2> DEFINE V == Sizes \cup {0}
  <2>1. list \in Lists(V) /\ 0 \in V
    BY DEF QueueOK
  <2>2. PICK q, p : Represents(list, q, p)
    BY DEF QueueOK
  <2>3. PICK s : s = NodesOf(list, q)
    OBVIOUS
  <2>4. InPlayNodes(list) = s
    BY <2>2, <2>3, InPlayNodesAre
  <2>5. q \in Seq(Ids) /\ p \in Seq(Ids) /\ NULL \notin Ids
    BY <2>2, PQListAssumption DEF Represents, Shared
  <2>6. /\ s \in Seq(QueueNode(V)) /\ Len(s) = Len(q) /\ DOMAIN s = 1 .. Len(q) /\ (s = <<>> <=> q = <<>>)
        /\ \A i \in 1 .. Len(q) : s[i] = Node(list, q[i]) /\ s[i].nodeId = q[i]
    BY <2>1, <2>3, <2>5, NodesType
  <2>7. \A b \in Ids : /\ b \in Ids \ {s[i].nodeId : i \in DOMAIN s} <=> \E j \in 1 .. Len(p) : p[j] = b
                       /\ b \in Ids \ {s[i].nodeId : i \in DOMAIN s} <=> ~\E i \in 1 .. Len(q) : q[i] = b
    BY <2>1, <2>2, <2>3, PoolIsRest
  <2>8. (list.head = NULL <=> q = <<>>) /\ (q # <<>> => list.head = q[1] /\ 1 \in 1 .. Len(q))
    BY <2>2, <2>5 DEF Represents, Threads, First
  <2>9. (list.avail = NULL <=> p = <<>>)
    BY <2>2, <2>5 DEF Represents, Threads, First
  <2> HIDE DEF V
  <2>10. ASSUME NEW n \in Sizes, playq_enqueue(n) PROVE B!Enqueue(n)
    <3>1. CASE CanEnqueue(list) /\ list' = Enqueued(list, n) /\ result' = Found(list', list.avail)
      <4>1. n \in V
        BY DEF V
      <4> DEFINE node == [nodeId |-> list.avail, numBytes |-> n]
      <4>2. /\ InPlayNodes(Enqueued(list, n)) = Append(s, node)
            /\ Node(Enqueued(list, n), list.avail) = node
            /\ p # <<>> /\ list.avail = p[1] /\ list.avail \in Ids
        BY <2>1, <2>2, <2>3, <3>1, <4>1, EnqueuedNodes
      <4>3. list.avail \in Ids \ {s[i].nodeId : i \in DOMAIN s}
        <5>1. 1 \in 1 .. Len(p)
          BY <2>5, <4>2
        <5> QED
          BY <2>7, <4>2, <5>1
      <4>4. InPlayNodes(list') = Append(s, node) /\ result' = B!Answer(node)
        BY <3>1, <4>2 DEF Found, B!Answer
      <4> QED
        BY <2>4, <4>3, <4>4 DEF B!Enqueue, B!Pool, InPlayNodes
    <3>2. CASE ~CanEnqueue(list) /\ result' = NoNode /\ UNCHANGED list
      <4>1. p = <<>>
        BY <2>9, <3>2 DEF CanEnqueue
      <4>2. Ids \ {s[i].nodeId : i \in DOMAIN s} = {}
        BY <2>7, <4>1
      <4> QED
        BY <2>4, <3>2, <4>2 DEF B!Enqueue, B!Pool, B!None, NoNode, InPlayNodes
    <3> QED
      BY <2>10, <3>1, <3>2 DEF playq_enqueue
  <2>11. ASSUME playq_dequeue PROVE B!Dequeue
    <3>1. CASE list.head # NULL /\ list' = Dequeued(list) /\ result' = Found(list, list.head)
      <4>1. q # <<>> /\ list.head = q[1] /\ 1 \in 1 .. Len(q) /\ s # <<>>
        BY <2>6, <2>8, <3>1
      <4>2. list' = Removed(list, q[1])
        BY <2>1, <2>2, <3>1, <4>1, DequeuedIsRemoved
      <4>3. InPlayNodes(list') = Without(s, 1)
        BY <2>1, <2>2, <2>3, <4>1, <4>2, RemovedNodes
      <4>4. Tail(s) = Without(s, 1) /\ Head(s) = s[1]
        BY <2>6, <4>1, TailIsWithout
      <4>5. result' = B!Answer(Head(s))
        BY <2>6, <3>1, <4>1, <4>4 DEF Found, B!Answer
      <4> QED
        BY <2>4, <4>1, <4>3, <4>4, <4>5 DEF B!Dequeue, InPlayNodes
    <3>2. CASE list.head = NULL /\ result' = NoNode /\ UNCHANGED list
      BY <2>4, <2>6, <2>8, <3>2 DEF B!Dequeue, B!None, NoNode, InPlayNodes
    <3> QED
      BY <2>11, <3>1, <3>2 DEF playq_dequeue
  <2>12. ASSUME NEW b \in Ids, playq_remove(b) PROVE B!Withdraw(b)
    <3>1. CASE IsQueued(list, b) /\ list' = Removed(list, b) /\ result' = Found(list, b)
      <4>1. PICK k \in 1 .. Len(q) : q[k] = b
        BY <2>2, <3>1, ListsMeet
      <4>2. InPlayNodes(list') = Without(s, k)
        BY <2>1, <2>2, <2>3, <3>1, <4>1, RemovedNodes
      <4>3. Without(s, k) = B!RemoveAt(s, k)
        BY <2>6, WithoutIsRemoveAt DEF RemoveAt, B!RemoveAt
      <4>4. k \in DOMAIN s /\ s[k].nodeId = b /\ result' = B!Answer(s[k])
        BY <2>6, <3>1, <4>1 DEF Found, B!Answer
      <4>5. InPlayNodes(list)' = B!RemoveAt(s, k)
        BY <4>2, <4>3 DEF InPlayNodes
      <4> QED
        BY <2>4, <4>4, <4>5 DEF B!Withdraw, InPlayNodes
    <3>2. CASE ~IsQueued(list, b) /\ result' = NoNode /\ UNCHANGED list
      <4>1. b \in Ids \ {s[i].nodeId : i \in DOMAIN s}
        BY <2>2, <2>7, <3>2, ListsMeet
      <4> QED
        BY <2>4, <3>2, <4>1 DEF B!Withdraw, B!Pool, B!None, NoNode, InPlayNodes
    <3> QED
      BY <2>12, <3>1, <3>2 DEF playq_remove
  <2>13. ASSUME NEW b \in Ids, playq_get(b) PROVE B!Get(b)
    <3>1. CASE IsQueued(list, b) /\ result' = Found(list, b)
      <4>1. PICK k \in 1 .. Len(q) : q[k] = b
        BY <2>2, <3>1, ListsMeet
      <4>2. k \in DOMAIN s /\ s[k].nodeId = b /\ result' = B!Answer(s[k])
        BY <2>6, <3>1, <4>1 DEF Found, B!Answer
      <4>3. InPlayNodes(list') = s
        BY <2>4, <2>13 DEF playq_get
      <4> QED
        BY <2>4, <4>2, <4>3 DEF B!Get, InPlayNodes
    <3>2. CASE ~IsQueued(list, b) /\ result' = NoNode
      <4>1. b \in Ids \ {s[i].nodeId : i \in DOMAIN s}
        BY <2>2, <2>7, <3>2, ListsMeet
      <4>2. InPlayNodes(list') = s
        BY <2>4, <2>13 DEF playq_get
      <4> QED
        BY <2>4, <3>2, <4>1, <4>2 DEF B!Get, B!Pool, B!None, NoNode, InPlayNodes
    <3> QED
      BY <2>13, <3>1, <3>2 DEF playq_get
  <2>14. ASSUME playq_getHead PROVE B!GetHead
    <3>1. InPlayNodes(list') = s
      BY <2>4, <2>14 DEF playq_getHead
    <3>2. result' = IF s = <<>> THEN B!None ELSE B!Answer(Head(s))
      <4>1. CASE q = <<>>
        BY <2>6, <2>8, <2>14, <4>1 DEF playq_getHead, NoNode, B!None
      <4>2. CASE q # <<>>
        <5>1. Head(s) = s[1] /\ s # <<>>
          BY <2>6, <4>2, TailIsWithout
        <5>2. s[1] = Node(list, list.head) /\ list.head # NULL
          BY <2>6, <2>8, <4>2
        <5> QED
          BY <2>14, <5>1, <5>2 DEF playq_getHead, Found, B!Answer
      <4> QED
        BY <4>1, <4>2
    <3> QED
      BY <2>4, <3>1, <3>2 DEF B!GetHead, InPlayNodes
  <2>15. ASSUME playq_drain PROVE B!Drain
    <3>1. PICK p1 : Represents(Drained(list), <<>>, p1)
      BY <2>1, <2>2, DrainedRepresents
    <3>2. Drained(list) \in Lists(V)
      BY <2>1, <2>2, DrainedRepresents
    <3>3. InPlayNodes(Drained(list)) = NodesOf(Drained(list), <<>>)
      BY <3>1, InPlayNodesAre
    <3>4. NodesOf(Drained(list), <<>>) = <<>>
      BY <3>2, NodesType, EmptySeq
    <3> QED
      BY <2>15, <3>3, <3>4 DEF playq_drain, B!Drain, B!None, NoNode, InPlayNodes
  <2>16. CASE UNCHANGED playqvars
    BY <2>4, <2>16 DEF playqvars, B!queuevars, InPlayNodes
  <2> QED
    BY <2>10, <2>11, <2>12, <2>13, <2>14, <2>15, <2>16 DEF PlayQueueNext, B!Next
<1> QED
  BY <1>1, <1>2, QueueInvariant, PTL DEF PlayQueueSpec, IsBufferQueue, B!Spec

-----------------------------------------------------------------------------
(* The voice                                                                *)

States == {"initial", "playing", "paused", "stopped"}

\* The account of a voice with the buffers q in play
Accounted(l, total, q, p) ==
    /\ l \in Lists(Nat) /\ Represents(l, q, p)
    /\ total = Bytes(NodesOf(l, q))
    /\ \A i \in 1 .. Len(q) : l.numBytes[q[i]] > 0

\* The source has these buffers, but for the last while it is handed over.
AccountOK ==
    \E q, p :
        /\ Accounted(playq, _queued_total_bytes, q, p)
        /\ \/ pc # "queue" /\ source.queue = NodesOf(playq, q)
           \/ pc = "queue" /\ q # <<>> /\ source.queue = Without(NodesOf(playq, q), Len(q))

\* What the library has, and what is known of it between two calls
SourceOK ==
    /\ source \in [queue : Seq(QueueNode(Nat)), played : Nat, state : States]
    /\ source.state = "initial" => source.played = 0
    /\ processed \in 0 .. Len(Buffers)
    /\ pc = "unqueue" =>
         /\ processed \in 1 .. Len(source.queue)
         /\ Sounding(source) => Bytes(SubSeq(source.queue, 1, processed)) <= source.played
    /\ pc = "queue" => ToBeHeard(source) < QUARTER

\* The room in the working buffer
RoomOK ==
    /\ index \in 0 .. buffersize /\ size \in Nat /\ call \in Calls
    /\ pc \in Labels \cup {"slice", "outer"} /\ faults \in 0 .. MaxFaults
    /\ reply \in [err : BOOLEAN, bytes : Nat]
    /\ pc \in {"queue", "state", "play"} => call = "unlock"
    /\ pc \in {"processed", "unqueue", "offset"} /\ call = "unlock" => index + size \in 1 .. buffersize
    /\ pc = "return" /\ call = "lock" /\ reply.err = FALSE =>
         index + reply.bytes \in 1 .. buffersize /\ (size # 0 => reply.bytes <= size)

\* The flags and counters of the loop
LoopOK ==
    /\ speaker_isAvailable \in BOOLEAN /\ is_fullspeed \in BOOLEAN /\ emul_reinitialize_audio \in BOOLEAN
    /\ samples_adjustment_counter \in (-AdjustMax) .. AdjustMax
    /\ cycles_speaker_feedback \in (-AdjustMax) .. AdjustMax
    /\ speaker_wedged_count \in 0 .. (WedgedMax - 1)

\* The samples, and the copy of them that is under way
CopyOK ==
    /\ samples_buffer_idx \in Nat
    /\ copy \in [size : Nat, left : Nat, idx : Nat, used : Nat, turns : 0 .. 1]
    /\ copy.used <= samples_buffer_idx /\ copy.size <= copy.left + copy.idx
    /\ pc \in {"slice", "outer"} \/ is_fullspeed \/ call = "position" => copy = NoCopy
    /\ pc \notin {"slice", "outer"} /\ ~is_fullspeed /\ call = "lock" => size = copy.left /\ size # 0

VoiceOK == AccountOK /\ SourceOK /\ RoomOK /\ LoopOK /\ CopyOK

-----------------------------------------------------------------------------
(* The bytes of a queue                                                     *)

\* The partial sums of the bytes of s
Sums(f, s) == f[0] = 0 /\ \A n \in 1 .. Len(s) : f[n] = f[n - 1] + s[n].numBytes

LEMMA NodeBytes ==
    ASSUME NEW s \in Seq(QueueNode(Nat))
    PROVE  Len(s) \in Nat /\ \A n \in 1 .. Len(s) : s[n].numBytes \in Nat
<1>1. \A n \in 1 .. Len(s) : s[n] \in QueueNode(Nat)
  OBVIOUS
<1> QED
  BY <1>1 DEF QueueNode

\* Bytes() is the last of them.
LEMMA BytesAre ==
    ASSUME NEW s \in Seq(QueueNode(Nat))
    PROVE  \E f \in [0 .. Len(s) -> Nat] : Sums(f, s) /\ Bytes(s) = f[Len(s)]
<1> DEFINE N == Len(s)
           b == [n \in Nat |-> IF n \in 1 .. N THEN s[n].numBytes ELSE 0]
           step == [n \in Nat |-> [y \in Nat |-> y + b[n]]]
           Next1(f) == [k \in 0 .. N |-> IF k = 0 THEN 0 ELSE f[k - 1] + s[k].numBytes]
           sum == CHOOSE f : f = Next1(f)
<1>1. N \in Nat /\ \A n \in 1 .. N : s[n].numBytes \in Nat
  BY NodeBytes
<1>2. b \in [Nat -> Nat] /\ \A n \in 1 .. N : b[n] = s[n].numBytes
  BY <1>1
<1> HIDE DEF N, b
<1>3. step \in [Nat -> [Nat -> Nat]] /\ \A n, y \in Nat : step[n][y] = y + b[n]
  BY <1>2
<1>4. \E f : f = Next1(f)
  <2> HIDE DEF step
  <2>1. PICK f \in [0 .. N -> Nat] : Iterates(f, 0, step, N)
    BY <1>1, <1>3, Recursion
  <2>2. ASSUME NEW n \in 1 .. N PROVE f[n] = f[n - 1] + s[n].numBytes
    <3>1. n \in Nat /\ n - 1 \in 0 .. N
      BY <1>1
    <3>2. f[n] = step[n][f[n - 1]]
      BY <2>1 DEF Iterates
    <3>3. f[n - 1] \in Nat
      BY <2>1, <3>1
    <3> QED
      BY <1>2, <1>3, <3>1, <3>2, <3>3
  <2>3. f = Next1(f)
    BY <1>1, <2>1, <2>2 DEF Iterates
  <2> QED
    BY <2>3
<1>5. sum = Next1(sum)
  BY <1>4
<1>6. Bytes(s) = sum[N]
  BY DEF Bytes, N
<1> HIDE DEF sum
<1>7. /\ sum[0] = 0 /\ \A n \in 1 .. N : sum[n] = sum[n - 1] + s[n].numBytes
      /\ sum = [k \in 0 .. N |-> sum[k]]
  <2>1. \A n \in 0 .. N : sum[n] = Next1(sum)[n]
    <3> HIDE DEF Next1
    <3> QED
      BY <1>5
  <2>4. \A n \in 0 .. N : sum[n] = IF n = 0 THEN 0 ELSE sum[n - 1] + s[n].numBytes
    BY <2>1
  <2>2. DOMAIN Next1(sum) = 0 .. N /\ Next1(sum) = [k \in 0 .. N |-> Next1(sum)[k]]
    OBVIOUS
  <2>3. sum = [k \in 0 .. N |-> sum[k]]
    <3> HIDE DEF Next1
    <3> QED
      BY <1>5, <2>2
  <2>5. 0 \in 0 .. N /\ \A n \in 1 .. N : n \in 0 .. N /\ n # 0
    BY <1>1
  <2> QED
    BY <2>3, <2>4, <2>5
<1> HIDE DEF Next1, step
<1> DEFINE T == {n \in 0 .. N : sum[n] \in Nat}
<1>8. 0 \in T
  BY <1>1, <1>7
<1>9. ASSUME NEW n \in 0 .. N, n \in T, n < N PROVE n + 1 \in T
  <2>1. n + 1 \in 1 .. N /\ n + 1 \in 0 .. N /\ (n + 1) - 1 = n
    BY <1>1, <1>9
  <2>2. sum[n + 1] = sum[n] + s[n + 1].numBytes
    BY <1>7, <2>1
  <2> QED
    BY <1>1, <1>9, <2>1, <2>2
<1> HIDE DEF T
<1>10. 0 .. N \subseteq T
  BY <1>1, <1>8, <1>9, BoundedInduction
<1>11. sum \in [0 .. N -> Nat]
  BY <1>7, <1>10 DEF T
<1> QED
  BY <1>6, <1>7, <1>11 DEF Sums, N

\* The bytes of a part of s
LEMMA PartBytes ==
    ASSUME NEW s \in Seq(QueueNode(Nat)), NEW f \in [0 .. Len(s) -> Nat], Sums(f, s),
           NEW t \in Seq(QueueNode(Nat)), NEW d \in Nat, d + Len(t) <= Len(s),
           \A i \in 1 .. Len(t) : t[i] = s[d + i]
    PROVE  Bytes(t) \in Nat /\ f[d + Len(t)] = f[d] + Bytes(t)
<1>1. PICK g \in [0 .. Len(t) -> Nat] : Sums(g, t) /\ Bytes(t) = g[Len(t)]
  BY BytesAre
<1>2. PICK n \in Nat, m \in Nat : n = Len(s) /\ m = Len(t) /\ d + m <= n
  OBVIOUS
<1> DEFINE T == {k \in 0 .. m : f[d + k] = f[d] + g[k]}
<1>3. 0 \in T
  <2>1. d \in 0 .. n /\ f[d] \in Nat /\ g[0] = 0 /\ d + 0 = d
    BY <1>1, <1>2 DEF Sums
  <2> QED
    BY <1>2, <2>1
<1>4. ASSUME NEW k \in 0 .. m, k \in T, k < m PROVE k + 1 \in T
  <2>1. k + 1 \in 1 .. m /\ k + 1 \in 0 .. m /\ (k + 1) - 1 = k
    BY <1>2, <1>4
  <2>2. g[k + 1] = g[k] + t[k + 1].numBytes
    BY <1>1, <1>2, <2>1 DEF Sums
  <2>3. d + (k + 1) \in 1 .. n /\ (d + (k + 1)) - 1 = d + k
    BY <1>2, <2>1
  <2>4. f[d + (k + 1)] = f[d + k] + s[d + (k + 1)].numBytes
    BY <1>2, <2>3 DEF Sums
  <2>5. t[k + 1] = s[d + (k + 1)] /\ t[k + 1].numBytes \in Nat
    BY <1>2, <2>1, NodeBytes
  <2>6. f[d] \in Nat /\ g[k] \in Nat /\ f[d + k] = f[d] + g[k]
    <3>1. d \in 0 .. n
      BY <1>2
    <3> QED
      BY <1>1, <1>2, <1>4, <3>1
  <2> QED
    BY <2>1, <2>2, <2>4, <2>5, <2>6
<1> HIDE DEF T
<1>5. 0 .. m \subseteq T
  BY <1>2, <1>3, <1>4, BoundedInduction
<1>6. m \in T
  BY <1>2, <1>5
<1> QED
  BY <1>1, <1>2, <1>6 DEF T

\* An account without buffers, with one more, and with one less
LEMMA BytesNone == Bytes(<<>>) = 0
<1>1. <<>> \in Seq(QueueNode(Nat)) /\ Len(<<>>) = 0
  BY EmptySeq
<1>2. PICK f \in [0 .. 0 -> Nat] : Sums(f, <<>>) /\ Bytes(<<>>) = f[0]
  BY <1>1, BytesAre
<1> QED
  BY <1>2 DEF Sums

LEMMA BytesAppend ==
    ASSUME NEW s \in Seq(QueueNode(Nat)), NEW e \in QueueNode(Nat)
    PROVE  Bytes(s) \in Nat /\ Bytes(Append(s, e)) = Bytes(s) + e.numBytes
<1> DEFINE t == Append(s, e)
<1>1. PICK n \in Nat : n = Len(s)
  OBVIOUS
<1>2. t \in Seq(QueueNode(Nat)) /\ Len(t) = n + 1 /\ t[n + 1] = e /\ \A i \in 1 .. n : t[i] = s[i]
  BY <1>1, AppendProperties
<1> HIDE DEF t
<1>3. PICK f \in [0 .. Len(t) -> Nat] : Sums(f, t) /\ Bytes(t) = f[Len(t)]
  BY <1>2, BytesAre
<1>4. Bytes(s) \in Nat /\ f[0 + Len(s)] = f[0] + Bytes(s)
  <2>1. 0 + Len(s) <= Len(t) /\ \A i \in 1 .. Len(s) : s[i] = t[0 + i]
    BY <1>1, <1>2
  <2> QED
    BY <1>2, <1>3, <2>1, PartBytes
<1>5. f[0] = 0 /\ f[n + 1] = f[n] + e.numBytes
  BY <1>1, <1>2, <1>3 DEF Sums
<1>6. Bytes(t) = Bytes(s) + e.numBytes
  BY <1>1, <1>2, <1>3, <1>4, <1>5
<1> QED
  BY <1>4, <1>6 DEF t

LEMMA BytesFirst ==
    ASSUME NEW s \in Seq(QueueNode(Nat)), s # <<>>
    PROVE  /\ s[1].numBytes \in Nat /\ Bytes(Without(s, 1)) \in Nat
           /\ Bytes(s) = s[1].numBytes + Bytes(Without(s, 1))
<1> DEFINE t == Without(s, 1)
<1>1. PICK n \in Nat : n = Len(s) /\ n # 0
  OBVIOUS
<1>2. t \in Seq(QueueNode(Nat)) /\ Len(t) = n - 1 /\ \A i \in 1 .. n - 1 : t[i] = s[i + 1]
  <2>1. 1 \in 1 .. Len(s)
    BY <1>1
  <2> QED
    BY <1>1, <2>1, WithoutType
<1> HIDE DEF t
<1>3. PICK f \in [0 .. Len(s) -> Nat] : Sums(f, s) /\ Bytes(s) = f[Len(s)]
  BY BytesAre
<1>4. Bytes(t) \in Nat /\ f[1 + Len(t)] = f[1] + Bytes(t)
  <2>1. 1 + Len(t) <= Len(s) /\ \A i \in 1 .. Len(t) : t[i] = s[1 + i]
    <3>1. \A i \in 1 .. n - 1 : i + 1 = 1 + i
      BY <1>1
    <3> QED
      BY <1>1, <1>2, <3>1
  <2> QED
    BY <1>2, <1>3, <2>1, PartBytes
<1>5. f[0] = 0 /\ f[1] = f[0] + s[1].numBytes /\ s[1].numBytes \in Nat
  <2>1. 1 \in 1 .. Len(s)
    BY <1>1
  <2> QED
    BY <1>3, <2>1, NodeBytes DEF Sums
<1>6. 1 + Len(t) = Len(s)
  BY <1>1, <1>2
<1> QED
  BY <1>3, <1>4, <1>5, <1>6 DEF t

LEMMA BytesLast ==
    ASSUME NEW s \in Seq(QueueNode(Nat)), s # <<>>
    PROVE  /\ s[Len(s)].numBytes \in Nat /\ Bytes(Without(s, Len(s))) \in Nat
           /\ Bytes(s) = Bytes(Without(s, Len(s))) + s[Len(s)].numBytes
<1> DEFINE t == Without(s, Len(s))
<1>1. PICK n \in Nat : n = Len(s) /\ n # 0
  OBVIOUS
<1>2. t \in Seq(QueueNode(Nat)) /\ Len(t) = n - 1 /\ \A i \in 1 .. n - 1 : t[i] = s[i]
  <2>1. n \in 1 .. Len(s)
    BY <1>1
  <2> QED
    BY <1>1, <2>1, WithoutType
<1> HIDE DEF t
<1>3. PICK f \in [0 .. Len(s) -> Nat] : Sums(f, s) /\ Bytes(s) = f[Len(s)]
  BY BytesAre
<1>4. Bytes(t) \in Nat /\ f[0 + Len(t)] = f[0] + Bytes(t)
  <2>1. 0 + Len(t) <= Len(s) /\ \A i \in 1 .. Len(t) : t[i] = s[0 + i]
    BY <1>1, <1>2
  <2> QED
    BY <1>2, <1>3, <2>1, PartBytes
<1>5. f[0] = 0 /\ f[n] = f[n - 1] + s[n].numBytes /\ s[n].numBytes \in Nat
  <2>1. n \in 1 .. Len(s)
    BY <1>1
  <2> QED
    BY <1>1, <1>3, <2>1, NodeBytes DEF Sums
<1> QED
  BY <1>1, <1>2, <1>3, <1>4, <1>5 DEF t

\* The first buffers of a queue
LEMMA PrefixType ==
    ASSUME NEW S, NEW s \in Seq(S), NEW k \in 0 .. Len(s)
    PROVE  /\ SubSeq(s, 1, k) \in Seq(S) /\ Len(SubSeq(s, 1, k)) = k
           /\ \A i \in 1 .. k : SubSeq(s, 1, k)[i] = s[i]
<1>1. PICK m \in Nat : m = k
  OBVIOUS
<1>2. \A i \in 1 .. m : s[i] \in S
  BY <1>1
<1>3. /\ SubSeq(s, 1, m) \in Seq(S) /\ Len(SubSeq(s, 1, m)) = IF 1 <= m THEN m - 1 + 1 ELSE 0
      /\ \A i \in 1 .. m - 1 + 1 : SubSeq(s, 1, m)[i] = s[1 + i - 1]
  BY <1>2, SubSeqProperties
<1>4. Len(SubSeq(s, 1, m)) = m /\ \A i \in 1 .. m : SubSeq(s, 1, m)[i] = s[i]
  BY <1>3
<1> QED
  BY <1>1, <1>3, <1>4

LEMMA PrefixBytes ==
    ASSUME NEW s \in Seq(QueueNode(Nat)), NEW f \in [0 .. Len(s) -> Nat], Sums(f, s), NEW k \in 0 .. Len(s)
    PROVE  Bytes(SubSeq(s, 1, k)) = f[k]
<1>1. PICK m \in Nat : m = k
  OBVIOUS
<1>2. PICK t \in Seq(QueueNode(Nat)) : t = SubSeq(s, 1, k) /\ Len(t) = m /\ \A i \in 1 .. m : t[i] = s[i]
  <2>1. /\ SubSeq(s, 1, k) \in Seq(QueueNode(Nat)) /\ Len(SubSeq(s, 1, k)) = k
        /\ \A i \in 1 .. k : SubSeq(s, 1, k)[i] = s[i]
    BY PrefixType
  <2> QED
    BY <1>1, <2>1
<1>3. 0 + Len(t) <= Len(s) /\ \A i \in 1 .. Len(t) : t[i] = s[0 + i]
  BY <1>1, <1>2
<1>4. Bytes(t) \in Nat /\ f[0 + Len(t)] = f[0] + Bytes(t)
  BY <1>3, PartBytes
<1> QED
  BY <1>1, <1>2, <1>4 DEF Sums

\* What is left of them when the first is taken out
LEMMA PrefixOfRest ==
    ASSUME NEW s \in Seq(QueueNode(Nat)), NEW k \in 1 .. Len(s)
    PROVE  /\ Bytes(SubSeq(s, 1, k)) = s[1].numBytes + Bytes(SubSeq(Without(s, 1), 1, k - 1))
           /\ Bytes(SubSeq(Without(s, 1), 1, k - 1)) \in Nat /\ s[1].numBytes \in Nat
<1>1. PICK n \in Nat, m \in Nat : n = Len(s) /\ m = k /\ m \in 1 .. n /\ 1 \in 1 .. n
  OBVIOUS
<1>2. PICK t \in Seq(QueueNode(Nat)) : t = SubSeq(s, 1, m) /\ Len(t) = m /\ \A i \in 1 .. m : t[i] = s[i]
  <2>1. m \in 0 .. Len(s)
    BY <1>1
  <2> QED
    BY <2>1, PrefixType
<1>3. PICK r \in Seq(QueueNode(Nat)) : r = Without(s, 1) /\ Len(r) = n - 1 /\ \A i \in 1 .. n - 1 : r[i] = s[i + 1]
  <2>1. 1 \in 1 .. Len(s)
    BY <1>1
  <2>2. /\ Without(s, 1) \in Seq(QueueNode(Nat)) /\ Len(Without(s, 1)) = Len(s) - 1
        /\ \A i \in 1 .. Len(s) - 1 : Without(s, 1)[i] = IF i < 1 THEN s[i] ELSE s[i + 1]
    BY <2>1, WithoutType
  <2> QED
    BY <1>1, <2>2
<1>4. PICK u \in Seq(QueueNode(Nat)) : u = SubSeq(r, 1, m - 1) /\ Len(u) = m - 1
      /\ \A i \in 1 .. m - 1 : u[i] = r[i]
  <2>1. m - 1 \in 0 .. Len(r)
    BY <1>1, <1>3
  <2> QED
    BY <2>1, PrefixType
<1>5. PICK v \in Seq(QueueNode(Nat)) : v = Without(t, 1) /\ Len(v) = m - 1 /\ \A i \in 1 .. m - 1 : v[i] = t[i + 1]
  <2>1. 1 \in 1 .. Len(t)
    BY <1>1, <1>2
  <2>2. /\ Without(t, 1) \in Seq(QueueNode(Nat)) /\ Len(Without(t, 1)) = Len(t) - 1
        /\ \A i \in 1 .. Len(t) - 1 : Without(t, 1)[i] = IF i < 1 THEN t[i] ELSE t[i + 1]
    BY <2>1, WithoutType
  <2> QED
    BY <1>1, <1>2, <2>2
<1>6. u = v
  <2>1. ASSUME NEW i \in 1 .. m - 1 PROVE u[i] = v[i]
    <3>1. i \in 1 .. n - 1 /\ i + 1 \in 1 .. m
      BY <1>1
    <3> QED
      BY <1>2, <1>3, <1>4, <1>5, <3>1
  <2> QED
    BY <1>4, <1>5, <2>1, SeqEqual
<1>7. t # <<>> /\ t[1] = s[1]
  <2>1. 1 \in 1 .. m /\ m # 0
    BY <1>1
  <2> QED
    BY <1>2, <2>1, EmptySeq
<1>8. t[1].numBytes \in Nat /\ Bytes(v) \in Nat /\ Bytes(t) = t[1].numBytes + Bytes(v)
  BY <1>5, <1>7, BytesFirst
<1> QED
  BY <1>1, <1>2, <1>3, <1>4, <1>6, <1>7, <1>8

\* The source is done with buffers it has, and has played them if it still sounds.
LEMMA DoneFits ==
    ASSUME NEW s \in [queue : Seq(QueueNode(Nat)), played : Nat, state : States]
    PROVE  /\ Done(s) \in 0 .. Len(s.queue)
           /\ Done(s) # 0 /\ Sounding(s) => Bytes(SubSeq(s.queue, 1, Done(s))) <= s.played
<1>1. PICK q \in Seq(QueueNode(Nat)), y \in Nat : q = s.queue /\ y = s.played
  OBVIOUS
<1>2. PICK n \in Nat : n = Len(q) /\ DOMAIN q = 1 .. n
  OBVIOUS
<1>3. CASE s.state = "stopped"
  <2>1. Done(s) = n /\ ~Sounding(s)
    BY <1>1, <1>2, <1>3 DEF Done, Sounding
  <2> QED
    BY <1>1, <1>2, <2>1
<1>4. CASE s.state # "stopped"
  <2>1. PICK f \in [0 .. n -> Nat] : Sums(f, q) /\ Bytes(q) = f[n]
    BY <1>2, BytesAre
  <2>2. \A k \in 0 .. n : Bytes(SubSeq(q, 1, k)) = f[k]
    BY <1>2, <2>1, PrefixBytes
  <2>3. \A k \in 1 .. n : f[k - 1] \in Nat /\ f[k] \in Nat /\ f[k - 1] <= f[k]
    <3>1. ASSUME NEW k \in 1 .. n PROVE f[k - 1] \in Nat /\ f[k] \in Nat /\ f[k - 1] <= f[k]
      <4>1. f[k] = f[k - 1] + q[k].numBytes /\ q[k].numBytes \in Nat
        BY <1>2, <2>1, NodeBytes DEF Sums
      <4>2. k - 1 \in 0 .. n /\ k \in 0 .. n
        BY <1>2
      <4>3. f[k - 1] \in Nat /\ f[k] \in Nat
        BY <2>1, <4>2
      <4> QED
        BY <4>1, <4>3
    <3> QED
      BY <3>1
  \* c - 1 buffers are played.
  <2> DEFINE U == {k \in 1 .. n + 1 : k = n + 1 \/ f[k] > y}
  <2>4. PICK c \in U : \A k \in U : c <= k
    <3>1. U \in SUBSET Nat /\ n + 1 \in U
      BY <1>2
    <3> HIDE DEF U
    <3> QED
      BY <3>1, Least
  <2>5. c \in 1 .. n + 1 /\ (c = n + 1 \/ f[c] > y)
    BY <2>4
  <2>6. \A k \in 1 .. n : k < c => f[k] <= y
    <3> SUFFICES ASSUME NEW k \in 1 .. n, k < c PROVE f[k] <= y
      OBVIOUS
    <3>1. k \notin U
      BY <1>2, <2>4, <2>5
    <3> QED
      BY <1>1, <1>2, <2>3, <3>1
  <2> HIDE DEF U
  <2> DEFINE T == {k \in 0 .. n : k >= c => f[k] > y}
  <2>7. 0 .. n \subseteq T
    <3>1. 0 \in T
      BY <1>2, <2>5
    <3>2. ASSUME NEW k \in 0 .. n, k \in T, k < n PROVE k + 1 \in T
      <4>1. k + 1 \in 1 .. n /\ k + 1 \in 0 .. n /\ (k + 1) - 1 = k
        BY <1>2, <3>2
      <4>2. f[k] \in Nat /\ f[k + 1] \in Nat /\ f[k] <= f[k + 1]
        BY <2>3, <4>1
      <4>3. ASSUME k + 1 >= c PROVE f[k + 1] > y
        <5>1. CASE k >= c
          BY <1>1, <3>2, <4>2, <5>1
        <5>2. CASE ~(k >= c)
          <6>1. k + 1 = c /\ c # n + 1
            BY <1>2, <2>5, <3>2, <4>3, <5>2
          <6> QED
            BY <2>5, <6>1
        <5> QED
          BY <5>1, <5>2
      <4> QED
        BY <4>1, <4>3
    <3> HIDE DEF T
    <3> QED
      BY <1>2, <3>1, <3>2, BoundedInduction
  <2>8. {k \in 1 .. n : Bytes(SubSeq(q, 1, k)) <= y} = 1 .. (c - 1)
    <3>1. ASSUME NEW k \in 1 .. n PROVE Bytes(SubSeq(q, 1, k)) <= y <=> k < c
      <4>1. k \in 0 .. n /\ f[k] \in Nat
        BY <1>2, <2>3
      <4>2. k >= c => f[k] > y
        BY <2>7, <4>1
      <4> QED
        BY <1>1, <2>2, <2>5, <2>6, <4>1, <4>2
    <3>2. \A k \in 1 .. n : k \in 1 .. (c - 1) <=> k < c
      BY <1>2, <2>5
    <3>3. 1 .. (c - 1) \subseteq 1 .. n
      BY <1>2, <2>5
    <3> QED
      BY <3>1, <3>2, <3>3
  <2>9. PICK m \in 0 .. n : m = c - 1
    BY <1>2, <2>5
  <2>10. Cardinality(1 .. m) = m
    <3>1. m \in Int /\ 1 \in Int /\ m \in Nat
      BY <1>2
    <3>2. Cardinality(1 .. m) = IF 1 > m THEN 0 ELSE m - 1 + 1
      BY <3>1, FS_Interval
    <3> QED
      BY <3>1, <3>2
  <2>11. Done(s) = m
    BY <1>1, <1>2, <1>4, <2>8, <2>9, <2>10 DEF Done
  <2>12. m # 0 => f[m] <= y
    <3> SUFFICES ASSUME m # 0 PROVE f[m] <= y
      OBVIOUS
    <3>1. m \in 1 .. n /\ m < c
      BY <1>2, <2>5, <2>9
    <3> QED
      BY <2>6, <3>1
  <2> QED
    BY <1>1, <1>2, <2>2, <2>9, <2>11, <2>12
<1> QED
  BY <1>3, <1>4

\* What an account says of its nodes
LEMMA AccountedNodes ==
    ASSUME NEW l, NEW t, NEW q, NEW p, Accounted(l, t, q, p)
    PROVE  /\ q \in Seq(Ids) /\ p \in Seq(Ids) /\ Distinct(q) /\ Len(q) <= Len(Buffers)
           /\ NodesOf(l, q) \in Seq(QueueNode(Nat)) /\ Len(NodesOf(l, q)) = Len(q)
           /\ NodesOf(l, q) = <<>> <=> q = <<>>
           /\ \A i \in 1 .. Len(q) : /\ NodesOf(l, q)[i] = Node(l, q[i])
                                     /\ NodesOf(l, q)[i].nodeId = q[i]
                                     /\ NodesOf(l, q)[i].numBytes = l.numBytes[q[i]]
           /\ t \in Nat
<1>1. /\ q \in Seq(Ids) /\ p \in Seq(Ids) /\ Distinct(q) /\ Len(q) + Len(p) = Len(Buffers)
      /\ l \in Lists(Nat) /\ t = Bytes(NodesOf(l, q))
  BY DEF Accounted, Represents, Shared
<1>2. Len(q) <= Len(Buffers)
  <2>1. Len(q) \in Nat /\ Len(p) \in Nat
    BY <1>1
  <2> QED
    BY <1>1, <2>1
<1>3. /\ NodesOf(l, q) \in Seq(QueueNode(Nat)) /\ Len(NodesOf(l, q)) = Len(q)
      /\ NodesOf(l, q) = <<>> <=> q = <<>>
      /\ \A i \in 1 .. Len(q) : /\ NodesOf(l, q)[i] = Node(l, q[i])
                                /\ NodesOf(l, q)[i].nodeId = q[i]
                                /\ NodesOf(l, q)[i].numBytes = l.numBytes[q[i]]
  BY <1>1, NodesType
<1>4. t \in Nat
  <2>1. PICK f \in [0 .. Len(NodesOf(l, q)) -> Nat] : Bytes(NodesOf(l, q)) = f[Len(NodesOf(l, q))]
    BY <1>3, BytesAre
  <2>2. Len(NodesOf(l, q)) \in 0 .. Len(NodesOf(l, q))
    BY <1>3
  <2> QED
    BY <1>1, <2>1, <2>2
<1> QED
  BY <1>1, <1>2, <1>3, <1>4

LEMMA AccountCreated == Accounted(Created, 0, <<>>, Backward(Buffers)) /\ NodesOf(Created, <<>>) = <<>>
<1>1. Created \in Lists({0}) /\ Represents(Created, <<>>, Backward(Buffers))
  BY CreatedRepresents
<1>2. Created \in Lists(Nat)
  BY <1>1 DEF Lists
<1>3. NodesOf(Created, <<>>) = <<>>
  BY <1>1, NodesType, EmptySeq
<1>4. Len(<<>>) = 0
  BY EmptySeq
<1> QED
  BY <1>1, <1>2, <1>3, <1>4, BytesNone DEF Accounted

\* _playq_removeNode() of the first buffer or of the last
LEMMA AccountRemoved ==
    ASSUME NEW l, NEW t, NEW q, NEW p, Accounted(l, t, q, p), NEW k \in 1 .. Len(q), k = 1 \/ k = Len(q)
    PROVE  /\ Accounted(Removed(l, q[k]), t - l.numBytes[q[k]], Without(q, k), Pushed(p, q[k]))
           /\ NodesOf(Removed(l, q[k]), Without(q, k)) = Without(NodesOf(l, q), k)
<1>1. l \in Lists(Nat) /\ Represents(l, q, p) /\ t = Bytes(NodesOf(l, q))
      /\ \A i \in 1 .. Len(q) : l.numBytes[q[i]] > 0
  BY DEF Accounted
<1>2. /\ q \in Seq(Ids) /\ Distinct(q)
      /\ NodesOf(l, q) \in Seq(QueueNode(Nat)) /\ Len(NodesOf(l, q)) = Len(q)
      /\ NodesOf(l, q)[k].numBytes = l.numBytes[q[k]]
  BY AccountedNodes
<1>3. PICK l1, q1, p1 : l1 \in Lists(Nat) /\ l1 = Removed(l, q[k]) /\ q1 = Without(q, k) /\ p1 = Pushed(p, q[k])
  BY <1>1, RemovedRepresents
<1>4. Represents(l1, q1, p1) /\ l1.numBytes = [l.numBytes EXCEPT ![q[k]] = 0]
  BY <1>1, <1>3, RemovedRepresents
<1>5. NodesOf(l1, q1) = Without(NodesOf(l, q), k)
  <2>1. InPlayNodes(l1) = NodesOf(l1, q1)
    BY <1>4, InPlayNodesAre
  <2>2. InPlayNodes(l1) = Without(NodesOf(l, q), k)
    BY <1>1, <1>3, RemovedNodes
  <2> QED
    BY <2>1, <2>2
<1>6. Bytes(NodesOf(l1, q1)) = t - l.numBytes[q[k]]
  <2>1. PICK s \in Seq(QueueNode(Nat)) : s = NodesOf(l, q) /\ Len(s) = Len(q) /\ s # <<>>
    <3>1. Len(q) # 0
      BY <1>2
    <3> QED
      BY <1>2, <3>1, EmptySeq
  <2>2. Bytes(s) = s[k].numBytes + Bytes(Without(s, k)) /\ s[k].numBytes \in Nat /\ Bytes(Without(s, k)) \in Nat
    <3>1. CASE k = 1
      BY <2>1, <3>1, BytesFirst
    <3>2. CASE k = Len(q)
      BY <2>1, <3>2, BytesLast
    <3> QED
      BY <3>1, <3>2
  <2> QED
    BY <1>1, <1>2, <1>5, <2>1, <2>2
<1>7. ASSUME NEW i \in 1 .. Len(q1) PROVE l1.numBytes[q1[i]] > 0
  <2>1. PICK n \in Nat : n = Len(q)
    BY <1>2
  <2>2. Len(q1) = n - 1 /\ q1[i] = IF i < k THEN q[i] ELSE q[i + 1]
    BY <1>2, <1>3, <1>7, <2>1, WithoutType
  <2>3. PICK j \in 1 .. n : q1[i] = q[j] /\ j # k
    <3>1. i \in 1 .. n /\ i + 1 \in 1 .. n /\ (i < k => i # k) /\ (~(i < k) => i + 1 # k)
      BY <1>7, <2>1, <2>2
    <3> QED
      BY <2>2, <3>1
  <2>4. q[j] # q[k] /\ q[j] \in Ids
    BY <1>2, <2>1, <2>3 DEF Distinct
  <2>5. l1.numBytes[q[j]] = l.numBytes[q[j]]
    BY <1>1, <1>4, <2>4 DEF Lists
  <2> QED
    BY <1>1, <2>1, <2>3, <2>5
<1> QED
  BY <1>3, <1>4, <1>5, <1>6, <1>7 DEF Accounted

\* playq_enqueue() of some bytes
LEMMA AccountEnqueued ==
    ASSUME NEW l, NEW t, NEW q, NEW p, Accounted(l, t, q, p), NEW x \in Nat \ {0}, CanEnqueue(l)
    PROVE  /\ Accounted(Enqueued(l, x), t + x, Append(q, l.avail), Without(p, 1))
           /\ l.avail \in Ids /\ Append(q, l.avail) # <<>> /\ Len(Append(q, l.avail)) = Len(q) + 1
           /\ Append(q, l.avail)[Len(q) + 1] = l.avail /\ Enqueued(l, x).numBytes[l.avail] = x
           /\ Without(NodesOf(Enqueued(l, x), Append(q, l.avail)), Len(q) + 1) = NodesOf(l, q)
<1>1. l \in Lists(Nat) /\ Represents(l, q, p) /\ t = Bytes(NodesOf(l, q))
      /\ \A i \in 1 .. Len(q) : l.numBytes[q[i]] > 0
  BY DEF Accounted
<1>2. PICK s \in Seq(QueueNode(Nat)) : s = NodesOf(l, q) /\ Len(s) = Len(q) /\ q \in Seq(Ids)
  BY AccountedNodes
<1>3. /\ p # <<>> /\ l.avail = p[1] /\ l.avail \in Ids
      /\ Enqueued(l, x) \in Lists(Nat)
      /\ Represents(Enqueued(l, x), Append(q, l.avail), Without(p, 1))
      /\ Enqueued(l, x).numBytes = [l.numBytes EXCEPT ![l.avail] = x]
  BY <1>1, EnqueuedRepresents
<1>4. PICK l1, b, q1, p1 :
          l1 \in Lists(Nat) /\ b \in Ids /\ l1 = Enqueued(l, x) /\ b = l.avail /\ q1 = Append(q, b)
          /\ p1 = Without(p, 1)
  BY <1>3
<1>5. PICK n \in Nat : n = Len(q)
  BY <1>2
<1>6. q1 \in Seq(Ids) /\ Len(q1) = n + 1 /\ q1[n + 1] = b /\ (\A i \in 1 .. n : q1[i] = q[i]) /\ q1 # <<>>
  <2>1. q1 \in Seq(Ids) /\ Len(q1) = n + 1 /\ q1[n + 1] = b /\ \A i \in 1 .. n : q1[i] = q[i]
    BY <1>2, <1>4, <1>5, AppendProperties
  <2> QED
    BY <1>5, <2>1, EmptySeq
<1>7. PICK node \in QueueNode(Nat) : node = [nodeId |-> b, numBytes |-> x]
  BY <1>4 DEF QueueNode
<1>8. NodesOf(l1, q1) = Append(s, node)
  <2>1. InPlayNodes(l1) = NodesOf(l1, q1)
    BY <1>3, <1>4, InPlayNodesAre
  <2>2. InPlayNodes(l1) = Append(s, node)
    BY <1>1, <1>2, <1>4, <1>7, EnqueuedNodes
  <2> QED
    BY <2>1, <2>2
<1>9. Bytes(NodesOf(l1, q1)) = t + x
  <2>1. Bytes(Append(s, node)) = Bytes(s) + node.numBytes
    BY BytesAppend
  <2> QED
    BY <1>1, <1>2, <1>7, <1>8, <2>1
<1>10. l1.numBytes[b] = x /\ \A c \in Ids : c # b => l1.numBytes[c] = l.numBytes[c]
  BY <1>1, <1>3, <1>4 DEF Lists
<1>11. ASSUME NEW i \in 1 .. Len(q1) PROVE l1.numBytes[q1[i]] > 0
  <2>1. CASE q1[i] = b
    BY <1>10, <2>1
  <2>2. CASE q1[i] # b
    <3>1. i \in 1 .. n
      BY <1>5, <1>6, <1>11, <2>2
    <3>2. q1[i] = q[i] /\ q[i] \in Ids
      BY <1>2, <1>5, <1>6, <3>1
    <3> QED
      BY <1>1, <1>5, <1>10, <2>2, <3>1, <3>2
  <2> QED
    BY <2>1, <2>2
<1>12. Without(Append(s, node), n + 1) = s
  <2>1. PICK s1 \in Seq(QueueNode(Nat)) : s1 = Append(s, node) /\ Len(s1) = n + 1 /\ \A i \in 1 .. n : s1[i] = s[i]
    <3>1. /\ Append(s, node) \in Seq(QueueNode(Nat)) /\ Len(Append(s, node)) = Len(s) + 1
          /\ \A i \in 1 .. Len(s) : Append(s, node)[i] = s[i]
      BY AppendProperties
    <3> QED
      BY <1>2, <1>5, <3>1
  <2>2. n + 1 \in 1 .. Len(s1)
    BY <1>5, <2>1
  <2>3. /\ Without(s1, n + 1) \in Seq(QueueNode(Nat)) /\ Len(Without(s1, n + 1)) = Len(s1) - 1
        /\ \A i \in 1 .. Len(s1) - 1 : Without(s1, n + 1)[i] = IF i < n + 1 THEN s1[i] ELSE s1[i + 1]
    BY <2>2, WithoutType
  <2>4. Len(Without(s1, n + 1)) = Len(s) /\ \A i \in 1 .. Len(s) : Without(s1, n + 1)[i] = s[i]
    BY <1>2, <1>5, <2>1, <2>3
  <2> QED
    BY <2>1, <2>3, <2>4, SeqEqual
<1>13. Accounted(l1, t + x, q1, p1)
  BY <1>3, <1>4, <1>9, <1>11 DEF Accounted
<1> QED
  BY <1>2, <1>4, <1>5, <1>6, <1>8, <1>10, <1>12, <1>13

\* The buffer is taken back when the library does not take its data.
LEMMA AccountTakenBack ==
    ASSUME NEW l, NEW t, NEW q, NEW p, Accounted(l, t, q, p), NEW x \in Nat \ {0}, CanEnqueue(l)
    PROVE  \E p1 : /\ Accounted(Removed(Enqueued(l, x), l.avail), t, q, p1)
                   /\ NodesOf(Removed(Enqueued(l, x), l.avail), q) = NodesOf(l, q)
<1>1. PICK n \in Nat : n = Len(q) /\ q \in Seq(Ids) /\ t \in Nat
  <2>1. q \in Seq(Ids) /\ Len(q) \in Nat /\ t \in Nat
    BY AccountedNodes
  <2> QED
    BY <2>1
<1>2. PICK b, l1, q1 : b = l.avail /\ l1 = Enqueued(l, x) /\ q1 = Append(q, b)
  OBVIOUS
<1>3. /\ Accounted(l1, t + x, q1, Without(p, 1)) /\ b \in Ids
      /\ Len(q1) = n + 1 /\ q1[n + 1] = b /\ l1.numBytes[b] = x
      /\ Without(NodesOf(l1, q1), n + 1) = NodesOf(l, q)
  BY <1>1, <1>2, AccountEnqueued
<1>4. n + 1 \in 1 .. Len(q1)
  BY <1>1, <1>3
<1>5. /\ Accounted(Removed(l1, b), (t + x) - x, Without(q1, n + 1), Pushed(Without(p, 1), b))
      /\ NodesOf(Removed(l1, b), Without(q1, n + 1)) = NodesOf(l, q)
  <2>1. /\ Accounted(Removed(l1, q1[n + 1]), (t + x) - l1.numBytes[q1[n + 1]], Without(q1, n + 1),
                     Pushed(Without(p, 1), q1[n + 1]))
        /\ NodesOf(Removed(l1, q1[n + 1]), Without(q1, n + 1)) = Without(NodesOf(l1, q1), n + 1)
    BY <1>3, <1>4, AccountRemoved
  <2> QED
    BY <1>3, <2>1
<1>6. (t + x) - x = t
  BY <1>1
<1>7. Without(q1, n + 1) = q
  <2>1. q1 \in Seq(Ids) /\ \A i \in 1 .. n : q1[i] = q[i]
    BY <1>1, <1>2, <1>3, AppendProperties
  <2>2. /\ Without(q1, n + 1) \in Seq(Ids) /\ Len(Without(q1, n + 1)) = Len(q1) - 1
        /\ \A i \in 1 .. Len(q1) - 1 : Without(q1, n + 1)[i] = IF i < n + 1 THEN q1[i] ELSE q1[i + 1]
    BY <1>4, <2>1, WithoutType
  <2>3. Len(Without(q1, n + 1)) = Len(q) /\ \A i \in 1 .. Len(q) : Without(q1, n + 1)[i] = q[i]
    BY <1>1, <1>3, <2>1, <2>2
  <2> QED
    BY <1>1, <2>2, <2>3, SeqEqual
<1> QED
  BY <1>2, <1>5, <1>6, <1>7

-----------------------------------------------------------------------------
(* Steps of the voice: the account                                          *)

LEMMA AccountKept ==
    /\ AccountOK /\ UNCHANGED <<playq, _queued_total_bytes>> /\ source'.queue = source.queue
    /\ pc' = pc \/ (pc # "queue" /\ pc' # "queue")
    => AccountOK'
<1> SUFFICES ASSUME AccountOK, UNCHANGED <<playq, _queued_total_bytes>>, source'.queue = source.queue,
                    pc' = pc \/ (pc # "queue" /\ pc' # "queue")
             PROVE  AccountOK'
  OBVIOUS
<1>1. PICK q, p : /\ Accounted(playq, _queued_total_bytes, q, p)
                  /\ \/ pc # "queue" /\ source.queue = NodesOf(playq, q)
                     \/ pc = "queue" /\ q # <<>> /\ source.queue = Without(NodesOf(playq, q), Len(q))
  BY DEF AccountOK
<1>2. playq' = playq /\ _queued_total_bytes' = _queued_total_bytes
  OBVIOUS
<1>3. Accounted(playq', _queued_total_bytes', q, p)
  BY <1>1, <1>2
<1>4. \/ pc' # "queue" /\ source'.queue = NodesOf(playq', q)
      \/ pc' = "queue" /\ q # <<>> /\ source'.queue = Without(NodesOf(playq', q), Len(q))
  BY <1>1, <1>2
<1> QED
  BY <1>3, <1>4 DEF AccountOK

\* A buffer leaves the source, and the account.
LEMMA UnqueueAccount == AccountOK /\ SourceOK /\ Unqueue => AccountOK'
<1> SUFFICES ASSUME AccountOK, SourceOK, Unqueue PROVE AccountOK'
  OBVIOUS
<1>1. PICK q, p : Accounted(playq, _queued_total_bytes, q, p) /\ source.queue = NodesOf(playq, q)
  BY DEF AccountOK, Unqueue
<1>2. /\ q \in Seq(Ids) /\ NodesOf(playq, q) \in Seq(QueueNode(Nat)) /\ Len(NodesOf(playq, q)) = Len(q)
      /\ NodesOf(playq, q) = <<>> <=> q = <<>>
      /\ \A i \in 1 .. Len(q) : NodesOf(playq, q)[i].nodeId = q[i]
  BY <1>1, AccountedNodes
<1>3. source.queue # <<>>
  <2>1. processed \in 1 .. Len(source.queue)
    BY DEF SourceOK, Unqueue
  <2>2. Len(source.queue) # 0
    BY <1>1, <1>2, <2>1
  <2> QED
    BY <2>2, EmptySeq
<1>4. /\ Tail(source.queue) = Without(source.queue, 1) /\ Head(source.queue) = source.queue[1]
      /\ 1 \in 1 .. Len(q)
  BY <1>1, <1>2, <1>3, TailIsWithout
<1>5. Head(source.queue).nodeId = q[1] /\ q[1] \in Ids
  BY <1>1, <1>2, <1>4
<1>6. CASE /\ source' = Unqueued(source)
           /\ IF IsQueued(playq, q[1]) THEN Forgotten(q[1]) ELSE UNCHANGED <<playq, _queued_total_bytes>>
           /\ pc' = IF processed = 1 THEN "offset" ELSE "unqueue"
  <2>1. IsQueued(playq, q[1])
    BY <1>1, <1>4, <1>5, ListsMeet DEF Accounted
  <2>2. playq' = Removed(playq, q[1]) /\ _queued_total_bytes' = _queued_total_bytes - playq.numBytes[q[1]]
    BY <1>6, <2>1 DEF Forgotten
  <2>3. /\ Accounted(Removed(playq, q[1]), _queued_total_bytes - playq.numBytes[q[1]], Without(q, 1), Pushed(p, q[1]))
        /\ NodesOf(Removed(playq, q[1]), Without(q, 1)) = Without(NodesOf(playq, q), 1)
    BY <1>1, <1>4, AccountRemoved
  <2>4. source'.queue = Tail(source.queue)
    BY <1>6 DEF Unqueued, SourceOK
  <2>5. source'.queue = NodesOf(playq', Without(q, 1)) /\ pc' # "queue"
    BY <1>1, <1>4, <1>6, <2>2, <2>3, <2>4
  <2> QED
    BY <2>2, <2>3, <2>5 DEF AccountOK
<1>7. CASE pc' = "offset" /\ UNCHANGED <<source, playq, _queued_total_bytes>>
  <2>1. pc # "queue" /\ pc' # "queue" /\ source'.queue = source.queue
    BY <1>7 DEF Unqueue
  <2> QED
    BY <1>7, <2>1, AccountKept
<1> QED
  BY <1>5, <1>6, <1>7 DEF Unqueue

\* A buffer is entered, and taken back when the library does not take its data.
LEMMA UnlockAccount ==
    ASSUME NEW queued
    PROVE  AccountOK /\ RoomOK /\ pc = "offset" /\ call = "unlock" /\ ALUnlockBuffer(queued) /\ UNCHANGED source
           => AccountOK'
<1> SUFFICES ASSUME AccountOK, RoomOK, pc = "offset", call = "unlock", ALUnlockBuffer(queued), UNCHANGED source
             PROVE  AccountOK'
  OBVIOUS
<1>1. PICK q, p : Accounted(playq, _queued_total_bytes, q, p) /\ source.queue = NodesOf(playq, q)
  BY DEF AccountOK
<1>2. PICK x \in Nat \ {0} : x = index + size
  <2>1. index + size \in 1 .. buffersize
    BY DEF RoomOK
  <2> QED
    BY <2>1, VoiceAssumption
<1>3. CASE pc' = "return" /\ UNCHANGED <<playq, _queued_total_bytes>>
  BY <1>3, AccountKept
<1>4. ASSUME CanEnqueue(playq), pc' = "queue", playq' = Enqueued(playq, x),
             _queued_total_bytes' = _queued_total_bytes + x
      PROVE  AccountOK'
  <2>1. /\ Accounted(playq', _queued_total_bytes', Append(q, playq.avail), Without(p, 1))
        /\ Append(q, playq.avail) # <<>> /\ Len(Append(q, playq.avail)) = Len(q) + 1
        /\ Without(NodesOf(playq', Append(q, playq.avail)), Len(q) + 1) = NodesOf(playq, q)
    BY <1>1, <1>4, AccountEnqueued
  <2>2. source'.queue = Without(NodesOf(playq', Append(q, playq.avail)), Len(Append(q, playq.avail)))
    BY <1>1, <2>1
  <2>3. PICK q1, p1 : Accounted(playq', _queued_total_bytes', q1, p1) /\ q1 # <<>>
                      /\ source'.queue = Without(NodesOf(playq', q1), Len(q1))
    BY <2>1, <2>2
  <2> QED
    BY <1>4, <2>3 DEF AccountOK
<1>5. ASSUME CanEnqueue(playq), pc' = "return", playq' = Removed(Enqueued(playq, x), playq.avail),
             UNCHANGED _queued_total_bytes
      PROVE  AccountOK'
  <2>1. PICK p1 : Accounted(playq', _queued_total_bytes, q, p1) /\ NodesOf(playq', q) = NodesOf(playq, q)
    BY <1>1, <1>5, AccountTakenBack
  <2>2. Accounted(playq', _queued_total_bytes', q, p1) /\ source'.queue = NodesOf(playq', q) /\ pc' # "queue"
    BY <1>1, <1>5, <2>1
  <2> QED
    BY <2>2 DEF AccountOK
<1> QED
  BY <1>2, <1>3, <1>4, <1>5 DEF ALUnlockBuffer, Return, Accumulates

LEMMA OffsetAccount == AccountOK /\ RoomOK /\ GetOffset => AccountOK'
<1> SUFFICES ASSUME AccountOK, RoomOK, GetOffset PROVE AccountOK'
  OBVIOUS
<1>1. pc = "offset" /\ UNCHANGED source
  BY DEF GetOffset
<1>2. ASSUME NEW queued, ALGetPosition(queued) PROVE AccountOK'
  BY <1>1, <1>2, AccountKept DEF ALGetPosition, Return, voice
<1>3. ASSUME NEW queued, ALLockBuffer(queued) PROVE AccountOK'
  BY <1>1, <1>3, AccountKept DEF ALLockBuffer, Return
<1>4. ASSUME NEW queued, call = "unlock", ALUnlockBuffer(queued) PROVE AccountOK'
  BY <1>1, <1>4, UnlockAccount
<1>5. CASE Unprocessed /\ UNCHANGED voice
  BY <1>1, <1>5, AccountKept DEF Unprocessed, Return, voice
<1> QED
  BY <1>2, <1>3, <1>4, <1>5 DEF GetOffset

\* The buffer is handed over, or struck out.
LEMMA QueueBufferAccount == AccountOK /\ SourceOK /\ QueueBuffer => AccountOK'
/\ source'.queue \in Seq(QueueNode(Nat))
<1> SUFFICES ASSUME AccountOK, SourceOK, QueueBuffer PROVE AccountOK' /\ source'.queue \in Seq(QueueNode(Nat))
  OBVIOUS
<1>1. PICK q, p : /\ Accounted(playq, _queued_total_bytes, q, p) /\ q # <<>>
                  /\ source.queue = Without(NodesOf(playq, q), Len(q))
  BY DEF AccountOK, QueueBuffer
<1>2. PICK s \in Seq(QueueNode(Nat)) : s = NodesOf(playq, q)
  BY <1>1, AccountedNodes
<1>3. /\ q \in Seq(Ids) /\ Len(s) = Len(q)
      /\ \A i \in 1 .. Len(q) : s[i] = Node(playq, q[i])
  BY <1>1, <1>2, AccountedNodes
<1>4. PICK n \in Nat : n = Len(q) /\ n \in 1 .. n
  <2>1. Len(q) \in Nat /\ Len(q) # 0
    BY <1>1, <1>3, EmptySeq
  <2> QED
    BY <2>1
<1>5. playq.queued = q[n] /\ q[n] \in Ids
  BY <1>1, <1>3, <1>4 DEF Accounted, Represents, Threads, Final
<1>6. CASE pc' = "state" /\ source' = [source EXCEPT !.queue = Append(@, Node(playq, q[n]))]
           /\ UNCHANGED <<playq, _queued_total_bytes>>
  <2>1. source'.queue = Append(Without(s, n), s[n])
    BY <1>1, <1>2, <1>3, <1>4, <1>6 DEF SourceOK
  <2>2. Append(Without(s, n), s[n]) = s
    <3>1. PICK t \in Seq(QueueNode(Nat)) : t = Without(s, n) /\ Len(t) = n - 1 /\ \A i \in 1 .. n - 1 : t[i] = s[i]
      <4>1. n \in 1 .. Len(s)
        BY <1>3, <1>4
      <4>2. /\ Without(s, n) \in Seq(QueueNode(Nat)) /\ Len(Without(s, n)) = Len(s) - 1
            /\ \A i \in 1 .. Len(s) - 1 : Without(s, n)[i] = IF i < n THEN s[i] ELSE s[i + 1]
        BY <4>1, WithoutType
      <4> QED
        BY <1>3, <1>4, <4>2
    <3>2. s[n] \in QueueNode(Nat)
      BY <1>3, <1>4
    <3>3. /\ Append(t, s[n]) \in Seq(QueueNode(Nat)) /\ Len(Append(t, s[n])) = Len(t) + 1
          /\ (\A i \in 1 .. Len(t) : Append(t, s[n])[i] = t[i]) /\ Append(t, s[n])[Len(t) + 1] = s[n]
      BY <3>2, AppendProperties
    <3>4. Len(Append(t, s[n])) = Len(s) /\ \A i \in 1 .. Len(s) : Append(t, s[n])[i] = s[i]
      <4>1. ASSUME NEW i \in 1 .. n PROVE Append(t, s[n])[i] = s[i]
        <5>1. CASE i = n
          BY <1>4, <3>1, <3>3, <5>1
        <5>2. CASE i # n
          <6>1. i \in 1 .. n - 1
            BY <1>4, <5>2
          <6> QED
            BY <3>1, <3>3, <6>1
        <5> QED
          BY <5>1, <5>2
      <4> QED
        BY <1>3, <1>4, <3>1, <3>3, <4>1
    <3> QED
      BY <3>1, <3>3, <3>4, SeqEqual
  <2>3. /\ Accounted(playq', _queued_total_bytes', q, p) /\ source'.queue = NodesOf(playq', q)
        /\ pc' # "queue"
    BY <1>1, <1>2, <1>6, <2>1, <2>2
  <2> QED
    BY <1>2, <2>1, <2>2, <2>3 DEF AccountOK
<1>7. CASE pc' = "return" /\ Forgotten(q[n]) /\ UNCHANGED source
  <2>1. /\ Accounted(Removed(playq, q[n]), _queued_total_bytes - playq.numBytes[q[n]], Without(q, n), Pushed(p, q[n]))
        /\ NodesOf(Removed(playq, q[n]), Without(q, n)) = Without(NodesOf(playq, q), n)
    <3>1. n \in 1 .. Len(q) /\ n = Len(q)
      BY <1>4
    <3> QED
      BY <1>1, <3>1, AccountRemoved
  <2>2. playq' = Removed(playq, q[n]) /\ _queued_total_bytes' = _queued_total_bytes - playq.numBytes[q[n]]
    BY <1>7 DEF Forgotten
  <2>3. source'.queue = NodesOf(playq', Without(q, n)) /\ pc' # "queue"
    BY <1>1, <1>4, <1>7, <2>1, <2>2
  <2> QED
    BY <1>7, <2>1, <2>2, <2>3 DEF AccountOK, SourceOK
<1> QED
  BY <1>5, <1>6, <1>7 DEF QueueBuffer, Return

LEMMA PlayedKeeps == SourceOK => /\ Played(source).queue = source.queue
                                 /\ Played(source) \in [queue : Seq(QueueNode(Nat)), played : Nat, state : States]
                                 /\ Played(source).state # "initial"
<1> SUFFICES ASSUME SourceOK
             PROVE  /\ Played(source).queue = source.queue
                    /\ Played(source) \in [queue : Seq(QueueNode(Nat)), played : Nat, state : States]
                    /\ Played(source).state # "initial"
  OBVIOUS
<1>1. PICK s \in Seq(QueueNode(Nat)), y \in Nat, z \in States : source = [queue |-> s, played |-> y, state |-> z]
  BY DEF SourceOK
<1>2. Played(source) = [queue |-> s, played |-> IF z = "paused" THEN y ELSE 0,
                        state |-> IF s = <<>> THEN "stopped" ELSE "playing"]
  <2>1. source.state = z /\ source.queue = s
    BY <1>1
  <2>2. Played(source) = [source EXCEPT !.state = IF s = <<>> THEN "stopped" ELSE "playing",
                                        !.played = IF z = "paused" THEN @ ELSE 0]
    BY <2>1 DEF Played
  <2> QED
    BY <1>1, <2>2
<1> QED
  BY <1>1, <1>2 DEF States

\* The device plays on, or stops at the end.
LEMMA DeviceDoes ==
    SourceOK /\ Device =>
        /\ source'.queue = source.queue /\ source' \in [queue : Seq(QueueNode(Nat)), played : Nat, state : States]
        /\ source'.state # "initial"
        /\ \/ source.state = "playing" /\ source'.state = "playing" /\ source.played <= source'.played
           \/ source'.state = "stopped"
<1> SUFFICES ASSUME SourceOK, Device
             PROVE  /\ source'.queue = source.queue
                    /\ source' \in [queue : Seq(QueueNode(Nat)), played : Nat, state : States]
                    /\ source'.state # "initial"
                    /\ \/ source.state = "playing" /\ source'.state = "playing" /\ source.played <= source'.played
                       \/ source'.state = "stopped"
  OBVIOUS
<1>1. PICK s \in Seq(QueueNode(Nat)), y \in Nat : source = [queue |-> s, played |-> y, state |-> "playing"]
  BY DEF SourceOK, Device
<1>2. PICK d \in Nat : d = Period
  BY VoiceAssumption
<1>3. \/ source' = [queue |-> s, played |-> y + d, state |-> "playing"]
      \/ source' = [queue |-> s, played |-> 0, state |-> "stopped"]
  BY <1>1, <1>2 DEF Device
<1>4. y + d \in Nat /\ y <= y + d
  OBVIOUS
<1> QED
  BY <1>1, <1>3, <1>4 DEF States

LEMMA AccountStep == AccountOK /\ SourceOK /\ RoomOK /\ [Next]_vars => AccountOK'
<1> SUFFICES ASSUME AccountOK, SourceOK, RoomOK, [Next]_vars PROVE AccountOK'
  OBVIOUS
<1>1. CASE GetProcessed
  <2>1. pc' # "queue" /\ pc # "queue" /\ UNCHANGED voice /\ UNCHANGED source
    BY <1>1 DEF GetProcessed, Unprocessed, Return
  <2> QED
    BY <2>1, AccountKept DEF voice
<1>2. CASE Unqueue
  BY <1>2, UnqueueAccount
<1>3. CASE GetOffset
  BY <1>3, OffsetAccount
<1>4. CASE QueueBuffer
  BY <1>4, QueueBufferAccount
<1>5. CASE GetState
  <2>1. pc' # "queue" /\ pc # "queue" /\ UNCHANGED voice /\ UNCHANGED source
    BY <1>5 DEF GetState, Return
  <2> QED
    BY <2>1, AccountKept DEF voice
<1>6. CASE Play
  <2>1. pc' # "queue" /\ pc # "queue" /\ UNCHANGED voice /\ (source' = Played(source) \/ UNCHANGED source)
    BY <1>6 DEF Play, Return
  <2> QED
    BY <2>1, PlayedKeeps, AccountKept DEF voice
<1>7. CASE Device /\ UNCHANGED <<control, speaker>>
  <2>1. UNCHANGED <<voice, pc>>
    BY <1>7 DEF Device
  <2> QED
    BY <1>7, <2>1, DeviceDoes, AccountKept DEF voice
<1>8. CASE Slice
  <2>1. pc' # "queue" /\ pc # "queue" /\ UNCHANGED <<voice, source>>
    BY <1>8 DEF Slice, Call, Flushed
  <2> QED
    BY <2>1, AccountKept DEF voice
<1>9. CASE Submit
  <2>1. pc' # "queue" /\ pc # "queue" /\ UNCHANGED <<voice, source>>
    BY <1>9 DEF Submit, PadPosition, PadLocked, PadUnlocked, SubmitPosition, SubmitLocked, SubmitUnlocked,
                Wrote, Call, Finish, Flushed
  <2> QED
    BY <2>1, AccountKept DEF voice
<1>10. CASE Reinitialize
  <2>1. CreateVoice /\ pc' # "queue"
    BY <1>10 DEF Reinitialize, Available
  <2>2. playq' = Created /\ _queued_total_bytes' = 0 /\ source'.queue = <<>>
    BY <2>1 DEF CreateVoice, NewSource
  <2> QED
    BY <2>1, <2>2, AccountCreated DEF AccountOK
<1>11. CASE ChangeAudio \/ ChangeSpeed
  <2>1. pc' = pc /\ UNCHANGED <<voice, source>>
    BY <1>11 DEF ChangeAudio, ChangeSpeed, Idle
  <2> QED
    BY <2>1, AccountKept DEF voice
<1>12. CASE PauseAudio
  <2>1. pc' = pc /\ UNCHANGED voice
    BY <1>12 DEF PauseAudio, Idle
  <2>2. source'.queue = source.queue
    <3>1. CASE openal_systemPause
      BY <3>1 DEF openal_systemPause, SourceOK
    <3>2. CASE openal_systemResume
      BY <3>2, PlayedKeeps DEF openal_systemResume
    <3> QED
      BY <1>12, <3>1, <3>2 DEF PauseAudio
  <2> QED
    BY <2>1, <2>2, AccountKept DEF voice
<1>13. CASE UNCHANGED vars
  BY <1>13, AccountKept DEF vars, voicevars, voice
<1> QED
  BY <1>1, <1>2, <1>3, <1>4, <1>5, <1>6, <1>7, <1>8, <1>9, <1>10, <1>11, <1>12, <1>13
  DEF Next, CpuStep, Library, Operate

-----------------------------------------------------------------------------
(* Steps of the voice: the source                                           *)

\* A step that leaves the source alone, outside the two places where more is known of it
LEMMA SourceKept ==
    SourceOK /\ UNCHANGED <<source, processed>> /\ pc' \notin {"unqueue", "queue"} => SourceOK'
<1> SUFFICES ASSUME SourceOK, UNCHANGED <<source, processed>>, pc' \notin {"unqueue", "queue"} PROVE SourceOK'
  OBVIOUS
<1> QED
  BY DEF SourceOK

LEMMA GetProcessedSource == AccountOK /\ SourceOK /\ GetProcessed => SourceOK'
<1> SUFFICES ASSUME AccountOK, SourceOK, GetProcessed PROVE SourceOK'
  OBVIOUS
<1>1. CASE Unprocessed /\ UNCHANGED processed
  BY <1>1, SourceKept DEF GetProcessed, Unprocessed, Return
<1>2. CASE processed' = Done(source) /\ pc' = IF Done(source) > 0 THEN "unqueue" ELSE "offset"
  <2>1. source \in [queue : Seq(QueueNode(Nat)), played : Nat, state : States]
    BY DEF SourceOK
  <2>2. /\ Done(source) \in 0 .. Len(source.queue)
        /\ Done(source) # 0 /\ Sounding(source) => Bytes(SubSeq(source.queue, 1, Done(source))) <= source.played
    BY <2>1, DoneFits
  <2>3. Len(source.queue) <= Len(Buffers)
    <3>1. PICK q, p : Accounted(playq, _queued_total_bytes, q, p) /\ source.queue = NodesOf(playq, q)
      BY DEF AccountOK, GetProcessed
    <3> QED
      BY <3>1, AccountedNodes
  <2>4. PICK n \in Nat, m \in Nat, d \in Nat : n = Len(source.queue) /\ m = Len(Buffers) /\ d = Done(source)
    <3>1. Len(source.queue) \in Nat /\ Len(Buffers) \in Nat
      BY <2>1, PQListAssumption
    <3> QED
      BY <2>2, <3>1
  <2>5. d <= n /\ n <= m /\ processed' = d /\ source' = source
    BY <1>2, <2>2, <2>3, <2>4 DEF GetProcessed
  <2>6. processed' \in 0 .. Len(Buffers)
    BY <2>4, <2>5
  <2>7. pc' = "unqueue" => processed' \in 1 .. Len(source'.queue)
    BY <1>2, <2>4, <2>5
  <2>8. pc' = "unqueue" /\ Sounding(source') => Bytes(SubSeq(source'.queue, 1, processed')) <= source'.played
    BY <1>2, <2>2, <2>4, <2>5
  <2>9. pc' # "queue"
    BY <1>2
  <2>10. source' \in [queue : Seq(QueueNode(Nat)), played : Nat, state : States]
         /\ (source'.state = "initial" => source'.played = 0)
    BY <2>5 DEF SourceOK
  <2> QED
    BY <2>6, <2>7, <2>8, <2>9, <2>10 DEF SourceOK
<1> QED
  BY <1>1, <1>2 DEF GetProcessed

LEMMA UnqueueSource == SourceOK /\ Unqueue => SourceOK'
<1> SUFFICES ASSUME SourceOK, Unqueue PROVE SourceOK'
  OBVIOUS
<1>1. PICK s \in Seq(QueueNode(Nat)), y \in Nat, z \in States : source = [queue |-> s, played |-> y, state |-> z]
  BY DEF SourceOK
<1>2. PICK n \in Nat, k \in Nat : n = Len(s) /\ k = processed /\ k \in 1 .. n
  <2>1. processed \in 1 .. Len(s)
    BY <1>1 DEF SourceOK, Unqueue
  <2> QED
    BY <2>1
<1>3. CASE /\ source' = Unqueued(source) /\ processed' = processed - 1
           /\ pc' = IF processed = 1 THEN "offset" ELSE "unqueue"
  <2>1. s # <<>>
    BY <1>2, EmptySeq
  <2>2. PICK r \in Seq(QueueNode(Nat)) : r = Without(s, 1) /\ r = Tail(s) /\ Head(s) = s[1] /\ Len(r) = n - 1
    <3>1. Tail(s) = Without(s, 1) /\ Head(s) = s[1] /\ 1 \in 1 .. Len(s)
      BY <2>1, TailIsWithout
    <3> QED
      BY <1>2, <3>1, WithoutType
  <2>3. PICK a \in Nat, b \in Nat : /\ a = s[1].numBytes /\ b = Bytes(SubSeq(r, 1, k - 1))
                                    /\ Bytes(SubSeq(s, 1, k)) = a + b
    BY <1>2, <2>2, PrefixOfRest
  <2>4. source' = [queue |-> r, played |-> IF Sounding(source) THEN y - a ELSE 0, state |-> z]
    BY <1>1, <1>3, <2>2, <2>3 DEF Unqueued
  <2>5. Sounding(source) => a + b <= y
    BY <1>1, <1>2, <2>3 DEF SourceOK, Unqueue
  <2>6. Sounding(source) <=> z \in {"playing", "paused"}
    BY <1>1 DEF Sounding
  <2>7. PICK y1 \in Nat : /\ source' = [queue |-> r, played |-> y1, state |-> z]
                          /\ z \in {"playing", "paused"} => b <= y1
                          /\ z = "initial" => y1 = 0
    <3>1. CASE z \in {"playing", "paused"}
      <4>1. y - a \in Nat /\ b <= y - a
        BY <2>5, <2>6, <3>1
      <4>2. source' = [queue |-> r, played |-> y - a, state |-> z]
        BY <2>4, <2>6, <3>1
      <4> QED
        BY <3>1, <4>1, <4>2
    <3>2. CASE z \notin {"playing", "paused"}
      BY <2>4, <2>6, <3>2
    <3> QED
      BY <3>1, <3>2
  <2>8. source' \in [queue : Seq(QueueNode(Nat)), played : Nat, state : States]
        /\ (source'.state = "initial" => source'.played = 0)
    BY <2>7
  <2>9. processed' = k - 1 /\ (pc' = "unqueue" => k # 1) /\ pc' # "queue"
    BY <1>2, <1>3
  <2>10. processed' \in 0 .. Len(Buffers)
    <3>1. k \in 0 .. Len(Buffers) /\ Len(Buffers) \in Nat
      BY <1>2, PQListAssumption DEF SourceOK
    <3> QED
      BY <1>2, <2>9, <3>1
  <2>11. pc' = "unqueue" => processed' \in 1 .. Len(source'.queue)
    BY <1>2, <2>2, <2>7, <2>9
  <2>12. Sounding(source') => Bytes(SubSeq(source'.queue, 1, processed')) <= source'.played
    BY <2>3, <2>7, <2>9 DEF Sounding
  <2> QED
    BY <2>8, <2>9, <2>10, <2>11, <2>12 DEF SourceOK
<1>4. CASE pc' = "offset" /\ processed' = 0 /\ UNCHANGED source
  <2>1. 0 \in 0 .. Len(Buffers)
    BY PQListAssumption
  <2> QED
    BY <1>4, <2>1 DEF SourceOK
<1> QED
  BY <1>3, <1>4 DEF Unqueue

\* A buffer is entered only while less than a quarter is to be heard.
LEMMA OffsetSource == AccountOK /\ SourceOK /\ GetOffset => SourceOK'
<1> SUFFICES ASSUME AccountOK, SourceOK, GetOffset PROVE SourceOK'
  OBVIOUS
<1>1. UNCHANGED <<source, processed>> /\ pc = "offset"
  BY DEF GetOffset, local
<1>2. pc' \in {"return", "queue"}
  BY DEF GetOffset, ALGetPosition, ALLockBuffer, ALUnlockBuffer, Unprocessed, Return
<1>3. CASE pc' = "return"
  BY <1>1, <1>3, SourceKept
<1>4. CASE pc' = "queue"
  <2> DEFINE left == _queued_total_bytes - Offset(source)
             queued == IF left >= 0 THEN left ELSE 0
  <2>1. ~Accumulates(queued)
    BY <1>4 DEF GetOffset, ALGetPosition, ALLockBuffer, ALUnlockBuffer, Unprocessed, Return
  <2>2. PICK s \in Seq(QueueNode(Nat)), y \in Nat, z \in States :
            source = [queue |-> s, played |-> y, state |-> z] /\ (z = "initial" => y = 0)
    BY DEF SourceOK
  <2>3. PICK t \in Nat : t = _queued_total_bytes /\ t = Bytes(s)
    <3>1. PICK q, p : Accounted(playq, _queued_total_bytes, q, p) /\ source.queue = NodesOf(playq, q)
      BY <1>1 DEF AccountOK
    <3> QED
      BY <2>2, <3>1, AccountedNodes DEF Accounted
  <2>4. PICK c \in Nat : c = QUARTER /\ c # 0
    BY VoiceAssumption DEF QUARTER
  <2>5. ~(queued >= c)
    BY <2>1, <2>4 DEF Accumulates
  <2>6. ToBeHeard(source) < c
    <3>1. CASE z \in {"playing", "paused"}
      <4>1. left = t - y /\ ToBeHeard(source) = t - y
        BY <2>2, <2>3, <3>1 DEF Offset, Sounding, ToBeHeard
      <4> QED
        BY <2>4, <2>5, <4>1
    <3>2. CASE z = "initial"
      <4>1. left = t - 0 /\ ToBeHeard(source) = t - 0
        BY <2>2, <2>3, <3>2 DEF Offset, Sounding, ToBeHeard
      <4> QED
        BY <2>4, <2>5, <4>1
    <3>3. CASE z = "stopped"
      BY <2>2, <2>4, <3>3 DEF ToBeHeard
    <3> QED
      BY <3>1, <3>2, <3>3 DEF States
  <2>7. ToBeHeard(source') < QUARTER
    BY <1>1, <2>4, <2>6
  <2> QED
    BY <1>1, <1>4, <2>7 DEF SourceOK
<1> QED
  BY <1>2, <1>3, <1>4

LEMMA DeviceSource == SourceOK /\ Device => SourceOK'
<1> SUFFICES ASSUME SourceOK, Device PROVE SourceOK'
  OBVIOUS
<1>1. /\ source'.queue = source.queue /\ source' \in [queue : Seq(QueueNode(Nat)), played : Nat, state : States]
      /\ source'.state # "initial"
      /\ \/ source.state = "playing" /\ source'.state = "playing" /\ source.played <= source'.played
         \/ source'.state = "stopped"
  BY DeviceDoes
<1>2. UNCHANGED <<processed, pc>>
  BY DEF Device, local
<1>3. PICK s \in Seq(QueueNode(Nat)), y \in Nat, y1 \in Nat :
          s = source.queue /\ s = source'.queue /\ y = source.played /\ y1 = source'.played
  BY <1>1 DEF SourceOK
<1>4. processed \in 0 .. Len(Buffers) /\ (pc = "unqueue" => processed \in 1 .. Len(s))
  BY <1>3 DEF SourceOK
<1>5. ASSUME pc = "unqueue", Sounding(source') PROVE Bytes(SubSeq(s, 1, processed)) <= y1
  <2>1. source.state = "playing" /\ y <= y1
    BY <1>1, <1>3, <1>5 DEF Sounding
  <2>2. PICK m \in Nat : m = Bytes(SubSeq(s, 1, processed)) /\ m <= y
    <3>1. Bytes(SubSeq(s, 1, processed)) <= y
      BY <1>3, <1>5, <2>1 DEF SourceOK, Sounding
    <3>2. Bytes(SubSeq(s, 1, processed)) \in Nat
      <4>1. processed \in 1 .. Len(s)
        BY <1>4, <1>5
      <4>2. PICK a \in Nat, b \in Nat : Bytes(SubSeq(s, 1, processed)) = a + b
        BY <4>1, PrefixOfRest
      <4> QED
        BY <4>2
    <3> QED
      BY <3>1, <3>2
  <2> QED
    BY <2>1, <2>2
<1>6. ASSUME pc = "queue" PROVE ToBeHeard(source') < QUARTER
  <2>1. PICK c \in Nat : c = QUARTER /\ c # 0
    BY VoiceAssumption DEF QUARTER
  <2>2. CASE source'.state = "stopped"
    BY <2>1, <2>2 DEF ToBeHeard
  <2>3. CASE source.state = "playing" /\ source'.state = "playing" /\ y <= y1
    <3>1. PICK t \in Nat : t = Bytes(s)
      <4>1. PICK f \in [0 .. Len(s) -> Nat] : Bytes(s) = f[Len(s)]
        BY BytesAre
      <4> QED
        BY <4>1
    <3>2. t - y < c
      BY <1>3, <1>6, <2>1, <2>3, <3>1 DEF SourceOK, ToBeHeard
    <3>3. ToBeHeard(source') = t - y1
      BY <1>3, <2>3, <3>1 DEF ToBeHeard
    <3> QED
      BY <2>1, <2>3, <3>2, <3>3
  <2> QED
    BY <1>1, <1>3, <2>2, <2>3
<1> QED
  BY <1>1, <1>2, <1>3, <1>4, <1>5, <1>6 DEF SourceOK

LEMMA SourceStep == AccountOK /\ SourceOK /\ RoomOK /\ [Next]_vars => SourceOK'
<1> SUFFICES ASSUME AccountOK, SourceOK, RoomOK, [Next]_vars PROVE SourceOK'
  OBVIOUS
<1>1. CASE GetProcessed
  BY <1>1, GetProcessedSource
<1>2. CASE Unqueue
  BY <1>2, UnqueueSource
<1>3. CASE GetOffset
  BY <1>3, OffsetSource
<1>4. CASE QueueBuffer
  <2>1. pc' \in {"state", "return"} /\ processed' = processed
    BY <1>4 DEF QueueBuffer, Return, local
  <2>2. CASE UNCHANGED source
    BY <2>1, <2>2, SourceKept
  <2>3. CASE source' = [source EXCEPT !.queue = Append(@, Node(playq, playq.queued))]
    <3>1. source'.queue \in Seq(QueueNode(Nat))
      BY <1>4, QueueBufferAccount
    <3>2. PICK y \in Nat, z \in States : source.played = y /\ source.state = z /\ (z = "initial" => y = 0)
      BY DEF SourceOK
    <3>3. source' = [queue |-> source'.queue, played |-> y, state |-> z]
      BY <2>3, <3>2 DEF SourceOK
    <3>4. source' \in [queue : Seq(QueueNode(Nat)), played : Nat, state : States]
          /\ (source'.state = "initial" => source'.played = 0)
      BY <3>1, <3>2, <3>3
    <3> QED
      BY <2>1, <3>4 DEF SourceOK
  <2> QED
    BY <1>4, <2>2, <2>3 DEF QueueBuffer
<1>5. CASE GetState
  <2>1. pc' \in {"return", "play"} /\ UNCHANGED <<source, processed>>
    BY <1>5 DEF GetState, Return, local
  <2> QED
    BY <2>1, SourceKept
<1>6. CASE Play
  <2>1. pc' = "return" /\ processed' = processed /\ (source' = Played(source) \/ source' = source)
    BY <1>6 DEF Play, Return, local
  <2> QED
    BY <2>1, PlayedKeeps DEF SourceOK
<1>7. CASE Device
  BY <1>7, DeviceSource
<1>8. CASE Slice
  <2>1. pc' \in {"processed", "slice", "outer"} /\ UNCHANGED <<source, processed>>
    BY <1>8 DEF Slice, Call, Flushed
  <2> QED
    BY <2>1, SourceKept
<1>9. CASE Submit
  <2>1. pc' \in {"processed", "slice", "outer"} /\ UNCHANGED <<source, processed>>
    BY <1>9 DEF Submit, PadPosition, PadLocked, PadUnlocked, SubmitPosition, SubmitLocked, SubmitUnlocked,
                Call, Finish, Flushed
  <2> QED
    BY <2>1, SourceKept
<1>10. CASE Reinitialize
  <2>1. source' = NewSource /\ pc' = "slice" /\ processed' = processed
    BY <1>10 DEF Reinitialize, Available, CreateVoice, local
  <2>2. <<>> \in Seq(QueueNode(Nat))
    BY EmptySeq
  <2> QED
    BY <2>1, <2>2 DEF SourceOK, NewSource, States
<1>11. CASE ChangeAudio \/ ChangeSpeed
  <2>1. pc' = "slice" /\ UNCHANGED <<source, processed>>
    BY <1>11 DEF ChangeAudio, ChangeSpeed, Idle, local
  <2> QED
    BY <2>1, SourceKept
<1>12. CASE PauseAudio
  <2>1. pc' = "slice" /\ processed' = processed
    BY <1>12 DEF PauseAudio, Idle, local
  <2>2. CASE openal_systemPause
    <3>1. CASE UNCHANGED source
      BY <2>1, <3>1, SourceKept
    <3>2. CASE source' = [source EXCEPT !.state = "paused"]
      BY <2>1, <3>2 DEF SourceOK, States
    <3> QED
      BY <2>2, <3>1, <3>2 DEF openal_systemPause
  <2>3. CASE openal_systemResume
    BY <2>1, <2>3, PlayedKeeps DEF openal_systemResume, SourceOK
  <2> QED
    BY <1>12, <2>2, <2>3 DEF PauseAudio
<1>13. CASE UNCHANGED vars
  BY <1>13 DEF vars, voicevars, local, SourceOK
<1> QED
  BY <1>1, <1>2, <1>3, <1>4, <1>5, <1>6, <1>7, <1>8, <1>9, <1>10, <1>11, <1>12, <1>13
  DEF Next, CpuStep, Library, Operate

-----------------------------------------------------------------------------
(* Steps of the voice: the working buffer                                   *)

LEMMA FaultsStep == faults \in 0 .. MaxFaults /\ (Works \/ Fails) => faults' \in 0 .. MaxFaults
  BY VoiceAssumption DEF Works, Fails

\* An operation that ends with an error, or ALGetPosition() that hides it
LEMMA UnprocessedRoom ==
    RoomOK /\ Unprocessed /\ UNCHANGED <<index, call, size>> /\ (Works \/ Fails) => RoomOK'
<1> SUFFICES ASSUME RoomOK, Unprocessed, UNCHANGED <<index, call, size>>, Works \/ Fails PROVE RoomOK'
  OBVIOUS
<1>1. faults' \in 0 .. MaxFaults
  BY FaultsStep DEF RoomOK
<1>2. pc' = "return" /\ reply' = [err |-> (call # "position"), bytes |-> 0]
  BY DEF Unprocessed, Return
<1>3. reply' \in [err : BOOLEAN, bytes : Nat] /\ (call = "lock" => reply'.err = TRUE)
  <2>1. CASE call = "position"
    <3>1. reply' = [err |-> FALSE, bytes |-> 0]
      BY <1>2, <2>1
    <3> QED
      BY <2>1, <3>1
  <2>2. CASE call # "position"
    <3>1. reply' = [err |-> TRUE, bytes |-> 0]
      BY <1>2, <2>2
    <3> QED
      BY <3>1
  <2> QED
    BY <2>1, <2>2
<1> QED
  BY <1>1, <1>2, <1>3 DEF RoomOK, Labels

\* What ALGetPosition() answers
LEMMA QueuedBytes ==
    AccountOK /\ SourceOK => _queued_total_bytes \in Nat /\ Offset(source) \in Nat
<1> SUFFICES ASSUME AccountOK, SourceOK PROVE _queued_total_bytes \in Nat /\ Offset(source) \in Nat
  OBVIOUS
<1>1. PICK q, p : Accounted(playq, _queued_total_bytes, q, p)
  BY DEF AccountOK
<1>2. _queued_total_bytes \in Nat
  BY <1>1, AccountedNodes
<1> QED
  BY <1>2 DEF Offset, SourceOK

LEMMA OffsetRoom == AccountOK /\ SourceOK /\ RoomOK /\ GetOffset => RoomOK'
<1> SUFFICES ASSUME AccountOK, SourceOK, RoomOK, GetOffset PROVE RoomOK'
  OBVIOUS
<1>1. pc = "offset" /\ UNCHANGED <<call, size>>
  BY DEF GetOffset, local
<1> DEFINE left == _queued_total_bytes - Offset(source)
           queued == IF left >= 0 THEN left ELSE 0
<1>2. PICK u \in Nat : u = queued
  <2>1. left \in Int
    BY QueuedBytes
  <2> QED
    BY <2>1
<1> HIDE DEF queued, left
<1>3. PICK i \in Nat, n \in Nat, z \in Nat, c \in Nat :
          /\ i = index /\ n = size /\ z = buffersize /\ c = QUARTER
          /\ i <= z /\ 0 < c /\ c <= z
  <2>1. index \in Nat /\ size \in Nat /\ buffersize \in Nat /\ index <= buffersize
    BY VoiceAssumption DEF RoomOK
  <2>2. QUARTER \in Nat /\ 0 < QUARTER /\ QUARTER <= buffersize
    BY VoiceAssumption DEF QUARTER
  <2> QED
    BY <2>1, <2>2
<1>4. ASSUME call = "position", ALGetPosition(u) PROVE RoomOK'
  <2>1. /\ pc' = "return" /\ reply' = [err |-> FALSE, bytes |-> u + i] /\ UNCHANGED <<index, faults>>
    BY <1>3, <1>4 DEF ALGetPosition, Return, voice
  <2>2. u + i \in Nat
    OBVIOUS
  <2>3. reply' \in [err : BOOLEAN, bytes : Nat]
    BY <2>1, <2>2
  <2> QED
    BY <1>1, <1>4, <2>1, <2>3 DEF RoomOK, Labels
<1>5. ASSUME call = "lock", ALLockBuffer(u) PROVE RoomOK'
  <2>1. PICK f \in Nat : f = IF u = 0 /\ i = 0 THEN c ELSE i
    OBVIOUS
  <2>2. f <= z
    BY <1>3, <2>1
  <2>3. PICK g \in Nat : /\ g = Smaller(IF n = 0 THEN z ELSE n, z - f)
                         /\ f + g \in 1 .. z /\ (n # 0 => g <= n)
    <3>1. PICK w \in Nat : w = IF n = 0 THEN z ELSE n
      OBVIOUS
    <3>2. PICK r \in Nat : r = z - f
      BY <2>2
    <3>3. f = 0 => r > 0 /\ w > 0
      BY <1>3, <3>1, <3>2
    <3>4. PICK g \in Nat : g = Smaller(w, r) /\ g <= w /\ g <= r /\ (f = 0 => g > 0)
      BY <3>3 DEF Smaller
    <3>5. f + g \in 1 .. z
      BY <3>2, <3>4
    <3> QED
      BY <3>1, <3>2, <3>4, <3>5
  <2>4. index' = f /\ pc' = "return" /\ reply' = [err |-> FALSE, bytes |-> g] /\ UNCHANGED faults
    BY <1>3, <1>5, <2>1, <2>3 DEF ALLockBuffer, Return, Granted
  <2>5. reply' \in [err : BOOLEAN, bytes : Nat] /\ index' \in 0 .. buffersize
    BY <1>3, <2>2, <2>4
  <2>6. index' + reply'.bytes \in 1 .. buffersize /\ (size' # 0 => reply'.bytes <= size')
    BY <1>1, <1>3, <2>3, <2>4
  <2> QED
    BY <1>1, <2>4, <2>5, <2>6 DEF RoomOK, Labels
<1>6. ASSUME call = "unlock", ALUnlockBuffer(u) PROVE RoomOK'
  <2>1. index + size \in 1 .. buffersize
    BY <1>1, <1>6 DEF RoomOK
  <2>2. index' \in 0 .. buffersize
    <3>1. index' = index + size \/ index' = 0
      BY <1>6 DEF ALUnlockBuffer
    <3> QED
      BY <1>3, <2>1, <3>1
  <2>3. pc' \in {"return", "queue"} /\ (Works \/ Fails)
    BY <1>6 DEF ALUnlockBuffer, Return, Works
  <2>4. reply' \in [err : BOOLEAN, bytes : Nat]
    <3>1. reply' = reply \/ reply' = [err |-> FALSE, bytes |-> 0] \/ reply' = [err |-> TRUE, bytes |-> 0]
      BY <1>6 DEF ALUnlockBuffer, Return
    <3>2. reply \in [err : BOOLEAN, bytes : Nat]
      BY DEF RoomOK
    <3>3. /\ [err |-> FALSE, bytes |-> 0] \in [err : BOOLEAN, bytes : Nat]
          /\ [err |-> TRUE, bytes |-> 0] \in [err : BOOLEAN, bytes : Nat]
      OBVIOUS
    <3> QED
      BY <3>1, <3>2, <3>3, Zenon
  <2>5. faults' \in 0 .. MaxFaults
    BY <2>3, FaultsStep DEF RoomOK
  <2> QED
    BY <1>1, <1>6, <2>2, <2>3, <2>4, <2>5 DEF RoomOK, Labels
<1>7. ASSUME Fails, Unprocessed, UNCHANGED voice PROVE RoomOK'
  BY <1>1, <1>7, UnprocessedRoom DEF voice
<1> QED
  BY <1>2, <1>4, <1>5, <1>6, <1>7 DEF GetOffset, queued, left

\* The other operations leave the working buffer alone.
LEMMA OperateRoom == AccountOK /\ SourceOK /\ RoomOK /\ Operate => RoomOK'
<1> SUFFICES ASSUME AccountOK, SourceOK, RoomOK, Operate PROVE RoomOK'
  OBVIOUS
<1>1. CASE GetProcessed
  <2>1. UNCHANGED <<index, call, size>> /\ (Works \/ Fails)
    BY <1>1 DEF GetProcessed, voice
  <2>2. CASE Unprocessed
    BY <2>1, <2>2, UnprocessedRoom
  <2>3. CASE pc' \in {"unqueue", "offset"} /\ UNCHANGED reply
    <3>1. faults' \in 0 .. MaxFaults
      BY <2>1, FaultsStep DEF RoomOK
    <3> QED
      BY <1>1, <2>1, <2>3, <3>1 DEF RoomOK, Labels, GetProcessed
  <2> QED
    BY <1>1, <2>2, <2>3 DEF GetProcessed
<1>2. CASE Unqueue
  <2>1. UNCHANGED <<index, call, size, reply>> /\ (Works \/ Fails) /\ pc' \in {"unqueue", "offset"}
        /\ pc = "unqueue"
    BY <1>2 DEF Unqueue
  <2>2. faults' \in 0 .. MaxFaults
    BY <2>1, FaultsStep DEF RoomOK
  <2> QED
    BY <2>1, <2>2 DEF RoomOK, Labels
<1>3. CASE GetOffset
  BY <1>3, OffsetRoom
<1>4. CASE QueueBuffer \/ GetState \/ Play
  <2>1. UNCHANGED <<index, call, size>> /\ (Works \/ Fails) /\ pc \in {"queue", "state", "play"}
    BY <1>4 DEF QueueBuffer, GetState, Play, local, voice
  <2>2. faults' \in 0 .. MaxFaults
    BY <2>1, FaultsStep DEF RoomOK
  <2>3. pc' \in {"state", "play", "return"} /\ call' = "unlock"
    BY <1>4, <2>1 DEF QueueBuffer, GetState, Play, Return, RoomOK
  <2>4. reply' \in [err : BOOLEAN, bytes : Nat]
    <3>1. reply' = reply \/ reply' = [err |-> FALSE, bytes |-> 0] \/ reply' = [err |-> TRUE, bytes |-> 0]
      BY <1>4 DEF QueueBuffer, GetState, Play, Return
    <3>2. reply \in [err : BOOLEAN, bytes : Nat]
      BY DEF RoomOK
    <3>3. /\ [err |-> FALSE, bytes |-> 0] \in [err : BOOLEAN, bytes : Nat]
          /\ [err |-> TRUE, bytes |-> 0] \in [err : BOOLEAN, bytes : Nat]
      OBVIOUS
    <3> QED
      BY <3>1, <3>2, <3>3, Zenon
  <2> QED
    BY <2>1, <2>2, <2>3, <2>4 DEF RoomOK, Labels
<1> QED
  BY <1>1, <1>2, <1>3, <1>4 DEF Operate

-----------------------------------------------------------------------------
(* Steps of the speaker                                                     *)

\* The samples go to the working buffer by calls that leave its bytes alone.
LEMMA SubmitRoom ==
    /\ RoomOK /\ UNCHANGED <<index, faults>> /\ reply' = NoReply /\ pc' \in {"processed", "slice", "outer"}
    /\ size' \in Nat /\ call' \in Calls /\ (call' = "unlock" => index + size' \in 1 .. buffersize)
    => RoomOK'
<1> SUFFICES ASSUME RoomOK, UNCHANGED <<index, faults>>, reply' = NoReply, pc' \in {"processed", "slice", "outer"},
                    size' \in Nat, call' \in Calls, call' = "unlock" => index + size' \in 1 .. buffersize
             PROVE  RoomOK'
  OBVIOUS
<1>1. reply' \in [err : BOOLEAN, bytes : Nat]
  BY DEF NoReply
<1> QED
  BY <1>1 DEF RoomOK, Labels

LEMMA FinishOK ==
    ASSUME NEW u \in Nat
    PROVE  /\ RoomOK /\ CopyOK /\ u <= samples_buffer_idx /\ Finish(u) /\ copy' = NoCopy
           /\ UNCHANGED <<index, faults>> /\ reply' = NoReply
           => RoomOK' /\ CopyOK'
<1> SUFFICES ASSUME RoomOK, CopyOK, u <= samples_buffer_idx, Finish(u), copy' = NoCopy, UNCHANGED <<index, faults>>,
                    reply' = NoReply
             PROVE  RoomOK' /\ CopyOK'
  OBVIOUS
<1>1. pc' \in {"slice", "outer"} /\ call' = "position" /\ size' = 0
  BY DEF Finish, Flushed
<1>2. RoomOK'
  BY <1>1, SubmitRoom DEF Calls
<1>3. samples_buffer_idx' \in Nat
  <2>1. samples_buffer_idx' = samples_buffer_idx - u
    BY DEF Finish
  <2>2. samples_buffer_idx \in Nat
    BY DEF CopyOK
  <2> QED
    BY <2>1, <2>2
<1>4. copy' \in [size : Nat, left : Nat, idx : Nat, used : Nat, turns : 0 .. 1]
      /\ copy'.used = 0 /\ copy'.size = 0 /\ copy'.left = 0 /\ copy'.idx = 0
  BY DEF NoCopy
<1>5. copy'.used <= samples_buffer_idx' /\ copy'.size <= copy'.left + copy'.idx
  BY <1>3, <1>4
<1> QED
  BY <1>1, <1>2, <1>3, <1>4, <1>5 DEF CopyOK

\* The quiet samples of full speed are not copied.
LEMMA PadOK ==
    /\ RoomOK /\ CopyOK /\ LoopOK /\ is_fullspeed /\ pc = "return" /\ (PadPosition \/ PadLocked \/ PadUnlocked)
    /\ UNCHANGED <<index, faults, is_fullspeed>> /\ reply' = NoReply
    => RoomOK' /\ CopyOK'
<1> SUFFICES ASSUME RoomOK, CopyOK, LoopOK, is_fullspeed, pc = "return", PadPosition \/ PadLocked \/ PadUnlocked,
                    UNCHANGED <<index, faults, is_fullspeed>>, reply' = NoReply
             PROVE  RoomOK' /\ CopyOK'
  OBVIOUS
<1>1. copy = NoCopy /\ copy' = NoCopy /\ is_fullspeed'
  BY DEF CopyOK, PadPosition, PadLocked, PadUnlocked
<1>2. CASE Finish(0)
  <2>1. 0 <= samples_buffer_idx
    BY DEF CopyOK
  <2> QED
    BY <1>1, <1>2, <2>1, FinishOK
<1>3. ASSUME UNCHANGED samples_buffer_idx PROVE CopyOK'
  BY <1>1, <1>3 DEF CopyOK
<1>4. CASE PadPosition
  <2>1. PICK y \in Nat, m \in Nat : y = reply.bytes /\ m = bufferSizeIdealMax
    BY VoiceAssumption DEF RoomOK, bufferSizeIdealMax, bufferTotalSize
  <2>2. ASSUME NEW k \in Nat, k = ((m - y) \div 2) * 2, Call("lock", k), UNCHANGED samples_buffer_idx
        PROVE  RoomOK' /\ CopyOK'
    <3>1. pc' = "processed" /\ call' = "lock" /\ size' \in Nat
      BY <2>2 DEF Call
    <3> QED
      BY <1>3, <2>2, <3>1, SubmitRoom DEF Calls
  <2>3. y < m => ((m - y) \div 2) * 2 \in Nat
    OBVIOUS
  <2> QED
    BY <1>2, <1>4, <2>1, <2>2, <2>3 DEF PadPosition
<1>5. CASE PadLocked
  <2>1. CASE reply.err = FALSE /\ Call("unlock", reply.bytes) /\ UNCHANGED samples_buffer_idx
    <3>1. index + reply.bytes \in 1 .. buffersize /\ reply.bytes \in Nat
      BY <1>5, <2>1 DEF RoomOK, PadLocked, Wrote
    <3>2. pc' = "processed" /\ call' = "unlock" /\ size' = reply.bytes
      BY <2>1 DEF Call
    <3> QED
      BY <1>3, <2>1, <3>1, <3>2, SubmitRoom DEF Calls
  <2>2. reply.err \in BOOLEAN
    BY DEF RoomOK
  <2> QED
    BY <1>2, <1>5, <2>1, <2>2 DEF PadLocked
<1>6. CASE PadUnlocked
  BY <1>2, <1>6 DEF PadUnlocked
<1> QED
  BY <1>4, <1>5, <1>6

LEMMA Remainder == ASSUME NEW a \in Int, NEW b \in Nat \ {0} PROVE a % b \in Nat
  OBVIOUS

\* What is asked for first is what the samples need, or what is free.
LEMMA SubmitPositionOK ==
    /\ RoomOK /\ CopyOK /\ SubmitPosition
    /\ UNCHANGED <<index, faults, is_fullspeed>> /\ reply' = NoReply
    => RoomOK' /\ CopyOK'
<1> SUFFICES ASSUME RoomOK, CopyOK, SubmitPosition, UNCHANGED <<index, faults, is_fullspeed>>, reply' = NoReply
             PROVE  RoomOK' /\ CopyOK'
  OBVIOUS
<1>1. copy = NoCopy /\ copy.used = 0
  BY DEF CopyOK, SubmitPosition, Wrote, NoCopy
<1>2. PICK f \in Nat : f = (bufferTotalSize - reply.bytes) % ULONG
  <2>1. bufferTotalSize - reply.bytes \in Int /\ ULONG \in Nat \ {0}
    BY VoiceAssumption DEF RoomOK, ULONG, bufferTotalSize
  <2> QED
    BY <2>1, Remainder
<1>3. PICK s \in Nat : s = samples_buffer_idx
  BY DEF CopyOK
<1>4. PICK u \in Nat, b \in Nat :
          /\ u = IF s * 2 <= f THEN s ELSE f \div 2
          /\ b = IF s * 2 <= f THEN s * 2 ELSE f
          /\ u <= s
  <2>1. CASE s * 2 <= f
    BY <2>1
  <2>2. CASE ~(s * 2 <= f)
    <3>1. f \div 2 \in Nat /\ f \div 2 <= s
      BY <2>2
    <3> QED
      BY <2>2, <3>1
  <2> QED
    BY <2>1, <2>2
<1>5. IF b = 0 THEN Finish(u) /\ UNCHANGED copy
      ELSE /\ Call("lock", b)
           /\ copy' = [NoCopy EXCEPT !.size = b, !.left = b, !.used = u]
           /\ UNCHANGED samples_buffer_idx
  <2> HIDE DEF ULONG
  <2> QED
    BY <1>2, <1>3, <1>4 DEF SubmitPosition
<1>6. CASE Finish(u) /\ copy' = copy
  BY <1>1, <1>3, <1>4, <1>6, FinishOK
<1>7. CASE /\ b # 0 /\ Call("lock", b) /\ UNCHANGED samples_buffer_idx
           /\ copy' = [NoCopy EXCEPT !.size = b, !.left = b, !.used = u]
  <2>1. pc' = "processed" /\ call' = "lock" /\ size' = b
    BY <1>7 DEF Call
  <2>2. RoomOK'
    BY <2>1, SubmitRoom DEF Calls
  <2>3. copy' = [size |-> b, left |-> b, idx |-> 0, used |-> u, turns |-> 0]
    BY <1>7 DEF NoCopy
  <2>4. copy' \in [size : Nat, left : Nat, idx : Nat, used : Nat, turns : 0 .. 1]
    BY <2>3
  <2>5. samples_buffer_idx' \in Nat /\ copy'.used <= samples_buffer_idx'
    BY <1>3, <1>4, <1>7, <2>3
  <2>6. copy'.size <= copy'.left + copy'.idx /\ size' = copy'.left /\ size' # 0
    <3>1. copy'.size = b /\ copy'.left = b /\ copy'.idx = 0 /\ size' = b
      BY <2>1, <2>3
    <3>2. b <= b + 0 /\ b # 0
      BY <1>7
    <3> QED
      BY <3>1, <3>2
  <2>7. ~is_fullspeed'
    BY DEF SubmitPosition
  <2> QED
    BY <2>1, <2>2, <2>4, <2>5, <2>6, <2>7 DEF CopyOK
<1> QED
  BY <1>5, <1>6, <1>7

\* What a Lock granted is what the Unlock adds.
LEMMA SubmitLockedOK ==
    /\ RoomOK /\ CopyOK /\ SubmitLocked
    /\ UNCHANGED <<index, faults, is_fullspeed>> /\ reply' = NoReply
    => RoomOK' /\ CopyOK'
<1> SUFFICES ASSUME RoomOK, CopyOK, SubmitLocked, UNCHANGED <<index, faults, is_fullspeed>>, reply' = NoReply
             PROVE  RoomOK' /\ CopyOK'
  OBVIOUS
<1>1. pc = "return" /\ call = "lock" /\ ~is_fullspeed
  BY DEF SubmitLocked, Wrote
<1>2. PICK s \in Nat, l \in Nat, i \in Nat, u \in Nat, k \in 0 .. 1 :
          copy = [size |-> s, left |-> l, idx |-> i, used |-> u, turns |-> k]
  BY DEF CopyOK
<1>3. s <= l + i /\ size = l /\ l # 0 /\ u <= samples_buffer_idx
  BY <1>1, <1>2 DEF CopyOK
<1>4. PICK y \in Nat, x \in Nat, m \in Nat : y = reply.bytes /\ x = index /\ m = maxSpeakerBytes /\ m # 0
  <2>1. reply.bytes \in Nat /\ index \in Nat /\ maxSpeakerBytes \in Nat /\ maxSpeakerBytes # 0
    BY VoiceAssumption, SpeakerAssumption DEF RoomOK, maxSpeakerBytes
  <2> QED
    BY <2>1
<1>5. CASE Finish(copy.used) /\ copy' = NoCopy
  BY <1>2, <1>3, <1>5, FinishOK
<1>6. CASE /\ reply.err = FALSE /\ Call("unlock", Smaller(y, m))
           /\ copy' = (IF y > m THEN [copy EXCEPT !.size = m] ELSE copy)
           /\ UNCHANGED samples_buffer_idx
  <2>1. x + y \in 1 .. buffersize /\ y <= l
    BY <1>1, <1>3, <1>4, <1>6 DEF RoomOK
  <2>2. PICK n \in Nat : n = Smaller(y, m) /\ n <= y /\ (y # 0 => n # 0)
    BY <1>4 DEF Smaller
  <2>3. x + n \in 1 .. buffersize
    BY VoiceAssumption, <2>1, <2>2
  <2>4. pc' = "processed" /\ call' = "unlock" /\ size' = n
    BY <1>6, <2>2 DEF Call
  <2>5. RoomOK'
    BY <1>4, <2>3, <2>4, SubmitRoom DEF Calls
  <2>6. PICK s1 \in Nat : s1 <= l + i /\ copy' = [size |-> s1, left |-> l, idx |-> i, used |-> u, turns |-> k]
    <3>1. CASE y > m
      <4>1. m <= l + i
        BY <2>1, <3>1
      <4>2. copy' = [size |-> m, left |-> l, idx |-> i, used |-> u, turns |-> k]
        BY <1>2, <1>6, <3>1
      <4> QED
        BY <4>1, <4>2
    <3>2. CASE ~(y > m)
      BY <1>2, <1>3, <1>6, <3>2
    <3> QED
      BY <3>1, <3>2
  <2>7. samples_buffer_idx' \in Nat /\ copy'.used <= samples_buffer_idx'
    BY <1>3, <1>6, <2>6 DEF CopyOK
  <2>8. copy' \in [size : Nat, left : Nat, idx : Nat, used : Nat, turns : 0 .. 1]
        /\ copy'.size <= copy'.left + copy'.idx
    BY <2>6
  <2> QED
    BY <1>1, <2>4, <2>5, <2>7, <2>8 DEF CopyOK
<1>7. reply.err \in BOOLEAN
  BY DEF RoomOK
<1> QED
  BY <1>4, <1>5, <1>6, <1>7 DEF SubmitLocked

\* The second turn asks for what is left.
LEMMA SubmitUnlockedOK ==
    /\ RoomOK /\ CopyOK /\ SubmitUnlocked
    /\ UNCHANGED <<index, faults, is_fullspeed>> /\ reply' = NoReply
    => RoomOK' /\ CopyOK'
<1> SUFFICES ASSUME RoomOK, CopyOK, SubmitUnlocked, UNCHANGED <<index, faults, is_fullspeed>>, reply' = NoReply
             PROVE  RoomOK' /\ CopyOK'
  OBVIOUS
<1>1. PICK s \in Nat, l \in Nat, i \in Nat, u \in Nat, k \in 0 .. 1 :
          copy = [size |-> s, left |-> l, idx |-> i, used |-> u, turns |-> k]
  BY DEF CopyOK
<1>2. s <= l + i /\ u <= samples_buffer_idx
  BY <1>1 DEF CopyOK
<1>3. PICK n \in Nat : n = size
  BY DEF RoomOK
<1>4. \/ Finish(copy.used) /\ copy' = NoCopy
      \/ /\ i + n < s /\ k + 1 < 2 /\ Call("lock", l - n) /\ UNCHANGED samples_buffer_idx
         /\ copy' = [size |-> s, left |-> l - n, idx |-> i + n, used |-> u, turns |-> k + 1]
  BY <1>1, <1>3 DEF SubmitUnlocked
<1>5. CASE Finish(copy.used) /\ copy' = NoCopy
  BY <1>1, <1>2, <1>5, FinishOK
<1>6. CASE /\ i + n < s /\ k + 1 < 2 /\ Call("lock", l - n) /\ UNCHANGED samples_buffer_idx
           /\ copy' = [size |-> s, left |-> l - n, idx |-> i + n, used |-> u, turns |-> k + 1]
  <2>1. PICK l1 \in Nat : l1 = l - n /\ l1 # 0 /\ s <= l1 + (i + n)
    <3>1. l - n > 0 /\ s <= (l - n) + (i + n)
      BY <1>2, <1>6
    <3> QED
      BY <3>1
  <2>2. pc' = "processed" /\ call' = "lock" /\ size' = l1
    BY <1>6, <2>1 DEF Call
  <2>3. RoomOK'
    BY <2>2, SubmitRoom DEF Calls
  <2>4. i + n \in Nat /\ k + 1 \in 0 .. 1
    BY <1>6
  <2>5. copy' \in [size : Nat, left : Nat, idx : Nat, used : Nat, turns : 0 .. 1]
    BY <1>6, <2>1, <2>4
  <2>6. /\ copy'.size <= copy'.left + copy'.idx /\ size' = copy'.left /\ size' # 0
        /\ copy'.used <= samples_buffer_idx' /\ samples_buffer_idx' \in Nat
    BY <1>2, <1>6, <2>1, <2>2 DEF CopyOK
  <2>7. ~is_fullspeed'
    BY DEF SubmitUnlocked
  <2> QED
    BY <2>2, <2>3, <2>5, <2>6, <2>7 DEF CopyOK
<1> QED
  BY <1>4, <1>5, <1>6

LEMMA SubmitOK == RoomOK /\ CopyOK /\ LoopOK /\ Submit => RoomOK' /\ CopyOK'
<1> SUFFICES ASSUME RoomOK, CopyOK, LoopOK, Submit PROVE RoomOK' /\ CopyOK'
  OBVIOUS
<1>1. UNCHANGED <<index, faults, is_fullspeed>> /\ reply' = NoReply
  BY DEF Submit, voice
<1>2. CASE PadPosition \/ PadLocked \/ PadUnlocked
  <2>1. is_fullspeed /\ pc = "return"
    BY <1>2 DEF PadPosition, PadLocked, PadUnlocked, Wrote
  <2> QED
    BY <1>1, <1>2, <2>1, PadOK
<1>3. CASE SubmitPosition
  BY <1>1, <1>3, SubmitPositionOK
<1>4. CASE SubmitLocked
  BY <1>1, <1>4, SubmitLockedOK
<1>5. CASE SubmitUnlocked
  BY <1>1, <1>5, SubmitUnlockedOK
<1> QED
  BY <1>2, <1>3, <1>4, <1>5 DEF Submit

\* A slice begins without a copy under way.
LEMMA SliceOK == RoomOK /\ CopyOK /\ Slice => RoomOK' /\ CopyOK'
<1> SUFFICES ASSUME RoomOK, CopyOK, Slice PROVE RoomOK' /\ CopyOK'
  OBVIOUS
<1>1. copy' = NoCopy /\ UNCHANGED <<index, faults, reply>>
  BY DEF CopyOK, Slice, voice
<1>2. pc' \in {"processed", "slice", "outer"} /\ call' = "position" /\ size' = 0
  BY DEF Slice, Call, Flushed
<1>3. PICK s \in Nat : s = samples_buffer_idx
  BY DEF CopyOK
<1>4. samples_buffer_idx' \in Nat
  <2>1. PICK n \in Nat : samples_buffer_idx' = Updated(s, n) \/ samples_buffer_idx' = s
    <3>1. SliceFrames \cup {0} \subseteq Nat
      BY SpeakerAssumption
    <3>2. PICK n \in SliceFrames \cup {0} :
              samples_buffer_idx' = Updated(samples_buffer_idx, n) \/ samples_buffer_idx' = samples_buffer_idx
      BY DEF Slice
    <3> QED
      BY <1>3, <3>1, <3>2
  <2>2. Updated(s, n) \in Nat
    <3>1. PICK m \in Nat : m = channelsSampleRateHz
      BY SpeakerAssumption
    <3>2. PICK r \in Nat : r = IF s < m THEN (m - s + 1) \div 2 ELSE 0
      <4>1. s < m => (m - s + 1) \div 2 \in Nat
        OBVIOUS
      <4> QED
        BY <4>1
    <3>3. PICK w \in Nat : w = Smaller(n, r)
      BY DEF Smaller
    <3>4. Updated(s, n) = s + 2 * w
      BY <3>1, <3>2, <3>3 DEF Updated
    <3> QED
      BY <3>4
  <2> QED
    BY <1>3, <2>1, <2>2
<1>5. /\ copy' \in [size : Nat, left : Nat, idx : Nat, used : Nat, turns : 0 .. 1]
      /\ copy'.used <= samples_buffer_idx' /\ copy'.size <= copy'.left + copy'.idx
  BY SpeakerAssumption, <1>1, <1>4 DEF NoCopy
<1>6. CopyOK'
  BY <1>1, <1>2, <1>4, <1>5 DEF CopyOK
<1>7. RoomOK'
  BY <1>1, <1>2 DEF RoomOK, Calls, Labels
<1> QED
  BY <1>6, <1>7

\* A new voice begins with an empty working buffer.
LEMMA ReinitializeOK == RoomOK /\ CopyOK /\ Reinitialize => RoomOK' /\ CopyOK'
<1> SUFFICES ASSUME RoomOK, CopyOK, Reinitialize PROVE RoomOK' /\ CopyOK'
  OBVIOUS
<1>1. pc = "outer" /\ pc' = "slice" /\ UNCHANGED <<call, size, reply, copy, is_fullspeed>> /\ index' = 0
      /\ (Works \/ Fails)
  BY DEF Reinitialize, Available, CreateVoice, local
<1>2. samples_buffer_idx' = samples_buffer_idx \/ samples_buffer_idx' = 0
      \/ samples_buffer_idx' = bufferSizeIdealMax
  BY DEF Reinitialize, Available
<1>3. {0, bufferSizeIdealMax, samples_buffer_idx} \subseteq Nat
  BY VoiceAssumption DEF CopyOK, bufferSizeIdealMax, bufferTotalSize
<1>4. faults' \in 0 .. MaxFaults
  BY <1>1, FaultsStep DEF RoomOK
<1>5. 0 \in 0 .. buffersize
  BY VoiceAssumption
<1>6. RoomOK'
  BY <1>1, <1>4, <1>5 DEF RoomOK, Labels
<1>7. samples_buffer_idx' \in Nat
  BY <1>2, <1>3
<1>8. copy' = NoCopy /\ copy'.used <= samples_buffer_idx'
  BY <1>1, <1>7 DEF CopyOK, NoCopy
<1>9. CopyOK'
  BY <1>1, <1>7, <1>8 DEF CopyOK
<1> QED
  BY <1>6, <1>9

LEMMA RoomStep == AccountOK /\ SourceOK /\ RoomOK /\ LoopOK /\ CopyOK /\ [Next]_vars => RoomOK' /\ CopyOK'
<1> SUFFICES ASSUME AccountOK, SourceOK, RoomOK, LoopOK, CopyOK, [Next]_vars PROVE RoomOK' /\ CopyOK'
  OBVIOUS
<1>1. CASE Library
  <2>1. UNCHANGED <<samples_buffer_idx, copy, is_fullspeed, call, size>>
    BY <1>1 DEF Library, speaker, Operate, GetProcessed, Unqueue, GetOffset, QueueBuffer, GetState, Play, local
  <2>2. pc \notin {"slice", "outer"} /\ pc' \notin {"slice", "outer"}
    BY <1>1 DEF Library, Operate, GetProcessed, Unqueue, GetOffset, QueueBuffer, GetState, Play,
                ALGetPosition, ALLockBuffer, ALUnlockBuffer, Unprocessed, Return
  <2>3. CopyOK'
    BY <2>1, <2>2 DEF CopyOK
  <2> QED
    BY <1>1, <2>3, OperateRoom DEF Library
<1>2. CASE Submit
  BY <1>2, SubmitOK
<1>3. CASE Slice
  BY <1>3, SliceOK
<1>4. CASE Reinitialize
  BY <1>4, ReinitializeOK
<1>5. CASE (Device /\ UNCHANGED <<control, speaker>>) \/ ChangeAudio \/ PauseAudio \/ UNCHANGED vars
  <2>1. UNCHANGED <<index, pc, call, size, reply, faults, samples_buffer_idx, copy, is_fullspeed>>
    BY <1>5 DEF Device, ChangeAudio, PauseAudio, Idle, vars, voicevars, voice, local, speaker
  <2>2. RoomOK'
    BY <2>1 DEF RoomOK
  <2>3. CopyOK'
    BY <2>1 DEF CopyOK
  <2> QED
    BY <2>2, <2>3
<1>6. CASE ChangeSpeed
  <2>1. UNCHANGED <<index, pc, call, size, reply, faults, copy>> /\ pc = "slice"
    BY <1>6 DEF ChangeSpeed, Idle, voice, local
  <2>2. RoomOK'
    BY <2>1 DEF RoomOK
  <2>3. samples_buffer_idx' = 0 \/ samples_buffer_idx' = samples_buffer_idx
    BY <1>6 DEF ChangeSpeed
  <2>4. samples_buffer_idx' \in Nat
    BY <2>3 DEF CopyOK
  <2>5. copy = NoCopy /\ copy.used = 0
    BY <2>1 DEF CopyOK, NoCopy
  <2>6. copy.used <= samples_buffer_idx'
    BY <2>4, <2>5
  <2>7. CopyOK'
    BY <2>1, <2>4, <2>5, <2>6 DEF CopyOK
  <2> QED
    BY <2>2, <2>7
<1> QED
  BY <1>1, <1>2, <1>3, <1>4, <1>5, <1>6 DEF Next, CpuStep

\* The feedback to the slice stays within bounds.
LEMMA ClampedBounds == ASSUME NEW n \in Int PROVE Clamped(n) \in (-AdjustMax) .. AdjustMax
  BY SpeakerAssumption DEF Clamped

LEMMA LoopStep == RoomOK /\ LoopOK /\ [Next]_vars => LoopOK'
<1> SUFFICES ASSUME RoomOK, LoopOK, [Next]_vars PROVE LoopOK'
  OBVIOUS
<1>1. 0 \in (-AdjustMax) .. AdjustMax /\ WedgedMax \in Nat \ {0}
  BY SpeakerAssumption
<1>2. CASE Submit
  <2>1. UNCHANGED <<speaker_isAvailable, is_fullspeed, emul_reinitialize_audio, speaker_wedged_count>>
    BY <1>2 DEF Submit, control
  <2>2. Adjusted(reply.bytes) \in (-AdjustMax) .. AdjustMax
    <3>1. samples_adjustment_counter + 1 \in Int /\ samples_adjustment_counter - 1 \in Int
      BY SpeakerAssumption DEF LoopOK
    <3>2. \/ Adjusted(reply.bytes) = 0
          \/ Adjusted(reply.bytes) = Clamped(samples_adjustment_counter + 1)
          \/ Adjusted(reply.bytes) = Clamped(samples_adjustment_counter - 1)
      BY DEF Adjusted
    <3> QED
      BY <1>1, <3>1, <3>2, ClampedBounds
  <2>3. /\ samples_adjustment_counter' \in {0, Adjusted(reply.bytes), samples_adjustment_counter}
        /\ cycles_speaker_feedback' \in {Adjusted(reply.bytes), cycles_speaker_feedback}
    BY <1>2 DEF Submit, PadPosition, PadLocked, PadUnlocked, SubmitPosition, SubmitLocked, SubmitUnlocked, feedback
  <2> QED
    BY <1>1, <2>1, <2>2, <2>3 DEF LoopOK
<1>3. CASE Slice
  <2>1. UNCHANGED <<speaker_isAvailable, samples_adjustment_counter, cycles_speaker_feedback>>
    BY <1>3 DEF Slice, feedback
  <2>2. is_fullspeed' \in BOOLEAN
    BY <1>3 DEF Slice
  <2>3. emul_reinitialize_audio' \in BOOLEAN
    BY <1>3 DEF Slice, Watch
  <2>4. speaker_wedged_count' \in 0 .. (WedgedMax - 1)
    <3>1. \/ speaker_wedged_count' = 0
          \/ speaker_wedged_count' = speaker_wedged_count + 1 /\ ~(speaker_wedged_count + 1 >= WedgedMax)
      BY <1>3 DEF Slice, Watch
    <3> QED
      BY <1>1, <3>1 DEF LoopOK
  <2> QED
    BY <2>1, <2>2, <2>3, <2>4 DEF LoopOK
<1>4. CASE Reinitialize
  <2>1. UNCHANGED <<is_fullspeed, speaker_wedged_count, samples_adjustment_counter, cycles_speaker_feedback>>
    BY <1>4 DEF Reinitialize, feedback
  <2>2. emul_reinitialize_audio' \in BOOLEAN /\ speaker_isAvailable' \in BOOLEAN
    BY <1>4 DEF Reinitialize, Available
  <2> QED
    BY <2>1, <2>2 DEF LoopOK
<1>5. CASE ChangeAudio
  BY <1>5 DEF ChangeAudio, speaker, feedback, LoopOK
<1>6. CASE ChangeSpeed
  BY <1>6 DEF ChangeSpeed, control, feedback, LoopOK
<1>7. CASE Library \/ (Device /\ UNCHANGED <<control, speaker>>) \/ PauseAudio \/ UNCHANGED vars
  BY <1>7 DEF Library, PauseAudio, vars, control, speaker, feedback, LoopOK
<1> QED
  BY <1>2, <1>3, <1>4, <1>5, <1>6, <1>7 DEF Next, CpuStep

LEMMA VoiceInitial == Init => VoiceOK
<1> SUFFICES ASSUME Init PROVE VoiceOK
  OBVIOUS
<1>1. AccountOK
  <2>1. playq = Created /\ _queued_total_bytes = 0 /\ source.queue = <<>> /\ pc = "slice"
    BY DEF Init, VoiceInit, NewSource
  <2> QED
    BY <2>1, AccountCreated DEF AccountOK
<1>2. SourceOK
  <2>1. <<>> \in Seq(QueueNode(Nat)) /\ 0 \in 0 .. Len(Buffers)
    BY EmptySeq, PQListAssumption
  <2>2. source = [queue |-> <<>>, played |-> 0, state |-> "initial"] /\ pc = "slice" /\ processed = 0
    BY DEF Init, VoiceInit, NewSource
  <2> QED
    BY <2>1, <2>2 DEF SourceOK, States
<1>3. RoomOK
  <2>1. 0 \in 0 .. buffersize /\ 0 \in 0 .. MaxFaults
    BY VoiceAssumption
  <2>2. reply \in [err : BOOLEAN, bytes : Nat]
    BY DEF Init, VoiceInit, NoReply
  <2> QED
    BY <2>1, <2>2 DEF Init, VoiceInit, RoomOK, Calls
<1>4. LoopOK
  <2>1. 0 \in (-AdjustMax) .. AdjustMax /\ 0 \in 0 .. (WedgedMax - 1)
    BY SpeakerAssumption
  <2>2. TRUE \in BOOLEAN /\ FALSE \in BOOLEAN
    OBVIOUS
  <2> QED
    BY <2>1, <2>2 DEF Init, LoopOK
<1>5. CopyOK
  <2>1. samples_buffer_idx \in Nat
    BY VoiceAssumption DEF Init, bufferSizeIdealMax, bufferTotalSize
  <2>2. copy = NoCopy /\ pc = "slice"
    BY DEF Init, VoiceInit
  <2>3. copy.used <= samples_buffer_idx
    BY <2>1, <2>2 DEF NoCopy
  <2> QED
    BY <2>1, <2>2, <2>3 DEF CopyOK, NoCopy
<1> QED
  BY <1>1, <1>2, <1>3, <1>4, <1>5 DEF VoiceOK

LEMMA VoiceStep == VoiceOK /\ [Next]_vars => VoiceOK'
  BY AccountStep, SourceStep, RoomStep, LoopStep DEF VoiceOK

LEMMA VoiceInvariant == Spec => []VoiceOK
  BY VoiceInitial, VoiceStep, PTL DEF Spec

-----------------------------------------------------------------------------
(* Whole frames of two samples                                              *)

\* Numbers of bytes and of samples that are a number of frames
Whole(n) == \E k \in Int : n = 4 * k
Even(n)  == \E k \in Int : n = 2 * k

PlayqWhole(l)  == \A b \in Ids : Whole(l.numBytes[b])
SourceWhole(s) == Whole(s.played) /\ \A i \in 1 .. Len(s.queue) : Whole(s.queue[i].numBytes)

\* The device, the account and the working buffer go by whole frames, and so do the
\* calls between them and the speaker: what the voice has room for never splits one.
VoiceWhole == PlayqWhole(playq) /\ SourceWhole(source) /\ Whole(_queued_total_bytes) /\ Whole(index)
CallWhole  == Whole(size) /\ Whole(reply.bytes)
CopyWhole  == Whole(copy.left) /\ Even(copy.used)

SamplesOK == Even(samples_buffer_idx) /\ samples_buffer_idx <= channelsSampleRateHz

FramesOK == VoiceWhole /\ CallWhole /\ CopyWhole /\ SamplesOK

LEMMA WholeSums ==
    ASSUME NEW a, NEW b, Whole(a), Whole(b)
    PROVE  Whole(a + b) /\ Whole(a - b)
<1>1. PICK i \in Int, j \in Int : a = 4 * i /\ b = 4 * j
  BY DEF Whole
<1>2. a + b = 4 * (i + j) /\ a - b = 4 * (i - j) /\ i + j \in Int /\ i - j \in Int
  BY <1>1
<1> QED
  BY <1>2 DEF Whole

LEMMA EvenDifference ==
    ASSUME NEW a, NEW b, Even(a), Even(b)
    PROVE  Even(a - b)
<1>1. PICK i \in Int, j \in Int : a = 2 * i /\ b = 2 * j
  BY DEF Even
<1>2. a - b = 2 * (i - j) /\ i - j \in Int
  BY <1>1
<1> QED
  BY <1>2 DEF Even

LEMMA WholeZero == Whole(0) /\ Even(0)
<1>1. 0 = 4 * 0 /\ 0 = 2 * 0 /\ 0 \in Int
  OBVIOUS
<1> QED
  BY <1>1 DEF Whole, Even

\* Half of a number of whole frames
LEMMA HalfIsEven ==
    ASSUME NEW n \in Nat, Whole(n)
    PROVE  Even(n \div 2) /\ (n \div 2) * 2 = n
<1>1. PICK k \in Int : n = 4 * k
  BY DEF Whole
<1>2. n \div 2 = 2 * k /\ (n \div 2) * 2 = n
  BY <1>1
<1> QED
  BY <1>2 DEF Even

LEMMA DoubleIsWhole ==
    ASSUME NEW n, Even(n)
    PROVE  Whole(n * 2)
<1>1. PICK k \in Int : n = 2 * k
  BY DEF Even
<1>2. n * 2 = 4 * k
  BY <1>1
<1> QED
  BY <1>2 DEF Whole

LEMMA Quotient ==
    ASSUME NEW a \in Int, NEW m \in Nat \ {0}
    PROVE  \E d \in Int : a = m * d + (a % m)
<1>1. a \div m \in Int /\ a = m * (a \div m) + (a % m)
  OBVIOUS
<1> QED
  BY <1>1

LEMMA WholeRemainder ==
    ASSUME NEW a \in Int, NEW m \in Nat \ {0}, Whole(a), Whole(m)
    PROVE  Whole(a % m)
<1>1. PICK d \in Int : a = m * d + (a % m)
  BY Quotient
<1>2. PICK r \in Nat : r = a % m
  BY Remainder
<1>3. PICK i \in Int, j \in Int : a = 4 * i /\ m = 4 * j
  BY DEF Whole
<1>4. PICK e \in Int : e = j * d
  OBVIOUS
<1>5. m * d = 4 * e
  BY <1>3, <1>4
<1>6. r = 4 * (i - e) /\ i - e \in Int
  BY <1>1, <1>2, <1>3, <1>5
<1> QED
  BY <1>2, <1>6 DEF Whole

\* The sizes are numbers of frames.
LEMMA WholeSizes ==
    /\ Whole(buffersize) /\ Whole(QUARTER) /\ Whole(Period) /\ Whole(ULONG) /\ Whole(maxSpeakerBytes)
    /\ Whole(bufferSizeIdealMax) /\ Even(bufferSizeIdealMax) /\ bufferSizeIdealMax <= channelsSampleRateHz
    /\ Even(channelsSampleRateHz)
<1>1. PICK z \in Nat, p \in Nat, m \in Nat :
          /\ z = buffersize /\ p = Period /\ m = channelsSampleRateHz
          /\ z % 16 = 0 /\ p % 4 = 0 /\ m % 2 = 0 /\ z \div 2 <= m
  BY VoiceAssumption, SpeakerAssumption
<1>2. PICK k \in Nat, j \in Nat, n \in Nat : z = 16 * k /\ p = 4 * j /\ m = 2 * n
  <2>1. z \div 16 \in Nat /\ z = 16 * (z \div 16)
    BY <1>1
  <2>2. p \div 4 \in Nat /\ p = 4 * (p \div 4)
    BY <1>1
  <2>3. m \div 2 \in Nat /\ m = 2 * (m \div 2)
    BY <1>1
  <2> QED
    BY <2>1, <2>2, <2>3
<1>3. /\ z = 4 * (4 * k) /\ z \div 4 = 4 * k /\ p = 4 * j /\ 1024 * z = 4 * (4096 * k) /\ m * 2 = 4 * n
      /\ z \div 2 = 4 * (2 * k) /\ z \div 2 = 2 * (4 * k)
      /\ {k, 4 * k, 4096 * k, 2 * k, j, n} \subseteq Int
  BY <1>2
<1>4. Whole(z) /\ Whole(z \div 4) /\ Whole(p) /\ Whole(1024 * z) /\ Whole(m * 2)
  BY <1>3 DEF Whole
<1>5. Whole(z \div 2) /\ Even(z \div 2) /\ Even(m)
  BY <1>2, <1>3 DEF Whole, Even
<1> QED
  BY <1>1, <1>4, <1>5 DEF QUARTER, ULONG, maxSpeakerBytes, bufferSizeIdealMax, bufferTotalSize

\* The list of nodes
LEMMA RemovedWhole ==
    ASSUME NEW l \in Lists(Nat), NEW b \in Ids, PlayqWhole(l)
    PROVE  PlayqWhole(Removed(l, b))
<1>1. l.numBytes \in [Ids -> Nat]
  BY DEF Lists
<1>2. Removed(l, b).numBytes = [l.numBytes EXCEPT ![b] = 0]
  BY RemovedFields DEF RemovedFieldsAre
<1>3. \A c \in Ids : Removed(l, b).numBytes[c] = 0 \/ Removed(l, b).numBytes[c] = l.numBytes[c]
  BY <1>1, <1>2
<1> QED
  BY <1>3, WholeZero DEF PlayqWhole

LEMMA EnqueuedWhole ==
    ASSUME NEW l \in Lists(Nat), NEW x \in Nat, CanEnqueue(l), PlayqWhole(l), Whole(x)
    PROVE  PlayqWhole(Enqueued(l, x)) /\ Enqueued(l, x) \in Lists(Nat) /\ l.avail \in Ids
<1>1. l.numBytes \in [Ids -> Nat] /\ l.avail \in Ids
  BY DEF Lists, CanEnqueue
<1>2. Enqueued(l, x) \in Lists(Nat) /\ Enqueued(l, x).numBytes = [l.numBytes EXCEPT ![l.avail] = x]
  <2>1. PICK b \in Ids : l.avail = b
    BY <1>1
  <2>2. Enqueued(l, x) \in Lists(Nat) /\ EnqueuedFieldsAre(l, x, b)
    BY <2>1, EnqueuedFields
  <2> QED
    BY <2>1, <2>2 DEF EnqueuedFieldsAre
<1>3. \A c \in Ids : Enqueued(l, x).numBytes[c] = x \/ Enqueued(l, x).numBytes[c] = l.numBytes[c]
  BY <1>1, <1>2
<1> QED
  BY <1>1, <1>2, <1>3 DEF PlayqWhole

LEMMA PlayqIsList == VoiceOK => playq \in Lists(Nat) /\ playq.numBytes \in [Ids -> Nat]
  BY DEF VoiceOK, AccountOK, Accounted, Lists

\* A buffer leaves the source.
LEMMA UnqueuedWhole ==
    ASSUME NEW s \in [queue : Seq(QueueNode(Nat)), played : Nat, state : States],
           s.queue # <<>>, SourceWhole(s)
    PROVE  SourceWhole(Unqueued(s)) /\ Head(s.queue).nodeId \in Ids
<1>1. PICK q \in Seq(QueueNode(Nat)), y \in Nat, z \in States : s = [queue |-> q, played |-> y, state |-> z]
  OBVIOUS
<1>2. s.queue = q /\ s.played = y /\ q # <<>>
  BY <1>1
<1>3. PICK n \in Nat : n = Len(q)
  OBVIOUS
<1>4. /\ Tail(q) \in Seq(QueueNode(Nat)) /\ Len(Tail(q)) = n - 1
      /\ \A i \in 1 .. n - 1 : Tail(q)[i] = q[i + 1]
  BY <1>2, <1>3, HeadTailProperties
<1>5. Head(q) = q[1] /\ 1 \in 1 .. n
  BY <1>2, <1>3, TailIsWithout
<1>6. \A i \in 1 .. n : Whole(q[i].numBytes)
  BY <1>2, <1>3 DEF SourceWhole
<1>7. ASSUME NEW i \in 1 .. Len(Tail(q)) PROVE Whole(Tail(q)[i].numBytes)
  <2>1. i \in 1 .. n - 1 /\ i + 1 \in 1 .. n
    BY <1>3, <1>4
  <2> QED
    BY <1>4, <1>6, <2>1
<1>8. Whole(y - Head(q).numBytes)
  BY <1>2, <1>5, <1>6, WholeSums DEF SourceWhole
<1>9. \/ Unqueued(s) = [queue |-> Tail(q), played |-> y - Head(q).numBytes, state |-> z]
      \/ Unqueued(s) = [queue |-> Tail(q), played |-> 0, state |-> z]
  <2>1. PICK w \in Int : w = IF Sounding(s) THEN s.played - Head(s.queue).numBytes ELSE 0
    <3>1. q[1] \in QueueNode(Nat) /\ s.played \in Nat
      BY <1>2, <1>3, <1>5
    <3>2. Head(s.queue).numBytes \in Nat
      BY <1>2, <1>5, <3>1 DEF QueueNode
    <3> QED
      BY <3>1, <3>2
  <2>2. Unqueued(s) = [s EXCEPT !.queue = Tail(@), !.played = w]
    BY <2>1 DEF Unqueued
  <2>3. Unqueued(s) = [queue |-> Tail(q), played |-> w, state |-> z]
    BY <1>1, <1>2, <2>2
  <2>4. w = y - Head(q).numBytes \/ w = 0
    BY <1>2, <2>1
  <2> QED
    BY <2>3, <2>4
<1>10. SourceWhole(Unqueued(s))
  <2>1. Unqueued(s).queue = Tail(q)
        /\ (Unqueued(s).played = y - Head(q).numBytes \/ Unqueued(s).played = 0)
    BY <1>9
  <2>2. Whole(Unqueued(s).played)
    BY <1>8, <2>1, WholeZero
  <2> QED
    BY <1>7, <2>1, <2>2 DEF SourceWhole
<1>11. Head(s.queue).nodeId \in Ids
  <2>1. q[1] \in QueueNode(Nat)
    BY <1>3, <1>5
  <2> QED
    BY <1>2, <1>5, <2>1 DEF QueueNode
<1> QED
  BY <1>10, <1>11

\* A source with the same buffers, that goes on or starts over
LEMMA SourceWholeKept ==
    ASSUME NEW s, NEW t, SourceWhole(s), t.queue = s.queue, t.played = s.played \/ Whole(t.played)
    PROVE  SourceWhole(t)
  BY DEF SourceWhole

LEMMA PlayedWhole == VoiceOK /\ SourceWhole(source) => SourceWhole(Played(source))
<1> SUFFICES ASSUME VoiceOK, SourceWhole(source) PROVE SourceWhole(Played(source))
  OBVIOUS
<1>1. Played(source).queue = source.queue
  BY PlayedKeeps DEF VoiceOK
<1>2. Played(source).played = source.played \/ Played(source).played = 0
  BY DEF Played, VoiceOK, SourceOK
<1> QED
  BY <1>1, <1>2, WholeZero, SourceWholeKept

LEMMA AppendedWhole ==
    ASSUME NEW s, SourceWhole(s), s.queue \in Seq(QueueNode(Nat)),
           NEW e \in QueueNode(Nat), Whole(e.numBytes),
           NEW t, t.queue = Append(s.queue, e), t.played = s.played
    PROVE  SourceWhole(t)
<1>1. PICK q \in Seq(QueueNode(Nat)) : q = s.queue
  OBVIOUS
<1>2. Len(q) \in Nat
  OBVIOUS
<1>3. /\ Len(Append(q, e)) = Len(q) + 1 /\ Append(q, e)[Len(q) + 1] = e
      /\ \A i \in 1 .. Len(q) : Append(q, e)[i] = q[i]
  BY AppendProperties
<1>4. ASSUME NEW i \in 1 .. Len(Append(q, e)) PROVE Whole(Append(q, e)[i].numBytes)
  <2>1. i \in 1 .. Len(q) \/ i = Len(q) + 1
    BY <1>2, <1>3
  <2> QED
    BY <1>1, <1>3, <2>1 DEF SourceWhole
<1> QED
  BY <1>1, <1>4 DEF SourceWhole

\* _playq_removeNode() takes whole frames out of the account.
LEMMA ForgottenWhole ==
    ASSUME NEW b \in Ids
    PROVE  VoiceOK /\ VoiceWhole /\ Forgotten(b) => PlayqWhole(playq') /\ Whole(_queued_total_bytes')
<1> SUFFICES ASSUME VoiceOK, VoiceWhole, Forgotten(b) PROVE PlayqWhole(playq') /\ Whole(_queued_total_bytes')
  OBVIOUS
<1>1. playq' = Removed(playq, b) /\ _queued_total_bytes' = _queued_total_bytes - playq.numBytes[b]
  BY DEF Forgotten
<1>2. PlayqWhole(Removed(playq, b))
  BY PlayqIsList, RemovedWhole DEF VoiceWhole
<1>3. Whole(_queued_total_bytes - playq.numBytes[b])
  BY WholeSums DEF VoiceWhole, PlayqWhole
<1> QED
  BY <1>1, <1>2, <1>3

LEMMA UnqueueWhole == VoiceOK /\ VoiceWhole /\ CallWhole /\ Unqueue => VoiceWhole' /\ CallWhole'
<1> SUFFICES ASSUME VoiceOK, VoiceWhole, CallWhole, Unqueue PROVE VoiceWhole' /\ CallWhole'
  OBVIOUS
<1>1. CallWhole' /\ Whole(index')
  BY DEF Unqueue, CallWhole, VoiceWhole
<1>2. source \in [queue : Seq(QueueNode(Nat)), played : Nat, state : States] /\ source.queue # <<>>
  <2>1. source \in [queue : Seq(QueueNode(Nat)), played : Nat, state : States]
        /\ processed \in 1 .. Len(source.queue)
    BY DEF VoiceOK, SourceOK, Unqueue
  <2>2. Len(source.queue) # 0
    BY <2>1
  <2> QED
    BY <2>1, <2>2, EmptySeq
<1>3. SourceWhole(Unqueued(source)) /\ Head(source.queue).nodeId \in Ids
  BY <1>2, UnqueuedWhole DEF VoiceWhole
<1>4. PICK b \in Ids : b = Head(source.queue).nodeId
  BY <1>3
<1>5. source' = Unqueued(source) \/ source' = source
  BY DEF Unqueue
<1>6. Forgotten(b) \/ UNCHANGED <<playq, _queued_total_bytes>>
  BY <1>4 DEF Unqueue
<1>7. PlayqWhole(playq') /\ Whole(_queued_total_bytes')
  BY <1>6, ForgottenWhole DEF VoiceWhole
<1>8. SourceWhole(source')
  BY <1>3, <1>5 DEF VoiceWhole
<1> QED
  BY <1>1, <1>7, <1>8 DEF VoiceWhole

\* What is entered and answered from the measured offset is whole.
LEMMA OffsetWhole == VoiceOK /\ VoiceWhole /\ CallWhole /\ GetOffset => VoiceWhole' /\ CallWhole'
<1> SUFFICES ASSUME VoiceOK, VoiceWhole, CallWhole, GetOffset PROVE VoiceWhole' /\ CallWhole'
  OBVIOUS
<1>1. pc = "offset" /\ size' = size /\ source' = source
  BY DEF GetOffset, local
<1>2. Whole(size') /\ SourceWhole(source')
  BY <1>1 DEF CallWhole, VoiceWhole
<1> DEFINE left == _queued_total_bytes - Offset(source)
           queued == IF left >= 0 THEN left ELSE 0
<1>3. Whole(queued)
  <2>1. Whole(Offset(source))
    BY WholeZero DEF Offset, VoiceWhole, SourceWhole
  <2>2. Whole(left)
    BY <2>1, WholeSums DEF VoiceWhole
  <2> HIDE DEF left
  <2> QED
    BY <2>2, WholeZero
<1>4. PICK u : u = queued
  OBVIOUS
<1> HIDE DEF queued, left
<1>5. ASSUME ALGetPosition(u) PROVE VoiceWhole' /\ CallWhole'
  <2>1. UNCHANGED <<playq, _queued_total_bytes, index>> /\ reply' = [err |-> FALSE, bytes |-> u + index]
    BY <1>5 DEF ALGetPosition, Return, voice
  <2>2. Whole(u + index)
    BY <1>3, <1>4, WholeSums DEF VoiceWhole
  <2>3. reply'.bytes = u + index
    BY <2>1
  <2> QED
    BY <1>2, <2>1, <2>2, <2>3 DEF VoiceWhole, CallWhole
<1>6. ASSUME ALLockBuffer(u) PROVE VoiceWhole' /\ CallWhole'
  <2>1. PICK f : f = IF u = 0 /\ index = 0 THEN QUARTER ELSE index
    OBVIOUS
  <2>2. Whole(f) /\ Whole(buffersize) /\ Whole(buffersize - f)
    BY <2>1, WholeSizes, WholeSums DEF VoiceWhole
  <2>3. Whole(Granted(size, f))
    BY <2>2 DEF Granted, Smaller, CallWhole
  <2>4. /\ index' = f /\ UNCHANGED <<playq, _queued_total_bytes>>
        /\ reply' = [err |-> FALSE, bytes |-> Granted(size, f)]
    BY <1>6, <2>1 DEF ALLockBuffer, Return
  <2>5. reply'.bytes = Granted(size, f)
    BY <2>4
  <2> QED
    BY <1>2, <2>2, <2>3, <2>4, <2>5 DEF VoiceWhole, CallWhole
<1>7. ASSUME call = "unlock", ALUnlockBuffer(u) PROVE VoiceWhole' /\ CallWhole'
  <2>1. PICK x \in Nat : x = index + size
    <3>1. index + size \in 1 .. buffersize
      BY <1>1, <1>7 DEF VoiceOK, RoomOK
    <3> QED
      BY <3>1, VoiceAssumption
  <2>2. Whole(x)
    BY <2>1, WholeSums DEF VoiceWhole, CallWhole
  <2>3. Whole(index')
    <3>1. index' = x \/ index' = 0
      BY <1>7, <2>1 DEF ALUnlockBuffer
    <3> QED
      BY <2>2, <3>1, WholeZero
  <2>4. Whole(reply'.bytes)
    <3>1. reply' = reply \/ reply' = [err |-> FALSE, bytes |-> 0] \/ reply' = [err |-> TRUE, bytes |-> 0]
      BY <1>7 DEF ALUnlockBuffer, Return
    <3>2. reply'.bytes = reply.bytes \/ reply'.bytes = 0
      BY <3>1
    <3> QED
      BY <3>2, WholeZero DEF CallWhole
  <2>5. PlayqWhole(playq') /\ Whole(_queued_total_bytes')
    <3>1. \/ UNCHANGED <<playq, _queued_total_bytes>>
          \/ /\ CanEnqueue(playq) /\ playq' = Enqueued(playq, x)
             /\ _queued_total_bytes' = _queued_total_bytes + x
          \/ /\ CanEnqueue(playq) /\ playq' = Removed(Enqueued(playq, x), playq.avail)
             /\ UNCHANGED _queued_total_bytes
      BY <1>7, <2>1 DEF ALUnlockBuffer, Accumulates
    <3>2. CanEnqueue(playq) => /\ PlayqWhole(Enqueued(playq, x)) /\ Enqueued(playq, x) \in Lists(Nat)
                               /\ playq.avail \in Ids
      BY <2>2, PlayqIsList, EnqueuedWhole DEF VoiceWhole
    <3>3. CanEnqueue(playq) => PlayqWhole(Removed(Enqueued(playq, x), playq.avail))
      BY <3>2, RemovedWhole
    <3>4. Whole(_queued_total_bytes + x)
      BY <2>2, WholeSums DEF VoiceWhole
    <3> QED
      BY <3>1, <3>2, <3>3, <3>4 DEF VoiceWhole
  <2> QED
    BY <1>2, <2>3, <2>4, <2>5 DEF VoiceWhole, CallWhole
<1>8. ASSUME Unprocessed, UNCHANGED voice PROVE VoiceWhole' /\ CallWhole'
  <2>1. reply'.bytes = 0
    BY <1>8 DEF Unprocessed, Return
  <2> QED
    BY <1>2, <1>8, <2>1, WholeZero DEF voice, VoiceWhole, CallWhole
<1> QED
  BY <1>4, <1>5, <1>6, <1>7, <1>8 DEF GetOffset, queued, left

\* What is handed over has been entered.
LEMMA QueueBufferWhole == VoiceOK /\ VoiceWhole /\ CallWhole /\ QueueBuffer => VoiceWhole' /\ CallWhole'
<1> SUFFICES ASSUME VoiceOK, VoiceWhole, CallWhole, QueueBuffer PROVE VoiceWhole' /\ CallWhole'
  OBVIOUS
<1>1. index' = index /\ size' = size
  BY DEF QueueBuffer, local
<1>2. reply'.bytes = reply.bytes \/ reply'.bytes = 0
  <2>1. reply' = reply \/ reply' = [err |-> TRUE, bytes |-> 0]
    BY DEF QueueBuffer, Return
  <2> QED
    BY <2>1
<1>3. CallWhole' /\ Whole(index')
  BY <1>1, <1>2, WholeZero DEF CallWhole, VoiceWhole
<1>4. PICK b \in Ids : b = playq.queued
  <2>1. PICK q, p : Accounted(playq, _queued_total_bytes, q, p) /\ q # <<>>
    BY DEF VoiceOK, AccountOK, QueueBuffer
  <2>2. q \in Seq(Ids) /\ Final(q) = playq.queued
    BY <2>1 DEF Accounted, Represents, Threads, Shared
  <2>3. Len(q) \in 1 .. Len(q) /\ q[Len(q)] \in Ids
    <3>1. Len(q) \in Nat /\ Len(q) # 0
      BY <2>1, <2>2, EmptySeq
    <3>2. Len(q) \in 1 .. Len(q)
      BY <3>1
    <3> QED
      BY <2>2, <3>2
  <2> QED
    BY <2>1, <2>2, <2>3 DEF Final
<1>5. CASE source' = [source EXCEPT !.queue = Append(@, Node(playq, b))] /\ UNCHANGED <<playq, _queued_total_bytes>>
  <2>1. source.queue \in Seq(QueueNode(Nat))
    BY DEF VoiceOK, SourceOK
  <2>2. PICK e \in QueueNode(Nat) : e = Node(playq, b) /\ e.numBytes = playq.numBytes[b]
    <3>1. PICK n \in Nat : n = playq.numBytes[b]
      BY PlayqIsList
    <3>2. Node(playq, b) = [nodeId |-> b, numBytes |-> n]
      BY <3>1 DEF Node
    <3> QED
      BY <3>1, <3>2 DEF QueueNode
  <2>3. source'.queue = Append(source.queue, e) /\ source'.played = source.played
    BY <1>5, <2>2 DEF VoiceOK, SourceOK
  <2>4. Whole(e.numBytes) /\ SourceWhole(source)
    BY <2>2 DEF VoiceWhole, PlayqWhole
  <2>5. SourceWhole(source')
    BY <2>1, <2>3, <2>4, AppendedWhole
  <2> QED
    BY <1>3, <1>5, <2>5 DEF VoiceWhole
<1>6. CASE Forgotten(b) /\ UNCHANGED source
  BY <1>3, <1>6, ForgottenWhole DEF VoiceWhole
<1> QED
  BY <1>4, <1>5, <1>6 DEF QueueBuffer

LEMMA OperateWhole == VoiceOK /\ VoiceWhole /\ CallWhole /\ Operate => VoiceWhole' /\ CallWhole'
<1> SUFFICES ASSUME VoiceOK, VoiceWhole, CallWhole, Operate PROVE VoiceWhole' /\ CallWhole'
  OBVIOUS
<1>1. CASE GetProcessed
  <2>1. UNCHANGED <<playq, _queued_total_bytes, index, source, size>>
    BY <1>1 DEF GetProcessed, voice
  <2>2. reply'.bytes = reply.bytes \/ reply'.bytes = 0
    BY <1>1 DEF GetProcessed, Unprocessed, Return
  <2> QED
    BY <2>1, <2>2, WholeZero DEF VoiceWhole, CallWhole
<1>2. CASE Unqueue
  BY <1>2, UnqueueWhole
<1>3. CASE GetOffset
  BY <1>3, OffsetWhole
<1>4. CASE QueueBuffer
  BY <1>4, QueueBufferWhole
<1>5. CASE GetState \/ Play
  <2>1. UNCHANGED <<playq, _queued_total_bytes, index, size>> /\ (source' = source \/ source' = Played(source))
    BY <1>5 DEF GetState, Play, voice, local
  <2>2. reply'.bytes = reply.bytes \/ reply'.bytes = 0
    <3>1. reply' = reply \/ reply' = [err |-> FALSE, bytes |-> 0] \/ reply' = [err |-> TRUE, bytes |-> 0]
      BY <1>5 DEF GetState, Play, Return
    <3> QED
      BY <3>1
  <2>3. SourceWhole(source')
    BY <2>1, PlayedWhole DEF VoiceWhole
  <2> QED
    BY <2>1, <2>2, <2>3, WholeZero DEF VoiceWhole, CallWhole
<1> QED
  BY <1>1, <1>2, <1>3, <1>4, <1>5 DEF Operate

LEMMA CreatedWhole == PlayqWhole(Created) /\ SourceWhole(NewSource)
<1>1. Created.numBytes = [b \in Ids |-> 0]
  BY DEF Created
<1>2. NewSource.queue = <<>> /\ NewSource.played = 0 /\ Len(<<>>) = 0
  BY EmptySeq DEF NewSource
<1> QED
  BY <1>1, <1>2, WholeZero DEF PlayqWhole, SourceWhole

\* The samples taken out are half of a number of whole frames, or all of them.
LEMMA FinishWhole ==
    ASSUME NEW u \in Nat
    PROVE  /\ VoiceOK /\ FramesOK /\ Even(u) /\ Finish(u) /\ UNCHANGED <<playq, _queued_total_bytes, index, source>>
           /\ reply' = NoReply /\ (copy' = copy \/ copy' = NoCopy)
           => FramesOK'
<1> SUFFICES ASSUME VoiceOK, FramesOK, Even(u), Finish(u), UNCHANGED <<playq, _queued_total_bytes, index, source>>,
                    reply' = NoReply, copy' = copy \/ copy' = NoCopy
             PROVE  FramesOK'
  OBVIOUS
<1>1. VoiceWhole'
  BY DEF FramesOK, VoiceWhole
<1>2. CallWhole'
  <2>1. size' = 0 /\ reply'.bytes = 0
    BY DEF Finish, Flushed, NoReply
  <2> QED
    BY <2>1, WholeZero DEF CallWhole
<1>3. CopyWhole'
  <2>1. NoCopy.left = 0 /\ NoCopy.used = 0
    BY DEF NoCopy
  <2> QED
    BY <2>1, WholeZero DEF FramesOK, CopyWhole
<1>4. SamplesOK'
  <2>1. PICK s \in Nat, m \in Nat : s = samples_buffer_idx /\ m = channelsSampleRateHz /\ s <= m
    BY SpeakerAssumption DEF FramesOK, SamplesOK, VoiceOK, CopyOK
  <2>2. samples_buffer_idx' = s - u /\ s - u <= m
    BY <2>1 DEF Finish
  <2>3. Even(s - u)
    BY <2>1, EvenDifference DEF FramesOK, SamplesOK
  <2> QED
    BY <2>1, <2>2, <2>3 DEF SamplesOK
<1> QED
  BY <1>1, <1>2, <1>3, <1>4 DEF FramesOK

\* A call for whole frames
LEMMA CallsWhole ==
    ASSUME NEW c, NEW n
    PROVE  /\ FramesOK /\ Whole(n) /\ Call(c, n) /\ UNCHANGED <<playq, _queued_total_bytes, index, source>>
           /\ reply' = NoReply /\ CopyWhole' /\ UNCHANGED samples_buffer_idx
           => FramesOK'
<1> SUFFICES ASSUME FramesOK, Whole(n), Call(c, n), UNCHANGED <<playq, _queued_total_bytes, index, source>>,
                    reply' = NoReply, CopyWhole', UNCHANGED samples_buffer_idx
             PROVE  FramesOK'
  OBVIOUS
<1>1. size' = n /\ reply'.bytes = 0
  BY DEF Call, NoReply
<1> QED
  BY <1>1, WholeZero DEF FramesOK, VoiceWhole, CallWhole, SamplesOK

LEMMA PadWhole ==
    /\ VoiceOK /\ FramesOK /\ (PadPosition \/ PadLocked \/ PadUnlocked) /\ reply' = NoReply
    /\ UNCHANGED <<playq, _queued_total_bytes, index, source>>
    => FramesOK'
<1> SUFFICES ASSUME VoiceOK, FramesOK, PadPosition \/ PadLocked \/ PadUnlocked, reply' = NoReply,
                    UNCHANGED <<playq, _queued_total_bytes, index, source>>
             PROVE  FramesOK'
  OBVIOUS
<1>1. copy' = copy /\ CopyWhole'
  BY DEF FramesOK, CopyWhole, PadPosition, PadLocked, PadUnlocked
<1>2. CASE Finish(0)
  BY <1>1, <1>2, WholeZero, FinishWhole
<1>3. ASSUME NEW c, NEW n, Whole(n), Call(c, n), UNCHANGED samples_buffer_idx PROVE FramesOK'
  BY <1>1, <1>3, CallsWhole
<1>4. CASE PadPosition
  <2>1. PICK y \in Nat, m \in Nat : y = reply.bytes /\ m = bufferSizeIdealMax /\ Whole(m - y)
    <3>1. reply.bytes \in Nat /\ bufferSizeIdealMax \in Nat
      BY VoiceAssumption DEF VoiceOK, RoomOK, bufferSizeIdealMax, bufferTotalSize
    <3>2. Whole(bufferSizeIdealMax - reply.bytes)
      BY WholeSizes, WholeSums DEF FramesOK, CallWhole
    <3> QED
      BY <3>1, <3>2
  <2>2. ASSUME y < m PROVE Whole(((m - y) \div 2) * 2)
    <3>1. PICK n \in Nat : n = m - y
      BY <2>2
    <3>2. (n \div 2) * 2 = n
      BY <2>1, <3>1, HalfIsEven
    <3> QED
      BY <2>1, <3>1, <3>2
  <2>3. \/ Finish(0)
        \/ y < m /\ Call("lock", ((m - y) \div 2) * 2) /\ UNCHANGED samples_buffer_idx
    BY <1>4, <2>1 DEF PadPosition
  <2>4. CASE y < m /\ Call("lock", ((m - y) \div 2) * 2) /\ UNCHANGED samples_buffer_idx
    BY <1>3, <2>2, <2>4
  <2> QED
    BY <1>2, <2>3, <2>4
<1>5. CASE PadLocked
  <2>1. Finish(0) \/ (Call("unlock", reply.bytes) /\ UNCHANGED samples_buffer_idx)
    BY <1>5 DEF PadLocked
  <2>2. Whole(reply.bytes)
    BY DEF FramesOK, CallWhole
  <2> QED
    BY <1>2, <1>3, <2>1, <2>2
<1>6. CASE PadUnlocked
  BY <1>2, <1>6 DEF PadUnlocked
<1> QED
  BY <1>4, <1>5, <1>6

\* What is free, in bytes, is a number of whole frames.
LEMMA SubmitPositionWhole ==
    /\ VoiceOK /\ FramesOK /\ SubmitPosition /\ reply' = NoReply
    /\ UNCHANGED <<playq, _queued_total_bytes, index, source>>
    => FramesOK'
<1> SUFFICES ASSUME VoiceOK, FramesOK, SubmitPosition, reply' = NoReply,
                    UNCHANGED <<playq, _queued_total_bytes, index, source>>
             PROVE  FramesOK'
  OBVIOUS
<1>1. PICK f \in Nat : f = (bufferTotalSize - reply.bytes) % ULONG /\ Whole(f)
  <2>1. bufferTotalSize - reply.bytes \in Int /\ ULONG \in Nat \ {0}
    BY VoiceAssumption DEF VoiceOK, RoomOK, ULONG, bufferTotalSize
  <2>2. Whole(bufferTotalSize - reply.bytes) /\ Whole(ULONG)
    BY WholeSizes, WholeSums DEF FramesOK, CallWhole, bufferTotalSize
  <2>3. PICK a \in Int, m \in Nat \ {0} : a = bufferTotalSize - reply.bytes /\ m = ULONG /\ Whole(a) /\ Whole(m)
    BY <2>1, <2>2
  <2>4. a % m \in Nat /\ Whole(a % m)
    BY <2>3, Remainder, WholeRemainder
  <2> HIDE DEF ULONG
  <2> QED
    BY <2>3, <2>4
<1>2. PICK s \in Nat : s = samples_buffer_idx /\ Even(s)
  BY DEF VoiceOK, CopyOK, FramesOK, SamplesOK
<1>3. PICK u \in Nat, b \in Nat :
          /\ u = IF s * 2 <= f THEN s ELSE f \div 2
          /\ b = IF s * 2 <= f THEN s * 2 ELSE f
  <2>1. f \div 2 \in Nat
    OBVIOUS
  <2> QED
    BY <2>1
<1>4. Even(u) /\ Whole(b)
  <2>1. Even(f \div 2) /\ Whole(s * 2)
    BY <1>1, <1>2, HalfIsEven, DoubleIsWhole
  <2> QED
    BY <1>1, <1>2, <1>3, <2>1
<1>5. IF b = 0 THEN Finish(u) /\ UNCHANGED copy
      ELSE /\ Call("lock", b)
           /\ copy' = [NoCopy EXCEPT !.size = b, !.left = b, !.used = u]
           /\ UNCHANGED samples_buffer_idx
  <2> HIDE DEF ULONG
  <2> QED
    BY <1>1, <1>2, <1>3 DEF SubmitPosition
<1>6. CASE Finish(u) /\ UNCHANGED copy
  BY <1>4, <1>6, FinishWhole
<1>7. CASE /\ Call("lock", b) /\ UNCHANGED samples_buffer_idx
           /\ copy' = [NoCopy EXCEPT !.size = b, !.left = b, !.used = u]
  <2>1. copy' = [size |-> b, left |-> b, idx |-> 0, used |-> u, turns |-> 0]
    BY <1>7 DEF NoCopy
  <2>2. CopyWhole'
    BY <1>4, <2>1 DEF CopyWhole
  <2> QED
    BY <1>4, <1>7, <2>2, CallsWhole
<1> QED
  BY <1>5, <1>6, <1>7

LEMMA SubmitLockedWhole ==
    /\ VoiceOK /\ FramesOK /\ SubmitLocked /\ reply' = NoReply
    /\ UNCHANGED <<playq, _queued_total_bytes, index, source>>
    => FramesOK'
<1> SUFFICES ASSUME VoiceOK, FramesOK, SubmitLocked, reply' = NoReply,
                    UNCHANGED <<playq, _queued_total_bytes, index, source>>
             PROVE  FramesOK'
  OBVIOUS
<1>1. copy.used \in Nat /\ Even(copy.used) /\ Whole(copy.left)
  BY DEF VoiceOK, CopyOK, FramesOK, CopyWhole
<1>2. CASE Finish(copy.used) /\ copy' = NoCopy
  BY <1>1, <1>2, FinishWhole
<1>3. CASE /\ Call("unlock", Smaller(reply.bytes, maxSpeakerBytes)) /\ UNCHANGED samples_buffer_idx
           /\ (copy' = copy \/ copy' = [copy EXCEPT !.size = maxSpeakerBytes])
  <2>1. Whole(Smaller(reply.bytes, maxSpeakerBytes))
    BY WholeSizes DEF Smaller, FramesOK, CallWhole
  <2>2. copy'.left = copy.left /\ copy'.used = copy.used
    BY <1>3 DEF VoiceOK, CopyOK
  <2>3. CopyWhole'
    BY <1>1, <2>2 DEF CopyWhole
  <2> QED
    BY <1>3, <2>1, <2>3, CallsWhole
<1> QED
  BY <1>2, <1>3 DEF SubmitLocked

LEMMA SubmitUnlockedWhole ==
    /\ VoiceOK /\ FramesOK /\ SubmitUnlocked /\ reply' = NoReply
    /\ UNCHANGED <<playq, _queued_total_bytes, index, source>>
    => FramesOK'
<1> SUFFICES ASSUME VoiceOK, FramesOK, SubmitUnlocked, reply' = NoReply,
                    UNCHANGED <<playq, _queued_total_bytes, index, source>>
             PROVE  FramesOK'
  OBVIOUS
<1>1. PICK s \in Nat, l \in Nat, i \in Nat, u \in Nat, k \in 0 .. 1 :
          copy = [size |-> s, left |-> l, idx |-> i, used |-> u, turns |-> k]
  BY DEF VoiceOK, CopyOK
<1>2. Even(u) /\ Whole(l) /\ Whole(l - size)
  BY <1>1, WholeSums DEF FramesOK, CopyWhole, CallWhole
<1>3. PICK n \in Nat : n = size
  BY DEF VoiceOK, RoomOK
<1>4. \/ Finish(u) /\ copy' = NoCopy
      \/ /\ Call("lock", l - n) /\ UNCHANGED samples_buffer_idx
         /\ copy' = [size |-> s, left |-> l - n, idx |-> i + n, used |-> u, turns |-> k + 1]
  BY <1>1, <1>3 DEF SubmitUnlocked
<1>5. CASE Finish(u) /\ copy' = NoCopy
  BY <1>2, <1>5, FinishWhole
<1>6. CASE /\ Call("lock", l - n) /\ UNCHANGED samples_buffer_idx
           /\ copy' = [size |-> s, left |-> l - n, idx |-> i + n, used |-> u, turns |-> k + 1]
  <2>1. copy'.left = l - n /\ copy'.used = u
    BY <1>6
  <2>2. CopyWhole' /\ Whole(l - n)
    BY <1>2, <1>3, <2>1 DEF CopyWhole
  <2> QED
    BY <1>6, <2>2, CallsWhole
<1> QED
  BY <1>4, <1>5, <1>6

\* From an even index, both samples of every frame that the one test admits fit.
LEMMA SliceSamples == VoiceOK /\ FramesOK /\ Slice => SamplesOK'
<1> SUFFICES ASSUME VoiceOK, FramesOK, Slice PROVE SamplesOK'
  OBVIOUS
<1>1. PICK s \in Nat, m \in Nat : s = samples_buffer_idx /\ m = channelsSampleRateHz /\ s <= m /\ Even(s) /\ Even(m)
  BY SpeakerAssumption, WholeSizes DEF VoiceOK, CopyOK, FramesOK, SamplesOK
<1>2. PICK i \in Int, j \in Int : s = 2 * i /\ m = 2 * j
  BY <1>1 DEF Even
<1>3. PICK n \in Nat : samples_buffer_idx' = Updated(s, n) \/ samples_buffer_idx' = s
  <2>1. SliceFrames \cup {0} \subseteq Nat
    BY SpeakerAssumption
  <2>2. PICK n \in SliceFrames \cup {0} :
            samples_buffer_idx' = Updated(samples_buffer_idx, n) \/ samples_buffer_idx' = samples_buffer_idx
    BY DEF Slice
  <2> QED
    BY <1>1, <2>1, <2>2
<1>4. PICK r \in Nat : r = (IF s < m THEN (m - s + 1) \div 2 ELSE 0) /\ s + 2 * r <= m
  <2>1. CASE s < m
    <3>1. (m - s + 1) \div 2 = j - i /\ j - i \in Nat
      BY <1>2, <2>1
    <3>2. s + 2 * (j - i) = m
      BY <1>2
    <3> QED
      BY <2>1, <3>1, <3>2
  <2>2. CASE ~(s < m)
    BY <1>1, <2>2
  <2> QED
    BY <2>1, <2>2
<1>5. PICK w \in Nat : w = Smaller(n, r) /\ w <= r
  BY DEF Smaller
<1>6. Updated(s, n) = s + 2 * w
  BY <1>1, <1>4, <1>5 DEF Updated
<1>7. s + 2 * w <= m /\ s + 2 * w = 2 * (i + w) /\ i + w \in Int
  BY <1>2, <1>4, <1>5
<1>8. Even(s + 2 * w)
  BY <1>7 DEF Even
<1> QED
  BY <1>1, <1>3, <1>6, <1>7, <1>8 DEF SamplesOK

LEMMA FramesStep == VoiceOK /\ FramesOK /\ [Next]_vars => FramesOK'
<1> SUFFICES ASSUME VoiceOK, FramesOK, [Next]_vars PROVE FramesOK'
  OBVIOUS
<1>1. CASE Library
  <2>1. UNCHANGED <<samples_buffer_idx, copy>>
    BY <1>1 DEF Library, speaker
  <2>2. CopyWhole' /\ SamplesOK'
    BY <2>1 DEF FramesOK, CopyWhole, SamplesOK
  <2> QED
    BY <1>1, <2>2, OperateWhole DEF Library, FramesOK
<1>2. CASE Submit
  <2>1. reply' = NoReply /\ UNCHANGED <<playq, _queued_total_bytes, index, source>>
    BY <1>2 DEF Submit, voice
  <2> QED
    BY <1>2, <2>1, PadWhole, SubmitPositionWhole, SubmitLockedWhole, SubmitUnlockedWhole DEF Submit
<1>3. CASE Slice
  <2>1. UNCHANGED <<playq, _queued_total_bytes, index, source, reply, copy>> /\ size' = 0
    BY <1>3 DEF Slice, voice, Call, Flushed
  <2>2. VoiceWhole' /\ CallWhole' /\ CopyWhole'
    BY <2>1, WholeZero DEF FramesOK, VoiceWhole, CallWhole, CopyWhole
  <2> QED
    BY <1>3, <2>2, SliceSamples DEF FramesOK
<1>4. CASE Reinitialize
  <2>1. /\ playq' = Created /\ _queued_total_bytes' = 0 /\ index' = 0 /\ source' = NewSource
        /\ UNCHANGED <<size, reply, copy>>
    BY <1>4 DEF Reinitialize, Available, CreateVoice, local
  <2>2. PlayqWhole(Created) /\ SourceWhole(NewSource)
    BY CreatedWhole
  <2>3. VoiceWhole' /\ CallWhole' /\ CopyWhole'
    BY <2>1, <2>2, WholeZero DEF FramesOK, VoiceWhole, CallWhole, CopyWhole
  <2>4. samples_buffer_idx' \in {samples_buffer_idx, 0, bufferSizeIdealMax}
    BY <1>4 DEF Reinitialize, Available
  <2>5. SamplesOK'
    BY <2>4, WholeZero, WholeSizes, SpeakerAssumption DEF FramesOK, SamplesOK
  <2> QED
    BY <2>3, <2>5 DEF FramesOK
<1>5. CASE Device /\ UNCHANGED <<control, speaker>>
  <2>1. UNCHANGED <<playq, _queued_total_bytes, index, size, reply, samples_buffer_idx, copy>>
    BY <1>5 DEF Device, voice, local, speaker
  <2>2. source'.queue = source.queue /\ (source'.played = source.played + Period \/ source'.played = 0)
    BY <1>5 DEF Device, VoiceOK, SourceOK
  <2>3. Whole(source'.played)
    BY <2>2, WholeZero, WholeSizes, WholeSums DEF FramesOK, VoiceWhole, SourceWhole
  <2>4. SourceWhole(source')
    BY <2>2, <2>3, SourceWholeKept DEF FramesOK, VoiceWhole
  <2> QED
    BY <2>1, <2>4 DEF FramesOK, VoiceWhole, CallWhole, CopyWhole, SamplesOK
<1>6. CASE PauseAudio
  <2>1. UNCHANGED <<playq, _queued_total_bytes, index, size, reply, samples_buffer_idx, copy>>
    BY <1>6 DEF PauseAudio, Idle, voice, local, speaker
  <2>2. SourceWhole(source')
    <3>1. CASE source' = Played(source)
      BY <3>1, PlayedWhole DEF FramesOK, VoiceWhole
    <3>2. CASE source' = source
      BY <3>2 DEF FramesOK, VoiceWhole
    <3>3. CASE source' = [source EXCEPT !.state = "paused"]
      <4>1. source'.queue = source.queue /\ source'.played = source.played
        BY <3>3 DEF VoiceOK, SourceOK
      <4> QED
        BY <4>1, SourceWholeKept DEF FramesOK, VoiceWhole
    <3> QED
      BY <1>6, <3>1, <3>2, <3>3 DEF PauseAudio, openal_systemPause, openal_systemResume
  <2> QED
    BY <2>1, <2>2 DEF FramesOK, VoiceWhole, CallWhole, CopyWhole, SamplesOK
<1>7. CASE ChangeAudio \/ ChangeSpeed \/ UNCHANGED vars
  <2>1. UNCHANGED <<playq, _queued_total_bytes, index, source, size, reply, copy>>
    BY <1>7 DEF ChangeAudio, ChangeSpeed, Idle, vars, voicevars, voice, local, speaker
  <2>2. samples_buffer_idx' \in {samples_buffer_idx, 0}
    BY <1>7 DEF ChangeAudio, ChangeSpeed, vars, speaker
  <2>3. SamplesOK'
    BY <2>2, WholeZero, SpeakerAssumption DEF FramesOK, SamplesOK
  <2> QED
    BY <2>1, <2>3 DEF FramesOK, VoiceWhole, CallWhole, CopyWhole
<1> QED
  BY <1>1, <1>2, <1>3, <1>4, <1>5, <1>6, <1>7 DEF Next, CpuStep

LEMMA FramesInitial == Init => FramesOK
<1> SUFFICES ASSUME Init PROVE FramesOK
  OBVIOUS
<1>1. /\ playq = Created /\ _queued_total_bytes = 0 /\ index = 0 /\ source = NewSource
      /\ size = 0 /\ reply.bytes = 0
  BY DEF Init, VoiceInit, NoReply
<1>2. VoiceWhole /\ CallWhole
  BY <1>1, CreatedWhole, WholeZero DEF VoiceWhole, CallWhole
<1>3. copy.left = 0 /\ copy.used = 0 /\ samples_buffer_idx = bufferSizeIdealMax
  BY DEF Init, NoCopy
<1> QED
  BY <1>2, <1>3, WholeZero, WholeSizes DEF FramesOK, CopyWhole, SamplesOK

LEMMA FramesInvariant == Spec => []FramesOK
  BY VoiceInvariant, FramesInitial, FramesStep, PTL DEF Spec

-----------------------------------------------------------------------------
(* What holds of the voice and the speaker                                  *)

\* All variables keep their types: in particular, unsigned counts never go below zero
\* (soundcore-openal.c, lines 72 to 253; speaker.c, lines 315 to 425).
THEOREM SpeakerTypeCorrect == Spec => []TypeOK
<1>1. VoiceOK => TypeOK
  <2> SUFFICES ASSUME VoiceOK PROVE TypeOK
    OBVIOUS
  <2>1. _queued_total_bytes \in Nat
    BY QueuedBytes DEF VoiceOK
  <2>2. \A b \in Ids : playq.numBytes[b] \in Nat
    BY DEF VoiceOK, AccountOK, Accounted, Lists
  <2>3. /\ source.state \in {"initial", "playing", "paused", "stopped"} /\ source.played \in Nat
        /\ processed \in 0 .. Len(Buffers)
    BY DEF VoiceOK, SourceOK, States
  <2>4. index \in Nat
    BY VoiceAssumption DEF VoiceOK, RoomOK
  <2>5. pc \in Labels \cup {"slice", "outer"} /\ call \in Calls /\ size \in Nat /\ reply.bytes \in Nat
        /\ faults \in 0 .. MaxFaults
    BY DEF VoiceOK, RoomOK
  <2>6. VoiceTypeOK
    BY <2>1, <2>2, <2>3, <2>4, <2>5 DEF VoiceTypeOK
  <2>7. samples_buffer_idx \in Nat /\ copy \in [size : Nat, left : Nat, idx : Nat, used : Nat, turns : 0 .. 1]
    BY DEF VoiceOK, CopyOK
  <2> QED
    BY <2>6, <2>7 DEF TypeOK, VoiceOK, LoopOK
<1> QED
  BY <1>1, VoiceInvariant, PTL

\* speaker_flush() never takes more samples than there are (the assertion of speaker.c,
\* line 500), and the one test of _speaker_update() (lines 190 and 205) is enough for the
\* two samples of a frame: the index is always even, because the room that the voice
\* reports, from what the device has played and whatever failed, is in whole frames.
THEOREM SamplesAreThere == Spec => []SamplesFit
<1>1. VoiceOK /\ FramesOK => SamplesFit
  <2> SUFFICES ASSUME VoiceOK, FramesOK PROVE SamplesFit
    OBVIOUS
  <2>1. PICK s \in Nat : s = samples_buffer_idx /\ Even(s) /\ copy.used <= s /\ s <= channelsSampleRateHz
    BY DEF VoiceOK, CopyOK, FramesOK, SamplesOK
  <2>2. PICK k \in Int : s = 2 * k
    BY <2>1 DEF Even
  <2>3. s % 2 = 0
    BY <2>2
  <2> QED
    BY <2>1, <2>3, SpeakerAssumption DEF SamplesFit
<1> QED
  BY <1>1, VoiceInvariant, FramesInvariant, PTL

\* The account that the voice keeps is that of the source (soundcore-openal.c, lines 72
\* to 253), for every number and size of buffers and however many calls fail.
THEOREM AccountIsTrue == Spec => []QueueMirrorsSource
<1>1. VoiceOK => QueueMirrorsSource
  <2> SUFFICES ASSUME VoiceOK PROVE QueueMirrorsSource
    OBVIOUS
  <2>1. PICK q, p : /\ Accounted(playq, _queued_total_bytes, q, p)
                    /\ \/ pc # "queue" /\ source.queue = NodesOf(playq, q)
                       \/ pc = "queue" /\ q # <<>> /\ source.queue = Without(NodesOf(playq, q), Len(q))
    BY DEF VoiceOK, AccountOK
  <2>2. PICK s \in Seq(QueueNode(Nat)) : s = NodesOf(playq, q)
    BY <2>1, AccountedNodes
  <2>3. /\ q \in Seq(Ids) /\ Len(s) = Len(q) /\ (s = <<>> <=> q = <<>>)
        /\ \A i \in 1 .. Len(q) : s[i].numBytes = playq.numBytes[q[i]]
    BY <2>1, <2>2, AccountedNodes
  <2>4. InPlayNodes(playq) = s
    BY <2>1, <2>2, InPlayNodesAre DEF Accounted
  <2>5. source.queue = IF pc = "queue" THEN Front(s) ELSE s
    <3>1. CASE pc = "queue"
      <4>1. q # <<>> /\ source.queue = Without(s, Len(s))
        BY <2>1, <2>2, <2>3, <3>1
      <4>2. Front(s) = Without(s, Len(s))
        BY <2>3, <4>1, FrontIsWithout
      <4> QED
        BY <3>1, <4>1, <4>2
    <3>2. CASE pc # "queue"
      BY <2>1, <2>2, <3>2
    <3> QED
      BY <3>1, <3>2
  <2>6. _queued_total_bytes = Bytes(s)
    BY <2>1, <2>2 DEF Accounted
  <2>7. \A i \in DOMAIN s : s[i].numBytes > 0
    <3>1. DOMAIN s = 1 .. Len(q)
      BY <2>3
    <3> QED
      BY <2>1, <2>3, <3>1 DEF Accounted
  <2> QED
    BY <2>4, <2>5, <2>6, <2>7 DEF QueueMirrorsSource, InPlayNodes
<1> QED
  BY <1>1, VoiceInvariant, PTL

\* The assertion of ALUnlockBuffer() (line 270) holds for every size of the buffers, in
\* both turns of the copy and at full speed.
THEOREM NeverOverflows == Spec => []OverflowAssertion
<1>1. VoiceOK => OverflowAssertion
  BY VoiceAssumption DEF VoiceOK, RoomOK, OverflowAssertion
<1> QED
  BY <1>1, VoiceInvariant, PTL

\* Only the hand-over makes the queue of the source longer.
LEMMA OnlyHandOver ==
    VoiceOK /\ [Next]_vars /\ Len(source'.queue) > Len(source.queue) => pc = "queue"
<1> SUFFICES ASSUME VoiceOK, [Next]_vars, pc # "queue" PROVE ~(Len(source'.queue) > Len(source.queue))
  OBVIOUS
<1>1. PICK s \in Seq(QueueNode(Nat)), n \in Nat : s = source.queue /\ n = Len(s)
  <2>1. source.queue \in Seq(QueueNode(Nat)) /\ Len(source.queue) \in Nat
    BY DEF VoiceOK, SourceOK
  <2> QED
    BY <2>1
<1>2. CASE source'.queue = source.queue
  BY <1>1, <1>2
<1>3. CASE source' = Unqueued(source) /\ pc = "unqueue"
  <2>1. s # <<>>
    <3>1. processed \in 1 .. Len(s)
      BY <1>1, <1>3 DEF VoiceOK, SourceOK
    <3>2. n # 0
      BY <1>1, <3>1
    <3> QED
      BY <1>1, <3>2, EmptySeq
  <2>2. source'.queue = Tail(s)
    BY <1>1, <1>3 DEF Unqueued, VoiceOK, SourceOK
  <2>3. Len(Tail(s)) = n - 1
    BY <1>1, <2>1, HeadTailProperties
  <2> QED
    BY <1>1, <2>2, <2>3
<1>4. CASE source' = NewSource
  <2>1. Len(source'.queue) = 0
    BY <1>4, EmptySeq DEF NewSource
  <2> QED
    BY <1>1, <2>1
<1>5. CASE Library
  <2>1. source' = source \/ (source' = Unqueued(source) /\ pc = "unqueue") \/ source' = Played(source)
    BY <1>5 DEF Library, Operate, GetProcessed, Unqueue, GetOffset, QueueBuffer, GetState, Play
  <2>2. CASE source' = Played(source)
    BY <1>2, <2>2, PlayedKeeps DEF VoiceOK
  <2> QED
    BY <1>2, <1>3, <2>1, <2>2
<1>6. CASE Device
  BY <1>2, <1>6, DeviceDoes DEF VoiceOK
<1>7. CASE PauseAudio
  <2>1. CASE openal_systemPause
    <3>1. source'.queue = source.queue
      BY <2>1 DEF openal_systemPause, VoiceOK, SourceOK
    <3> QED
      BY <1>2, <3>1
  <2>2. CASE openal_systemResume
    BY <1>2, <2>2, PlayedKeeps DEF openal_systemResume, VoiceOK
  <2> QED
    BY <1>7, <2>1, <2>2 DEF PauseAudio
<1>8. CASE Reinitialize
  BY <1>4, <1>8 DEF Reinitialize, Available, CreateVoice
<1>9. CASE Slice \/ Submit \/ ChangeAudio \/ ChangeSpeed \/ UNCHANGED vars
  <2>1. source' = source
    BY <1>9 DEF Slice, Submit, ChangeAudio, ChangeSpeed, vars, voicevars
  <2> QED
    BY <1>2, <2>1
<1> QED
  BY <1>5, <1>6, <1>7, <1>8, <1>9 DEF Next, CpuStep

\* A buffer is handed over only when less than a quarter is to be heard, although that
\* was measured some calls of the library ago (soundcore-openal.c, lines 195 to 253).
THEOREM NeverLate == Spec => LatencyBounded
<1>1. VoiceOK /\ [Next]_vars => (Len(source'.queue) > Len(source.queue) => ToBeHeard(source) < QUARTER)
  BY OnlyHandOver DEF VoiceOK, SourceOK
<1>2. VoiceOK /\ [Next]_vars => [Len(source'.queue) > Len(source.queue) => ToBeHeard(source) < QUARTER]_voicevars
  BY <1>1
<1> QED
  BY <1>2, VoiceInvariant, PTL DEF Spec, LatencyBounded
=============================================================================
