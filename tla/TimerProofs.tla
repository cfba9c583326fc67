---------------------------- MODULE TimerProofs -----------------------------
(***************************************************************************)
(* The timers of TimerManager, for any delays and bounds: the heap methods *)
(* permute the vector and, as long as timers only leave at the front, keep *)
(* it ordered.                                                             *)
(***************************************************************************)
EXTENDS Timer, FiniteSetTheorems, FunctionTheorems, SequenceTheorems, TLAPS

(* The indices a recursive call visits: they contain its first index and   *)
(* the next one of each of them.                                           *)
LEMMA VisitedClosed ==
  ASSUME NEW D, NEW next \in [D -> D], NEW start \in D
  PROVE  /\ Visited(next, start) \subseteq D
         /\ start \in Visited(next, start)
         /\ \A i \in Visited(next, start) : next[i] \in Visited(next, start)
BY DEF Visited

(* There is no smaller set of that kind: what holds of the first index and *)
(* passes on from each to its next holds of all that are visited.          *)
LEMMA VisitedLeast ==
  ASSUME NEW D, NEW next \in [D -> D], NEW start \in D,
         NEW I \in SUBSET D, start \in I, \A i \in I : next[i] \in I
  PROVE  Visited(next, start) \subseteq I
BY DEF Visited

(* Every visited index but the first is reached from another one.          *)
Reached(next, start) ==
  \A j \in Visited(next, start) :
    j # start => \E i \in Visited(next, start) : i # j /\ next[i] = j

LEMMA VisitedFrom ==
  ASSUME NEW D, NEW next \in [D -> D], NEW start \in D
  PROVE  Reached(next, start)
<1> DEFINE V == Visited(next, start)
<1> SUFFICES ASSUME NEW j \in V, j # start
             PROVE  \E i \in V : i # j /\ next[i] = j
  BY DEF Reached
<1>1. V \subseteq D /\ start \in V /\ \A i \in V : next[i] \in V
  BY VisitedClosed
<1> SUFFICES ASSUME \A i \in V : i # j => next[i] # j
             PROVE  FALSE
  OBVIOUS
<1>2. (V \ {j}) \in SUBSET D /\ start \in V \ {j} /\ \A i \in V \ {j} : next[i] \in V \ {j}
  BY <1>1
<1> HIDE DEF V
<1>3. Visited(next, start) \subseteq V \ {j}
  BY <1>2, VisitedLeast
<1> QED
  BY <1>3 DEF V

-----------------------------------------------------------------------------
(* HeapifyUp goes from an index to its parent, HeapifyDown to a child.     *)
Upward(next, n) == \A i \in 1..n : next[i] # i => next[i] = i \div 2

Downward(next, n) == \A i \in 1..n : next[i] # i => next[i] \in {2 * i, 2 * i + 1}

(* A visit is one chain: it never forks, and it ends in one place only.    *)
Chain(next, start) ==
  LET V == Visited(next, start) IN
  /\ \A i, j \in V : next[i] = i /\ next[j] = j => i = j
  /\ \A i, j \in V : next[i] # i /\ next[j] # j /\ next[i] = next[j] => i = j
  /\ \A i \in V : next[i] # i => next[i] # start

(* Halving an index rounds down.                                           *)
LEMMA Halves ==
  /\ \A i \in Nat : i \div 2 \in Nat /\ (i > 0 => i \div 2 < i)
  /\ \A i, j \in Nat : i <= j => i \div 2 <= j \div 2
  /\ \A i, j \in Nat : i = j \div 2 <=> (j = 2 * i \/ j = 2 * i + 1)
OBVIOUS

(* On the way up no visited index is skipped: from one above j the next is *)
(* j or still above it.                                                    *)
LEMMA UpInOrder ==
  ASSUME NEW n \in Nat, NEW next \in [1..n -> 1..n], NEW start \in 1..n, Upward(next, n)
  PROVE  /\ \A i \in Visited(next, start) : i <= start
         /\ \A i, j \in Visited(next, start) : i > j => j <= next[i] /\ next[i] < i
<1> DEFINE V == Visited(next, start)
           Q == {j \in V : \A i \in V : i > j => j <= next[i] /\ next[i] < i}
           B == {j \in V : j <= start}
<1>1. V \subseteq 1..n /\ start \in V /\ \A i \in V : next[i] \in V
  BY VisitedClosed
<1>2. \A j \in V : j # start => \E i \in V : i # j /\ next[i] = j
  <2>1. Reached(next, start)
    BY VisitedFrom
  <2> QED
    BY <2>1 DEF Reached
<1> HIDE DEF V
<1>0. \A i \in V : /\ i \in Nat /\ next[i] \in Nat
                   /\ next[i] # i => next[i] = i \div 2 /\ next[i] < i
  <2> SUFFICES ASSUME NEW i \in V
               PROVE  /\ i \in Nat /\ next[i] \in Nat
                      /\ next[i] # i => next[i] = i \div 2 /\ next[i] < i
    OBVIOUS
  <2>1. i \in 1..n /\ next[i] \in 1..n
    BY <1>1
  <2> QED
    BY <2>1, Halves DEF Upward
<1>3. V \subseteq B
  <2>1. B \in SUBSET (1..n) /\ start \in B
    <3>1. start \in Nat
      OBVIOUS
    <3>2. B \subseteq V
      OBVIOUS
    <3>3. start \in B
      BY <1>1, <3>1
    <3> QED
      BY <1>1, <3>2, <3>3
  <2>2. ASSUME NEW i \in B
        PROVE  next[i] \in B
    <3>1. i \in V /\ i <= start /\ next[i] \in V
      BY <1>1
    <3>2. i \in Nat /\ next[i] \in Nat /\ start \in Nat
      BY <1>0, <3>1
    <3>3. next[i] <= i
      BY <1>0, <3>1, <3>2, SMTT(30)
    <3> QED
      BY <3>1, <3>2, <3>3
  <2> HIDE DEF B
  <2> QED
    BY <2>1, <2>2, VisitedLeast DEF V
<1>4. start \in Q
  BY <1>1, <1>3, <1>0
<1>5. ASSUME NEW j \in Q, NEW k, k = next[j]
      PROVE  k \in Q
  <2>1. CASE k = j
    BY <2>1
  <2>2. CASE k # j
    <3>0. j \in V /\ \A i \in V : i > j => j <= next[i] /\ next[i] < i
      OBVIOUS
    <3> HIDE DEF Q
    <3>1. k \in V /\ k = j \div 2 /\ k < j /\ j \in Nat /\ k \in Nat
      BY <1>0, <1>1, <1>5, <2>2, <3>0
    <3>2. ASSUME NEW i \in V, i > k
          PROVE  k <= next[i] /\ next[i] < i
      <4>0. i \in Nat /\ next[i] \in Nat
        BY <1>0
      <4>1. CASE i > j
        BY <3>0, <3>1, <4>0, <4>1
      <4>2. CASE i = j
        BY <3>1, <4>2, <1>5
      <4>3. CASE i < j
        <5>1. i # start
          BY <1>1, <1>3, <3>0, <3>1, <4>0, <4>3
        <5>2. PICK h \in V : h # i /\ next[h] = i
          BY <1>2, <5>1
        <5>3. i = h \div 2 /\ i < h /\ h \in Nat
          BY <1>0, <5>2
        <5>4. ~(h > j)
          BY <3>0, <3>1, <4>0, <4>3, <5>2, <5>3
        <5>5. h # j
          <6>1. i # k
            BY <3>2, <4>0, <3>1
          <6> QED
            BY <1>5, <5>2, <6>1
        <5>6. h <= j
          BY <5>3, <5>4, <3>1
        <5>7. i <= k
          BY <5>3, <5>6, <3>1, Halves
        <5> QED
          BY <5>7, <3>2, <3>1, <4>0
      <4> QED
        BY <4>0, <4>1, <4>2, <4>3, <3>1
    <3> QED
      BY <3>1, <3>2 DEF Q
  <2> QED
    BY <2>1, <2>2
<1>6. V \subseteq Q
  <2>1. Q \in SUBSET (1..n) /\ \A i \in Q : next[i] \in Q
    BY <1>1, <1>5
  <2> HIDE DEF Q
  <2> QED
    BY <2>1, <1>4, VisitedLeast DEF V
<1> QED
  BY <1>3, <1>6 DEF V

(* And none on the way down.                                               *)
LEMMA DownInOrder ==
  ASSUME NEW n \in Nat, NEW next \in [1..n -> 1..n], NEW start \in 1..n, Downward(next, n)
  PROVE  /\ \A i \in Visited(next, start) : start <= i
         /\ \A i, j \in Visited(next, start) : i < j => i < next[i] /\ next[i] <= j
<1> DEFINE V == Visited(next, start)
           Q == {j \in V : \A i \in V : i < j => i < next[i] /\ next[i] <= j}
           B == {j \in V : start <= j}
<1>1. V \subseteq 1..n /\ start \in V /\ \A i \in V : next[i] \in V
  BY VisitedClosed
<1>2. \A j \in V : j # start => \E i \in V : i # j /\ next[i] = j
  <2>1. Reached(next, start)
    BY VisitedFrom
  <2> QED
    BY <2>1 DEF Reached
<1> HIDE DEF V
<1>0. \A i \in V : /\ i \in Nat /\ next[i] \in Nat
                   /\ next[i] # i => next[i] \in {2 * i, 2 * i + 1} /\ i < next[i]
  <2> SUFFICES ASSUME NEW i \in V
               PROVE  /\ i \in Nat /\ next[i] \in Nat
                      /\ next[i] # i => next[i] \in {2 * i, 2 * i + 1} /\ i < next[i]
    OBVIOUS
  <2>1. i \in 1..n /\ next[i] \in 1..n
    BY <1>1
  <2> QED
    BY <2>1 DEF Downward
<1>3. V \subseteq B
  <2>1. B \in SUBSET (1..n) /\ start \in B
    <3>1. start \in Nat
      OBVIOUS
    <3>2. B \subseteq V
      OBVIOUS
    <3>3. start \in B
      BY <1>1, <3>1
    <3> QED
      BY <1>1, <3>2, <3>3
  <2>2. ASSUME NEW i \in B
        PROVE  next[i] \in B
    <3>1. i \in V /\ next[i] \in V
      BY <1>1
    <3>5. start <= i
      OBVIOUS
    <3>2. i \in Nat /\ next[i] \in Nat /\ start \in Nat
      BY <1>0, <3>1
    <3>3. next[i] = i \/ i < next[i]
      BY <1>0, <3>1
    <3>4. start <= next[i]
      <4>1. \A a, b, c \in Nat : a <= b /\ (c = b \/ b < c) => a <= c
        OBVIOUS
      <4> QED
        BY <3>2, <3>3, <3>5, <4>1
    <3> QED
      BY <3>1, <3>4
  <2> HIDE DEF B
  <2> QED
    BY <2>1, <2>2, VisitedLeast DEF V
<1>4. start \in Q
  BY <1>1, <1>3, <1>0
<1>5. ASSUME NEW j \in Q, NEW k, k = next[j]
      PROVE  k \in Q
  <2>1. CASE k = j
    BY <2>1
  <2>2. CASE k # j
    <3>0. j \in V /\ \A i \in V : i < j => i < next[i] /\ next[i] <= j
      OBVIOUS
    <3> HIDE DEF Q
    <3>1. k \in V /\ k <= 2 * j + 1 /\ j < k /\ j \in Nat /\ k \in Nat
      <4>1. k \in V /\ j \in Nat /\ k \in Nat /\ k \in {2 * j, 2 * j + 1} /\ j < k
        BY <1>0, <1>1, <1>5, <2>2, <3>0
      <4> QED
        BY <4>1
    <3>2. ASSUME NEW i \in V, i < k
          PROVE  i < next[i] /\ next[i] <= k
      <4>0. i \in Nat /\ next[i] \in Nat
        BY <1>0
      <4>1. CASE i < j
        BY <3>0, <3>1, <4>0, <4>1
      <4>2. CASE i = j
        BY <3>1, <4>2, <1>5
      <4>3. CASE i > j
        <5>1. i # start
          BY <1>1, <1>3, <3>0, <3>1, <4>0, <4>3
        <5>2. PICK h \in V : h # i /\ next[h] = i
          BY <1>2, <5>1
        <5>3. i >= 2 * h /\ h < i /\ h \in Nat
          <6>1. h \in Nat /\ next[h] \in {2 * h, 2 * h + 1} /\ h < next[h]
            BY <1>0, <5>2
          <6> QED
            BY <5>2, <6>1, <4>0
        <5>4. ~(h < j)
          BY <3>0, <3>1, <4>0, <4>3, <5>2, <5>3
        <5>5. h # j
          <6>1. i # k
            BY <3>2, <4>0, <3>1
          <6> QED
            BY <1>5, <5>2, <6>1
        <5> QED
          BY <5>3, <5>4, <5>5, <3>2, <3>1, <4>0
      <4> QED
        BY <4>0, <4>1, <4>2, <4>3, <3>1
    <3> QED
      BY <3>1, <3>2 DEF Q
  <2> QED
    BY <2>1, <2>2
<1>6. V \subseteq Q
  <2>1. Q \in SUBSET (1..n) /\ \A i \in Q : next[i] \in Q
    BY <1>1, <1>5
  <2> HIDE DEF Q
  <2> QED
    BY <2>1, <1>4, VisitedLeast DEF V
<1> QED
  BY <1>3, <1>6 DEF V

(* Upwards a visit is a chain.                                             *)
LEMMA UpChain ==
  ASSUME NEW n \in Nat, NEW next \in [1..n -> 1..n], NEW start \in 1..n, Upward(next, n)
  PROVE  Chain(next, start)
<1> DEFINE V == Visited(next, start)
<1>1. V \subseteq 1..n /\ \A i \in V : next[i] \in V
  BY VisitedClosed
<1>2. \A i, j \in V : i > j => j <= next[i] /\ next[i] < i
  BY UpInOrder
<1>7. \A i \in V : i <= start
  BY UpInOrder
<1> HIDE DEF V
<1>3. \A i \in V : i \in Nat /\ next[i] \in Nat /\ start \in Nat /\ next[i] <= i
  <2> SUFFICES ASSUME NEW i \in V
               PROVE  i \in Nat /\ next[i] \in Nat /\ start \in Nat /\ next[i] <= i
    OBVIOUS
  <2>1. i \in 1..n /\ next[i] \in 1..n /\ start \in 1..n
    BY <1>1
  <2>2. next[i] = i \/ next[i] = i \div 2
    BY <2>1 DEF Upward
  <2> QED
    BY <2>1, <2>2, Halves
<1>4. \A i, j \in V : next[i] = i /\ next[j] = j => i = j
  <2> SUFFICES ASSUME NEW i \in V, NEW j \in V, i # j, next[i] = i /\ next[j] = j
               PROVE  FALSE
    OBVIOUS
  <2>1. i > j \/ j > i
    BY <1>3
  <2> QED
    BY <1>2, <1>3, <2>1
<1>5. \A i, j \in V : next[i] # i /\ next[j] # j /\ next[i] = next[j] => i = j
  <2> SUFFICES ASSUME NEW i \in V, NEW j \in V, i # j, next[i] # i /\ next[j] # j /\ next[i] = next[j]
               PROVE  FALSE
    OBVIOUS
  <2>1. i > j \/ j > i
    BY <1>3
  <2> QED
    <3>1. i \in Nat /\ j \in Nat /\ next[i] \in Nat /\ next[j] \in Nat
      BY <1>3
    <3>2. next[i] < i /\ next[j] < j
      BY <1>3, <3>1, SMTT(30)
    <3>3. (i > j => j <= next[i]) /\ (j > i => i <= next[j])
      BY <1>2
    <3> QED
      BY <2>1, <3>1, <3>2, <3>3
<1>6. \A i \in V : next[i] # i => next[i] # start
  <2> SUFFICES ASSUME NEW i \in V, next[i] # i, next[i] = start
               PROVE  FALSE
    OBVIOUS
  <2>1. i \in Nat /\ start \in Nat
    BY <1>3
  <2> QED
    BY <1>3, <1>7, <2>1
<1> QED
  BY <1>4, <1>5, <1>6 DEF Chain, V

(* The same downwards.                                                     *)
LEMMA DownChain ==
  ASSUME NEW n \in Nat, NEW next \in [1..n -> 1..n], NEW start \in 1..n, Downward(next, n)
  PROVE  Chain(next, start)
<1> DEFINE V == Visited(next, start)
<1>1. V \subseteq 1..n /\ \A i \in V : next[i] \in V
  BY VisitedClosed
<1>2. \A i, j \in V : i < j => i < next[i] /\ next[i] <= j
  BY DownInOrder
<1>7. \A i \in V : start <= i
  BY DownInOrder
<1> HIDE DEF V
<1>3. \A i \in V : i \in Nat /\ next[i] \in Nat /\ start \in Nat /\ next[i] >= i
  <2> SUFFICES ASSUME NEW i \in V
               PROVE  i \in Nat /\ next[i] \in Nat /\ start \in Nat /\ next[i] >= i
    OBVIOUS
  <2>1. i \in 1..n /\ next[i] \in 1..n /\ start \in 1..n
    BY <1>1
  <2>2. next[i] = i \/ next[i] \in {2 * i, 2 * i + 1}
    BY <2>1 DEF Downward
  <2> QED
    <3>1. i \in Nat /\ next[i] \in Nat /\ start \in Nat
      BY <2>1
    <3>2. next[i] >= i
      BY <2>2, <3>1, SMTT(30)
    <3> QED
      BY <3>1, <3>2
<1>4. \A i, j \in V : next[i] = i /\ next[j] = j => i = j
  <2> SUFFICES ASSUME NEW i \in V, NEW j \in V, i # j, next[i] = i /\ next[j] = j
               PROVE  FALSE
    OBVIOUS
  <2>1. i > j \/ j > i
    BY <1>3
  <2> QED
    BY <1>2, <1>3, <2>1
<1>5. \A i, j \in V : next[i] # i /\ next[j] # j /\ next[i] = next[j] => i = j
  <2> SUFFICES ASSUME NEW i \in V, NEW j \in V, i # j, next[i] # i /\ next[j] # j /\ next[i] = next[j]
               PROVE  FALSE
    OBVIOUS
  <2>1. i > j \/ j > i
    BY <1>3
  <2> QED
    <3>1. i \in Nat /\ j \in Nat /\ next[i] \in Nat /\ next[j] \in Nat
      BY <1>3
    <3>2. next[i] > i /\ next[j] > j
      BY <1>3, <3>1, SMTT(30)
    <3>3. (i < j => next[i] <= j) /\ (j < i => next[j] <= i)
      BY <1>2
    <3> QED
      BY <2>1, <3>1, <3>2, <3>3
<1>6. \A i \in V : next[i] # i => next[i] # start
  <2> SUFFICES ASSUME NEW i \in V, next[i] # i, next[i] = start
               PROVE  FALSE
    OBVIOUS
  <2>1. i \in Nat /\ start \in Nat
    BY <1>3
  <2> QED
    BY <1>3, <1>7, <2>1
<1> QED
  BY <1>4, <1>5, <1>6 DEF Chain, V

Permutation(o, n) ==
  /\ o \in [1..n -> 1..n]
  /\ \A i, j \in 1..n : o[i] = o[j] => i = j
  /\ \A j \in 1..n : \E i \in 1..n : o[i] = j

(* Moving timers along a chain permutes the vector.                        *)
LEMMA OriginPermutes ==
  ASSUME NEW n \in Nat, NEW next \in [1..n -> 1..n], NEW start \in 1..n, Chain(next, start)
  PROVE  Permutation(Origin(next, start), n)
<1> DEFINE V == Visited(next, start)
           o == Origin(next, start)
<1>1. V \subseteq 1..n /\ start \in V /\ \A i \in V : next[i] \in V
  BY VisitedClosed
<1>2. /\ \A i, j \in V : next[i] = i /\ next[j] = j => i = j
      /\ \A i, j \in V : next[i] # i /\ next[j] # j /\ next[i] = next[j] => i = j
      /\ \A i \in V : next[i] # i => next[i] # start
  BY DEF Chain
<1>3. o = [i \in 1..n |-> IF i \notin V THEN i ELSE IF next[i] = i THEN start ELSE next[i]]
  BY DEF Origin
<1> HIDE DEF V, o
<1>4. o \in [1..n -> 1..n]
  BY <1>1, <1>3
<1>5. ASSUME NEW i \in 1..n, NEW j \in 1..n, o[i] = o[j]
      PROVE  i = j
  BY <1>1, <1>2, <1>3, <1>5
<1>6. o \in Injection(1..n, 1..n)
  BY <1>4, <1>5 DEF Injection, IsInjective
<1>7. o \in Surjection(1..n, 1..n)
  BY <1>6, FS_Injection, FS_Interval
<1> QED
  BY <1>4, <1>5, <1>7 DEF Surjection, Permutation, o

-----------------------------------------------------------------------------
IdsOf(s) == {s[i].id : i \in 1..Len(s)}

Distinct(s) == \A i, j \in 1..Len(s) : s[i].id = s[j].id => i = j

(* r holds the timers of s, each once, in some order.                      *)
Rearranged(s, r) ==
  /\ r \in Seq(Timers) /\ Len(r) = Len(s)
  /\ IdsOf(r) = IdsOf(s)
  /\ Distinct(s) => Distinct(r)

(* A sift along a chain rearranges the vector.                             *)
LEMMA SiftRearranges ==
  ASSUME NEW s \in Seq(Timers), NEW next \in [1..Len(s) -> 1..Len(s)],
         NEW start \in 1..Len(s), Chain(next, start)
  PROVE  Rearranged(s, Sift(s, next, start))
<1> DEFINE n == Len(s)
           o == Origin(next, start)
           r == Sift(s, next, start)
<1>0. n \in Nat /\ \A i \in 1..n : s[i] \in Timers
  OBVIOUS
<1>1. /\ o \in [1..n -> 1..n]
      /\ \A i, j \in 1..n : o[i] = o[j] => i = j
      /\ \A j \in 1..n : \E i \in 1..n : o[i] = j
  <2>1. Permutation(o, n)
    BY <1>0, OriginPermutes
  <2> QED
    BY <2>1 DEF Permutation
<1>2. r = [i \in 1..n |-> s[o[i]]]
  BY DEF Sift
<1> HIDE DEF n, o, r
<1>3. \A i \in 1..n : o[i] \in 1..n /\ r[i] = s[o[i]]
  BY <1>1, <1>2
<1>4. r \in [1..n -> Timers]
  BY <1>0, <1>1, <1>2
<1> HIDE DEF Timers
<1>5. r \in Seq(Timers) /\ Len(r) = n
  BY <1>0, <1>4
<1>6. IdsOf(r) = IdsOf(s)
  <2>1. \A i \in 1..n : \E j \in 1..n : r[i].id = s[j].id
    BY <1>3
  <2>2. ASSUME NEW j \in 1..n
        PROVE  \E i \in 1..n : r[i].id = s[j].id
    <3>1. PICK i \in 1..n : o[i] = j
      BY <1>1
    <3> QED
      BY <3>1, <1>3
  <2>3. IdsOf(s) = {s[i].id : i \in 1..n} /\ IdsOf(r) = {r[i].id : i \in 1..n}
    BY <1>5 DEF IdsOf, n
  <2>4. ASSUME NEW x \in {r[i].id : i \in 1..n}
        PROVE  x \in {s[i].id : i \in 1..n}
    BY <2>1
  <2>5. ASSUME NEW x \in {s[i].id : i \in 1..n}
        PROVE  x \in {r[i].id : i \in 1..n}
    <3>1. PICK j \in 1..n : x = s[j].id
      OBVIOUS
    <3>2. PICK i \in 1..n : r[i].id = s[j].id
      BY <2>2
    <3> QED
      BY <3>1, <3>2
  <2> QED
    BY <2>3, <2>4, <2>5
<1>7. ASSUME Distinct(s)
      PROVE  Distinct(r)
  <2> SUFFICES ASSUME NEW i \in 1..n, NEW j \in 1..n, r[i].id = r[j].id
               PROVE  i = j
    BY <1>5 DEF Distinct
  <2>1. s[o[i]].id = s[o[j]].id /\ o[i] \in 1..n /\ o[j] \in 1..n
    BY <1>3
  <2>2. o[i] = o[j]
    BY <2>1, <1>7 DEF Distinct, n
  <2> QED
    BY <2>2, <1>1
<1> QED
  BY <1>5, <1>6, <1>7 DEF Rearranged, n, r

(* The parent of an index, for HeapifyUp.                                  *)
LEMMA UpSteps ==
  ASSUME NEW s \in Seq(Timers), NEW timer \in Timers
  PROVE  /\ UpFrom(s, timer) \in [1..Len(s) -> 1..Len(s)]
         /\ Upward(UpFrom(s, timer), Len(s))
<1> DEFINE n == Len(s)
<1>0. n \in Nat
  OBVIOUS
<1> HIDE DEF n
<1>1. \A i \in 1..n : i > 1 => i \div 2 \in 1..n
  BY <1>0
<1>2. UpFrom(s, timer) = [i \in 1..n |->
         IF i > 1 /\ timer.expiry < s[i \div 2].expiry THEN i \div 2 ELSE i]
  BY DEF UpFrom, n
<1> QED
  BY <1>1, <1>2 DEF Upward, n

(* The smaller child of an index, for HeapifyDown.                         *)
LEMMA DownSteps ==
  ASSUME NEW s \in Seq(Timers), NEW timer \in Timers
  PROVE  /\ DownFrom(s, timer) \in [1..Len(s) -> 1..Len(s)]
         /\ Downward(DownFrom(s, timer), Len(s))
<1> DEFINE n == Len(s)
<1>0. n \in Nat
  OBVIOUS
<1> HIDE DEF n
<1>1. ASSUME NEW i \in 1..n
      PROVE  Smallest(s, timer, i) \in 1..n /\ Smallest(s, timer, i) \in {i, 2 * i, 2 * i + 1}
  BY <1>0 DEF Smallest, n
<1>2. DownFrom(s, timer) = [i \in 1..n |-> Smallest(s, timer, i)]
  BY DEF DownFrom, n
<1> QED
  BY <1>1, <1>2 DEF Downward, n

(* Both heap methods rearrange the vector.                                 *)
LEMMA HeapifyRearranges ==
  ASSUME NEW s \in Seq(Timers), NEW index \in 1..Len(s)
  PROVE  Rearranged(s, HeapifyUp(s, index)) /\ Rearranged(s, HeapifyDown(s, index))
<1>0. Len(s) \in Nat /\ s[index] \in Timers /\ ~(index > Len(s))
  OBVIOUS
<1>1. Rearranged(s, HeapifyUp(s, index))
  <2>1. /\ UpFrom(s, s[index]) \in [1..Len(s) -> 1..Len(s)]
        /\ Upward(UpFrom(s, s[index]), Len(s))
    BY <1>0, UpSteps
  <2>2. Chain(UpFrom(s, s[index]), index)
    BY <1>0, <2>1, UpChain
  <2> QED
    BY <2>1, <2>2, SiftRearranges DEF HeapifyUp
<1>2. Rearranged(s, HeapifyDown(s, index))
  <2>1. /\ DownFrom(s, s[index]) \in [1..Len(s) -> 1..Len(s)]
        /\ Downward(DownFrom(s, s[index]), Len(s))
    BY <1>0, DownSteps
  <2>2. Chain(DownFrom(s, s[index]), index)
    BY <1>0, <2>1, DownChain
  <2>3. HeapifyDown(s, index) = Sift(s, DownFrom(s, s[index]), index)
    BY <1>0 DEF HeapifyDown
  <2> QED
    BY <2>1, <2>2, <2>3, SiftRearranges
<1> QED
  BY <1>1, <1>2
-----------------------------------------------------------------------------
Ordered(s) == \A i \in 2..Len(s) : s[i \div 2].expiry <= s[i].expiry

(* HeapifyUp of the last timer puts a vector in order whose other timers   *)
(* are.  Stated of the expiry times: e before, next and o the visit of the *)
(* last index and where each index then gets its timer from.               *)
LEMMA UpOrders ==
  ASSUME NEW n \in Nat \ {0}, NEW e \in [1..n -> Nat], NEW next \in [1..n -> 1..n],
         next = [i \in 1..n |-> IF i > 1 /\ e[n] < e[i \div 2] THEN i \div 2 ELSE i],
         \A i \in 2..(n - 1) : e[i \div 2] <= e[i],
         NEW i \in 2..n
  PROVE  e[Origin(next, n)[i \div 2]] <= e[Origin(next, n)[i]]
<1> DEFINE V == Visited(next, n)
           o == Origin(next, n)
<1>0. Upward(next, n) /\ n \in 1..n /\ n \in Nat
  BY Halves DEF Upward
<1>1. V \subseteq 1..n /\ n \in V /\ \A j \in V : next[j] \in V
  <2>1. next \in [1..n -> 1..n] /\ n \in 1..n
    BY <1>0
  <2> QED
    BY ONLY <2>1, VisitedClosed
<1>2. \A j \in V : j # n => \E h \in V : h # j /\ next[h] = j
  <2>1. Reached(next, n)
    BY <1>0, VisitedFrom
  <2> QED
    BY <2>1 DEF Reached
<1>3. \A h, j \in V : h > j => next[h] < h
  BY <1>0, UpInOrder
<1>4. \A j \in 1..n : o[j] = IF j \notin V THEN j ELSE IF next[j] = j THEN n ELSE next[j]
  BY DEF Origin
<1> HIDE DEF V, o
<1> DEFINE q == i \div 2
<1>5. q \in 1..n /\ i \in 1..n /\ q < i /\ q \in Nat /\ i \in Nat /\ q # n /\ i > 1
  OBVIOUS
<1>6. e[q] \in Nat /\ e[i] \in Nat /\ e[n] \in Nat /\ (i # n => e[q] <= e[i])
  BY <1>0, <1>5
<1>7. \A j \in 1..n : j > 1 => /\ j \div 2 \in 1..n
                               /\ e[j \div 2] \in Nat /\ e[j] \in Nat
                               /\ next[j] = IF e[n] < e[j \div 2] THEN j \div 2 ELSE j
                               /\ j # n => e[j \div 2] <= e[j]
  <2> SUFFICES ASSUME NEW j \in 1..n, j > 1
               PROVE  /\ j \div 2 \in 1..n
                      /\ e[j \div 2] \in Nat /\ e[j] \in Nat
                      /\ next[j] = IF e[n] < e[j \div 2] THEN j \div 2 ELSE j
                      /\ j # n => e[j \div 2] <= e[j]
    OBVIOUS
  <2>1. j \div 2 \in 1..n /\ j \in Nat /\ (j # n => j \in 2..(n - 1))
    OBVIOUS
  <2> QED
    BY <2>1
<1> SUFFICES e[o[q]] <= e[o[i]]
  BY DEF o
<1>8. next[i] = IF e[n] < e[q] THEN q ELSE i
  BY <1>5, <1>7
<1> HIDE DEF q
(* What q gets is not later than what was there, unless it is the sifted one. *)
<1>9. ASSUME q \in V
      PROVE  \/ o[q] = n /\ next[q] = q
             \/ o[q] \in 1..n /\ e[o[q]] \in Nat /\ e[o[q]] <= e[q]
  <2>1. CASE next[q] = q
    BY <1>4, <1>5, <1>9, <2>1
  <2>2. CASE next[q] # q
    <3>1. q > 1
      <4>1. ASSUME q = 1 PROVE FALSE
        BY <1>5, <2>2, <4>1
      <4> QED
        BY <4>1, <1>5
    <3>2. next[q] = q \div 2 /\ o[q] = q \div 2
      BY <1>4, <1>5, <1>7, <1>9, <2>2, <3>1
    <3> QED
      BY <1>5, <1>7, <3>1, <3>2
  <2> QED
    BY <2>1, <2>2
<1>10. CASE i \in V /\ next[i] # i
  <2>1. e[n] < e[q] /\ next[i] = q /\ o[i] = q /\ q \in V
    BY <1>1, <1>4, <1>5, <1>8, <1>10, ZenonT(60)
  <2> QED
    BY <1>6, <1>9, <2>1, SMTT(30)
<1>11. CASE i \in V /\ next[i] = i
  <2>1. ~(e[n] < e[q])
    BY <1>5, <1>8, <1>11
  <2>2. q \notin V
    <3>1. i > q /\ ~(i < i)
      BY <1>5
    <3> QED
      BY ONLY <1>3, <1>11, <3>1
  <2>3. o[q] = q /\ o[i] = n
    BY <1>4, <1>5, <1>11, <2>2
  <2> QED
    BY <1>6, <2>1, <2>3
<1>12. CASE i \notin V
  <2>1. o[i] = i /\ i # n /\ e[q] <= e[i]
    BY <1>1, <1>4, <1>5, <1>6, <1>12
  <2>2. CASE q \notin V
    BY <1>4, <1>5, <2>1, <2>2
  <2>3. CASE q \in V /\ o[q] = n
    <3>1. PICK h \in V : h # q /\ next[h] = q
      BY <1>2, <1>5, <2>3
    <3>2. h \in 1..n /\ next[h] = IF h > 1 /\ e[n] < e[h \div 2] THEN h \div 2 ELSE h
      BY <1>1, <3>1
    <3>3. e[n] < e[q]
      BY <3>1, <3>2
    <3> QED
      BY <1>6, <2>1, <2>3, <3>3
  <2>4. CASE q \in V /\ o[q] # n
    BY <1>6, <1>9, <2>1, <2>4
  <2> QED
    BY <2>2, <2>3, <2>4
<1> QED
  BY <1>10, <1>11, <1>12
(* HeapifyDown of the first timer puts a vector in order whose other       *)
(* timers are: next goes to the smaller child, if one is smaller than the  *)
(* sifted timer.                                                           *)
LEMMA DownOrders ==
  ASSUME NEW n \in Nat \ {0}, NEW e \in [1..n -> Nat], NEW next \in [1..n -> 1..n],
         \A j \in 1..n : next[j] \in {j, 2 * j, 2 * j + 1},
         \A j \in 1..n : \A c \in 1..n : c \div 2 = j =>
           IF next[j] = j THEN e[1] <= e[c] ELSE e[next[j]] < e[1] /\ e[next[j]] <= e[c],
         \A j \in 2..n : j \div 2 # 1 => e[j \div 2] <= e[j],
         NEW i \in 2..n
  PROVE  e[Origin(next, 1)[i \div 2]] <= e[Origin(next, 1)[i]]
<1> DEFINE V == Visited(next, 1)
           o == Origin(next, 1)
<1>0. Downward(next, n) /\ 1 \in 1..n /\ n \in Nat
  BY DEF Downward
<1>1. V \subseteq 1..n /\ 1 \in V /\ \A j \in V : next[j] \in V
  <2>1. next \in [1..n -> 1..n] /\ 1 \in 1..n
    BY <1>0
  <2> QED
    BY ONLY <2>1, VisitedClosed
<1>2. \A j \in V : j # 1 => \E h \in V : h # j /\ next[h] = j
  <2>1. Reached(next, 1)
    BY <1>0, VisitedFrom
  <2> QED
    BY <2>1 DEF Reached
<1>4. \A j \in 1..n : o[j] = IF j \notin V THEN j ELSE IF next[j] = j THEN 1 ELSE next[j]
  BY DEF Origin
<1> HIDE DEF V, o
<1> DEFINE q == i \div 2
<1>5. q \in 1..n /\ i \in 1..n /\ q \in Nat /\ i \in Nat /\ i > 1
  BY SMTT(30)
<1>6. e[q] \in Nat /\ e[i] \in Nat /\ e[1] \in Nat /\ (q # 1 => e[q] <= e[i])
  BY <1>0, <1>5
<1>7. IF next[q] = q THEN e[1] <= e[i] ELSE e[next[q]] < e[1] /\ e[next[q]] <= e[i]
  BY <1>5
<1> SUFFICES e[o[q]] <= e[o[i]]
  BY DEF o
<1>8. ASSUME NEW h \in 1..n, next[h] # h, h = next[h] \div 2, h # 1
      PROVE  e[h] <= e[next[h]] /\ e[next[h]] \in Nat
  <2>0. next \in [1..n -> 1..n] /\ h \in 1..n /\ n \in Nat
    OBVIOUS
  <2>a. next[h] \in 1..n
    BY ONLY <2>0
  <2>1. next[h] \in 1..n /\ next[h] \in Nat
    BY ONLY <2>0, <2>a
  <2>2. next[h] \in 2..n
    <3>1. next[h] # 1
      BY <1>8
    <3> QED
      BY <2>1, <3>1
  <2> QED
    BY <1>8, <2>2
<1>9. \A h \in 1..n : next[h] # h => h = next[h] \div 2
  <2> SUFFICES ASSUME NEW h \in 1..n, next[h] # h
               PROVE  h = next[h] \div 2
    OBVIOUS
  <2>0. h \in Nat
    OBVIOUS
  <2>1. h \in Nat /\ (next[h] = 2 * h \/ next[h] = 2 * h + 1)
    BY <2>0
  <2>2. \A a, b \in Nat : b = 2 * a \/ b = 2 * a + 1 => a = b \div 2
    BY Halves
  <2>3. 2 * h \in Nat /\ 2 * h + 1 \in Nat
    BY <2>0
  <2> QED
    BY <2>1, <2>2, <2>3
(* Below the first one a visited index comes after its parent. *)
<1>10. CASE i \in V
  <2>0. i # 1
    BY <1>5
  <2>1. PICK h \in V : h # i /\ next[h] = i
    BY <1>2, <1>10, <2>0
  <2>2. h = q
    BY <1>1, <1>9, <2>1
  <2> HIDE DEF q
  <2>3. o[q] = i /\ q \in V /\ e[i] < e[1] /\ next[q] = i
    BY <1>1, <1>4, <1>5, <1>7, <2>1, <2>2
  <2>4. CASE next[i] = i
    <3>1. o[i] = 1
      BY <1>4, <1>5, <1>10, <2>4
    <3> QED
      BY <1>6, <2>3, <3>1
  <2>5. CASE next[i] # i
    <3>1. o[i] = next[i]
      BY <1>4, <1>5, <1>10, <2>5
    <3>2. e[i] <= e[next[i]]
      BY <1>5, <1>8, <1>9, <2>5
    <3> QED
      BY <2>3, <3>1, <3>2
  <2> QED
    BY <2>4, <2>5
<1>11. CASE i \notin V
  <2> HIDE DEF q
  <2>1. o[i] = i
    BY <1>4, <1>5, <1>11
  <2>2. CASE q \notin V
    <3>1. q # 1 /\ o[q] = q
      BY <1>1, <1>4, <1>5, <2>2
    <3> QED
      BY <1>6, <2>1, <3>1
  <2>3. CASE q \in V /\ next[q] = q
    <3>1. o[q] = 1
      BY <1>4, <1>5, <2>3
    <3> QED
      BY <1>7, <2>1, <2>3, <3>1
  <2>4. CASE q \in V /\ next[q] # q
    <3>1. o[q] = next[q]
      BY <1>4, <1>5, <2>4
    <3> QED
      BY <1>7, <2>1, <2>4, <3>1
  <2> QED
    BY <2>2, <2>3, <2>4
<1> QED
  BY <1>10, <1>11

(* What Smallest picks: a child smaller than the sifted timer and not      *)
(* larger than the other child, or none if none is smaller.                *)
LEMMA SmallestPicks ==
  ASSUME NEW s \in Seq(Timers), NEW timer \in Timers, NEW j \in 1..Len(s),
         NEW c \in 1..Len(s), c \div 2 = j
  PROVE  IF Smallest(s, timer, j) = j THEN timer.expiry <= s[c].expiry
         ELSE /\ s[Smallest(s, timer, j)].expiry < timer.expiry
              /\ s[Smallest(s, timer, j)].expiry <= s[c].expiry
<1> DEFINE n == Len(s)
<1>0. n \in Nat /\ \A i \in 1..n : s[i].expiry \in Nat
  <2>1. n \in Nat /\ \A i \in 1..n : s[i] \in Timers
    OBVIOUS
  <2>2. \A t \in Timers : t.expiry \in Nat
    BY DEF Timers
  <2> QED
    BY <2>1, <2>2
<1>1. timer.expiry \in Nat
  BY DEF Timers
<1>2. c = 2 * j \/ c = 2 * j + 1
  BY <1>0, Halves
<1>3. j \in Nat /\ j > 0 /\ c \in Nat /\ c <= n
  BY <1>0
<1> HIDE DEF n
<1>4. CASE c = 2 * j
  <2>1. 2 * j <= n /\ 2 * j \in 1..n /\ s[2 * j].expiry \in Nat /\ 2 * j # j
    BY <1>0, <1>3, <1>4
  <2>2. CASE 2 * j + 1 <= n
    <3>1. s[2 * j + 1].expiry \in Nat /\ 2 * j + 1 # j
      BY <1>0, <1>3, <2>2
    <3> QED
      BY <1>1, <1>3, <1>4, <2>1, <2>2, <3>1 DEF Smallest, n
  <2>3. CASE ~(2 * j + 1 <= n)
    BY <1>1, <1>3, <1>4, <2>1, <2>3 DEF Smallest, n
  <2> QED
    BY <2>2, <2>3
<1>5. CASE c = 2 * j + 1
  <2>0. 2 * j \in 1..n /\ 2 * j + 1 \in 1..n
    BY <1>0, <1>3, <1>5
  <2>1. /\ 2 * j <= n /\ 2 * j + 1 <= n /\ 2 * j # j /\ 2 * j + 1 # j
        /\ s[2 * j].expiry \in Nat /\ s[2 * j + 1].expiry \in Nat
    BY <1>0, <1>3, <2>0
  <2>2. CASE s[2 * j].expiry < timer.expiry
    <3>1. Smallest(s, timer, j) = IF s[2 * j + 1].expiry < s[2 * j].expiry THEN 2 * j + 1 ELSE 2 * j
      BY <2>1, <2>2 DEF Smallest, n
    <3>2. CASE s[2 * j + 1].expiry < s[2 * j].expiry
      <4>1. \A x, y, z \in Nat : x < y /\ y < z => x < z /\ x <= x
        OBVIOUS
      <4>2. s[2 * j + 1].expiry < timer.expiry /\ s[2 * j + 1].expiry <= s[2 * j + 1].expiry
        BY <1>1, <2>1, <2>2, <3>2, <4>1
      <4>3. Smallest(s, timer, j) = 2 * j + 1
        BY <3>1, <3>2
      <4> QED
        BY <1>5, <2>1, <4>2, <4>3
    <3>3. CASE ~(s[2 * j + 1].expiry < s[2 * j].expiry)
      BY <1>1, <1>5, <2>1, <2>2, <3>1, <3>3
    <3> QED
      BY <3>2, <3>3
  <2>3. CASE ~(s[2 * j].expiry < timer.expiry)
    <3>1. Smallest(s, timer, j) = IF s[2 * j + 1].expiry < timer.expiry THEN 2 * j + 1 ELSE j
      BY <2>1, <2>3 DEF Smallest, n
    <3> QED
      <4>1. CASE s[2 * j + 1].expiry < timer.expiry
        <5>1. Smallest(s, timer, j) = c /\ c # j
          BY <1>5, <2>1, <3>1, <4>1
        <5>2. s[c].expiry < timer.expiry /\ s[c].expiry <= s[c].expiry
          BY <1>5, <2>1, <4>1
        <5> QED
          BY ONLY <5>1, <5>2
      <4>2. CASE ~(s[2 * j + 1].expiry < timer.expiry)
        <5>1. Smallest(s, timer, j) = j
          BY <3>1, <4>2
        <5>2. timer.expiry <= s[c].expiry
          BY <1>1, <1>5, <2>1, <4>2
        <5> QED
          BY ONLY <5>1, <5>2
      <4> QED
        BY <4>1, <4>2
  <2> QED
    BY <2>2, <2>3
<1> QED
  BY <1>2, <1>4, <1>5
-----------------------------------------------------------------------------
Expiries(s) == [i \in 1..Len(s) |-> s[i].expiry]

(* The vector with its last timer in the place of another one, and without *)
(* its last place: what Erase hands to HeapifyDown.                        *)
Front(s, index) == SubSeq([s EXCEPT ![index] = s[Len(s)]], 1, Len(s) - 1)

(* The parts of a vector's timers are well typed.                          *)
LEMMA TimersTyped ==
  ASSUME NEW s \in Seq(Timers)
  PROVE  /\ Len(s) \in Nat
         /\ \A i \in 1..Len(s) : s[i] \in Timers /\ s[i].expiry \in Nat /\ s[i].id \in Ids
         /\ Expiries(s) \in [1..Len(s) -> Nat]
<1>1. Len(s) \in Nat /\ \A i \in 1..Len(s) : s[i] \in Timers
  OBVIOUS
<1>2. \A t \in Timers : t.expiry \in Nat /\ t.id \in Ids
  BY DEF Timers
<1> QED
  BY <1>1, <1>2 DEF Expiries

(* AddTimer's Push adds the timer and loses none, and keeps the order.     *)
LEMMA PushKeeps ==
  ASSUME NEW s \in Seq(Timers), NEW t \in Timers
  PROVE  /\ Push(s, t) \in Seq(Timers)
         /\ IdsOf(Push(s, t)) = IdsOf(s) \cup {t.id}
         /\ Distinct(s) /\ t.id \notin IdsOf(s) => Distinct(Push(s, t))
         /\ Ordered(s) => Ordered(Push(s, t))
<1> DEFINE a == Append(s, t)
           n == Len(s) + 1
<1>1. /\ Len(s) \in Nat /\ n \in Nat \ {0} /\ n \in 1..n
      /\ a \in Seq(Timers) /\ Len(a) = n
      /\ a[n] = t /\ \A i \in 1..Len(s) : a[i] = s[i]
  BY AppendProperties
<1>2. n \in 1..Len(a) /\ \A i \in 1..n : i = n \/ i \in 1..Len(s)
  BY <1>1
<1>3. Push(s, t) = HeapifyUp(a, n)
  BY DEF Push
<1> HIDE DEF a, n
<1>4. Rearranged(a, Push(s, t))
  BY <1>1, <1>2, <1>3, HeapifyRearranges
<1>5. IdsOf(a) = IdsOf(s) \cup {t.id}
  <2>1. ASSUME NEW x \in IdsOf(a)
        PROVE  x \in IdsOf(s) \cup {t.id}
    <3>1. PICK i \in 1..n : x = a[i].id
      BY <1>1 DEF IdsOf
    <3> QED
      BY <1>1, <1>2, <3>1 DEF IdsOf
  <2>2. t.id \in IdsOf(a)
    BY <1>1 DEF IdsOf
  <2>3. ASSUME NEW x \in IdsOf(s)
        PROVE  x \in IdsOf(a)
    <3>1. PICK i \in 1..Len(s) : x = s[i].id
      BY DEF IdsOf
    <3>2. i \in 1..n
      BY <1>1 DEF n
    <3> QED
      BY <1>1, <3>1, <3>2 DEF IdsOf
  <2> QED
    BY <2>1, <2>2, <2>3
<1>6. ASSUME Distinct(s), t.id \notin IdsOf(s)
      PROVE  Distinct(a)
  <2> SUFFICES ASSUME NEW i \in 1..n, NEW j \in 1..n, a[i].id = a[j].id
               PROVE  i = j
    BY <1>1 DEF Distinct
  <2>1. \A k \in 1..Len(s) : a[k].id # t.id
    BY <1>1, <1>6 DEF IdsOf
  <2>2. CASE i = n \/ j = n
    BY <1>1, <1>2, <2>1, <2>2
  <2>3. CASE i # n /\ j # n
    BY <1>1, <1>2, <1>6, <2>3 DEF Distinct
  <2> QED
    BY <2>2, <2>3
<1>7. ASSUME Ordered(s)
      PROVE  Ordered(Push(s, t))
  <2> DEFINE e == Expiries(a)
             next == UpFrom(a, t)
  <2>1. /\ e \in [1..n -> Nat]
        /\ \A i \in 1..n : e[i] = a[i].expiry
    BY <1>1, TimersTyped DEF Expiries
  <2>2. next \in [1..n -> 1..n]
    BY <1>1, UpSteps
  <2>3. next = [i \in 1..n |-> IF i > 1 /\ e[n] < e[i \div 2] THEN i \div 2 ELSE i]
    <3>1. next = [i \in 1..n |-> IF i > 1 /\ t.expiry < a[i \div 2].expiry THEN i \div 2 ELSE i]
      BY <1>1 DEF UpFrom
    <3>2. e[n] = t.expiry
      BY <1>1, <2>1
    <3>3. ASSUME NEW i \in 1..n, i > 1
          PROVE  e[i \div 2] = a[i \div 2].expiry
      <4>1. i \div 2 \in 1..n
        BY <1>1, <3>3
      <4> QED
        BY <2>1, <4>1
    <3> HIDE DEF e, next
    <3> QED
      BY <3>1, <3>2, <3>3
  <2> HIDE DEF e, next
  <2>4. ASSUME NEW i \in 2..(n - 1)
        PROVE  e[i \div 2] <= e[i]
    <3>1. i \in 1..n /\ i \div 2 \in 1..n /\ i \in 2..Len(s) /\ i \in 1..Len(s) /\ i \div 2 \in 1..Len(s)
      BY <1>1 DEF n
    <3> QED
      BY <1>1, <1>7, <2>1, <3>1 DEF Ordered
  <2>5. \A i \in 2..n : e[Origin(next, n)[i \div 2]] <= e[Origin(next, n)[i]]
    BY <1>1, <2>1, <2>2, <2>3, <2>4, UpOrders, ZenonT(60)
  <2>6. Chain(next, n)
    <3>1. Upward(next, n)
      BY <1>1, UpSteps DEF next
    <3> QED
      BY <1>1, <2>2, <3>1, UpChain
  <2>7. Origin(next, n) \in [1..n -> 1..n]
    <3>1. Permutation(Origin(next, n), n)
      BY <1>1, <2>2, <2>6, OriginPermutes
    <3> QED
      BY <3>1 DEF Permutation
  <2>8. \A i \in 1..n : Push(s, t)[i].expiry = e[Origin(next, n)[i]]
    <3>1. Push(s, t) = [i \in 1..n |-> a[Origin(next, n)[i]]]
      BY <1>1, <1>3 DEF HeapifyUp, Sift, next
    <3> QED
      BY <2>1, <2>7, <3>1
  <2>9. Len(Push(s, t)) = n
    BY <1>1, <1>4 DEF Rearranged
  <2> SUFFICES ASSUME NEW i \in 2..n
               PROVE  Push(s, t)[i \div 2].expiry <= Push(s, t)[i].expiry
    BY <2>9 DEF Ordered
  <2>10. i \in 1..n /\ i \div 2 \in 1..n
    BY <1>1
  <2> QED
    BY <2>5, <2>8, <2>10
<1> QED
  BY <1>4, <1>5, <1>6, <1>7 DEF Rearranged
(* What Erase hands to HeapifyDown: every timer but the erased one.        *)
LEMMA FrontKeeps ==
  ASSUME NEW s \in Seq(Timers), NEW index \in 1..Len(s), Distinct(s)
  PROVE  /\ Front(s, index) \in Seq(Timers) /\ Len(Front(s, index)) = Len(s) - 1
         /\ \A i \in 1..(Len(s) - 1) :
              Front(s, index)[i] = IF i = index THEN s[Len(s)] ELSE s[i]
         /\ IdsOf(Front(s, index)) = IdsOf(s) \ {s[index].id}
         /\ Distinct(Front(s, index))
<1> DEFINE n == Len(s)
           f == Front(s, index)
           x == [s EXCEPT ![index] = s[n]]
<1>0. n \in Nat \ {0} /\ n - 1 \in Nat /\ n \in 1..n /\ 1..(n - 1) \subseteq 1..n
  OBVIOUS
<1>1. x \in Seq(Timers) /\ Len(x) = n /\ \A i \in 1..n : x[i] = IF i = index THEN s[n] ELSE s[i]
  OBVIOUS
<1>2. f = SubSeq(x, 1, n - 1)
  BY DEF Front
<1> HIDE DEF n, f, x
<1>3. /\ f \in Seq(Timers) /\ Len(f) = n - 1
      /\ \A i \in 1..(n - 1) : f[i] = x[i]
  <2> HIDE DEF Timers
  <2> QED
    BY <1>0, <1>1, <1>2
<1>4. \A i \in 1..(n - 1) : f[i] = IF i = index THEN s[n] ELSE s[i]
  BY <1>0, <1>1, <1>3
<1>5. \A i, j \in 1..n : s[i].id = s[j].id => i = j
  BY DEF Distinct, n
<1>6. index \in 1..n /\ (index = n \/ index \in 1..(n - 1))
  BY <1>0 DEF n
<1>7. \A i \in 1..n : i = n \/ i \in 1..(n - 1)
  BY <1>0
<1>8. \A i \in 1..(n - 1) : i # n
  BY <1>0
<1>9. Distinct(f)
  <2> SUFFICES ASSUME NEW i \in 1..(n - 1), NEW j \in 1..(n - 1), f[i].id = f[j].id
               PROVE  i = j
    BY <1>3 DEF Distinct
  <2> QED
    BY <1>0, <1>4, <1>5, <1>8
<1>10. IdsOf(f) = {f[i].id : i \in 1..(n - 1)} /\ IdsOf(s) = {s[i].id : i \in 1..n}
  BY <1>3 DEF IdsOf, n
<1>11. ASSUME NEW y \in IdsOf(f)
       PROVE  y \in IdsOf(s) \ {s[index].id}
  <2>1. PICK i \in 1..(n - 1) : y = f[i].id
    BY <1>10
  <2>2. CASE i = index
    <3>1. y = s[n].id /\ index # n
      BY <1>4, <1>8, <2>1, <2>2
    <3> QED
      BY <1>0, <1>5, <1>6, <1>10, <3>1
  <2>3. CASE i # index
    <3>1. y = s[i].id /\ i \in 1..n
      BY <1>0, <1>4, <2>1, <2>3
    <3> QED
      BY <1>5, <1>6, <1>10, <2>3, <3>1
  <2> QED
    BY <2>2, <2>3
<1>12. ASSUME NEW y \in IdsOf(s), y # s[index].id
       PROVE  y \in IdsOf(f)
  <2>1. PICK i \in 1..n : y = s[i].id
    BY <1>10
  <2>2. i # index
    BY <1>12, <2>1
  <2>3. CASE i = n
    <3>1. index \in 1..(n - 1) /\ f[index].id = y
      BY <1>4, <1>6, <2>1, <2>2, <2>3
    <3> QED
      BY <1>10, <3>1
  <2>4. CASE i # n
    <3>1. i \in 1..(n - 1) /\ f[i].id = y
      BY <1>4, <1>7, <2>1, <2>2, <2>4
    <3> QED
      BY <1>10, <3>1
  <2> QED
    BY <2>3, <2>4
<1>13. IdsOf(f) = IdsOf(s) \ {s[index].id}
  BY <1>11, <1>12
<1> QED
  BY <1>3, <1>4, <1>9, <1>13 DEF n, f

(* Erase takes out the timer of its index and no other; taken out at the   *)
(* front, as Tick does, the order of the others is kept.                   *)
LEMMA EraseKeeps ==
  ASSUME NEW s \in Seq(Timers), NEW index \in 1..Len(s), Distinct(s)
  PROVE  /\ Erase(s, index) \in Seq(Timers)
         /\ IdsOf(Erase(s, index)) = IdsOf(s) \ {s[index].id}
         /\ Distinct(Erase(s, index))
         /\ index = 1 /\ Ordered(s) => Ordered(Erase(s, index))
<1> DEFINE f == Front(s, index)
           r == Erase(s, index)
           n == Len(f)
<1>1. /\ f \in Seq(Timers) /\ n = Len(s) - 1 /\ n \in Nat
      /\ \A i \in 1..n : f[i] = IF i = index THEN s[Len(s)] ELSE s[i]
      /\ IdsOf(f) = IdsOf(s) \ {s[index].id}
      /\ Distinct(f)
  BY FrontKeeps
<1>2. r = HeapifyDown(f, index)
  BY DEF Erase, Front
<1>3. Len(s) \in Nat /\ index \in Nat /\ index > 0 /\ index <= Len(s)
  OBVIOUS
<1> HIDE DEF f, r, n
<1>4. CASE index > n
  <2>1. r = f
    BY <1>2, <1>4 DEF HeapifyDown, n
  <2>2. ASSUME index = 1
        PROVE  Ordered(f)
    BY <1>1, <1>4, <2>2 DEF Ordered, n
  <2> QED
    BY <1>1, <2>1, <2>2 DEF r
<1>5. CASE ~(index > n)
  <2>1. index \in 1..n /\ index \in 1..Len(f)
    BY <1>1, <1>3, <1>5 DEF n
  <2>2. Rearranged(f, r)
    BY <1>1, <1>2, <2>1, HeapifyRearranges
  <2>3. ASSUME index = 1, Ordered(s)
        PROVE  Ordered(r)
    <3> DEFINE e == Expiries(f)
               next == DownFrom(f, f[1])
    <3>0. n \in Nat \ {0} /\ 1 \in 1..n /\ f[1] \in Timers /\ 1 \in 1..Len(f) /\ Len(f) = n
      BY <1>1, <2>1, <2>3, TimersTyped DEF n
    <3>1. /\ e \in [1..n -> Nat]
          /\ \A i \in 1..n : e[i] = f[i].expiry
      BY <1>1, TimersTyped DEF Expiries, n
    <3>2. next \in [1..n -> 1..n] /\ Downward(next, n)
      BY <1>1, <3>0, DownSteps
    <3>3. \A j \in 1..n : next[j] = Smallest(f, f[1], j)
      BY <3>0 DEF DownFrom
    <3>4. Sift(f, next, 1) = [i \in 1..n |-> f[Origin(next, 1)[i]]]
      BY <3>0 DEF Sift
    <3>5. r = Sift(f, next, 1)
      BY <1>2, <1>5, <2>3, <3>0 DEF HeapifyDown
    <3> HIDE DEF e, next
    <3>6. \A j \in 1..n : next[j] \in {j, 2 * j, 2 * j + 1}
      BY <3>2 DEF Downward
    <3>7. ASSUME NEW j \in 1..n, NEW c \in 1..n, c \div 2 = j
          PROVE  IF next[j] = j THEN e[1] <= e[c]
                 ELSE e[next[j]] < e[1] /\ e[next[j]] <= e[c]
      <4>1. IF next[j] = j THEN f[1].expiry <= f[c].expiry
            ELSE f[next[j]].expiry < f[1].expiry /\ f[next[j]].expiry <= f[c].expiry
        BY <1>1, <3>0, <3>3, <3>7, SmallestPicks
      <4>2. e[1] = f[1].expiry /\ e[c] = f[c].expiry /\ e[next[j]] = f[next[j]].expiry
        BY <3>0, <3>1, <3>2
      <4> QED
        BY <4>1, <4>2
    <3>8. ASSUME NEW j \in 2..n, j \div 2 # 1
          PROVE  e[j \div 2] <= e[j]
      <4>1. /\ j \in 1..n /\ j \div 2 \in 1..n /\ j # 1 /\ j \in 2..Len(s)
        BY <1>1, <1>3, <3>0, <3>8
      <4>2. f[j] = s[j] /\ f[j \div 2] = s[j \div 2]
        BY <1>1, <2>3, <3>8, <4>1
      <4> QED
        BY <2>3, <3>1, <4>1, <4>2 DEF Ordered
    <3>9. \A i \in 2..n : e[Origin(next, 1)[i \div 2]] <= e[Origin(next, 1)[i]]
      BY <3>0, <3>1, <3>2, <3>6, <3>7, <3>8, DownOrders
    <3>10. Origin(next, 1) \in [1..n -> 1..n]
      <4>1. Chain(next, 1)
        BY <3>0, <3>2, DownChain
      <4>2. Permutation(Origin(next, 1), n)
        BY <3>0, <3>2, <4>1, OriginPermutes
      <4> QED
        BY <4>2 DEF Permutation
    <3>11. \A i \in 1..n : r[i].expiry = e[Origin(next, 1)[i]]
      BY <3>1, <3>4, <3>5, <3>10
    <3>12. Len(r) = n
      BY <2>2 DEF Rearranged, n
    <3> SUFFICES ASSUME NEW i \in 2..n
                 PROVE  r[i \div 2].expiry <= r[i].expiry
      BY <3>12 DEF Ordered
    <3>13. i \in 1..n /\ i \div 2 \in 1..n
      BY <3>0
    <3> QED
      BY <3>9, <3>11, <3>13
  <2> QED
    BY <1>1, <2>2, <2>3 DEF Rearranged, r
<1> QED
  BY <1>4, <1>5
-----------------------------------------------------------------------------
Alive == {id \in Ids : id < timer_id_ /\ id \notin erased \cup removed}

(* The inductive invariant: the timers in the vector are those added and   *)
(* neither popped nor removed, each once, in order until a removal.  The   *)
(* next id is a new one, so that the timer that gets it is alive.          *)
TInv ==
  /\ TypeOK
  /\ Distinct(timers_)
  /\ IdsOf(timers_) = Alive
  /\ \A id \in erased \cup removed : id < timer_id_
  /\ removed = {} => Ordered(timers_)

(* The invariant holds of the empty vector.                                *)
LEMMA TInvInit == Init => TInv
<1> SUFFICES ASSUME Init PROVE TInv
  OBVIOUS
<1> USE BoundsAssumption DEF Init
<1>1. Len(timers_) = 0 /\ 1..0 = {} /\ 2..0 = {}
  OBVIOUS
<1>2. TypeOK
  <2>1. stop_ \in BOOLEAN /\ crashed \in BOOLEAN
    BY Zenon
  <2>2. timers_ \in Seq(Timers)
    OBVIOUS
  <2> QED
    BY <2>1, <2>2 DEF TypeOK
<1>3. Distinct(timers_) /\ Ordered(timers_) /\ IdsOf(timers_) = {}
  BY <1>1 DEF Distinct, Ordered, IdsOf
<1>4. Alive = {}
  BY DEF Alive, Ids
<1> QED
  BY <1>2, <1>3, <1>4 DEF TInv

(* Every step keeps the invariant: Push adds the new id, Erase takes out   *)
(* the one that RemoveTimer found or that Tick pops.                       *)
LEMMA TInvStep == TInv /\ [Next]_vars => TInv'
<1> SUFFICES ASSUME TInv, [Next]_vars PROVE TInv'
  OBVIOUS
<1> USE BoundsAssumption, DelaysAssumption
<1>0. /\ TypeOK /\ timers_ \in Seq(Timers) /\ Len(timers_) \in Nat
      /\ timer_id_ \in 0..MaxTimers /\ timer_id_ \in Nat
      /\ erased \subseteq Ids /\ removed \subseteq Ids /\ spawned \subseteq Ids
      /\ clock \in 0..MaxTime /\ now \in 0..MaxTime
      /\ stop_ \in BOOLEAN /\ crashed \in BOOLEAN /\ tick \in {"top", "lock", "done"}
      /\ Distinct(timers_) /\ IdsOf(timers_) = Alive
      /\ \A id \in erased \cup removed : id < timer_id_
      /\ removed = {} => Ordered(timers_)
      /\ \A id \in Ids : id \in Nat
      /\ \A i \in 1..Len(timers_) : timers_[i].id \in Ids
  BY TimersTyped DEF TInv, TypeOK, Ids
(* A step that changes neither the vector nor what is alive. *)
<1>1. ASSUME UNCHANGED <<timers_, timer_id_, erased, removed>>, TypeOK'
      PROVE  TInv'
  BY <1>0, <1>1 DEF TInv, Alive, Ids
<1>2. ASSUME NEW d \in Delays, NEW t \in 0..MaxTime, AddTimer(d, t)
      PROVE  TInv'
  <2> DEFINE timer == [expiry |-> t + d, id |-> timer_id_]
  <2>1. timer \in Timers /\ timer.id = timer_id_ /\ timer_id_ \in Ids
    <3>1. timer_id_ \in Ids
      BY <1>0, <1>2 DEF AddTimer, Ids
    <3>2. t + d \in 0..MaxTime
      BY <1>2 DEF AddTimer
    <3> QED
      BY <3>1, <3>2 DEF Timers
  <2>2. timers_' = Push(timers_, timer) /\ timer_id_' = timer_id_ + 1
        /\ UNCHANGED <<stop_, clock, tick, now, erased, removed, spawned, crashed>>
    BY <1>2 DEF AddTimer
  <2> HIDE DEF timer
  <2>3. timer_id_ \notin IdsOf(timers_)
    BY <1>0 DEF Alive
  <2>4. /\ timers_' \in Seq(Timers)
        /\ IdsOf(timers_') = IdsOf(timers_) \cup {timer_id_}
        /\ Distinct(timers_')
        /\ removed' = {} => Ordered(timers_')
    BY <1>0, <2>1, <2>2, <2>3, PushKeeps
  <2>5. TypeOK'
    BY <1>0, <1>2, <2>2, <2>4 DEF TypeOK, AddTimer, Timers, Ids
  <2>6. Alive' = Alive \cup {timer_id_}
    <3>1. timer_id_ \notin erased \cup removed
      BY <1>0
    <3>2. \A id \in Ids : id < timer_id_ + 1 <=> id < timer_id_ \/ id = timer_id_
      BY <1>0
    <3> QED
      BY <1>0, <2>1, <2>2, <3>1, <3>2 DEF Alive, Ids
  <2>7. \A id \in (erased \cup removed)' : id < timer_id_'
    <3>1. \A id \in erased \cup removed : id \in Nat /\ id < timer_id_
      BY <1>0
    <3>2. \A id \in erased \cup removed : id < timer_id_ + 1
      BY <1>0, <3>1
    <3> QED
      BY <2>2, <3>2
  <2> QED
    BY <1>0, <2>4, <2>5, <2>6, <2>7 DEF TInv
<1>3. ASSUME NEW id \in Ids, RemoveTimer(id)
      PROVE  TInv'
  <2> DEFINE found == {i \in 1..Len(timers_) : timers_[i].id = id}
  <2>1. /\ id < timer_id_ /\ id \notin removed
        /\ timers_' = IF found = {} THEN timers_
                      ELSE Erase(timers_, CHOOSE i \in found : \A j \in found : i <= j)
        /\ removed' = removed \cup {id}
        /\ UNCHANGED <<timer_id_, stop_, clock, tick, now, erased, spawned, crashed>>
    BY <1>3 DEF RemoveTimer
  <2>2. removed' \subseteq Ids /\ removed' # {}
    BY <1>0, <2>1
  <2>3. Alive' = Alive \ {id}
    BY <2>1 DEF Alive, Ids
  <2>4. timers_' \in Seq(Timers) /\ Distinct(timers_') /\ IdsOf(timers_') = Alive'
    <3>1. CASE found = {}
      <4>1. id \notin IdsOf(timers_)
        BY <3>1 DEF IdsOf
      <4> QED
        BY <1>0, <2>1, <2>3, <3>1, <4>1
    <3>2. CASE found # {}
      <4>1. PICK k \in 1..Len(timers_) : timers_[k].id = id
        BY <3>2
      <4>2. found = {k}
        BY <1>0, <4>1 DEF Distinct
      <4>3. (CHOOSE i \in found : \A j \in found : i <= j) = k
        <5>1. k <= k
          BY <1>0
        <5> HIDE DEF found
        <5> QED
          BY <4>2, <5>1
      <4>4. timers_' = Erase(timers_, k)
        BY <2>1, <3>2, <4>3
      <4> HIDE DEF found
      <4> QED
        BY <1>0, <2>3, <4>1, <4>4, EraseKeeps
    <3> QED
      BY <3>1, <3>2
  <2> HIDE DEF found
  <2>5. TypeOK'
    BY <1>0, <2>1, <2>2, <2>4 DEF TypeOK, Ids, Timers
  <2>6. \A x \in (erased \cup removed)' : x < timer_id_'
    BY <1>0, <2>1
  <2> QED
    BY <2>2, <2>4, <2>5, <2>6 DEF TInv
<1>4. ASSUME TickPop
      PROVE  TInv'
  <2> DEFINE rest == Erase(timers_, 1)
             id == timers_[1].id
  <2>1. /\ timers_ # <<>> /\ timers_' = rest /\ erased' = erased \cup {id} /\ tick' = "top"
        /\ UNCHANGED <<timer_id_, stop_, clock, now, removed>>
    BY <1>4 DEF TickPop, Due
  <2>2. 1 \in 1..Len(timers_)
    BY <1>0, <2>1
  <2>3. id \in Alive /\ id \in Ids /\ id < timer_id_
    <3>1. id \in IdsOf(timers_)
      BY <2>2 DEF IdsOf
    <3> QED
      BY <1>0, <3>1 DEF Alive
  <2>4. /\ timers_' \in Seq(Timers)
        /\ IdsOf(timers_') = Alive \ {id}
        /\ Distinct(timers_')
        /\ removed' = {} => Ordered(timers_')
    BY <1>0, <2>1, <2>2, EraseKeeps
  <2>5. Alive' = Alive \ {id}
    <3> HIDE DEF id, rest
    <3> QED
      BY <2>1 DEF Alive, Ids
  <2>6. spawned' \subseteq Ids
    <3>1. rest # <<>> => rest[1].id \in Ids
      <4>1. rest \in Seq(Timers)
        BY <2>1, <2>4
      <4> HIDE DEF rest
      <4>2. rest # <<>> => 1 \in 1..Len(rest)
        BY <4>1
      <4> QED
        BY <4>1, <4>2, TimersTyped
    <3>2. \/ rest # <<>> /\ spawned' = spawned \cup {rest[1].id}
          \/ spawned' = spawned \cup {id}
          \/ spawned' = spawned
      BY <1>4 DEF TickPop
    <3> HIDE DEF rest, id
    <3> QED
      BY <1>0, <2>3, <3>1, <3>2
  <2>7. crashed' \in BOOLEAN
    <3>1. crashed' = crashed \/ crashed' = TRUE
      BY <1>4 DEF TickPop
    <3> QED
      BY <1>0, <3>1, Zenon
  <2> HIDE DEF rest, id
  <2>8. erased' \subseteq Ids
    BY <1>0, <2>1, <2>3
  <2>9. TypeOK'
    BY <1>0, <2>1, <2>4, <2>6, <2>7, <2>8 DEF TypeOK, Ids, Timers
  <2>10. \A x \in (erased \cup removed)' : x < timer_id_'
    BY <1>0, <2>1, <2>3
  <2> QED
    BY <2>4, <2>5, <2>9, <2>10 DEF TInv
<1>5. CASE TickRead
  <2>1. tick' \in {"top", "lock", "done"} /\ now' \in 0..MaxTime
    BY <1>0, <1>5 DEF TickRead
  <2>2. UNCHANGED <<timers_, timer_id_, stop_, clock, erased, removed, spawned, crashed>>
    BY <1>5 DEF TickRead
  <2>3. TypeOK'
    BY <1>0, <2>1, <2>2 DEF TypeOK, Ids, Timers
  <2> QED
    BY <1>1, <2>2, <2>3
<1>6. CASE TickSleep
  <2>1. tick' = "top"
        /\ UNCHANGED <<timers_, timer_id_, stop_, clock, now, erased, removed, spawned, crashed>>
    BY <1>6 DEF TickSleep
  <2>2. TypeOK'
    BY <1>0, <2>1 DEF TypeOK, Ids, Timers
  <2> QED
    BY <1>1, <2>1, <2>2
<1>7. CASE Shutdown
  <2>1. stop_' = TRUE
        /\ UNCHANGED <<timers_, timer_id_, clock, tick, now, erased, removed, spawned, crashed>>
    BY <1>7 DEF Shutdown
  <2>2. stop_' \in BOOLEAN
    BY <2>1, Zenon
  <2>3. TypeOK'
    BY <1>0, <2>1, <2>2 DEF TypeOK, Ids, Timers
  <2> QED
    BY <1>1, <2>1, <2>3
<1>8. CASE Pass
  <2>1. clock' \in 0..MaxTime
        /\ UNCHANGED <<timers_, timer_id_, stop_, tick, now, erased, removed, spawned, crashed>>
    BY <1>0, <1>8 DEF Pass
  <2>2. TypeOK'
    BY <1>0, <2>1 DEF TypeOK, Ids, Timers
  <2> QED
    BY <1>1, <2>1, <2>2
<1>9. CASE UNCHANGED vars
  <2>1. TypeOK'
    BY <1>0, <1>9 DEF TypeOK, vars, Ids, Timers
  <2> QED
    BY <1>1, <1>9, <2>1 DEF vars
<1> QED
  BY <1>2, <1>3, <1>4, <1>5, <1>6, <1>7, <1>8, <1>9 DEF Next, TickStep

(* The vector, the ids and their fate agree in every reachable state.      *)
THEOREM TimerInductive == Spec => []TInv
BY TInvInit, TInvStep, PTL DEF Spec

(* The swaps of the heap methods neither lose nor duplicate a timer, for   *)
(* any delays and any number of timers: one that was added is in the       *)
(* vector exactly once until Tick pops it or its handler removes it, and   *)
(* the vector is a heap until a removal.                                   *)
THEOREM TimersAreKept == Spec => []TimersKept
<1>1. TInv => TimersKept
  <2> SUFFICES ASSUME TInv PROVE TimersKept
    OBVIOUS
  <2> DEFINE n == Len(timers_)
             f == [i \in 1..n |-> timers_[i].id]
  <2>1. n \in Nat /\ TypeOK /\ (removed = {} => HeapOrdered)
    BY DEF TInv, TypeOK, Ordered, HeapOrdered
  <2>2. f \in Bijection(1..n, IdsOf(timers_))
    <3>1. f \in [1..n -> IdsOf(timers_)]
      BY DEF IdsOf
    <3>2. \A i, j \in 1..n : f[i] = f[j] => i = j
      BY DEF TInv, Distinct
    <3>3. \A x \in IdsOf(timers_) : \E i \in 1..n : f[i] = x
      BY DEF IdsOf
    <3> HIDE DEF f
    <3> QED
      BY <3>1, <3>2, <3>3 DEF Bijection, Injection, IsInjective, Surjection
  <2>3. IsFiniteSet(1..n) /\ Cardinality(1..n) = n
    <3>1. IsFiniteSet(1..n) /\ Cardinality(1..n) = IF 1 > n THEN 0 ELSE n - 1 + 1
      BY <2>1, FS_Interval
    <3> HIDE DEF n
    <3> QED
      BY <2>1, <3>1
  <2>4. Cardinality(IdsOf(timers_)) = n
    <3>1. ExistsBijection(1..n, IdsOf(timers_))
      BY <2>2 DEF ExistsBijection
    <3> QED
      BY <2>3, <3>1, FS_Bijection
  <2>5. \A id \in Ids : InHeap(id) <=> id < timer_id_ /\ id \notin erased \cup removed
    <3>1. \A id \in Ids : InHeap(id) <=> id \in IdsOf(timers_)
      BY DEF InHeap, IdsOf
    <3> QED
      BY <3>1 DEF TInv, Alive
  <2> QED
    BY <2>1, <2>4, <2>5 DEF TimersKept, IdsOf
<1> QED
  BY <1>1, TimerInductive, PTL

(* RemoveTimer is final: no task that was removed is given a thread later, *)
(* although pop() starts the task of whichever timer is in front after the *)
(* erasure.                                                                *)
THEOREM RemovalIsFinal == Spec => RemovedStaysSilent
<1>1. TInv /\ TInv' /\ [Next]_vars => [\A id \in removed : id \in spawned' => id \in spawned]_vars
  <2> SUFFICES ASSUME TInv, TInv', Next, NEW id \in removed, id \in spawned'
               PROVE  id \in spawned
    OBVIOUS
  <2>1. CASE TickPop
    <3> DEFINE rest == Erase(timers_, 1)
    <3>1. timers_' = rest /\ UNCHANGED removed /\ timers_ # <<>> /\ timers_ \in Seq(Timers)
      BY <2>1 DEF TickPop, Due, TInv, TypeOK
    <3>2. timers_[1].id # id
      <4>1. timers_[1].id \in IdsOf(timers_)
        BY <3>1 DEF IdsOf
      <4> QED
        BY <4>1 DEF TInv, Alive
    <3>3. rest # <<>> => rest[1].id # id
      <4>1. rest \in Seq(Timers) /\ IdsOf(rest) = Alive' /\ id \notin Alive'
        <5>1. timers_' \in Seq(Timers) /\ IdsOf(timers_') = Alive'
          BY DEF TInv, TypeOK, Timers, Ids, IdsOf
        <5> QED
          BY <3>1, <5>1 DEF Alive
      <4> HIDE DEF rest
      <4>2. rest # <<>> => rest[1].id \in IdsOf(rest)
        BY <4>1 DEF IdsOf
      <4> QED
        BY <4>1, <4>2
    <3>4. \/ rest # <<>> /\ spawned' = spawned \cup {rest[1].id}
          \/ spawned' = spawned \cup {timers_[1].id}
          \/ spawned' = spawned
      BY <2>1 DEF TickPop
    <3> HIDE DEF rest
    <3> QED
      BY <3>2, <3>3, <3>4
  <2>2. CASE ~TickPop
    <3>1. UNCHANGED spawned
      BY <2>2 DEF Next, TickStep, AddTimer, RemoveTimer, TickRead, TickSleep, Shutdown, Pass
    <3> QED
      BY <3>1
  <2> QED
    BY <2>1, <2>2
<1> QED
  BY <1>1, TimerInductive, PTL DEF Spec, RemovedStaysSilent
=============================================================================
