---------------------------- MODULE LibraryProofs ---------------------------
(***************************************************************************)
(* Proofs for BufPool: BuffersKept is an invariant for every set of        *)
(* buffers, every table of capacities, every first filling of the lists    *)
(* and every limit.  It is inductive as it stands.                         *)
(*                                                                         *)
(* And for BlockingQueuePool, with any number of threads and any tasks:    *)
(* no pushed task is lost or run twice, and Shutdown returns after those   *)
(* that were pushed before it stopped their queue.                         *)
(***************************************************************************)
EXTENDS BufPool, TLAPS

(* The two list operations: every other buffer keeps its place but for one *)
(* position.                                                               *)
LEMMA PoppedList ==
  ASSUME NEW list \in Seq(Bufs), list # <<>>
  PROVE  /\ Len(list) \in Nat \ {0} /\ Head(list) = list[1] /\ list[1] \in Bufs
         /\ Tail(list) \in Seq(Bufs) /\ Len(Tail(list)) = Len(list) - 1
         /\ \A i \in 1..(Len(list) - 1) : Tail(list)[i] = list[i + 1]
  OBVIOUS

LEMMA PushedList ==
  ASSUME NEW list \in Seq(Bufs), NEW b \in Bufs
  PROVE  /\ Len(list) \in Nat
         /\ <<b>> \o list \in Seq(Bufs) /\ Len(<<b>> \o list) = Len(list) + 1
         /\ (<<b>> \o list)[1] = b
         /\ \A i \in 1..Len(list) : (<<b>> \o list)[i + 1] = list[i]
  OBVIOUS

(* The constructor establishes the invariant.                              *)
LEMMA InitKept == PoolInit => BuffersKept
<1> SUFFICES ASSUME PoolInit PROVE BuffersKept
  OBVIOUS
<1> USE CapsAssumption, FirstAssumption, MemAssumption
<1>1. \A b \in Bufs, c \in Caps : InList(b, FirstBufs[c]) => capacity[b] = c
  BY DEF PoolInit, InList
<1>2. \A b \in Bufs : \/ capacity[b] = 0
                      \/ \E c \in Caps : InList(b, FirstBufs[c])
  BY DEF PoolInit
<1>3. capacity \in [Bufs -> Caps \cup {0}]
  BY DEF PoolInit
<1>4. PoolTypeOK
  BY <1>3 DEF PoolInit, PoolTypeOK
<1>5. \A c \in Caps : \A i \in 1..Len(pool_[c]) : capacity[pool_[c][i]] = c
  BY <1>1 DEF PoolInit, InList
<1>6. \A b \in Bufs : capacity[b] # 0 => b \in held \/ \E c \in Caps : InList(b, pool_[c])
  BY <1>2, Zenon DEF PoolInit
<1>7. \A c, d \in Caps : \A i \in 1..Len(pool_[c]), j \in 1..Len(pool_[d]) :
        pool_[c][i] = pool_[d][j] => c = d /\ i = j
  BY DEF PoolInit
<1>8. OneOwner
  BY <1>5, <1>6, <1>7 DEF PoolInit, OneOwner
<1>9. Fits
  <2>1. \A b \in Bufs : capacity[b] \in Nat /\ head[b] = 0 /\ length[b] = 0
    BY <1>3 DEF PoolInit
  <2>2. held = {}
    BY DEF PoolInit
  <2> QED
    BY <2>1, <2>2 DEF Fits
<1> QED
  BY <1>4, <1>8, <1>9 DEF BuffersKept, PoolInit

-----------------------------------------------------------------------------
(* What it says of the entries of the lists.                               *)
LEMMA Entries ==
  ASSUME BuffersKept, NEW c \in Caps, NEW i \in 1..Len(pool_[c])
  PROVE  /\ capacity[pool_[c][i]] = c /\ pool_[c][i] \notin held
         /\ \A d \in Caps, j \in Nat :
              j \in 1..Len(pool_[d]) /\ pool_[c][i] = pool_[d][j] => c = d /\ i = j
  BY DEF BuffersKept, OneOwner

(* Two equal entries are the same one.                                     *)
LEMMA SameEntry ==
  ASSUME BuffersKept, NEW c \in Caps, NEW d \in Caps,
         NEW m \in 1..Len(pool_[c]), NEW n \in 1..Len(pool_[d]),
         pool_[c][m] = pool_[d][n]
  PROVE  c = d /\ m = n
<1>1. OneOwner
  BY DEF BuffersKept
<1> QED
  BY <1>1 DEF OneOwner

(* What the invariant says of the numbers of a buffer.                     *)
LEMMA Numbers ==
  ASSUME BuffersKept, NEW b \in Bufs
  PROVE  /\ head[b] \in Nat /\ length[b] \in Nat /\ capacity[b] \in Nat
         /\ head[b] + length[b] <= capacity[b]
         /\ b \notin held => head[b] = 0 /\ length[b] = 0
<1>1. head[b] \in Nat /\ length[b] \in Nat /\ capacity[b] \in Caps \cup {0}
  BY DEF BuffersKept, PoolTypeOK
<1>2. capacity[b] \in Nat
  BY <1>1, CapsAssumption
<1>3. head[b] + length[b] <= capacity[b] /\ (b \notin held => head[b] = 0 /\ length[b] = 0)
  BY Zenon DEF BuffersKept, Fits
<1> QED
  BY <1>1, <1>2, <1>3

(* Taking a free buffer.                                                   *)
LEMMA AllocPooledKept ==
  ASSUME NEW N \in Sizes, NEW key \in Caps, AllocPooled(N, key), BuffersKept
  PROVE  BuffersKept'
<1> USE CapsAssumption
<1> DEFINE list == pool_[key]
           b    == list[1]
           rest == Tail(list)
<1>1. list \in Seq(Bufs) /\ list # <<>>
  BY DEF BuffersKept, PoolTypeOK, AllocPooled
<1>2. /\ Len(list) \in Nat \ {0} /\ b \in Bufs /\ b = Head(list)
      /\ rest \in Seq(Bufs) /\ Len(rest) = Len(list) - 1
      /\ \A i \in 1..Len(rest) : rest[i] = list[i + 1]
  BY <1>1, PoppedList
<1>3. /\ pool_' = [pool_ EXCEPT ![key] = rest]
      /\ held' = held \cup {b} /\ wanted' = [wanted EXCEPT ![b] = N]
      /\ UNCHANGED <<head, length, exited, capacity, total_mem_>>
  BY <1>2 DEF AllocPooled, HandOut
<1>4. capacity[b] = key /\ b \notin held
  BY <1>2 DEF BuffersKept, OneOwner
<1> HIDE DEF rest
<1>5. pool_'[key] = rest /\ \A c \in Caps : c # key => pool_'[c] = pool_[c]
  BY <1>3 DEF BuffersKept, PoolTypeOK
<1>6. PoolTypeOK'
  BY <1>2, <1>3 DEF BuffersKept, PoolTypeOK
<1>7. OneOwner'
  <2> DEFINE Old(c, i) == IF c = key THEN i + 1 ELSE i
  <2>1. \A c \in Caps : \A i \in 1..Len(pool_'[c]) :
          Old(c, i) \in 1..Len(pool_[c]) /\ pool_'[c][i] = pool_[c][Old(c, i)]
    <3> SUFFICES ASSUME NEW c \in Caps, NEW i \in 1..Len(pool_'[c])
                 PROVE  Old(c, i) \in 1..Len(pool_[c]) /\ pool_'[c][i] = pool_[c][Old(c, i)]
      OBVIOUS
    <3>1. CASE c = key
      BY <3>1, <1>2, <1>5
    <3>2. CASE c # key
      BY <3>2, <1>5
    <3> QED
      BY <3>1, <3>2
  <2>2. \A c, d \in Caps : \A i \in 1..Len(pool_'[c]), j \in 1..Len(pool_'[d]) :
          pool_'[c][i] = pool_'[d][j] => c = d /\ i = j
    <3> SUFFICES ASSUME NEW c \in Caps, NEW d \in Caps,
                        NEW i \in 1..Len(pool_'[c]), NEW j \in 1..Len(pool_'[d]),
                        pool_'[c][i] = pool_'[d][j]
                 PROVE  c = d /\ i = j
      OBVIOUS
    <3> HIDE DEF Old
    <3> DEFINE m == Old(c, i)
               n == Old(d, j)
    <3>1. m \in 1..Len(pool_[c]) /\ n \in 1..Len(pool_[d]) /\ pool_[c][m] = pool_[d][n]
      BY <2>1
    <3> HIDE DEF m, n
    <3>2. c = d /\ m = n
      BY <3>1, Entries
    <3> QED
      BY <3>2 DEF Old, m, n
  <2>3. \A c \in Caps : \A i \in 1..Len(pool_'[c]) : pool_'[c][i] # b
    <3> SUFFICES ASSUME NEW c \in Caps, NEW i \in 1..Len(pool_'[c]), pool_'[c][i] = b
                 PROVE  FALSE
      OBVIOUS
    <3>1. pool_[c][Old(c, i)] = pool_[key][1] /\ Old(c, i) \in 1..Len(pool_[c])
      BY <2>1
    <3>2. 1 \in 1..Len(pool_[key])
      BY <1>2
    <3> HIDE DEF Old
    <3>3. c = key /\ Old(c, i) = 1
      BY <3>1, <3>2 DEF BuffersKept, OneOwner
    <3> QED
      BY <3>3 DEF Old
  <2> HIDE DEF Old
  <2>4. \A c \in Caps : \A i \in 1..Len(pool_'[c]) :
          capacity'[pool_'[c][i]] = c /\ pool_'[c][i] \notin held'
    BY <2>1, <2>3, <1>3, SMTT(30) DEF BuffersKept, OneOwner
  <2>5. \A a \in Bufs : capacity'[a] # 0 =>
          a \in held' \/ \E c \in Caps : InList(a, pool_'[c])
    <3> SUFFICES ASSUME NEW a \in Bufs, capacity[a] # 0, a # b, a \notin held
                 PROVE  \E c \in Caps : InList(a, pool_'[c])
      BY <1>3
    <3>1. PICK c \in Caps : InList(a, pool_[c])
      BY DEF BuffersKept, OneOwner
    <3>2. PICK i \in 1..Len(pool_[c]) : pool_[c][i] = a
      BY <3>1 DEF InList
    <3>3. CASE c = key
      <4>1. i - 1 \in 1..Len(rest) /\ rest[i - 1] = a
        BY <3>2, <3>3, <1>2
      <4> QED
        BY <4>1, <3>3, <1>5 DEF InList
    <3>4. CASE c # key
      BY <3>1, <3>4, <1>5
    <3> QED
      BY <3>3, <3>4
  <2>6. \A a \in held' : capacity'[a] # 0
    BY <1>3, <1>4 DEF BuffersKept, OneOwner
  <2> QED
    BY <2>2, <2>4, <2>5, <2>6 DEF OneOwner
<1>8. Fits'
  <2>1. wanted'[b] = N /\ \A a \in Bufs : a # b => wanted'[a] = wanted[a]
    BY <1>2, <1>3 DEF BuffersKept, PoolTypeOK
  <2>2. \A a \in held' : IsKey(wanted'[a], capacity'[a])
    BY <2>1, <1>3, <1>4 DEF AllocPooled, BuffersKept, Fits, PoolTypeOK
  <2> QED
    BY <2>2, <1>3 DEF BuffersKept, Fits, IsKey
<1> QED
  BY <1>3, <1>6, <1>7, <1>8 DEF BuffersKept

(* Making a buffer for an empty group.                                     *)
LEMMA AllocNewKept ==
  ASSUME NEW N \in Sizes, NEW key \in Caps, NEW b \in Bufs, AllocNew(N, key, b), BuffersKept
  PROVE  BuffersKept'
<1> USE CapsAssumption
<1>1. /\ capacity[b] = 0 /\ capacity' = [capacity EXCEPT ![b] = key]
      /\ held' = held \cup {b} /\ wanted' = [wanted EXCEPT ![b] = N]
      /\ total_mem_' = total_mem_ + key /\ total_mem_ + key < MEM_LIMIT
      /\ UNCHANGED <<pool_, head, length, exited>>
      /\ IsKey(N, key)
  BY DEF AllocNew, HandOut
<1>2. /\ key \in Nat /\ key # 0
      /\ b \notin held
      /\ \A c \in Caps : \A i \in 1..Len(pool_[c]) : pool_[c][i] # b
  BY <1>1 DEF BuffersKept, OneOwner
<1>3. /\ capacity'[b] = key /\ \A a \in Bufs : a # b => capacity'[a] = capacity[a]
      /\ wanted'[b] = N /\ \A a \in Bufs : a # b => wanted'[a] = wanted[a]
  BY <1>1 DEF BuffersKept, PoolTypeOK
<1>4. PoolTypeOK'
  BY <1>1 DEF BuffersKept, PoolTypeOK
<1>5. OneOwner'
  <2>1. \A c \in Caps : \A i \in 1..Len(pool_[c]) : pool_[c][i] \in Bufs
    BY DEF BuffersKept, PoolTypeOK
  <2>2. \A c \in Caps : \A i \in 1..Len(pool_[c]) :
          capacity'[pool_[c][i]] = c /\ pool_[c][i] \notin held'
    BY <1>1, <1>2, <1>3, <2>1 DEF BuffersKept, OneOwner
  <2>3. \A a \in Bufs : capacity'[a] # 0 =>
          a \in held' \/ \E c \in Caps : InList(a, pool_[c])
    BY <1>1, <1>3 DEF BuffersKept, OneOwner
  <2>4. \A a \in held' : capacity'[a] # 0
    BY <1>1, <1>2, <1>3 DEF BuffersKept, OneOwner, PoolTypeOK
  <2> QED
    BY <1>1, <2>2, <2>3, <2>4 DEF BuffersKept, OneOwner
<1>6. Fits'
  <2>1. \A a \in held' : IsKey(wanted'[a], capacity'[a])
    BY <1>1, <1>3 DEF BuffersKept, Fits, PoolTypeOK
  <2>2. \A a \in Bufs : head[a] + length[a] <= capacity'[a]
    <3> SUFFICES ASSUME NEW a \in Bufs PROVE head[a] + length[a] <= capacity'[a]
      OBVIOUS
    <3>1. CASE a = b
      BY <3>1, <1>2, <1>3, Numbers
    <3>2. CASE a # b
      BY <3>2, <1>3, Numbers
    <3> QED
      BY <3>1, <3>2
  <2> QED
    BY <1>1, <2>1, <2>2 DEF BuffersKept, Fits, IsKey
<1> QED
  BY <1>1, <1>4, <1>5, <1>6 DEF BuffersKept

LEMMA AllocExitKept ==
  ASSUME NEW N \in Sizes, NEW key \in Caps, AllocExit(N, key), BuffersKept
  PROVE  BuffersKept'
  BY DEF AllocExit, BuffersKept, PoolTypeOK, OneOwner, Fits, IsKey, InList

(* Giving a buffer back.                                                   *)
LEMMA RevertKept ==
  ASSUME NEW b \in Bufs, Revert(b), BuffersKept
  PROVE  BuffersKept'
<1> USE CapsAssumption
<1> DEFINE key  == capacity[b]
           list == pool_[key]
           more == <<b>> \o list
<1>1. b \in held /\ key \in Caps
  BY DEF Revert, BuffersKept, OneOwner, PoolTypeOK
<1>2. list \in Seq(Bufs)
  BY <1>1 DEF BuffersKept, PoolTypeOK
<1>3. /\ Len(list) \in Nat
      /\ more \in Seq(Bufs) /\ Len(more) = Len(list) + 1 /\ more[1] = b
      /\ \A i \in 1..Len(list) : more[i + 1] = list[i]
  BY <1>2, PushedList
<1>4. /\ pool_' = [pool_ EXCEPT ![key] = more]
      /\ held' = held \ {b}
      /\ head' = [head EXCEPT ![b] = 0] /\ length' = [length EXCEPT ![b] = 0]
      /\ UNCHANGED <<total_mem_, capacity, wanted, exited>>
  BY DEF Revert
<1> HIDE DEF more
<1>5. pool_'[key] = more /\ \A c \in Caps : c # key => pool_'[c] = pool_[c]
  BY <1>1, <1>4 DEF BuffersKept, PoolTypeOK
<1>6. \A c \in Caps : \A i \in 1..Len(pool_[c]) : pool_[c][i] # b
  BY <1>1, Entries
<1>7. PoolTypeOK'
  BY <1>1, <1>3, <1>4 DEF BuffersKept, PoolTypeOK
<1>8. OneOwner'
  <2> DEFINE Old(c, i) == IF c = key THEN i - 1 ELSE i
  <2>1. \A c \in Caps : \A i \in 1..Len(pool_'[c]) :
          \/ c = key /\ i = 1 /\ pool_'[c][i] = b
          \/ Old(c, i) \in 1..Len(pool_[c]) /\ pool_'[c][i] = pool_[c][Old(c, i)]
    <3> SUFFICES ASSUME NEW c \in Caps, NEW i \in 1..Len(pool_'[c])
                 PROVE  \/ c = key /\ i = 1 /\ pool_'[c][i] = b
                        \/ /\ Old(c, i) \in 1..Len(pool_[c])
                           /\ pool_'[c][i] = pool_[c][Old(c, i)]
      OBVIOUS
    <3>1. CASE c = key
      <4>1. i = 1 \/ (i - 1 \in 1..Len(list) /\ more[i] = list[i - 1])
        <5>1. i = 1 \/ i - 1 \in 1..Len(list)
          BY <3>1, <1>3, <1>5
        <5> QED
          BY <5>1, <1>3
      <4> QED
        BY <3>1, <4>1, <1>3, <1>5
    <3>2. CASE c # key
      BY <3>2, <1>5
    <3> QED
      BY <3>1, <3>2
  <2>2. \A c, d \in Caps : \A i \in 1..Len(pool_'[c]), j \in 1..Len(pool_'[d]) :
          pool_'[c][i] = pool_'[d][j] => c = d /\ i = j
    <3> SUFFICES ASSUME NEW c \in Caps, NEW d \in Caps,
                        NEW i \in 1..Len(pool_'[c]), NEW j \in 1..Len(pool_'[d]),
                        pool_'[c][i] = pool_'[d][j]
                 PROVE  c = d /\ i = j
      OBVIOUS
    <3> HIDE DEF Old, key
    <3>1. \/ c = key /\ i = 1 /\ pool_'[c][i] = b
          \/ Old(c, i) \in 1..Len(pool_[c]) /\ pool_'[c][i] = pool_[c][Old(c, i)]
      BY <2>1
    <3>2. \/ d = key /\ j = 1 /\ pool_'[d][j] = b
          \/ Old(d, j) \in 1..Len(pool_[d]) /\ pool_'[d][j] = pool_[d][Old(d, j)]
      BY <2>1
    <3>3. \/ c = key /\ i = 1 /\ d = key /\ j = 1
          \/ /\ Old(c, i) \in 1..Len(pool_[c]) /\ Old(d, j) \in 1..Len(pool_[d])
             /\ pool_[c][Old(c, i)] = pool_[d][Old(d, j)]
      BY <3>1, <3>2, <1>6
    <3>4. \/ c = key /\ i = 1 /\ d = key /\ j = 1
          \/ c = d /\ Old(c, i) = Old(d, j)
      <4>1. ASSUME NEW m \in 1..Len(pool_[c]), NEW n \in 1..Len(pool_[d]),
                   pool_[c][m] = pool_[d][n]
            PROVE  c = d /\ m = n
        BY <4>1, SameEntry
      <4> QED
        BY <3>3, <4>1
    <3> QED
      BY <3>4 DEF Old
  <2> HIDE DEF Old
  <2>3. \A c \in Caps : \A i \in 1..Len(pool_'[c]) :
          capacity'[pool_'[c][i]] = c /\ pool_'[c][i] \notin held'
    BY <2>1, <1>4 DEF BuffersKept, OneOwner
  <2>4. \A a \in Bufs : capacity'[a] # 0 =>
          a \in held' \/ \E c \in Caps : InList(a, pool_'[c])
    <3>1. InList(b, pool_'[key])
      BY <1>3, <1>5 DEF InList
    <3>2. ASSUME NEW a \in Bufs, NEW c \in Caps, InList(a, pool_[c])
          PROVE  InList(a, pool_'[c])
      <4>1. PICK i \in 1..Len(pool_[c]) : pool_[c][i] = a
        BY <3>2 DEF InList
      <4>2. CASE c = key
        <5>1. i + 1 \in 1..Len(more) /\ more[i + 1] = a
          BY <4>1, <4>2, <1>3
        <5> QED
          BY <5>1, <4>2, <1>5 DEF InList
      <4>3. CASE c # key
        BY <3>2, <4>3, <1>5
      <4> QED
        BY <4>2, <4>3
    <3>3. \A a \in Bufs : capacity[a] # 0 =>
            a \in held \/ \E c \in Caps : InList(a, pool_[c])
      BY DEF BuffersKept, OneOwner
    <3> TAKE a \in Bufs
    <3> HAVE capacity'[a] # 0
    <3>4. a \in held \/ \E c \in Caps : InList(a, pool_[c])
      BY <3>3, <1>4
    <3>5. CASE a = b
      BY <3>1, <3>5, <1>1
    <3>6. CASE a # b /\ a \in held
      BY <3>6, <1>4
    <3>7. CASE \E c \in Caps : InList(a, pool_[c])
      BY <3>2, <3>7
    <3> QED
      BY <3>4, <3>5, <3>6, <3>7
  <2> QED
    BY <2>2, <2>3, <2>4, <1>4 DEF BuffersKept, OneOwner
<1>9. Fits'
  <2>1. /\ head'[b] = 0 /\ length'[b] = 0
        /\ \A a \in Bufs : a # b => head'[a] = head[a] /\ length'[a] = length[a]
    BY <1>4 DEF BuffersKept, PoolTypeOK
  <2>2. \A a \in Bufs : a \notin held' => head'[a] = 0 /\ length'[a] = 0
    BY <2>1, <1>4 DEF BuffersKept, Fits
  <2>3. \A a \in Bufs : head'[a] + length'[a] <= capacity[a]
    <3> SUFFICES ASSUME NEW a \in Bufs PROVE head'[a] + length'[a] <= capacity[a]
      OBVIOUS
    <3>1. CASE a = b
      BY <3>1, <2>1, Numbers
    <3>2. CASE a # b
      BY <3>2, <2>1, Numbers
    <3> QED
      BY <3>1, <3>2
  <2> QED
    BY <2>2, <2>3, <1>4 DEF BuffersKept, Fits, IsKey
<1> QED
  BY <1>4, <1>7, <1>8, <1>9 DEF BuffersKept

(* Every method of a buffer that stays within its capacity.                *)
LEMMA PositionKept ==
  ASSUME NEW b \in Bufs, NEW h \in Nat, NEW l \in Nat, h + l <= capacity[b],
         Position(b, h, l), BuffersKept
  PROVE  BuffersKept'
<1>1. /\ b \in held /\ head' = [head EXCEPT ![b] = h] /\ length' = [length EXCEPT ![b] = l]
      /\ UNCHANGED <<pool_, total_mem_, capacity, held, wanted, exited>>
  BY DEF Position
<1>2. /\ head'[b] = h /\ length'[b] = l
      /\ \A a \in Bufs : a # b => head'[a] = head[a] /\ length'[a] = length[a]
  BY <1>1 DEF BuffersKept, PoolTypeOK
<1>3. PoolTypeOK'
  BY <1>1 DEF BuffersKept, PoolTypeOK
<1>4. OneOwner'
  BY <1>1 DEF BuffersKept, OneOwner, InList
<1>5. Fits'
  <2>1. \A a \in Bufs : head'[a] + length'[a] <= capacity[a]
    BY <1>2 DEF BuffersKept, Fits
  <2>2. \A a \in Bufs : a \notin held => head'[a] = 0 /\ length'[a] = 0
    BY <1>1, <1>2 DEF BuffersKept, Fits
  <2> QED
    BY <2>1, <2>2, <1>1 DEF BuffersKept, Fits, IsKey
<1> QED
  BY <1>1, <1>3, <1>4, <1>5 DEF BuffersKept

LEMMA MethodsKept ==
  ASSUME BuffersKept, NEW b \in Bufs,
         \/ Clear(b) \/ Adjust(b)
         \/ \E n \in Caps : Fill(b, n) \/ Pop(b, n)
         \/ \E o \in Bufs : Copy(b, o)
  PROVE  BuffersKept'
<1> USE CapsAssumption
<1>1. /\ head[b] \in Nat /\ length[b] \in Nat /\ head[b] + length[b] <= capacity[b]
      /\ capacity[b] \in Nat /\ \A o \in Bufs : length[o] \in Nat
  BY Numbers
<1>2. CASE Clear(b)
  BY <1>1, <1>2, PositionKept DEF Clear
<1>3. CASE Adjust(b)
  BY <1>1, <1>3, PositionKept DEF Adjust
<1>4. ASSUME NEW n \in Caps, Fill(b, n) PROVE BuffersKept'
  <2>1. n \in Nat /\ head[b] + length[b] + n <= capacity[b]
    BY <1>4 DEF Fill
  <2>2. head[b] \in Nat /\ length[b] + n \in Nat /\ head[b] + (length[b] + n) <= capacity[b]
    BY <1>1, <2>1
  <2> QED
    BY <2>2, <1>4, PositionKept DEF Fill
<1>5. ASSUME NEW n \in Caps, Pop(b, n) PROVE BuffersKept'
  <2>1. n \in Nat /\ n <= length[b]
    BY <1>5 DEF Pop
  <2>2. /\ head[b] + n \in Nat /\ length[b] - n \in Nat
        /\ (head[b] + n) + (length[b] - n) <= capacity[b]
    BY <1>1, <2>1
  <2> QED
    BY <2>2, <1>5, PositionKept DEF Pop
<1>6. ASSUME NEW o \in Bufs, Copy(b, o) PROVE BuffersKept'
  BY <1>1, <1>6, PositionKept DEF Copy
<1> QED
  BY <1>2, <1>3, <1>4, <1>5, <1>6

-----------------------------------------------------------------------------
(* BuffersKept is an invariant of the pool: AllocBuf, Revert and the       *)
(* methods of IOBuf keep every buffer with one owner and within its        *)
(* capacity, and the memory below MEM_LIMIT.                               *)
THEOREM PoolIsKept == PoolSpec => []BuffersKept
<1>1. PoolInit => BuffersKept
  BY InitKept
<1>2. BuffersKept /\ [PoolNext]_poolVars => BuffersKept'
  <2> SUFFICES ASSUME BuffersKept, [PoolNext]_poolVars PROVE BuffersKept'
    OBVIOUS
  <2>1. ASSUME NEW N \in Sizes, NEW key \in Caps, AllocBuf(N, key) PROVE BuffersKept'
    BY <2>1, AllocPooledKept, AllocExitKept, AllocNewKept DEF AllocBuf
  <2>2. ASSUME NEW b \in Bufs, Revert(b) PROVE BuffersKept'
    BY <2>2, RevertKept
  <2>3. ASSUME NEW b \in Bufs,
               \/ Clear(b) \/ Adjust(b)
               \/ \E n \in Caps : Fill(b, n) \/ Pop(b, n)
               \/ \E o \in Bufs : Copy(b, o)
        PROVE  BuffersKept'
    BY <2>3, MethodsKept
  <2>4. CASE UNCHANGED poolVars
    BY <2>4 DEF poolVars, BuffersKept, PoolTypeOK, OneOwner, Fits, IsKey, InList
  <2> QED
    BY <2>1, <2>2, <2>3, <2>4 DEF PoolNext
<1> QED
  BY <1>1, <1>2, PTL DEF PoolSpec
-----------------------------------------------------------------------------
(* BlockingQueuePool.                                                      *)
CONSTANTS ThreadNum, Tasks

VARIABLES queue, qstop, stop_, pc, task, call, target, late, done, shut

Queues == INSTANCE BlockingQueuePool

Ids == Queues!Ids

QueuesSpec == Queues!Init /\ [][Queues!Next]_(Queues!vars)

QueuesTypeOK ==
  /\ queue \in [Ids -> Seq(Tasks)] /\ qstop \in [Ids -> BOOLEAN]
  /\ pc \in [Ids -> {"pop", "run", "wait", "exited"}]
  /\ task \in [Ids -> Tasks \cup {Queues!NoTask}]
  /\ \A w \in Ids : pc[w] = "run" => task[w] \in Tasks
  /\ call \in [Tasks -> {"none", "push", "notify", "in", "refused"}]
  /\ target \in [Tasks -> Ids \cup {Queues!None}]
  /\ \A t \in Tasks : call[t] = "push" => target[t] \in Ids
  /\ done \subseteq Tasks
  /\ shut \in [pc : {"none", "stop", "wake", "join", "done"}, at : Nat]

(* A worker leaves only a stopped queue in which nothing lies but what was *)
(* pushed behind the stop, and Shutdown has waited for all of them.        *)
LeftEmpty ==
  \A w \in Ids : pc[w] = "exited" =>
    qstop[w] /\ \A i \in 1..Len(queue[w]) : queue[w][i] \in late

Joined == shut.pc = "done" => \A w \in Ids : pc[w] = "exited"

QInv == QueuesTypeOK /\ Queues!OnePlaceEach /\ LeftEmpty /\ Joined

(* The parts of QInv that are about a step that moves no task.             *)
LEMMA NothingMoves ==
  ASSUME QInv, QueuesTypeOK', UNCHANGED <<queue, done>>,
         \A t \in Tasks : Queues!Pushed(t)' <=> Queues!Pushed(t),
         \A w \in Ids : \A t : Queues!Holds(w, t)' <=> Queues!Holds(w, t)
  PROVE  Queues!OnePlaceEach'
<1>1. \A w \in Ids : \A t : Queues!InQueue(w, t)' <=> Queues!InQueue(w, t)
  BY DEF Queues!InQueue
<1>2. Queues!OnePlaceEach BY DEF QInv
<1> QED
  BY <1>1, <1>2 DEF Queues!OnePlaceEach, Ids

LEMMA QInvInit == Queues!Init => QInv
<1> SUFFICES ASSUME Queues!Init PROVE QInv
  OBVIOUS
<1> USE DEF Queues!Init
<1>1. QueuesTypeOK BY DEF QueuesTypeOK, Ids
<1>2. Queues!OnePlaceEach
  BY DEF Queues!OnePlaceEach, Queues!Pushed, Queues!Holds, Queues!InQueue, Ids
<1>3. LeftEmpty /\ Joined BY DEF LeftEmpty, Joined, Ids
<1> QED
  BY <1>1, <1>2, <1>3 DEF QInv

-----------------------------------------------------------------------------
(* What a queue holds after a task was taken from its front, and after one *)
(* was added at its end.                                                   *)
LEMMA TakenFrom ==
  ASSUME NEW s \in Seq(Tasks), s # <<>>
  PROVE  /\ Len(s) \in Nat \ {0} /\ Head(s) = s[1] /\ s[1] \in Tasks
         /\ Tail(s) \in Seq(Tasks) /\ Len(Tail(s)) = Len(s) - 1
         /\ \A i \in 1..(Len(s) - 1) : Tail(s)[i] = s[i + 1]
  OBVIOUS

LEMMA AddedTo ==
  ASSUME NEW s \in Seq(Tasks), NEW t \in Tasks
  PROVE  /\ Len(s) \in Nat /\ Append(s, t) \in Seq(Tasks) /\ Len(Append(s, t)) = Len(s) + 1
         /\ Append(s, t)[Len(s) + 1] = t
         /\ \A i \in 1..Len(s) : Append(s, t)[i] = s[i]
  OBVIOUS

(* A worker takes the task at the front of its queue.                      *)
LEMMA TakeKeeps ==
  ASSUME QInv, NEW w \in Ids, pc[w] = "pop", queue[w] # <<>>,
         task' = [task EXCEPT ![w] = Head(queue[w])],
         queue' = [queue EXCEPT ![w] = Tail(queue[w])],
         pc' = [pc EXCEPT ![w] = "run"],
         UNCHANGED <<qstop, stop_, call, target, late, done, shut>>
  PROVE  QInv'
<1> DEFINE h == queue[w][1]
<1>1. QueuesTypeOK /\ Queues!OnePlaceEach /\ LeftEmpty /\ Joined BY DEF QInv
<1>2. queue[w] \in Seq(Tasks) BY <1>1 DEF QueuesTypeOK
<1>3. /\ Len(queue[w]) \in Nat \ {0} /\ Head(queue[w]) = h /\ h \in Tasks
      /\ Tail(queue[w]) \in Seq(Tasks) /\ Len(Tail(queue[w])) = Len(queue[w]) - 1
      /\ \A i \in 1..(Len(queue[w]) - 1) : Tail(queue[w])[i] = queue[w][i + 1]
  BY <1>2, TakenFrom
<1>4. QueuesTypeOK' BY <1>1, <1>3 DEF QueuesTypeOK
<1>5. /\ queue'[w] = Tail(queue[w]) /\ task'[w] = h /\ pc'[w] = "run"
      /\ \A v \in Ids \ {w} : queue'[v] = queue[v] /\ task'[v] = task[v] /\ pc'[v] = pc[v]
  BY <1>1, <1>3 DEF QueuesTypeOK
<1>6. Len(queue'[w]) = Len(queue[w]) - 1 BY <1>3, <1>5
<1>7. LeftEmpty' BY <1>1, <1>5 DEF LeftEmpty
<1>8. Joined' BY <1>1, <1>5 DEF Joined
<1>9. \A i, j \in 1..Len(queue[w]) : queue[w][i] = queue[w][j] => i = j
  BY <1>1 DEF Queues!OnePlaceEach, Ids
<1>10. \A i, j \in 1..Len(queue'[w]) : queue'[w][i] = queue'[w][j] => i = j
  <2> SUFFICES ASSUME NEW i \in 1..Len(queue'[w]), NEW j \in 1..Len(queue'[w]),
                      queue'[w][i] = queue'[w][j]
               PROVE  i = j
    OBVIOUS
  <2>1. /\ i \in Nat /\ j \in Nat /\ i + 1 \in 1..Len(queue[w]) /\ j + 1 \in 1..Len(queue[w])
        /\ i \in 1..(Len(queue[w]) - 1) /\ j \in 1..(Len(queue[w]) - 1)
    BY <1>3, <1>6
  <2>2. queue[w][i + 1] = queue[w][j + 1] BY <1>3, <1>5, <2>1
  <2>3. i + 1 = j + 1 BY <1>9, <2>1, <2>2
  <2> QED BY <2>1, <2>3
<1>11. ASSUME NEW t
       PROVE  Queues!InQueue(w, t)' <=> Queues!InQueue(w, t) /\ t # h
  <2>1. ASSUME NEW i \in 1..Len(queue'[w]), queue'[w][i] = t
        PROVE  Queues!InQueue(w, t) /\ t # h
    <3>1. /\ i \in Nat /\ i + 1 \in 1..Len(queue[w]) /\ 1 \in 1..Len(queue[w]) /\ i + 1 # 1
          /\ i \in 1..(Len(queue[w]) - 1)
      BY <1>3, <1>6
    <3>2. queue[w][i + 1] = t BY <1>3, <1>5, <2>1, <3>1
    <3>3. t # queue[w][1] BY <1>9, <3>1, <3>2
    <3> QED BY <3>1, <3>2, <3>3 DEF Queues!InQueue
  <2>2. ASSUME NEW i \in 1..Len(queue[w]), queue[w][i] = t, t # h
        PROVE  Queues!InQueue(w, t)'
    <3>1. i # 1 BY <2>2
    <3>2. i - 1 \in 1..Len(queue'[w]) /\ i - 1 \in 1..(Len(queue[w]) - 1) /\ (i - 1) + 1 = i
      BY <1>3, <1>6, <3>1
    <3>3. queue'[w][i - 1] = t BY <1>3, <1>5, <2>2, <3>2
    <3> QED BY <3>2, <3>3 DEF Queues!InQueue
  <2> QED BY <2>1, <2>2 DEF Queues!InQueue
<1>12. \A v \in Ids \ {w} : \A t : /\ Queues!InQueue(v, t)' <=> Queues!InQueue(v, t)
                                   /\ Queues!Holds(v, t)' <=> Queues!Holds(v, t)
  BY <1>5 DEF Queues!InQueue, Queues!Holds
<1>13. \A t : (Queues!Holds(w, t)' <=> t = h) /\ ~Queues!Holds(w, t)
  BY <1>5 DEF Queues!Holds
<1>14. Queues!InQueue(w, h) BY <1>3 DEF Queues!InQueue
<1>15. \A t \in Tasks : Queues!Pushed(t)' <=> Queues!Pushed(t) BY DEF Queues!Pushed
<1>16. Queues!OnePlaceEach'
  <2>1. \A v \in Ids \ {w} : \A i, j \in 1..Len(queue'[v]) : queue'[v][i] = queue'[v][j] => i = j
    BY <1>1, <1>5 DEF Queues!OnePlaceEach, Ids
  <2>2. \A v \in Ids : \A i, j \in 1..Len(queue'[v]) : queue'[v][i] = queue'[v][j] => i = j
    <3> TAKE v \in Ids
    <3>1. CASE v = w BY <1>10, <3>1
    <3>2. CASE v # w BY <2>1, <3>2
    <3> QED BY <3>1, <3>2
  <2> HIDE DEF h
  <2>3. ASSUME NEW t \in Tasks
        PROVE  /\ Queues!Pushed(t)'
                    <=> t \in done' \/ \E v \in Ids : Queues!Holds(v, t)' \/ Queues!InQueue(v, t)'
               /\ t \in done' => \A v \in Ids : ~Queues!Holds(v, t)' /\ ~Queues!InQueue(v, t)'
               /\ \A u, v \in Ids :
                    /\ ~(Queues!Holds(u, t)' /\ Queues!InQueue(v, t)')
                    /\ Queues!Holds(u, t)' /\ Queues!Holds(v, t)' => u = v
                    /\ Queues!InQueue(u, t)' /\ Queues!InQueue(v, t)' => u = v
    <3>1. /\ Queues!Pushed(t)
               <=> t \in done \/ \E v \in Ids : Queues!Holds(v, t) \/ Queues!InQueue(v, t)
          /\ t \in done => \A v \in Ids : ~Queues!Holds(v, t) /\ ~Queues!InQueue(v, t)
          /\ \A u, v \in Ids :
               /\ ~(Queues!Holds(u, t) /\ Queues!InQueue(v, t))
               /\ Queues!Holds(u, t) /\ Queues!Holds(v, t) => u = v
               /\ Queues!InQueue(u, t) /\ Queues!InQueue(v, t) => u = v
      BY <1>1 DEF Queues!OnePlaceEach, Ids
    <3>2. CASE t = h
      BY <1>11, <1>12, <1>13, <1>14, <1>15, <3>1, <3>2
    <3>3. CASE t # h
      BY <1>11, <1>12, <1>13, <1>15, <3>1, <3>3
    <3> QED BY <3>2, <3>3
  <2> QED BY <2>2, <2>3 DEF Queues!OnePlaceEach, Ids
<1> QED
  BY <1>4, <1>7, <1>8, <1>16 DEF QInv

(* A worker has run its task.                                              *)
LEMMA RunKeeps ==
  ASSUME QInv, NEW w \in Ids, Queues!Run(w)
  PROVE  QInv'
<1> DEFINE h == task[w]
<1>1. QueuesTypeOK /\ Queues!OnePlaceEach /\ LeftEmpty /\ Joined BY DEF QInv
<1>2. /\ pc[w] = "run" /\ done' = done \cup {h} /\ task' = [task EXCEPT ![w] = Queues!NoTask]
      /\ pc' = [pc EXCEPT ![w] = "pop"]
      /\ UNCHANGED <<queue, qstop, stop_, call, target, late, shut>>
  BY DEF Queues!Run
<1>3. h \in Tasks BY <1>1, <1>2 DEF QueuesTypeOK
<1>4. QueuesTypeOK' BY <1>1, <1>2, <1>3 DEF QueuesTypeOK
<1>5. pc'[w] = "pop" /\ \A v \in Ids \ {w} : task'[v] = task[v] /\ pc'[v] = pc[v]
  BY <1>1, <1>2 DEF QueuesTypeOK
<1>6. LeftEmpty' BY <1>1, <1>2, <1>5 DEF LeftEmpty
<1>7. Joined' BY <1>1, <1>2, <1>5 DEF Joined
<1>8. \A v \in Ids : \A t : Queues!InQueue(v, t)' <=> Queues!InQueue(v, t)
  BY <1>2 DEF Queues!InQueue
<1>9. \A t : ~Queues!Holds(w, t)' /\ (Queues!Holds(w, t) <=> t = h)
  BY <1>2, <1>5 DEF Queues!Holds
<1>10. \A v \in Ids \ {w} : \A t : Queues!Holds(v, t)' <=> Queues!Holds(v, t)
  BY <1>5 DEF Queues!Holds
<1>11. \A t \in Tasks : Queues!Pushed(t)' <=> Queues!Pushed(t) BY <1>2 DEF Queues!Pushed
<1>12. Queues!OnePlaceEach'
  <2> HIDE DEF h
  <2>1. ASSUME NEW t \in Tasks
        PROVE  /\ Queues!Pushed(t)'
                    <=> t \in done' \/ \E v \in Ids : Queues!Holds(v, t)' \/ Queues!InQueue(v, t)'
               /\ t \in done' => \A v \in Ids : ~Queues!Holds(v, t)' /\ ~Queues!InQueue(v, t)'
               /\ \A u, v \in Ids :
                    /\ ~(Queues!Holds(u, t)' /\ Queues!InQueue(v, t)')
                    /\ Queues!Holds(u, t)' /\ Queues!Holds(v, t)' => u = v
                    /\ Queues!InQueue(u, t)' /\ Queues!InQueue(v, t)' => u = v
    <3>1. /\ Queues!Pushed(t)
               <=> t \in done \/ \E v \in Ids : Queues!Holds(v, t) \/ Queues!InQueue(v, t)
          /\ t \in done => \A v \in Ids : ~Queues!Holds(v, t) /\ ~Queues!InQueue(v, t)
          /\ \A u, v \in Ids :
               /\ ~(Queues!Holds(u, t) /\ Queues!InQueue(v, t))
               /\ Queues!Holds(u, t) /\ Queues!Holds(v, t) => u = v
               /\ Queues!InQueue(u, t) /\ Queues!InQueue(v, t) => u = v
      BY <1>1 DEF Queues!OnePlaceEach, Ids
    <3>2. CASE t = h
      BY <1>2, <1>8, <1>9, <1>10, <1>11, <3>1, <3>2
    <3>3. CASE t # h
      BY <1>2, <1>8, <1>9, <1>10, <1>11, <3>1, <3>3
    <3> QED BY <3>2, <3>3
  <2>2. \A v \in Ids : \A i, j \in 1..Len(queue'[v]) : queue'[v][i] = queue'[v][j] => i = j
    BY <1>1, <1>2 DEF Queues!OnePlaceEach, Ids
  <2> QED BY <2>1, <2>2 DEF Queues!OnePlaceEach, Ids
<1> QED
  BY <1>4, <1>6, <1>7, <1>12 DEF QInv

(* A call pushes its task, perhaps behind the stop of the queue.           *)
LEMMA PushKeeps ==
  ASSUME QInv, NEW t \in Tasks, Queues!Push(t)
  PROVE  QInv'
<1>1. QueuesTypeOK /\ Queues!OnePlaceEach /\ LeftEmpty /\ Joined BY DEF QInv
<1>0. PICK w \in Ids : w = target[t] BY <1>1 DEF Queues!Push, QueuesTypeOK
<1>2. /\ call[t] = "push" /\ queue' = [queue EXCEPT ![w] = Append(queue[w], t)]
      /\ late' = late \cup IF qstop[w] THEN {t} ELSE {}
      /\ call' = [call EXCEPT ![t] = "notify"]
      /\ UNCHANGED <<qstop, stop_, pc, task, target, done, shut>>
  BY <1>0 DEF Queues!Push
<1>3. w \in Ids /\ queue[w] \in Seq(Tasks) BY <1>1 DEF QueuesTypeOK
<1>4. /\ Len(queue[w]) \in Nat /\ Append(queue[w], t) \in Seq(Tasks)
      /\ Len(Append(queue[w], t)) = Len(queue[w]) + 1
      /\ Append(queue[w], t)[Len(queue[w]) + 1] = t
      /\ \A i \in 1..Len(queue[w]) : Append(queue[w], t)[i] = queue[w][i]
  BY <1>3, AddedTo
<1>5. /\ queue'[w] = Append(queue[w], t) /\ Len(queue'[w]) = Len(queue[w]) + 1
      /\ \A v \in Ids \ {w} : queue'[v] = queue[v]
  BY <1>1, <1>2, <1>3, <1>4 DEF QueuesTypeOK
<1>6. QueuesTypeOK' BY <1>1, <1>2, <1>3, <1>4 DEF QueuesTypeOK
<1>7. \A i \in 1..Len(queue'[w]) : i \in 1..Len(queue[w]) \/ i = Len(queue[w]) + 1
  BY <1>4, <1>5
<1>8. LeftEmpty'
  <2> SUFFICES ASSUME NEW v \in Ids, pc[v] = "exited"
               PROVE  qstop[v] /\ \A i \in 1..Len(queue'[v]) : queue'[v][i] \in late'
    BY <1>2 DEF LeftEmpty
  <2>1. qstop[v] /\ \A i \in 1..Len(queue[v]) : queue[v][i] \in late BY <1>1 DEF LeftEmpty
  <2>2. CASE v = w BY <1>2, <1>4, <1>5, <1>7, <2>1, <2>2
  <2>3. CASE v # w BY <1>2, <1>5, <2>1, <2>3
  <2> QED BY <2>2, <2>3
<1>9. Joined' BY <1>1, <1>2 DEF Joined
<1>10. \A u : Queues!InQueue(w, u)' <=> Queues!InQueue(w, u) \/ u = t
  <2>1. ASSUME NEW i \in 1..Len(queue[w]) PROVE i \in 1..Len(queue'[w]) /\ queue'[w][i] = queue[w][i]
    BY <1>4, <1>5
  <2>2. Len(queue[w]) + 1 \in 1..Len(queue'[w]) /\ queue'[w][Len(queue[w]) + 1] = t
    BY <1>4, <1>5
  <2>3. ASSUME NEW u, Queues!InQueue(w, u) \/ u = t PROVE Queues!InQueue(w, u)'
    <3>1. CASE u = t BY <2>2, <3>1 DEF Queues!InQueue
    <3>2. CASE Queues!InQueue(w, u) BY <2>1, <3>2 DEF Queues!InQueue
    <3> QED BY <2>3, <3>1, <3>2
  <2>4. ASSUME NEW u, Queues!InQueue(w, u)' PROVE Queues!InQueue(w, u) \/ u = t
    <3>1. PICK i \in 1..Len(queue'[w]) : queue'[w][i] = u BY <2>4 DEF Queues!InQueue
    <3>2. CASE i \in 1..Len(queue[w]) BY <2>1, <3>1, <3>2 DEF Queues!InQueue
    <3>3. CASE i = Len(queue[w]) + 1 BY <2>2, <3>1, <3>3
    <3> QED BY <1>7, <3>1, <3>2, <3>3
  <2> QED BY <2>3, <2>4
<1>11. \A v \in Ids \ {w} : \A u : Queues!InQueue(v, u)' <=> Queues!InQueue(v, u)
  BY <1>5 DEF Queues!InQueue
<1>12. \A v \in Ids : \A u : Queues!Holds(v, u)' <=> Queues!Holds(v, u)
  BY <1>2 DEF Queues!Holds
<1>13. \A u \in Tasks : Queues!Pushed(u)' <=> Queues!Pushed(u) \/ u = t
  BY <1>1, <1>2 DEF Queues!Pushed, QueuesTypeOK
<1>14. ~Queues!Pushed(t) BY <1>2 DEF Queues!Pushed
<1>15. \A u \in Tasks :
         /\ Queues!Pushed(u)
              <=> u \in done \/ \E v \in Ids : Queues!Holds(v, u) \/ Queues!InQueue(v, u)
         /\ u \in done => \A v \in Ids : ~Queues!Holds(v, u) /\ ~Queues!InQueue(v, u)
         /\ \A x, v \in Ids :
              /\ ~(Queues!Holds(x, u) /\ Queues!InQueue(v, u))
              /\ Queues!Holds(x, u) /\ Queues!Holds(v, u) => x = v
              /\ Queues!InQueue(x, u) /\ Queues!InQueue(v, u) => x = v
  BY <1>1 DEF Queues!OnePlaceEach, Ids
<1>16. t \notin done /\ \A v \in Ids : ~Queues!Holds(v, t) /\ ~Queues!InQueue(v, t)
  BY <1>14, <1>15
<1>17. \A i, j \in 1..Len(queue'[w]) : queue'[w][i] = queue'[w][j] => i = j
  <2>1. \A i \in 1..Len(queue[w]) : queue[w][i] # t BY <1>3, <1>16 DEF Queues!InQueue
  <2>2. \A i, j \in 1..Len(queue[w]) : queue[w][i] = queue[w][j] => i = j
    BY <1>1, <1>3 DEF Queues!OnePlaceEach, Ids
  <2>3. \A i \in 1..Len(queue[w]) : queue'[w][i] = queue[w][i] BY <1>4, <1>5
  <2>4. queue'[w][Len(queue[w]) + 1] = t BY <1>4, <1>5
  <2> QED BY <1>7, <2>1, <2>2, <2>3, <2>4
<1>18. Queues!OnePlaceEach'
  <2>1. ASSUME NEW u \in Tasks
        PROVE  /\ Queues!Pushed(u)'
                    <=> u \in done' \/ \E v \in Ids : Queues!Holds(v, u)' \/ Queues!InQueue(v, u)'
               /\ u \in done' => \A v \in Ids : ~Queues!Holds(v, u)' /\ ~Queues!InQueue(v, u)'
               /\ \A x, v \in Ids :
                    /\ ~(Queues!Holds(x, u)' /\ Queues!InQueue(v, u)')
                    /\ Queues!Holds(x, u)' /\ Queues!Holds(v, u)' => x = v
                    /\ Queues!InQueue(x, u)' /\ Queues!InQueue(v, u)' => x = v
    <3>1. CASE u = t
      <4>1. \A v \in Ids : ~Queues!Holds(v, u)' /\ (Queues!InQueue(v, u)' <=> v = w)
        BY <1>10, <1>11, <1>12, <1>16, <3>1
      <4>2. Queues!Pushed(u)' /\ u \notin done' BY <1>2, <1>13, <1>16, <3>1
      <4> QED BY <1>3, <4>1, <4>2
    <3>2. CASE u # t
      <4>1. \A v \in Ids : Queues!InQueue(v, u)' <=> Queues!InQueue(v, u)
        BY <1>10, <1>11, <3>2
      <4>2. \A v \in Ids : Queues!Holds(v, u)' <=> Queues!Holds(v, u) BY <1>12
      <4>3. (Queues!Pushed(u)' <=> Queues!Pushed(u)) /\ done' = done BY <1>2, <1>13, <3>2
      <4> QED BY <1>15, <4>1, <4>2, <4>3
    <3> QED BY <3>1, <3>2
  <2>2. \A v \in Ids \ {w} : \A i, j \in 1..Len(queue'[v]) : queue'[v][i] = queue'[v][j] => i = j
    BY <1>1, <1>5 DEF Queues!OnePlaceEach, Ids
  <2>3. \A v \in Ids : \A i, j \in 1..Len(queue'[v]) : queue'[v][i] = queue'[v][j] => i = j
    <3> TAKE v \in Ids
    <3>1. CASE v = w BY <1>17, <3>1
    <3>2. CASE v # w BY <2>2, <3>2
    <3> QED BY <3>1, <3>2
  <2> QED BY <2>1, <2>3 DEF Queues!OnePlaceEach, Ids
<1> QED
  BY <1>6, <1>8, <1>9, <1>18 DEF QInv

(* The other steps: of the workers, the callers and Shutdown.              *)
LEMMA WorkerKeeps ==
  ASSUME QInv, NEW w \in Ids,
         \/ Queues!Pop(w) /\ queue[w] = <<>>
         \/ Queues!SpuriousWake(w)
  PROVE  QInv'
<1>1. QueuesTypeOK /\ LeftEmpty /\ Joined BY DEF QInv
<1>2. /\ pc[w] \in {"pop", "wait"} /\ UNCHANGED <<queue, qstop, task, call, target, late, done, shut>>
      /\ \/ pc' = [pc EXCEPT ![w] = "pop"] \/ pc' = [pc EXCEPT ![w] = "wait"]
         \/ pc' = [pc EXCEPT ![w] = "exited"] /\ qstop[w] /\ queue[w] = <<>>
  BY DEF Queues!Pop, Queues!SpuriousWake
<1>3. /\ \A v \in Ids \ {w} : pc'[v] = pc[v]
      /\ pc'[w] \in {"pop", "wait", "exited"}
      /\ pc'[w] = "exited" => qstop[w] /\ queue[w] = <<>>
  <2>1. pc \in [Ids -> {"pop", "run", "wait", "exited"}] BY <1>1 DEF QueuesTypeOK
  <2>2. ASSUME NEW p, pc' = [pc EXCEPT ![w] = p]
        PROVE  pc'[w] = p /\ \A v \in Ids \ {w} : pc'[v] = pc[v]
    BY <2>1, <2>2
  <2>3. CASE pc' = [pc EXCEPT ![w] = "pop"] \/ pc' = [pc EXCEPT ![w] = "wait"]
    BY <2>2, <2>3
  <2>4. CASE pc' = [pc EXCEPT ![w] = "exited"] /\ qstop[w] /\ queue[w] = <<>>
    BY <2>2, <2>4
  <2> QED BY <1>2, <2>3, <2>4
<1>4. QueuesTypeOK' BY <1>1, <1>2, <1>3 DEF QueuesTypeOK
<1>5. LeftEmpty' BY <1>1, <1>2, <1>3 DEF LeftEmpty
<1>6. Joined' BY <1>1, <1>2, <1>3 DEF Joined
<1>7. \A v \in Ids : \A t : Queues!Holds(v, t)' <=> Queues!Holds(v, t)
  BY <1>2, <1>3 DEF Queues!Holds
<1>8. \A t \in Tasks : Queues!Pushed(t)' <=> Queues!Pushed(t) BY <1>2 DEF Queues!Pushed
<1>9. Queues!OnePlaceEach' BY <1>2, <1>4, <1>7, <1>8, NothingMoves
<1> QED
  BY <1>4, <1>5, <1>6, <1>9 DEF QInv

(* What a notification does to the workers.                                *)
LEMMA WakeIsSafe ==
  ASSUME QueuesTypeOK, NEW w, Queues!WakeWorker(w), task' = task
  PROVE  /\ pc' \in [Ids -> {"pop", "run", "wait", "exited"}]
         /\ \A v \in Ids : /\ pc'[v] = "exited" <=> pc[v] = "exited"
                           /\ pc'[v] = "run" <=> pc[v] = "run"
  BY DEF QueuesTypeOK, Queues!WakeWorker

LEMMA CallKeeps ==
  ASSUME QInv, NEW t \in Tasks, NEW id,
         \/ id \in Ids /\ (Queues!Commit(t, id) \/ Queues!CommitById(t, id))
         \/ Queues!NotifyOne(t)
  PROVE  QInv'
<1>1. QueuesTypeOK /\ LeftEmpty /\ Joined BY DEF QInv
<1>2. UNCHANGED <<queue, qstop, task, late, done, shut>>
  BY DEF Queues!Commit, Queues!CommitById, Queues!NotifyOne
<1>3. /\ pc' \in [Ids -> {"pop", "run", "wait", "exited"}]
      /\ \A v \in Ids : /\ pc'[v] = "exited" <=> pc[v] = "exited"
                        /\ pc'[v] = "run" <=> pc[v] = "run"
  <2>1. CASE pc' = pc BY <1>1, <2>1 DEF QueuesTypeOK
  <2>2. CASE Queues!NotifyOne(t) BY <1>1, <1>2, <2>2, WakeIsSafe DEF Queues!NotifyOne
  <2> QED BY <2>1, <2>2 DEF Queues!Commit, Queues!CommitById
<1>4. /\ call' \in [Tasks -> {"none", "push", "notify", "in", "refused"}]
      /\ target' \in [Tasks -> Ids \cup {Queues!None}]
      /\ \A u \in Tasks : call'[u] = "push" => target'[u] \in Ids
      /\ \A u \in Tasks : Queues!Pushed(u)' <=> Queues!Pushed(u)
  <2>1. /\ call' \in [Tasks -> {"none", "push", "notify", "in", "refused"}]
        /\ target' \in [Tasks -> Ids \cup {Queues!None}]
        /\ \A u \in Tasks \ {t} : call'[u] = call[u] /\ (call[u] = "push" => target'[u] = target[u])
    <3> USE <1>1 DEF QueuesTypeOK
    <3>1. CASE id \in Ids /\ Queues!Commit(t, id) BY <3>1 DEF Queues!Commit
    <3>2. CASE id \in Ids /\ Queues!CommitById(t, id) BY <3>2 DEF Queues!CommitById
    <3>3. CASE Queues!NotifyOne(t) BY <3>3 DEF Queues!NotifyOne
    <3> QED BY <3>1, <3>2, <3>3
  <2>2. \/ call[t] = "none" /\ call'[t] = "refused"
        \/ call[t] = "none" /\ call'[t] = "push" /\ target'[t] \in Ids
        \/ call[t] = "notify" /\ call'[t] = "in"
    BY <1>1 DEF Queues!Commit, Queues!CommitById, Queues!NotifyOne, QueuesTypeOK
  <2> QED BY <1>1, <2>1, <2>2 DEF QueuesTypeOK, Queues!Pushed
<1>5. QueuesTypeOK' BY <1>1, <1>2, <1>3, <1>4 DEF QueuesTypeOK
<1>6. LeftEmpty' BY <1>1, <1>2, <1>3 DEF LeftEmpty
<1>7. Joined' BY <1>1, <1>2, <1>3 DEF Joined
<1>8. \A v \in Ids : \A u : Queues!Holds(v, u)' <=> Queues!Holds(v, u)
  BY <1>2, <1>3 DEF Queues!Holds
<1>9. Queues!OnePlaceEach' BY <1>2, <1>4, <1>5, <1>8, NothingMoves
<1> QED
  BY <1>5, <1>6, <1>7, <1>9 DEF QInv

LEMMA ShutdownKeeps ==
  ASSUME QInv, Queues!Shutdown \/ Queues!ShutStep
  PROVE  QInv'
<1>1. QueuesTypeOK /\ LeftEmpty /\ Joined BY DEF QInv
<1> USE DEF Queues!Shutdown, Queues!ShutStep, Queues!StopQueue, Queues!WakeStopped, Queues!Join
<1>2. UNCHANGED <<queue, task, call, target, late, done>>
  OBVIOUS
<1>3. /\ pc' \in [Ids -> {"pop", "run", "wait", "exited"}]
      /\ \A v \in Ids : /\ pc'[v] = "exited" <=> pc[v] = "exited"
                        /\ pc'[v] = "run" <=> pc[v] = "run"
  <2>1. CASE pc' = pc BY <1>1, <2>1 DEF QueuesTypeOK
  <2>2. CASE Queues!WakeWorker(shut.at) BY <1>1, <1>2, <2>2, WakeIsSafe
  <2> QED BY <2>1, <2>2
<1>4. qstop' \in [Ids -> BOOLEAN] /\ \A v \in Ids : qstop[v] => qstop'[v]
  BY <1>1 DEF QueuesTypeOK
<1>5. /\ shut' \in [pc : {"none", "stop", "wake", "join", "done"}, at : Nat]
      /\ shut'.pc = "done" => \A v \in Ids : pc'[v] = "exited"
  <2>1. shut \in [pc : {"none", "stop", "wake", "join", "done"}, at : Nat]
    BY <1>1 DEF QueuesTypeOK
  <2>2. CASE Queues!Shutdown BY <2>2
  <2>3. CASE Queues!StopQueue BY <2>1, <2>3
  <2>4. CASE Queues!WakeStopped BY <2>1, <2>4
  <2>5. CASE Queues!Join BY <2>1, <2>5 DEF Ids
  <2> QED BY <2>2, <2>3, <2>4, <2>5
<1>6. QueuesTypeOK' /\ Joined'
  <2>1. Joined' BY <1>5 DEF Joined
  <2>2. QueuesTypeOK'
    <3> USE <1>1 DEF QueuesTypeOK
    <3>1. \A w \in Ids : pc'[w] = "run" => task'[w] \in Tasks BY <1>2, <1>3
    <3> QED BY <1>2, <1>3, <1>4, <1>5, <3>1
  <2> QED BY <2>1, <2>2
<1>7. LeftEmpty' BY <1>1, <1>2, <1>3, <1>4 DEF LeftEmpty
<1>8. \A v \in Ids : \A u : Queues!Holds(v, u)' <=> Queues!Holds(v, u)
  BY <1>2, <1>3 DEF Queues!Holds
<1>9. \A t \in Tasks : Queues!Pushed(t)' <=> Queues!Pushed(t) BY <1>2 DEF Queues!Pushed
<1>10. Queues!OnePlaceEach' BY <1>2, <1>6, <1>8, <1>9, NothingMoves
<1> QED
  BY <1>6, <1>7, <1>10 DEF QInv

LEMMA QInvStep ==
  ASSUME QInv, [Queues!Next]_(Queues!vars)
  PROVE  QInv'
<1>1. CASE UNCHANGED Queues!vars
  BY <1>1 DEF QInv, QueuesTypeOK, LeftEmpty, Joined, Queues!vars, Queues!OnePlaceEach,
              Queues!Pushed, Queues!Holds, Queues!InQueue
<1>2. ASSUME NEW w \in Ids, Queues!WorkerStep(w) \/ Queues!SpuriousWake(w)
      PROVE  QInv'
  <2>1. CASE Queues!Pop(w) /\ queue[w] # <<>> BY <2>1, TakeKeeps DEF Queues!Pop
  <2>2. CASE Queues!Pop(w) /\ queue[w] = <<>> BY <2>2, WorkerKeeps
  <2>3. CASE Queues!SpuriousWake(w) BY <2>3, WorkerKeeps
  <2>4. CASE Queues!Run(w) BY <2>4, RunKeeps
  <2> QED BY <1>2, <2>1, <2>2, <2>3, <2>4 DEF Queues!WorkerStep
<1>3. ASSUME NEW t \in Tasks, Queues!Push(t)
      PROVE  QInv'
  BY <1>3, PushKeeps
<1>4. ASSUME NEW t \in Tasks, Queues!NotifyOne(t)
      PROVE  QInv'
  BY <1>4, CallKeeps
<1>5. ASSUME NEW t \in Tasks, NEW id \in Ids, Queues!Commit(t, id) \/ Queues!CommitById(t, id)
      PROVE  QInv'
  BY <1>5, CallKeeps
<1>6. CASE Queues!Shutdown \/ Queues!ShutStep BY <1>6, ShutdownKeeps
<1> QED
  BY <1>1, <1>2, <1>3, <1>4, <1>5, <1>6 DEF Queues!Next, Queues!CallStep, Ids

LEMMA QInvKept == QInv => Queues!TasksKept
<1> SUFFICES ASSUME QInv PROVE Queues!TasksKept
  OBVIOUS
<1> USE DEF QInv
<1>1. Queues!OnePlaceEach OBVIOUS
<1>2. ASSUME shut.pc = "done", NEW t \in Tasks, Queues!Pushed(t), t \notin late
      PROVE  t \in done
  <2>1. ASSUME NEW w \in Ids PROVE ~Queues!Holds(w, t) /\ ~Queues!InQueue(w, t)
    <3>1. pc[w] = "exited" BY <1>2 DEF Joined
    <3> QED BY <1>2, <3>1 DEF LeftEmpty, Queues!Holds, Queues!InQueue
  <2> QED BY <1>1, <1>2, <2>1 DEF Queues!OnePlaceEach, Ids
<1> QED
  BY <1>1, <1>2 DEF Queues!TasksKept, Queues!ReturnsAfterTasks

(* blocking_queue_thread_pool.h, for any number of threads and any tasks:  *)
(* a pushed task is in one place until it has run, which it does once, and *)
(* Shutdown returns after every task that was pushed before its queue was  *)
(* stopped.                                                                *)
THEOREM PushedTasksKept == QueuesSpec => []Queues!TasksKept
<1>1. Queues!Init => QInv BY QInvInit
<1>2. QInv /\ [Queues!Next]_(Queues!vars) => QInv' BY QInvStep
<1>3. QInv => Queues!TasksKept BY QInvKept
<1> QED
  BY <1>1, <1>2, <1>3, PTL DEF QueuesSpec
=============================================================================
