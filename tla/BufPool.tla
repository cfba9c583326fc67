------------------------------- MODULE BufPool ------------------------------
(***************************************************************************)
(* The pool of IOBufs (io/io_buffer.cpp): for every capacity a list of     *)
(* free buffers under list_mtx_, filled by the constructor and enlarged on *)
(* demand up to MEM_LIMIT.  Sizes are in KB.  The bytes of a buffer are    *)
(* not modelled, only which of them are in use: those from head to head +  *)
(* length.                                                                 *)
(***************************************************************************)
EXTENDS Integers, Sequences, FiniteSetsExt

CONSTANTS Bufs,        \* buffers that can ever be made
          Caps,        \* MemCap
          FirstBufs,   \* those the constructor makes: capacity -> list
          Sizes,       \* what AllocBuf is asked for
          MEM_LIMIT

ASSUME CapsAssumption  == Caps \subseteq Nat \ {0} /\ Sizes \subseteq Int /\ MEM_LIMIT \in Nat
ASSUME FirstAssumption ==
  /\ FirstBufs \in [Caps -> Seq(Bufs)]
  /\ \A c, d \in Caps : \A i \in 1..Len(FirstBufs[c]), j \in 1..Len(FirstBufs[d]) :
       FirstBufs[c][i] = FirstBufs[d][j] => c = d /\ i = j

(* What the constructor counts.                                            *)
FirstMem == MapThenSumSet(LAMBDA c : c * Len(FirstBufs[c]), Caps)

ASSUME MemAssumption == FirstMem \in Nat /\ FirstMem < MEM_LIMIT

VARIABLES pool_,       \* capacity -> list of free buffers
          total_mem_,
          capacity, head, length,   \* of every buffer; capacity 0: not made yet
          held,        \* buffers in use
          wanted,      \* the size they were asked for with
          exited       \* exit(1) has been called

poolVars == <<pool_, total_mem_, capacity, head, length, held, wanted, exited>>

PoolTypeOK ==
  /\ pool_ \in [Caps -> Seq(Bufs)] /\ total_mem_ \in Nat
  /\ capacity \in [Bufs -> Caps \cup {0}]
  /\ head \in [Bufs -> Nat] /\ length \in [Bufs -> Nat]
  /\ held \subseteq Bufs /\ wanted \in [Bufs -> Sizes \cup {0}]
  /\ exited \in BOOLEAN

InList(b, list) == \E i \in 1..Len(list) : list[i] = b

(* The constructor and AllocPoolMem.                                       *)
PoolInit ==
  /\ pool_ = FirstBufs
  /\ total_mem_ = FirstMem
  /\ capacity = [b \in Bufs |-> IF \E c \in Caps : InList(b, FirstBufs[c])
                               THEN CHOOSE c \in Caps : InList(b, FirstBufs[c]) ELSE 0]
  /\ head = [b \in Bufs |-> 0] /\ length = [b \in Bufs |-> 0]
  /\ held = {} /\ wanted = [b \in Bufs |-> 0]
  /\ exited = FALSE

-----------------------------------------------------------------------------
(* AllocBuf: the group is the smallest capacity that is large enough; with *)
(* none the result is nullptr and nothing changes.                         *)
IsKey(N, key) == N <= key /\ \A c \in Caps : N <= c => key <= c

HandOut(b, N) ==
  /\ held' = held \cup {b} /\ wanted' = [wanted EXCEPT ![b] = N]
  /\ UNCHANGED <<head, length, exited>>

AllocKeepsLink(N, key) ==
  /\ ~exited /\ IsKey(N, key) /\ pool_[key] # <<>>
  /\ HandOut(Head(pool_[key]), N)
  /\ UNCHANGED <<pool_, capacity, total_mem_>>

(* The group's first free buffer is unlinked.                              *)
AllocPooled(N, key) ==
  /\ ~exited /\ IsKey(N, key) /\ pool_[key] # <<>>
  /\ pool_' = [pool_ EXCEPT ![key] = Tail(@)]
  /\ HandOut(Head(pool_[key]), N)
  /\ UNCHANGED <<capacity, total_mem_>>

(* The group is empty: one more buffer, within the limit.                  *)
AllocNew(N, key, b) ==
  /\ ~exited /\ IsKey(N, key) /\ pool_[key] = <<>>
  /\ total_mem_ + key < MEM_LIMIT
  /\ capacity[b] = 0
  /\ capacity' = [capacity EXCEPT ![b] = key]
  /\ total_mem_' = total_mem_ + key
  /\ HandOut(b, N)
  /\ UNCHANGED pool_

AllocExit(N, key) ==
  /\ ~exited /\ IsKey(N, key) /\ pool_[key] = <<>>
  /\ total_mem_ + key >= MEM_LIMIT
  /\ exited' = TRUE
  /\ UNCHANGED <<pool_, total_mem_, capacity, head, length, held, wanted>>

AllocBuf(N, key) ==
  AllocPooled(N, key) \/ AllocExit(N, key) \/ \E b \in Bufs : AllocNew(N, key, b)

(* Its user gives a buffer back: emptied, to the front of its group.       *)
Revert(b) ==
  /\ ~exited /\ b \in held
  /\ head' = [head EXCEPT ![b] = 0] /\ length' = [length EXCEPT ![b] = 0]
  /\ pool_' = [pool_ EXCEPT ![capacity[b]] = <<b>> \o @]
  /\ held' = held \ {b}
  /\ UNCHANGED <<total_mem_, capacity, wanted, exited>>

-----------------------------------------------------------------------------
(* The methods of IOBuf, on a buffer in use.  That a pop takes no more     *)
(* than there is, and that a copy or new data fit, is left to the caller.  *)

Position(b, h, l) ==
  /\ ~exited /\ b \in held
  /\ head' = [head EXCEPT ![b] = h] /\ length' = [length EXCEPT ![b] = l]
  /\ UNCHANGED <<pool_, total_mem_, capacity, held, wanted, exited>>

Fill(b, n)  == head[b] + length[b] + n <= capacity[b] /\ Position(b, head[b], length[b] + n)
Clear(b)    == Position(b, 0, 0)
Adjust(b)   == Position(b, 0, length[b])
Copy(b, o)  == o \in held /\ length[o] <= capacity[b] /\ Position(b, 0, length[o])
Pop(b, n)   == n <= length[b] /\ Position(b, head[b] + n, length[b] - n)

-----------------------------------------------------------------------------
PoolNext ==
  \/ \E N \in Sizes, key \in Caps : AllocBuf(N, key)
  \/ \E b \in Bufs :
       \/ Revert(b) \/ Clear(b) \/ Adjust(b)
       \/ \E n \in Caps : Fill(b, n) \/ Pop(b, n)
       \/ \E o \in Bufs : Copy(b, o)

PoolSpec == PoolInit /\ [][PoolNext]_poolVars

-----------------------------------------------------------------------------
(* A buffer that has been made is in use or free, never both, and free     *)
(* only once: in the list of its own capacity.                             *)
OneOwner ==
  /\ \A c, d \in Caps : \A i \in 1..Len(pool_[c]), j \in 1..Len(pool_[d]) :
       pool_[c][i] = pool_[d][j] => c = d /\ i = j
  /\ \A c \in Caps : \A i \in 1..Len(pool_[c]) :
       capacity[pool_[c][i]] = c /\ pool_[c][i] \notin held
  /\ \A b \in Bufs : capacity[b] # 0 => b \in held \/ \E c \in Caps : InList(b, pool_[c])
  /\ \A b \in held : capacity[b] # 0

(* Buffers come empty out of the pool, in a capacity that was asked for    *)
(* and in no larger one than needed; what is in use lies within it.        *)
Fits ==
  /\ \A b \in Bufs : head[b] + length[b] <= capacity[b]
  /\ \A b \in Bufs : b \notin held => head[b] = 0 /\ length[b] = 0
  /\ \A b \in held : IsKey(wanted[b], capacity[b])

(* Whatever threads take, use and give back, and whether or not buffers    *)
(* had to be added: no two users get the same buffer, none gets lost, all  *)
(* fit, and the memory stays below MEM_LIMIT.                              *)
BuffersKept == PoolTypeOK /\ OneOwner /\ Fits /\ total_mem_ < MEM_LIMIT
=============================================================================
