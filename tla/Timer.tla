------------------------------- MODULE Timer --------------------------------
(***************************************************************************)
(* timer::TimerManager (timer/timer.h): a binary heap of timers under a    *)
(* mutex, filled and emptied by connection handlers, and the Tick loop     *)
(* that TcpServer runs on its work pool.  A step is what a thread does     *)
(* while it holds mtx_; AddTimer and Tick read the clock before they take  *)
(* the lock.  Indices are those of the vector plus one.                    *)
(***************************************************************************)
EXTENDS Naturals, Sequences, FiniteSets

CONSTANTS Delays,      \* the delays that handlers ask for
          MaxTimers,   \* bound: timers ever added
          MaxTime      \* bound: the clock stops there, and no timer is due later

ASSUME DelaysAssumption == Delays \subseteq Nat
ASSUME BoundsAssumption == MaxTimers \in Nat /\ MaxTime \in Nat

VARIABLES timers_,     \* the vector: records of expiry time and id
          timer_id_,   \* the next id
          stop_,
          clock,
          tick,        \* Tick: "top" of its loop, "lock"ing mtx_, "done"
          now,         \* the time Tick has read
          erased,      \* ids that pop() has taken out of the heap
          removed,     \* ids that RemoveTimer was called with
          spawned,     \* ids whose task was given a thread
          crashed      \* undefined behaviour has ended the process

vars == <<timers_, timer_id_, stop_, clock, tick, now, erased, removed, spawned, crashed>>

Ids == 0..(MaxTimers - 1)

Timers == [expiry : 0..MaxTime, id : Ids]

TypeOK ==
  /\ timers_ \in Seq(Timers)
  /\ timer_id_ \in 0..MaxTimers
  /\ stop_ \in BOOLEAN
  /\ clock \in 0..MaxTime
  /\ tick \in {"top", "lock", "done"}
  /\ now \in 0..MaxTime
  /\ erased \subseteq Ids /\ removed \subseteq Ids /\ spawned \subseteq Ids
  /\ crashed \in BOOLEAN

Init ==
  /\ timers_ = <<>> /\ timer_id_ = 0
  /\ stop_ = FALSE
  /\ clock = 0
  /\ tick = "top" /\ now = 0
  /\ erased = {} /\ removed = {} /\ spawned = {}
  /\ crashed = FALSE

-----------------------------------------------------------------------------
(* The heap.  A recursive call moves one timer from index to index; next   *)
(* is the index it goes on with from each one, itself where it ends.       *)

(* The indices it visits: the least set with start that next stays in.     *)
Visited(next, start) ==
  {i \in DOMAIN next :
     \A I \in SUBSET DOMAIN next :
       start \in I /\ (\A j \in I : next[j] \in I) => i \in I}

(* Where each index gets its timer from in the swaps of all calls: from    *)
(* the index visited next, the last of them from start.                    *)
Origin(next, start) ==
  [i \in DOMAIN next |->
     IF i \notin Visited(next, start) THEN i
     ELSE IF next[i] = i THEN start ELSE next[i]]

Sift(s, next, start) ==
  LET origin == Origin(next, start) IN [i \in 1..Len(s) |-> s[origin[i]]]

UpFrom(s, timer) ==
  [i \in 1..Len(s) |->
     IF i > 1 /\ timer.expiry < s[i \div 2].expiry THEN i \div 2 ELSE i]

HeapifyUp(s, index) == Sift(s, UpFrom(s, s[index]), index)

(* The smallest of timer, at index i, and its children.                    *)
Smallest(s, timer, i) ==
  LET left  == 2 * i
      right == 2 * i + 1
      isLeft == left <= Len(s) /\ s[left].expiry < timer.expiry
      least  == IF isLeft THEN s[left] ELSE timer
  IN  IF right <= Len(s) /\ s[right].expiry < least.expiry THEN right
      ELSE IF isLeft THEN left ELSE i

DownFrom(s, timer) == [i \in 1..Len(s) |-> Smallest(s, timer, i)]

(* Erase calls it with the index past the end when it erased the last one. *)
HeapifyDown(s, index) ==
  IF index > Len(s) THEN s ELSE Sift(s, DownFrom(s, s[index]), index)

EraseLast(s, index) == HeapifyDown(SubSeq(s, 1, Len(s) - 1), index)

(* The last timer replaces the erased one and only ever moves down.        *)
Erase(s, index) ==
  HeapifyDown(SubSeq([s EXCEPT ![index] = s[Len(s)]], 1, Len(s) - 1), index)

Push(s, timer) == HeapifyUp(Append(s, timer), Len(s) + 1)

-----------------------------------------------------------------------------
(* The handler reads the clock at since and gets the lock now.             *)
AddTimer(milliseconds, since) ==
  /\ ~crashed
  /\ timer_id_ < MaxTimers
  /\ since <= clock /\ since + milliseconds <= MaxTime
  /\ timer_id_' = timer_id_ + 1
  /\ timers_' = Push(timers_, [expiry |-> since + milliseconds, id |-> timer_id_])
  /\ UNCHANGED <<stop_, clock, tick, now, erased, removed, spawned, crashed>>

RemoveNothing(timer_id) ==
  /\ ~crashed /\ timer_id < timer_id_ /\ timer_id \notin removed
  /\ removed' = removed \cup {timer_id}
  /\ UNCHANGED <<timers_, timer_id_, stop_, clock, tick, now, erased, spawned, crashed>>

(* A handler removes the timer it added, which may have fired by then.     *)
RemoveTimer(timer_id) ==
  LET found == {i \in 1..Len(timers_) : timers_[i].id = timer_id} IN
  /\ ~crashed /\ timer_id < timer_id_ /\ timer_id \notin removed
  /\ timers_' = IF found = {} THEN timers_
                ELSE Erase(timers_, CHOOSE i \in found : \A j \in found : i <= j)
  /\ removed' = removed \cup {timer_id}
  /\ UNCHANGED <<timer_id_, stop_, clock, tick, now, erased, spawned, crashed>>

TickReadOnce ==
  /\ ~crashed /\ tick = "top"
  /\ tick' = IF stop_ THEN "done" ELSE "lock"
  /\ UNCHANGED <<timers_, timer_id_, stop_, clock, now, erased, removed, spawned, crashed>>

TickRead ==
  /\ ~crashed /\ tick = "top"
  /\ IF stop_ THEN tick' = "done" /\ UNCHANGED now
              ELSE tick' = "lock" /\ now' = clock
  /\ UNCHANGED <<timers_, timer_id_, stop_, clock, erased, removed, spawned, crashed>>

Due == timers_ # <<>> /\ now >= timers_[1].expiry

(* pop() copies the front of the vector after Erase(0): the task that gets *)
(* a thread is the one of the new front.  When the vector is then empty    *)
(* the copy reads a destroyed element: the old task runs, or memory that   *)
(* is no longer a task does.                                               *)
TickPop ==
  LET rest == Erase(timers_, 1) IN
  /\ ~crashed /\ tick = "lock" /\ Due
  /\ timers_' = rest
  /\ erased' = erased \cup {timers_[1].id}
  /\ \/ /\ rest # <<>>
        /\ spawned' = spawned \cup {rest[1].id}
        /\ UNCHANGED crashed
     \/ /\ rest = <<>>
        /\ spawned' = spawned \cup {timers_[1].id}
        /\ UNCHANGED crashed
     \/ /\ rest = <<>>
        /\ crashed' = TRUE
        /\ UNCHANGED spawned
  /\ tick' = "top"
  /\ UNCHANGED <<timer_id_, stop_, clock, now, removed>>

TickSleep ==
  /\ ~crashed /\ tick = "lock" /\ ~Due
  /\ tick' = "top"
  /\ UNCHANGED <<timers_, timer_id_, stop_, clock, now, erased, removed, spawned, crashed>>

Shutdown ==
  /\ ~crashed /\ ~stop_
  /\ stop_' = TRUE
  /\ UNCHANGED <<timers_, timer_id_, clock, tick, now, erased, removed, spawned, crashed>>

Pass ==
  /\ ~crashed /\ clock < MaxTime
  /\ clock' = clock + 1
  /\ UNCHANGED <<timers_, timer_id_, stop_, tick, now, erased, removed, spawned, crashed>>

-----------------------------------------------------------------------------
TickStep == TickRead \/ TickPop \/ TickSleep

Next ==
  \/ \E d \in Delays, t \in 0..MaxTime : AddTimer(d, t)
  \/ \E id \in Ids : RemoveTimer(id)
  \/ TickStep \/ Shutdown \/ Pass

Spec == Init /\ [][Next]_vars

(* Time passes and the Tick thread runs.                                   *)
FairSpec == Spec /\ WF_vars(TickStep) /\ WF_vars(Pass)

-----------------------------------------------------------------------------
InHeap(id) == \E i \in 1..Len(timers_) : timers_[i].id = id

(* timer.h:118 calls the vector a heap: no timer expires before its        *)
(* parent, and Tick needs to look at the front only.  A removal from the   *)
(* middle puts the last timer there and only sifts it down, so that it     *)
(* may be left under a later one.                                          *)
HeapOrdered ==
  \A i \in 2..Len(timers_) : timers_[i \div 2].expiry <= timers_[i].expiry

(* The swaps of the heap methods neither lose nor duplicate a timer: each  *)
(* one added is in the vector exactly once until it is popped or removed,  *)
(* and is then gone. As long as timers only leave through Tick, none       *)
(* expires before its parent, so that the front is the next one due.       *)
TimersKept ==
  /\ TypeOK
  /\ Len(timers_) = Cardinality({timers_[i].id : i \in 1..Len(timers_)})
  /\ \A id \in Ids :
       InHeap(id) <=> id < timer_id_ /\ id \notin erased \cup removed
  /\ removed = {} => HeapOrdered

(* RemoveTimer is final: Tick gives no thread to the task of a timer that  *)
(* had been removed before, whichever element pop() copies.                *)
RemovedStaysSilent ==
  [][\A id \in removed : id \in spawned' => id \in spawned]_vars

(* Timers are added and removed at any moment, between Tick's reading of   *)
(* the clock and its lock too: whichever of them is at the front then, a   *)
(* timer is in the end popped or removed, unless the manager is stopped.   *)
EveryTimerLeaves ==
  \A id \in Ids : InHeap(id) ~> (~InHeap(id) \/ stop_ \/ crashed)
=============================================================================
