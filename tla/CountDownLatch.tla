--------------------------- MODULE CountDownLatch ---------------------------
(***************************************************************************)
(* CountDownLatch (common/count_down_latch.h): threads in Wait and threads *)
(* that call CountDown, each once.  A step is what a thread does while it  *)
(* holds mtx_; condition_ is the set of threads in "wait".                 *)
(***************************************************************************)
EXTENDS Integers

CONSTANTS Waiters, Counters,
          Count        \* the constructor's argument

VARIABLES count_, waiter, counted

vars == <<count_, waiter, counted>>

Init ==
  /\ count_ = Count
  /\ waiter = [w \in Waiters |-> "lock"]
  /\ counted = {}

(* Wait: its loop tests count_ whenever it has the lock.                   *)
Wait(w) ==
  /\ waiter[w] = "lock"
  /\ waiter' = [waiter EXCEPT ![w] = IF count_ > 0 THEN "wait" ELSE "returned"]
  /\ UNCHANGED <<count_, counted>>

SpuriousWake(w) ==
  /\ waiter[w] = "wait"
  /\ waiter' = [waiter EXCEPT ![w] = "lock"]
  /\ UNCHANGED <<count_, counted>>

Waiting == {w \in Waiters : waiter[w] = "wait"}

CountDownEarly(c) ==
  /\ c \notin counted
  /\ counted' = counted \cup {c}
  /\ count_' = count_ - 1
  /\ IF count_ = 0 /\ Waiting # {}
     THEN \E w \in Waiting : waiter' = [waiter EXCEPT ![w] = "lock"]
     ELSE UNCHANGED waiter

(* notify_one, and only by the call that makes the count 0: of several     *)
(* waiting threads one is woken.                                           *)
CountDown(c) ==
  /\ c \notin counted
  /\ counted' = counted \cup {c}
  /\ count_' = count_ - 1
  /\ IF count_' = 0 /\ Waiting # {}
     THEN \E w \in Waiting : waiter' = [waiter EXCEPT ![w] = "lock"]
     ELSE UNCHANGED waiter

Next ==
  \/ \E w \in Waiters : Wait(w) \/ SpuriousWake(w)
  \/ \E c \in Counters : CountDown(c)

(* A thread that has the lock within reach gets it; wakeups without a      *)
(* notification need not happen.                                           *)
Fairness == \A w \in Waiters : WF_vars(Wait(w))

FairSpec == Init /\ [][Next]_vars /\ Fairness

(* count_down_latch.h:7: a thread waits for the others to be done and then *)
(* continues.  Whoever comes first, the CountDown that makes the count 0   *)
(* or the thread that wants to wait: every waiting thread returns.  This   *)
(* holds for one; of several that sleep when the count gets to 0 all but   *)
(* one stay asleep.                                                        *)
LatchOpens ==
  \A w \in Waiters : count_ <= 0 ~> waiter[w] = "returned"
=============================================================================
