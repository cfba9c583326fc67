----------------------------- MODULE MCLibrary ------------------------------
(* The timers, the pool of buffers, the latch and the pool of queues.      *)
(* They do not interact, so a behaviour is one of a single one of them.    *)
EXTENDS MCTimer, BufPool

CONSTANTS b1, b2, b3, w1, c1, c2, c3, t1, t2

SomeBufs  == {b1, b2, b3}
TwoCaps   == {1, 3}
InPool    == [c \in TwoCaps |-> IF c = 1 THEN <<b1>> ELSE <<b2>>]
SomeSizes == {-1, 1, 2, 4}

VARIABLES subject, count_, waiter, counted,
          queue, qstop, stopped, pc, task, call, target, late, done, shut

Latch  == INSTANCE CountDownLatch WITH Waiters <- {w1}, Counters <- {c1, c2, c3}, Count <- 2
Queues == INSTANCE BlockingQueuePool WITH ThreadNum <- 2, Tasks <- {t1, t2}, stop_ <- stopped

latchVars == <<count_, waiter, counted>>
queueVars == <<queue, qstop, stopped, pc, task, call, target, late, done, shut>>
allVars   == <<vars, poolVars, subject, latchVars, queueVars>>

LibraryInit ==
  /\ subject \in {"timers", "buffers", "latch", "queues"}
  /\ Init /\ PoolInit /\ Latch!Init /\ Queues!Init

OfTimers == subject = "timers" /\ UNCHANGED <<poolVars, subject, latchVars, queueVars>>
OfLatch  == subject = "latch" /\ UNCHANGED <<vars, poolVars, subject, queueVars>>
OfQueues == subject = "queues" /\ UNCHANGED <<vars, poolVars, subject, latchVars>>

LibraryNext ==
  \/ OfTimers /\ Next
  \/ OfLatch /\ Latch!Next
  \/ OfQueues /\ Queues!Next
  \/ subject = "buffers" /\ PoolNext /\ UNCHANGED <<vars, subject, latchVars, queueVars>>

(* The fairness of each, see their modules.                                *)
LibrarySpec ==
  /\ LibraryInit /\ [][LibraryNext]_allVars
  /\ WF_allVars(OfTimers /\ TickStep) /\ WF_allVars(OfTimers /\ Pass)
  /\ WF_allVars(OfLatch /\ Latch!Wait(w1))
  /\ \A w \in Queues!Ids : WF_allVars(OfQueues /\ Queues!WorkerStep(w))
  /\ \A t \in {t1, t2} : WF_allVars(OfQueues /\ Queues!CallStep(t))
  /\ WF_allVars(OfQueues /\ Queues!ShutStep)

(* The latch opens: see CountDownLatch.                                    *)
LatchOpens == subject = "latch" => Latch!LatchOpens

(* Pushed tasks run: see BlockingQueuePool.                                *)
PushedTasksRun == subject = "queues" => Queues!PushedTasksRun
=============================================================================
