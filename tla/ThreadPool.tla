----------------------------- MODULE ThreadPool -----------------------------
(***************************************************************************)
(* luce/common/thread_pool.h: the pool that runs accepted connections, the *)
(* accept loop and the timer thread.                                       *)
(*                                                                         *)
(* queue_mtx_ makes every block that holds it one step; what the code does *)
(* after it unlocks (notify_one, notify_all, join, running the task) are   *)
(* steps of their own.  A thread inside condition.wait is in pc "wait"; a  *)
(* notification, or a spurious wakeup, takes it back to pc "lock", where   *)
(* it takes the mutex again and re-evaluates the predicate.                *)
(*                                                                         *)
(* One owner thread closes the pool: by Shutdown(), by ~ThreadPool(), or   *)
(* by the first and then the second, as TcpServer does.  As for every C++  *)
(* object, nobody is inside Commit when the destructor starts and nobody   *)
(* calls it afterwards.                                                    *)
(***************************************************************************)
EXTENDS Naturals, Sequences, FiniteSets

CONSTANTS Workers,   \* the threads workers_
          Clients,   \* the threads that call Commit
          Tasks,     \* the calls to Commit: a task is committed once
          None       \* no task

ASSUME WorkersAssumption == Workers # {}
ASSUME NoneAssumption    == None \notin Tasks

VARIABLES tasks_,    \* the queue, oldest first
          stop_,
          pc,        \* of each worker: "lock", "wait", "run", "exited"
          running,   \* of each worker: the local variable task
          client,    \* of each client: "idle" or "notify", about to notify
          arg,       \* of each client: the task of the Commit it is in
          future,    \* of each task: "none", "pending", "ready", "broken"
          owner,     \* the closing thread
          inDtor     \* the owner is in ~ThreadPool

vars == <<tasks_, stop_, pc, running, client, arg, future, owner, inDtor>>

WorkerStates == {"lock", "wait", "run", "exited"}
ClientStates == {"idle", "notify"}
FutureStates == {"none", "pending", "ready", "broken"}
OwnerStates  == {"open", "lock", "wait", "notify", "join", "closed", "destroyed"}

TypeOK ==
  /\ tasks_ \in Seq(Tasks)
  /\ stop_ \in BOOLEAN
  /\ pc \in [Workers -> WorkerStates]
  /\ running \in [Workers -> Tasks \cup {None}]
  /\ client \in [Clients -> ClientStates]
  /\ arg \in [Clients -> Tasks \cup {None}]
  /\ future \in [Tasks -> FutureStates]
  /\ owner \in OwnerStates
  /\ inDtor \in BOOLEAN
  /\ \A w \in Workers : pc[w] = "run" <=> running[w] # None

Init ==
  /\ tasks_ = <<>>
  /\ stop_ = FALSE
  /\ pc = [w \in Workers |-> "lock"]
  /\ running = [w \in Workers |-> None]
  /\ client = [c \in Clients |-> "idle"]
  /\ arg = [c \in Clients |-> None]
  /\ future = [t \in Tasks |-> "none"]
  /\ owner = "open"
  /\ inDtor = FALSE

-----------------------------------------------------------------------------
(* Waking the threads blocked in condition.wait(): notify_one() picks any  *)
(* of them and does nothing when there is none.                            *)

Waiting == {w \in Workers : pc[w] = "wait"}

NotifyOne ==
  \/ \E w \in Waiting : pc' = [pc EXCEPT ![w] = "lock"]
  \/ Waiting = {} /\ UNCHANGED pc

NotifyNobody == UNCHANGED pc

NotifyAll == pc' = [w \in Workers |-> IF pc[w] = "wait" THEN "lock" ELSE pc[w]]

-----------------------------------------------------------------------------
(* The workers.                                                            *)

WorkerWait(w) ==
  /\ pc[w] = "lock"
  /\ ~stop_ /\ tasks_ = <<>>
  /\ pc' = [pc EXCEPT ![w] = "wait"]
  /\ UNCHANGED <<tasks_, stop_, running, client, arg, future, owner, inDtor>>

WorkerExit(w) ==
  /\ pc[w] = "lock"
  /\ stop_
  /\ pc' = [pc EXCEPT ![w] = "exited"]
  /\ UNCHANGED <<tasks_, stop_, running, client, arg, future, owner, inDtor>>

(* The owner is the only thread that ever waits on condition_producers_.   *)
NotifyProducer == owner' = IF owner = "wait" THEN "lock" ELSE owner

TakeTask(w) ==
  /\ pc[w] = "lock"
  /\ ~stop_ /\ tasks_ # <<>>
  /\ running' = [running EXCEPT ![w] = Head(tasks_)]
  /\ pc' = [pc EXCEPT ![w] = "run"]

(* Variants with a mistake, which the properties must detect.             *)
TakeForgetsNotify(w) ==
  /\ TakeTask(w)
  /\ tasks_' = Tail(tasks_)
  /\ UNCHANGED <<stop_, client, arg, future, owner, inDtor>>

TakeForgetsPop(w) ==
  /\ TakeTask(w)
  /\ UNCHANGED <<tasks_, stop_, client, arg, future, owner, inDtor>>

WorkerTake(w) ==
  /\ TakeTask(w)
  /\ tasks_' = Tail(tasks_)
  /\ IF tasks_' = <<>> THEN NotifyProducer ELSE UNCHANGED owner
  /\ UNCHANGED <<stop_, client, arg, future, inDtor>>

(* packaged_task stores the result or the exception: the future is ready.  *)
WorkerRun(w) ==
  /\ pc[w] = "run"
  /\ future' = [future EXCEPT ![running[w]] = "ready"]
  /\ running' = [running EXCEPT ![w] = None]
  /\ pc' = [pc EXCEPT ![w] = "lock"]
  /\ UNCHANGED <<tasks_, stop_, client, arg, owner, inDtor>>

SpuriousWake(w) ==
  /\ pc[w] = "wait"
  /\ pc' = [pc EXCEPT ![w] = "lock"]
  /\ UNCHANGED <<tasks_, stop_, running, client, arg, future, owner, inDtor>>

-----------------------------------------------------------------------------
(* Commit: the task is queued under the mutex unless the pool has stopped; *)
(* the notification comes after the unlock, whether it was queued or not;  *)
(* a task that was not queued dies with Commit's frame, which breaks the   *)
(* promise behind the future that Commit has returned.                     *)

CommitAlways(c, t) ==
  /\ client[c] = "idle" /\ ~inDtor
  /\ future[t] = "none"
  /\ tasks_' = Append(tasks_, t)
  /\ future' = [future EXCEPT ![t] = "pending"]
  /\ client' = [client EXCEPT ![c] = "notify"]
  /\ UNCHANGED <<stop_, pc, running, arg, owner, inDtor>>

Commit(c, t) ==
  /\ client[c] = "idle" /\ ~inDtor
  /\ future[t] = "none"
  /\ IF stop_
       THEN /\ arg' = [arg EXCEPT ![c] = t]
            /\ UNCHANGED tasks_
       ELSE /\ tasks_' = Append(tasks_, t)
            /\ UNCHANGED arg
  /\ future' = [future EXCEPT ![t] = "pending"]
  /\ client' = [client EXCEPT ![c] = "notify"]
  /\ UNCHANGED <<stop_, pc, running, owner, inDtor>>

LeaveCommit(c) ==
  /\ client[c] = "notify"
  /\ client' = [client EXCEPT ![c] = "idle"]
  /\ arg' = [arg EXCEPT ![c] = None]
  /\ future' = [t \in Tasks |-> IF t = arg[c] THEN "broken" ELSE future[t]]
  /\ UNCHANGED <<tasks_, stop_, running, owner, inDtor>>

LeaveSilently(c) == LeaveCommit(c) /\ NotifyNobody

CommitNotify(c) == LeaveCommit(c) /\ NotifyOne

-----------------------------------------------------------------------------
(* The owner: Shutdown and the destructor.                                 *)

OwnerGoes(from, to) == owner = from /\ owner' = to

CallShutdown ==
  /\ OwnerGoes("open", "lock")
  /\ UNCHANGED <<tasks_, stop_, pc, running, client, arg, future, inDtor>>

(* ~ThreadPool: Shutdown() only if stop_ is not set yet.                   *)
Destroy ==
  /\ owner \in {"open", "closed"} /\ ~inDtor
  /\ \A c \in Clients : client[c] = "idle"
  /\ inDtor' = TRUE
  /\ owner' = IF stop_ THEN "destroyed" ELSE "lock"
  /\ UNCHANGED <<tasks_, stop_, pc, running, client, arg, future>>

ShutdownWait ==
  /\ tasks_ # <<>>
  /\ OwnerGoes("lock", "wait")
  /\ UNCHANGED <<tasks_, stop_, pc, running, client, arg, future, inDtor>>

ShutdownNow ==
  /\ OwnerGoes("lock", "notify")
  /\ stop_' = TRUE
  /\ UNCHANGED <<tasks_, pc, running, client, arg, future, inDtor>>

ShutdownStop ==
  /\ tasks_ = <<>>
  /\ OwnerGoes("lock", "notify")
  /\ stop_' = TRUE
  /\ UNCHANGED <<tasks_, pc, running, client, arg, future, inDtor>>

ShutdownNotifyOne ==
  /\ OwnerGoes("notify", "join")
  /\ NotifyOne
  /\ UNCHANGED <<tasks_, stop_, running, client, arg, future, inDtor>>

ShutdownNotify ==
  /\ OwnerGoes("notify", "join")
  /\ NotifyAll
  /\ UNCHANGED <<tasks_, stop_, running, client, arg, future, inDtor>>

Returned == IF inDtor THEN "destroyed" ELSE "closed"

ShutdownNoJoin ==
  /\ OwnerGoes("join", Returned)
  /\ UNCHANGED <<tasks_, stop_, pc, running, client, arg, future, inDtor>>

ShutdownJoin ==
  /\ \A w \in Workers : pc[w] = "exited"
  /\ OwnerGoes("join", Returned)
  /\ UNCHANGED <<tasks_, stop_, pc, running, client, arg, future, inDtor>>

SpuriousProducerWake ==
  /\ OwnerGoes("wait", "lock")
  /\ UNCHANGED <<tasks_, stop_, pc, running, client, arg, future, inDtor>>

-----------------------------------------------------------------------------
WorkerStep(w) == WorkerWait(w) \/ WorkerExit(w) \/ WorkerTake(w) \/ WorkerRun(w)

OwnerStep == ShutdownWait \/ ShutdownStop \/ ShutdownNotify \/ ShutdownJoin

Next ==
  \/ \E w \in Workers : WorkerStep(w) \/ SpuriousWake(w)
  \/ \E c \in Clients : CommitNotify(c) \/ \E t \in Tasks : Commit(c, t)
  \/ CallShutdown \/ Destroy \/ OwnerStep \/ SpuriousProducerWake

Spec == Init /\ [][Next]_vars

(* Threads that can run do run and tasks return; nobody is obliged to call *)
(* Commit, Shutdown or the destructor, or to wake spuriously.              *)
FairSpec ==
  /\ Spec
  /\ \A w \in Workers : WF_vars(WorkerStep(w))
  /\ \A c \in Clients : WF_vars(CommitNotify(c))
  /\ WF_vars(OwnerStep)

-----------------------------------------------------------------------------
Queued(t) == \E i \in 1..Len(tasks_) : tasks_[i] = t

(* Every committed and unresolved task is in exactly one place: one slot   *)
(* of tasks_, one worker, or the Commit call that was refused.  No task is *)
(* dropped and none runs twice.                                            *)
Custody ==
  /\ \A t \in Tasks :
       future[t] = "pending" <=>
         \/ Queued(t)
         \/ \E w \in Workers : running[w] = t
         \/ \E c \in Clients : arg[c] = t
  /\ \A i, j \in 1..Len(tasks_) : tasks_[i] = tasks_[j] => i = j
  /\ \A w \in Workers : running[w] # None =>
       /\ ~Queued(running[w])
       /\ \A v \in Workers : running[v] = running[w] => v = w
  /\ \A c \in Clients : arg[c] # None =>
       /\ ~Queued(arg[c])
       /\ \A w \in Workers : running[w] # arg[c]
       /\ \A d \in Clients : arg[d] = arg[c] => d = c

(* Where the threads stand agrees with stop_: it is set exactly once, by   *)
(* an owner that saw the queue empty and stays so; workers leave and tasks *)
(* are refused only after that; and the owner gets past the join only when *)
(* no worker is left.                                                      *)
StopIsFinal ==
  /\ stop_ <=> owner \in {"notify", "join", "closed", "destroyed"}
  /\ stop_ => tasks_ = <<>>
  /\ \A w \in Workers : pc[w] = "exited" => stop_
  /\ \A c \in Clients : arg[c] # None => stop_ /\ client[c] = "notify"
  /\ owner \in {"closed", "destroyed"} => \A w \in Workers : pc[w] = "exited"

(* Nobody sleeps through the event it waits for: while a task is queued    *)
(* some worker is awake, or a committer is about to wake one; the owner    *)
(* sleeps in Shutdown only while the queue is not empty; and once stop_ is *)
(* set a worker can only sleep until the pending notify_all.               *)
NoLostWakeup ==
  /\ tasks_ # <<>> =>
       \/ \E w \in Workers : pc[w] \in {"lock", "run"}
       \/ \E c \in Clients : client[c] = "notify"
  /\ owner = "wait" => tasks_ # <<>>
  /\ owner \in {"join", "closed", "destroyed"} => Waiting = {}

(* When Shutdown or the destructor has returned, every worker has been     *)
(* joined and every task that was accepted has run to its end.             *)
ShutdownIsComplete ==
  owner \in {"closed", "destroyed"} =>
    /\ stop_
    /\ \A w \in Workers : pc[w] = "exited"
    /\ \A t \in Tasks : future[t] = "pending" => \E c \in Clients : arg[c] = t

(* The future that Commit returns is always resolved, with the result or   *)
(* with a broken promise: nobody waits on it for ever.                     *)
FutureResolved ==
  \A t \in Tasks : future[t] = "pending" ~> future[t] \in {"ready", "broken"}

(* A Shutdown that was called returns.                                     *)
ShutdownReturns == owner = "lock" ~> owner \in {"closed", "destroyed"}

-----------------------------------------------------------------------------
(* The pool implements the contract of TaskPool.                           *)

StatusOf(fut, isQueued, isRunning) ==
  CASE fut = "none" -> "new"
    [] fut = "ready" -> "done"
    [] fut = "pending" /\ isQueued -> "queued"
    [] fut = "pending" /\ ~isQueued /\ isRunning -> "running"
    [] OTHER -> "refused"

Status(t) == StatusOf(future[t], Queued(t), \E w \in Workers : running[w] = t)

Contract == INSTANCE TaskPool WITH
  status <- [t \in Tasks |-> Status(t)],
  queue  <- tasks_,
  open   <- ~stop_,
  over   <- owner \in {"closed", "destroyed"}

(* Every step of the pool is a step of the contract or changes nothing it  *)
(* speaks of: exactly-once, first-in first-out starts, refusal after stop, *)
(* and a Shutdown that returns only when all accepted work is finished.    *)
ImplementsTaskPool == Contract!Spec
=============================================================================
