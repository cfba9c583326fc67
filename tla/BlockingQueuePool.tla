------------------------- MODULE BlockingQueuePool --------------------------
(***************************************************************************)
(* The other ThreadPool (common/blocking_queue_thread_pool.h): one         *)
(* BlockingQueue (common/blocking_queue.h) and one thread for each id.     *)
(* Callers use Commit, which takes any queue and never looks at stop_, and *)
(* CommitById, which does; the owner calls Shutdown, itself or in the      *)
(* destructor.  A step is what happens under a queue's mutex, or one       *)
(* access of stop_.                                                        *)
(***************************************************************************)
EXTENDS Naturals, Sequences, FiniteSets

CONSTANTS ThreadNum,   \* thread_num of the constructor
          Tasks

Ids == 1..ThreadNum
None == 0
NoTask == "none"

VARIABLES queue, qstop,  \* queues_: their tasks and their stop_
          stop_,
          pc, task,      \* the workers
          call,          \* of each task: "none", "push"ing, "notify"ing, "in", "refused"
          target,        \* the queue it goes to
          late,          \* tasks pushed behind the stop of their queue
          done,          \* tasks that have run
          shut           \* Shutdown: "none", then the queue to "stop", "join", "done"

vars == <<queue, qstop, stop_, pc, task, call, target, late, done, shut>>

Init ==
  /\ queue = [w \in Ids |-> <<>>] /\ qstop = [w \in Ids |-> FALSE]
  /\ stop_ = FALSE
  /\ pc = [w \in Ids |-> "pop"] /\ task = [w \in Ids |-> NoTask]
  /\ call = [t \in Tasks |-> "none"] /\ target = [t \in Tasks |-> None]
  /\ late = {} /\ done = {}
  /\ shut = [pc |-> "none", at |-> 1]

-----------------------------------------------------------------------------
(* Workers.  pop waits until there is a task or the queue is stopped, and  *)
(* fails only on an empty queue; then stop_ decides.                       *)
PopUnlessStopped(w) ==
  /\ pc[w] = "pop"
  /\ \/ /\ queue[w] # <<>> /\ ~qstop[w]
        /\ task' = [task EXCEPT ![w] = Head(queue[w])]
        /\ queue' = [queue EXCEPT ![w] = Tail(@)]
        /\ pc' = [pc EXCEPT ![w] = "run"]
     \/ /\ queue[w] = <<>> \/ qstop[w]
        /\ pc' = [pc EXCEPT ![w] = IF ~qstop[w] THEN "wait" ELSE IF stop_ THEN "exited" ELSE "pop"]
        /\ UNCHANGED <<queue, task>>
  /\ UNCHANGED <<qstop, stop_, call, target, late, done, shut>>

Pop(w) ==
  /\ pc[w] = "pop"
  /\ \/ /\ queue[w] # <<>>
        /\ task' = [task EXCEPT ![w] = Head(queue[w])]
        /\ queue' = [queue EXCEPT ![w] = Tail(@)]
        /\ pc' = [pc EXCEPT ![w] = "run"]
     \/ /\ queue[w] = <<>>
        /\ pc' = [pc EXCEPT ![w] = IF ~qstop[w] THEN "wait" ELSE IF stop_ THEN "exited" ELSE "pop"]
        /\ UNCHANGED <<queue, task>>
  /\ UNCHANGED <<qstop, stop_, call, target, late, done, shut>>

Run(w) ==
  /\ pc[w] = "run"
  /\ done' = done \cup {task[w]}
  /\ task' = [task EXCEPT ![w] = NoTask]
  /\ pc' = [pc EXCEPT ![w] = "pop"]
  /\ UNCHANGED <<queue, qstop, stop_, call, target, late, shut>>

SpuriousWake(w) ==
  /\ pc[w] = "wait"
  /\ pc' = [pc EXCEPT ![w] = "pop"]
  /\ UNCHANGED <<queue, qstop, stop_, task, call, target, late, done, shut>>

-----------------------------------------------------------------------------
(* Callers.  The pool lives until Shutdown has returned and the owner      *)
(* destroys it: calls that begin later are not made.                       *)
Commit(t, id) ==
  /\ call[t] = "none" /\ shut.pc # "done"
  /\ call' = [call EXCEPT ![t] = "push"] /\ target' = [target EXCEPT ![t] = id]
  /\ UNCHANGED <<queue, qstop, stop_, pc, task, late, done, shut>>

(* Its id has to be given: the default, -1 as a size_t, is not less than 0 *)
(* and fails the assertion.                                                *)
CommitById(t, id) ==
  /\ call[t] = "none" /\ shut.pc # "done"
  /\ call' = [call EXCEPT ![t] = IF stop_ THEN "refused" ELSE "push"]
  /\ target' = [target EXCEPT ![t] = id]
  /\ UNCHANGED <<queue, qstop, stop_, pc, task, late, done, shut>>

Push(t) ==
  /\ call[t] = "push"
  /\ queue' = [queue EXCEPT ![target[t]] = Append(@, t)]
  /\ late' = late \cup IF qstop[target[t]] THEN {t} ELSE {}
  /\ call' = [call EXCEPT ![t] = "notify"]
  /\ UNCHANGED <<qstop, stop_, pc, task, target, done, shut>>

(* Only the worker of a queue waits for it.                                *)
WakeWorker(w) == pc' = IF pc[w] = "wait" THEN [pc EXCEPT ![w] = "pop"] ELSE pc

NotifyOne(t) ==
  /\ call[t] = "notify"
  /\ WakeWorker(target[t])
  /\ call' = [call EXCEPT ![t] = "in"]
  /\ UNCHANGED <<queue, qstop, stop_, task, target, late, done, shut>>

-----------------------------------------------------------------------------
(* Shutdown: stop_, then every queue in turn, then the threads.            *)
Shutdown ==
  /\ shut.pc = "none"
  /\ stop_' = TRUE
  /\ shut' = [pc |-> "stop", at |-> 1]
  /\ UNCHANGED <<queue, qstop, pc, task, call, target, late, done>>

StopQueue ==
  /\ shut.pc = "stop"
  /\ qstop' = [qstop EXCEPT ![shut.at] = TRUE]
  /\ shut' = [shut EXCEPT !.pc = "wake"]
  /\ UNCHANGED <<queue, stop_, pc, task, call, target, late, done>>

WakeStopped ==
  /\ shut.pc = "wake"
  /\ WakeWorker(shut.at)
  /\ shut' = IF shut.at = ThreadNum THEN [shut EXCEPT !.pc = "join"]
             ELSE [pc |-> "stop", at |-> shut.at + 1]
  /\ UNCHANGED <<queue, qstop, stop_, task, call, target, late, done>>

Join ==
  /\ shut.pc = "join" /\ \A w \in Ids : pc[w] = "exited"
  /\ shut' = [shut EXCEPT !.pc = "done"]
  /\ UNCHANGED <<queue, qstop, stop_, pc, task, call, target, late, done>>

-----------------------------------------------------------------------------
WorkerStep(w) == Pop(w) \/ Run(w)
CallStep(t)   == Push(t) \/ NotifyOne(t)
ShutStep      == StopQueue \/ WakeStopped \/ Join

Next ==
  \/ \E w \in Ids : WorkerStep(w) \/ SpuriousWake(w)
  \/ \E t \in Tasks : CallStep(t) \/ \E id \in Ids : Commit(t, id) \/ CommitById(t, id)
  \/ Shutdown \/ ShutStep

(* Threads run, calls that have begun go on; tasks end.                    *)
Fairness ==
  /\ \A w \in Ids : WF_vars(WorkerStep(w))
  /\ \A t \in Tasks : WF_vars(CallStep(t))
  /\ WF_vars(ShutStep)

Pushed(t)     == call[t] \in {"notify", "in"}
Holds(w, t)   == pc[w] = "run" /\ task[w] = t
InQueue(w, t) == \E i \in 1..Len(queue[w]) : queue[w][i] = t

(* A pushed task, and no other, is in one place: it has run, or one worker *)
(* runs it, or it lies once in one queue.  When Shutdown has returned,     *)
(* every task that was pushed before its queue was stopped has run.        *)
OnePlaceEach ==
  /\ \A t \in Tasks :
       /\ Pushed(t) <=> t \in done \/ \E w \in Ids : Holds(w, t) \/ InQueue(w, t)
       /\ t \in done => \A w \in Ids : ~Holds(w, t) /\ ~InQueue(w, t)
       /\ \A v, w \in Ids : /\ ~(Holds(v, t) /\ InQueue(w, t))
                            /\ Holds(v, t) /\ Holds(w, t) => v = w
                            /\ InQueue(v, t) /\ InQueue(w, t) => v = w
  /\ \A w \in Ids : \A i, j \in 1..Len(queue[w]) : queue[w][i] = queue[w][j] => i = j

ReturnsAfterTasks ==
  shut.pc = "done" => \A t \in Tasks : Pushed(t) /\ t \notin late => t \in done

TasksKept == OnePlaceEach /\ ReturnsAfterTasks

(* A task that is pushed before its queue is stopped runs: no wakeup is    *)
(* missed, and Shutdown waits for it, since a worker leaves only an empty  *)
(* queue.  Shutdown returns, and until then no task is lost or run twice.  *)
(* (A task pushed later may stay in its queue for ever, its future with    *)
(* it: Commit does not look at stop_, and CommitById looks too early.)     *)
PushedTasksRun ==
  /\ []TasksKept
  /\ \A t \in Tasks : (call[t] \in {"notify", "in"} /\ t \notin late) ~> t \in done
  /\ shut.pc = "stop" ~> shut.pc = "done"
=============================================================================
