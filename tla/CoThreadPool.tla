---------------------------- MODULE CoThreadPool ----------------------------
(***************************************************************************)
(* co::ThreadPool (co/co_thread_pool.cpp) over one BlockingQueue per       *)
(* thread (common/blocking_queue.h), as Scheduler::co_spawn uses it.       *)
(*                                                                         *)
(* A coroutine may be bound to a thread (ScheduleById with an id) or not;  *)
(* an unbound one may be stolen.  Threads outside the pool schedule        *)
(* coroutines until the destructor begins; a coroutine that a worker has   *)
(* resumed may schedule others for as long as it runs, also while the      *)
(* destructor joins that worker.  What a queue does under its mutex is one *)
(* step, its notifications come after it.                                  *)
(***************************************************************************)
EXTENDS Integers, Sequences, FiniteSets

CONSTANTS ThreadNum,          \* thread_num_
          Clients,            \* threads outside the pool
          Coros,              \* coroutines, each scheduled at most once
          None,
          EnableWorkSteal     \* enable_work_steal_

Workers == 0..(ThreadNum - 1)
Callers == Clients \cup Workers
AnyThread == -1

ASSUME ThreadNumAssumption == ThreadNum \in Nat \ {0}
ASSUME CallersAssumption   == Clients \cap Workers = {}
ASSUME NoneAssumption      == None \notin Coros \cup Workers \cup {AnyThread}
ASSUME StealAssumption     == EnableWorkSteal \in BOOLEAN

VARIABLES queue,      \* task_queues_: TaskItems, oldest first
          qstop,      \* stop_ of each queue
          stopped_,
          pc,         \* of each worker: "scan", "pop", "wait", "run", "exited"
          scan,       \* of each worker: i of the stealing loop
          item,       \* of each worker: the coroutine it has resumed
          call,       \* of each caller: the ScheduleById it is in
          dtor,       \* the destructor: its statement, and the queue it is at
          bound,      \* the id each coroutine was scheduled with, or None
          late,       \* coroutines queued after stopped_ was set
          finished,   \* coroutines that have been resumed and have returned
          dropped     \* coroutines that ScheduleById has refused

vars == <<queue, qstop, stopped_, pc, scan, item, call, dtor, bound, late, finished, dropped>>

TaskItems == [coro : Coros, can_steal : BOOLEAN]

TypeOK ==
  /\ queue \in [Workers -> Seq(TaskItems)]
  /\ qstop \in [Workers -> BOOLEAN] /\ stopped_ \in BOOLEAN
  /\ pc \in [Workers -> {"scan", "pop", "wait", "run", "exited"}]
  /\ scan \in [Workers -> Workers]
  /\ item \in [Workers -> Coros \cup {None}]
  /\ \A w \in Workers : pc[w] = "run" <=> item[w] # None
  /\ call \in [Callers -> [pc : {"idle", "push", "notify"}, coro : Coros \cup {None},
                           id : Workers \cup {AnyThread}]]
  /\ dtor \in [pc : {"none", "stop", "notify", "join", "done"}, at : Workers]
  /\ bound \in [Coros -> Workers \cup {AnyThread, None}]
  /\ late \subseteq Coros /\ finished \subseteq Coros /\ dropped \subseteq Coros

(* A worker that may steal looks at all queues before it waits on its own. *)
Top == IF EnableWorkSteal THEN "scan" ELSE "pop"

Idle == [pc |-> "idle", coro |-> None, id |-> AnyThread]

Init ==
  /\ queue = [w \in Workers |-> <<>>]
  /\ qstop = [w \in Workers |-> FALSE] /\ stopped_ = FALSE
  /\ pc = [w \in Workers |-> Top] /\ scan = [w \in Workers |-> 0]
  /\ item = [w \in Workers |-> None]
  /\ call = [p \in Callers |-> Idle]
  /\ dtor = [pc |-> "none", at |-> 0]
  /\ bound = [h \in Coros |-> None]
  /\ late = {} /\ finished = {} /\ dropped = {}

-----------------------------------------------------------------------------
(* ScheduleById.  stopped_ is read first; the push may come much later.    *)

MaySchedule(p) ==
  /\ call[p].pc = "idle"
  /\ IF p \in Workers THEN pc[p] = "run" ELSE dtor.pc = "none"

New == {h \in Coros : bound[h] = None}

(* Coroutines have no names before they are scheduled: which of the new    *)
(* ones it is makes no difference.                                         *)
ScheduleById(p, h, id) ==
  /\ MaySchedule(p) /\ New # {} /\ h = CHOOSE g \in New : TRUE
  /\ bound' = [bound EXCEPT ![h] = id]
  /\ \/ /\ stopped_
        /\ dropped' = dropped \cup {h}
        /\ UNCHANGED call
     \/ /\ ~stopped_
        /\ call' = [call EXCEPT ![p] = [pc |-> "push", coro |-> h, id |-> id]]
        /\ UNCHANGED dropped
  /\ UNCHANGED <<queue, qstop, stopped_, pc, scan, item, dtor, late, finished>>

PushItem(p, q, next) ==
  /\ call[p].pc = "push" /\ call[p].id \in {q, AnyThread}
  /\ queue' = [queue EXCEPT ![q] = Append(@,
       [coro |-> call[p].coro, can_steal |-> call[p].id = AnyThread /\ EnableWorkSteal])]
  /\ late' = IF stopped_ THEN late \cup {call[p].coro} ELSE late
  /\ call' = [call EXCEPT ![p] = next]
  /\ UNCHANGED <<qstop, stopped_, pc, scan, item, dtor, bound, finished, dropped>>

PushSilently(p, q) == PushItem(p, q, Idle)

(* Without an id any queue may get the coroutine: try_push goes to the     *)
(* first one whose mutex it gets, and rand() chooses otherwise.            *)
Push(p, q) == PushItem(p, q, [pc |-> "notify", coro |-> None, id |-> q])

Wake(q) == pc' = IF pc[q] = "wait" THEN [pc EXCEPT ![q] = "pop"] ELSE pc

(* Only the thread of a queue ever waits on it.                            *)
PushNotify(p) ==
  /\ call[p].pc = "notify"
  /\ Wake(call[p].id)
  /\ call' = [call EXCEPT ![p] = Idle]
  /\ UNCHANGED <<queue, qstop, stopped_, scan, item, dtor, bound, late, finished, dropped>>

-----------------------------------------------------------------------------
(* The workers.                                                            *)

Take(w, q) ==
  /\ item' = [item EXCEPT ![w] = Head(queue[q]).coro]
  /\ pc' = [pc EXCEPT ![w] = "run"]
  /\ scan' = [scan EXCEPT ![w] = 0]
  /\ UNCHANGED <<qstop, stopped_, call, dtor, bound, late, finished, dropped>>

Victim(w) == (w + scan[w]) % ThreadNum

StealAnything(w) ==
  /\ pc[w] = "scan" /\ queue[Victim(w)] # <<>>
  /\ queue' = [queue EXCEPT ![Victim(w)] = Tail(@)]
  /\ Take(w, Victim(w))

StealCopy(w) ==
  /\ pc[w] = "scan" /\ queue[Victim(w)] # <<>> /\ Head(queue[Victim(w)]).can_steal
  /\ UNCHANGED queue
  /\ Take(w, Victim(w))

(* try_pop_if looks at the front of the queue only.                        *)
Steal(w) ==
  /\ pc[w] = "scan" /\ queue[Victim(w)] # <<>> /\ Head(queue[Victim(w)]).can_steal
  /\ queue' = [queue EXCEPT ![Victim(w)] = Tail(@)]
  /\ Take(w, Victim(w))

(* It fails when it finds nothing to steal, and also whenever it does not  *)
(* get the mutex at once.                                                  *)
NoSteal(w) ==
  /\ pc[w] = "scan"
  /\ IF scan[w] + 1 < ThreadNum
       THEN scan' = [scan EXCEPT ![w] = @ + 1] /\ UNCHANGED pc
       ELSE scan' = [scan EXCEPT ![w] = 0] /\ pc' = [pc EXCEPT ![w] = "pop"]
  /\ UNCHANGED <<queue, qstop, stopped_, item, call, dtor, bound, late, finished, dropped>>

Pop(w) ==
  /\ pc[w] = "pop" /\ queue[w] # <<>>
  /\ queue' = [queue EXCEPT ![w] = Tail(@)]
  /\ Take(w, w)

PopWait(w) ==
  /\ pc[w] = "pop" /\ queue[w] = <<>> /\ ~qstop[w]
  /\ pc' = [pc EXCEPT ![w] = "wait"]
  /\ UNCHANGED <<queue, qstop, stopped_, scan, item, call, dtor, bound, late, finished, dropped>>

LeaveAtOnce(w) ==
  /\ pc[w] = "pop" /\ stopped_
  /\ pc' = [pc EXCEPT ![w] = "exited"]
  /\ UNCHANGED <<queue, qstop, stopped_, scan, item, call, dtor, bound, late, finished, dropped>>

(* pop() returned false: the thread ends if the pool is stopped.           *)
PopFails(w) ==
  /\ pc[w] = "pop" /\ queue[w] = <<>> /\ qstop[w]
  /\ pc' = [pc EXCEPT ![w] = IF stopped_ THEN "exited" ELSE Top]
  /\ UNCHANGED <<queue, qstop, stopped_, scan, item, call, dtor, bound, late, finished, dropped>>

(* The coroutine suspends for good or ends, and resume() returns.          *)
Resumed(w) ==
  /\ pc[w] = "run" /\ call[w].pc = "idle"
  /\ finished' = finished \cup {item[w]}
  /\ item' = [item EXCEPT ![w] = None]
  /\ pc' = [pc EXCEPT ![w] = Top]
  /\ UNCHANGED <<queue, qstop, stopped_, scan, call, dtor, bound, late, dropped>>

SpuriousWake(w) ==
  /\ pc[w] = "wait"
  /\ pc' = [pc EXCEPT ![w] = "pop"]
  /\ UNCHANGED <<queue, qstop, stopped_, scan, item, call, dtor, bound, late, finished, dropped>>

-----------------------------------------------------------------------------
(* ~ThreadPool.                                                            *)

DtorStart ==
  /\ dtor.pc = "none" /\ \A c \in Clients : call[c].pc = "idle"
  /\ stopped_' = TRUE
  /\ dtor' = [dtor EXCEPT !.pc = "stop"]
  /\ UNCHANGED <<queue, qstop, pc, scan, item, call, bound, late, finished, dropped>>

QueueStop ==
  /\ dtor.pc = "stop"
  /\ qstop' = [qstop EXCEPT ![dtor.at] = TRUE]
  /\ dtor' = [dtor EXCEPT !.pc = "notify"]
  /\ UNCHANGED <<queue, stopped_, pc, scan, item, call, bound, late, finished, dropped>>

NextQueue ==
  /\ dtor.pc = "notify"
  /\ dtor' = IF dtor.at + 1 < ThreadNum THEN [pc |-> "stop", at |-> dtor.at + 1]
                                        ELSE [pc |-> "join", at |-> 0]
  /\ UNCHANGED <<queue, qstop, stopped_, scan, item, call, bound, late, finished, dropped>>

StopSilently == NextQueue /\ UNCHANGED pc

StopNotify == NextQueue /\ Wake(dtor.at)

Join ==
  /\ dtor.pc = "join" /\ \A w \in Workers : pc[w] = "exited"
  /\ dtor' = [dtor EXCEPT !.pc = "done"]
  /\ UNCHANGED <<queue, qstop, stopped_, pc, scan, item, call, bound, late, finished, dropped>>

-----------------------------------------------------------------------------
CallStep(p) == (\E q \in Workers : Push(p, q)) \/ PushNotify(p)

WorkerStep(w) ==
  \/ Steal(w) \/ NoSteal(w)
  \/ Pop(w) \/ PopWait(w) \/ PopFails(w)
  \/ Resumed(w)

DtorStep == QueueStop \/ StopNotify \/ Join

Next ==
  \/ \E p \in Callers :
       \/ \E h \in Coros, id \in Workers \cup {AnyThread} : ScheduleById(p, h, id)
       \/ CallStep(p)
  \/ \E w \in Workers : WorkerStep(w) \/ SpuriousWake(w)
  \/ DtorStart \/ DtorStep

Spec == Init /\ [][Next]_vars

(* The threads run and coroutines return; nobody has to schedule one or to *)
(* destroy the pool.                                                       *)
FairSpec ==
  /\ Spec
  /\ \A p \in Callers : WF_vars(CallStep(p))
  /\ \A w \in Workers : WF_vars(WorkerStep(w))
  /\ WF_vars(DtorStep)

-----------------------------------------------------------------------------
Slots(h) ==
  UNION {{<<w, i>> : i \in {j \in 1..Len(queue[w]) : queue[w][j].coro = h}} : w \in Workers}

Holders(h) == {w \in Workers : item[w] = h}

InCalls(h) == {p \in Callers : call[p].pc = "push" /\ call[p].coro = h}

Over(h) == {x \in {"finished", "dropped"} :
              h \in IF x = "finished" THEN finished ELSE dropped}

(* A scheduled coroutine is in exactly one place: on its way into a queue, *)
(* in one slot of one queue, being resumed by one worker, or past it.      *)
(* However workers steal from each other, none is lost or resumed twice.   *)
OnePlace ==
  \A h \in Coros : bound[h] # None =>
    Cardinality(Slots(h)) + Cardinality(Holders(h)) + Cardinality(InCalls(h))
      + Cardinality(Over(h)) = 1

(* A coroutine scheduled with an id is resumed by that thread and by no    *)
(* other, although others look into its queue.                             *)
BoundToThread ==
  \A w \in Workers : item[w] # None => bound[item[w]] \in {w, AnyThread}

(* A worker sleeps on its queue only while there is nothing in it and the  *)
(* queue is not stopped, or the notification is on its way.                *)
OwnerAwake ==
  \A w \in Workers :
    pc[w] = "wait" /\ (queue[w] # <<>> \/ qstop[w]) =>
      \/ \E p \in Callers : call[p].pc = "notify" /\ call[p].id = w
      \/ dtor = [pc |-> "notify", at |-> w]

(* The destructor returns with nothing running, and everything queued      *)
(* before it began has been resumed: only a coroutine that a running one   *)
(* queued after that, having seen stopped_ before it, can be left behind.  *)
DrainedAtEnd ==
  dtor.pc = "done" =>
    \A h \in Coros : /\ Holders(h) = {}
                     /\ Slots(h) # {} => h \in late

(* A coroutine that is in a queue while the pool is not stopped is resumed *)
(* and returns, whether or not the pool is destroyed meanwhile.            *)
QueuedIsResumed ==
  \A h \in Coros : (Slots(h) # {} /\ h \notin late) ~> h \in finished

(* A destructor that has begun returns, also when coroutines that are      *)
(* still running go on scheduling others.                                  *)
DtorReturns == dtor.pc = "stop" ~> dtor.pc = "done"
=============================================================================
