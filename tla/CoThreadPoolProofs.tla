------------------------- MODULE CoThreadPoolProofs -------------------------
(***************************************************************************)
(* Theorems about co::ThreadPool for any number of threads, callers and    *)
(* coroutines, with and without work stealing.                             *)
(***************************************************************************)
EXTENDS CoThreadPool, FiniteSetTheorems, TLAPS

(* What keeps a coroutine on its thread: an item can be stolen only if its *)
(* coroutine is unbound, and otherwise waits in the queue of its thread.   *)
ItemsRespectBound ==
  \A w \in Workers : \A i \in 1..Len(queue[w]) :
    /\ bound[queue[w][i].coro] \in {w, AnyThread}
    /\ queue[w][i].can_steal => bound[queue[w][i].coro] = AnyThread

CallsRespectBound ==
  \A p \in Callers : call[p].pc = "push" =>
    call[p].coro \in Coros /\ bound[call[p].coro] = call[p].id

(* The worker from which a scan steals is one of the pool's threads.       *)
LEMMA VictimIsWorker ==
  ASSUME TypeOK, NEW w \in Workers
  PROVE  Victim(w) \in Workers
<1> scan[w] \in Workers
  BY DEF TypeOK
<1>1. ThreadNum \in Nat \ {0} /\ w \in Nat /\ scan[w] \in Nat
  BY ThreadNumAssumption DEF Workers
<1>2. \A n \in Nat : n % ThreadNum \in 0..(ThreadNum - 1)
  BY <1>1
<1> QED
  BY <1>1, <1>2 DEF Victim, Workers

LEMMA ZeroIsWorker == 0 \in Workers
  BY ThreadNumAssumption DEF Workers

LEMMA NextIsWorker ==
  ASSUME NEW n \in Workers, n + 1 < ThreadNum
  PROVE  n + 1 \in Workers
  BY ThreadNumAssumption DEF Workers

LEMMA InitType == Init => TypeOK
  BY ZeroIsWorker DEF Init, TypeOK, Idle, Top, Callers

(* A coroutine that a worker takes from a queue is one of Coros.           *)
LEMMA FrontIsItem ==
  ASSUME TypeOK, NEW q \in Workers, queue[q] # <<>>
  PROVE  /\ Head(queue[q]) \in TaskItems
         /\ Head(queue[q]).coro \in Coros
         /\ Head(queue[q]).coro # None
         /\ Tail(queue[q]) \in Seq(TaskItems)
         /\ Head(queue[q]) = queue[q][1]
         /\ 1 \in 1..Len(queue[q])
<1>1. queue[q] \in Seq(TaskItems)
  BY DEF TypeOK
<1>2. Head(queue[q]) \in TaskItems /\ Tail(queue[q]) \in Seq(TaskItems)
  BY <1>1
<1>3. Head(queue[q]) = queue[q][1] /\ 1 \in 1..Len(queue[q])
  BY <1>1
<1> QED
  BY <1>2, <1>3, NoneAssumption DEF TaskItems

LEMMA TakeType ==
  ASSUME TypeOK, NEW w \in Workers, NEW q \in Workers, queue[q] # <<>>,
         queue' = [queue EXCEPT ![q] = Tail(@)], Take(w, q)
  PROVE  TypeOK'
<1>1. Head(queue[q]).coro \in Coros /\ Head(queue[q]).coro # None
      /\ Tail(queue[q]) \in Seq(TaskItems)
  BY FrontIsItem
<1> QED
  BY <1>1, ZeroIsWorker DEF TypeOK, Take

LEMMA TypeStep == TypeOK /\ CallsRespectBound /\ [Next]_vars => TypeOK'
<1> SUFFICES ASSUME TypeOK, CallsRespectBound, [Next]_vars PROVE TypeOK'
  OBVIOUS
<1>1. ASSUME NEW p \in Callers, NEW h \in Coros, NEW id \in Workers \cup {AnyThread},
             ScheduleById(p, h, id)
      PROVE  TypeOK'
  <2>1. bound' = [bound EXCEPT ![h] = id]
    BY <1>1 DEF ScheduleById
  <2>2. UNCHANGED <<queue, qstop, stopped_, pc, scan, item, dtor, late, finished>>
    BY <1>1 DEF ScheduleById
  <2>3. bound' \in [Coros -> Workers \cup {AnyThread, None}]
    BY <2>1 DEF TypeOK
  <2>4. CASE dropped' = dropped \cup {h} /\ UNCHANGED call
    BY <2>2, <2>3, <2>4 DEF TypeOK
  <2>5. CASE /\ call' = [call EXCEPT ![p] = [pc |-> "push", coro |-> h, id |-> id]]
             /\ UNCHANGED dropped
    BY <2>2, <2>3, <2>5 DEF TypeOK
  <2> QED
    BY <1>1, <2>4, <2>5 DEF ScheduleById
<1>2. ASSUME NEW p \in Callers, NEW q \in Workers, Push(p, q)
      PROVE  TypeOK'
  <2> DEFINE it == [coro |-> call[p].coro,
                    can_steal |-> call[p].id = AnyThread /\ EnableWorkSteal]
             next == [pc |-> "notify", coro |-> None, id |-> q]
  <2>1. call[p].pc = "push"
    BY <1>2 DEF Push, PushItem
  <2>2. call[p].coro \in Coros
    BY <2>1 DEF CallsRespectBound
  <2>3. it \in TaskItems
    BY <2>2 DEF TaskItems
  <2>4. queue' = [queue EXCEPT ![q] = Append(queue[q], it)]
    BY <1>2 DEF Push, PushItem
  <2>5. queue' \in [Workers -> Seq(TaskItems)]
    <3>1. queue[q] \in Seq(TaskItems)
      BY DEF TypeOK
    <3>2. Append(queue[q], it) \in Seq(TaskItems)
      BY <3>1, <2>3
    <3> QED
      BY <3>2, <2>4 DEF TypeOK
  <2>6. call' = [call EXCEPT ![p] = next]
    BY <1>2 DEF Push, PushItem
  <2>7. late' \subseteq Coros
    BY <1>2, <2>2 DEF Push, PushItem, TypeOK
  <2>8. UNCHANGED <<qstop, stopped_, pc, scan, item, dtor, bound, finished, dropped>>
    BY <1>2 DEF Push, PushItem
  <2> QED
    BY <2>5, <2>6, <2>7, <2>8 DEF TypeOK
<1>3. ASSUME NEW p \in Callers, PushNotify(p)
      PROVE  TypeOK'
  BY <1>3 DEF PushNotify, Wake, Idle, TypeOK
<1>4. ASSUME NEW w \in Workers, Steal(w)
      PROVE  TypeOK'
  BY <1>4, TakeType, VictimIsWorker DEF Steal
<1>5. ASSUME NEW w \in Workers, NoSteal(w)
      PROVE  TypeOK'
  <2>1. CASE scan[w] + 1 < ThreadNum
    <3> scan[w] \in Workers
      BY DEF TypeOK
    <3>1. scan[w] + 1 \in Workers
      BY <2>1, NextIsWorker
    <3>2. scan' = [scan EXCEPT ![w] = scan[w] + 1] /\ UNCHANGED pc
      BY <1>5, <2>1 DEF NoSteal
    <3>3. scan' \in [Workers -> Workers]
      BY <3>1, <3>2 DEF TypeOK
    <3> QED
      BY <1>5, <3>2, <3>3 DEF NoSteal, TypeOK
  <2>2. CASE ~(scan[w] + 1 < ThreadNum)
    BY <1>5, <2>2, ZeroIsWorker, ZenonT(60) DEF NoSteal, TypeOK
  <2> QED
    BY <2>1, <2>2
<1>6. ASSUME NEW w \in Workers, Pop(w)
      PROVE  TypeOK'
  BY <1>6, TakeType DEF Pop
<1>7. ASSUME NEW w \in Workers, PopWait(w)
      PROVE  TypeOK'
  BY <1>7 DEF PopWait, TypeOK
<1>8. ASSUME NEW w \in Workers, PopFails(w)
      PROVE  TypeOK'
  BY <1>8 DEF PopFails, Top, TypeOK
<1>9. ASSUME NEW w \in Workers, Resumed(w)
      PROVE  TypeOK'
  BY <1>9 DEF Resumed, Top, TypeOK
<1>10. ASSUME NEW w \in Workers, SpuriousWake(w)
       PROVE  TypeOK'
  BY <1>10 DEF SpuriousWake, TypeOK
<1>11. CASE DtorStart
  BY <1>11 DEF DtorStart, TypeOK
<1>12. CASE QueueStop
  BY <1>12 DEF QueueStop, TypeOK
<1>13. CASE StopNotify
  <2> dtor.at \in Workers
    BY DEF TypeOK
  <2>1. dtor.at + 1 < ThreadNum => dtor.at + 1 \in Workers
    BY NextIsWorker
  <2>2. dtor' \in [pc : {"none", "stop", "notify", "join", "done"}, at : Workers]
    BY <1>13, <2>1, ZeroIsWorker DEF StopNotify, NextQueue
  <2> QED
    BY <1>13, <2>2 DEF StopNotify, NextQueue, Wake, TypeOK
<1>14. CASE Join
  BY <1>14 DEF Join, TypeOK
<1>15. CASE UNCHANGED vars
  BY <1>15 DEF vars, TypeOK
<1> QED
  BY <1>1, <1>2, <1>3, <1>4, <1>5, <1>6, <1>7, <1>8, <1>9, <1>10, <1>11, <1>12,
     <1>13, <1>14, <1>15 DEF Next, CallStep, WorkerStep, DtorStep

-----------------------------------------------------------------------------
(* Where coroutines may be resumed.                                        *)

BInv == TypeOK /\ CallsRespectBound /\ ItemsRespectBound /\ BoundToThread

LEMMA InitBound == Init => BInv
<1> SUFFICES ASSUME Init PROVE BInv
  OBVIOUS
<1>1. TypeOK
  BY InitType
<1>2. CallsRespectBound
  BY DEF Init, Idle, CallsRespectBound
<1>3. ItemsRespectBound
  BY DEF Init, ItemsRespectBound
<1>4. BoundToThread
  BY DEF Init, BoundToThread
<1> QED
  BY <1>1, <1>2, <1>3, <1>4 DEF BInv

(* Taking the front of a queue keeps the rest of the queues in order.      *)
LEMMA TakeBound ==
  ASSUME BInv, NEW w \in Workers, NEW q \in Workers, queue[q] # <<>>,
         queue' = [queue EXCEPT ![q] = Tail(@)], Take(w, q),
         bound[Head(queue[q]).coro] \in {w, AnyThread}
  PROVE  CallsRespectBound' /\ ItemsRespectBound' /\ BoundToThread'
<1> TypeOK
  BY DEF BInv
<1>1. UNCHANGED <<call, bound>>
  BY DEF Take
<1>2. CallsRespectBound'
  BY <1>1 DEF BInv, CallsRespectBound
<1>3. ItemsRespectBound'
  <2> SUFFICES ASSUME NEW v \in Workers, NEW i \in 1..Len(queue'[v])
               PROVE  /\ bound[queue'[v][i].coro] \in {v, AnyThread}
                      /\ queue'[v][i].can_steal => bound[queue'[v][i].coro] = AnyThread
    BY <1>1 DEF ItemsRespectBound
  <2>1. CASE v # q
    <3>1. queue'[v] = queue[v]
      BY <2>1 DEF TypeOK
    <3> QED
      BY <3>1 DEF BInv, ItemsRespectBound
  <2>2. CASE v = q
    <3>1. queue'[v] = Tail(queue[v]) /\ queue[v] \in Seq(TaskItems)
      BY <2>2 DEF TypeOK
    <3> DEFINE s == queue[v]
    <3>a. s \in Seq(TaskItems) /\ s # <<>> /\ i \in 1..Len(Tail(s))
      BY <3>1, <2>2
    <3> HIDE DEF s
    <3>b. i + 1 \in 1..Len(s) /\ Tail(s)[i] = s[i + 1]
      BY <3>a
    <3>2. i + 1 \in 1..Len(queue[v]) /\ queue'[v][i] = queue[v][i + 1]
      BY <3>1, <3>b DEF s
    <3> QED
      BY <3>2 DEF BInv, ItemsRespectBound
  <2> QED
    BY <2>1, <2>2
<1>4. BoundToThread'
  <2>1. item' = [item EXCEPT ![w] = Head(queue[q]).coro]
    BY DEF Take
  <2> QED
    BY <1>1, <2>1 DEF BInv, BoundToThread, TypeOK
<1> QED
  BY <1>2, <1>3, <1>4

LEMMA BoundStep == BInv /\ [Next]_vars => BInv'
<1> SUFFICES ASSUME BInv, [Next]_vars PROVE BInv'
  OBVIOUS
<1> USE DEF BInv
<1>t. TypeOK'
  BY TypeStep
<1>k. ASSUME UNCHANGED <<queue, bound>>,
             \A p \in Callers : call'[p] = call[p] \/ call'[p].pc # "push",
             \A w \in Workers : item'[w] = item[w] \/ item'[w] = None
      PROVE  CallsRespectBound' /\ ItemsRespectBound' /\ BoundToThread'
  BY <1>k DEF CallsRespectBound, ItemsRespectBound, BoundToThread
<1>1. ASSUME NEW p \in Callers, NEW h \in Coros, NEW id \in Workers \cup {AnyThread},
             ScheduleById(p, h, id)
      PROVE  BInv'
  <2>1. bound[h] = None
    BY <1>1 DEF ScheduleById, New
  <2>2. bound' = [bound EXCEPT ![h] = id] /\ UNCHANGED <<queue, item>>
    BY <1>1 DEF ScheduleById
  <2>3. \A g \in Coros : bound[g] # None => bound'[g] = bound[g]
    BY <2>1, <2>2 DEF TypeOK
  <2>4. bound'[h] = id
    BY <2>2 DEF TypeOK
  <2>5. CallsRespectBound'
    <3>1. \A r \in Callers : call'[r] = call[r]
            \/ call'[r] = [pc |-> "push", coro |-> h, id |-> id]
      BY <1>1 DEF ScheduleById, TypeOK
    <3>2. \A r \in Callers : call[r].id # None
      BY NoneAssumption DEF TypeOK
    <3> QED
      BY <2>3, <2>4, <3>1, <3>2 DEF CallsRespectBound
  <2>6. ItemsRespectBound'
    <3> SUFFICES ASSUME NEW v \in Workers, NEW i \in 1..Len(queue[v])
                 PROVE  bound'[queue[v][i].coro] = bound[queue[v][i].coro]
      BY <2>2 DEF ItemsRespectBound
    <3>1. queue[v][i] \in TaskItems
      BY DEF TypeOK
    <3>2. queue[v][i].coro \in Coros
      BY <3>1 DEF TaskItems
    <3>3. bound[queue[v][i].coro] # None
      BY NoneAssumption DEF ItemsRespectBound
    <3> QED
      BY <2>3, <3>2, <3>3
  <2>7. BoundToThread'
    <3>1. \A w \in Workers : w # None /\ AnyThread # None
      BY NoneAssumption
    <3> QED
      BY <2>2, <2>3, <3>1 DEF BoundToThread, TypeOK
  <2> QED
    BY <1>t, <2>5, <2>6, <2>7
<1>2. ASSUME NEW p \in Callers, NEW q \in Workers, Push(p, q)
      PROVE  BInv'
  <2> DEFINE it == [coro |-> call[p].coro,
                    can_steal |-> call[p].id = AnyThread /\ EnableWorkSteal]
  <2>1. /\ call[p].pc = "push" /\ call[p].id \in {q, AnyThread}
        /\ queue' = [queue EXCEPT ![q] = Append(queue[q], it)]
        /\ call' = [call EXCEPT ![p] = [pc |-> "notify", coro |-> None, id |-> q]]
        /\ UNCHANGED <<bound, item>>
    BY <1>2 DEF Push, PushItem
  <2>2. CallsRespectBound'
    <3>1. \A r \in Callers : call'[r] = call[r] \/ call'[r].pc # "push"
      BY <2>1 DEF TypeOK
    <3> QED
      BY <2>1, <3>1 DEF CallsRespectBound
  <2>3. ItemsRespectBound'
    <3> SUFFICES ASSUME NEW v \in Workers, NEW i \in 1..Len(queue'[v])
                 PROVE  /\ bound[queue'[v][i].coro] \in {v, AnyThread}
                        /\ queue'[v][i].can_steal => bound[queue'[v][i].coro] = AnyThread
      BY <2>1 DEF ItemsRespectBound
    <3>1. queue[v] \in Seq(TaskItems)
      BY DEF TypeOK
    <3>2. CASE queue'[v] = queue[v]
      BY <3>2 DEF ItemsRespectBound
    <3>3. CASE v = q /\ queue'[v] = Append(queue[v], it)
      <4>1. CASE i = Len(queue[v]) + 1
        <5>1. queue'[v][i] = it
          BY <3>1, <3>3, <4>1
        <5>2. bound[it.coro] = call[p].id
          BY <2>1 DEF CallsRespectBound
        <5>3. bound[it.coro] \in {v, AnyThread}
          BY <2>1, <3>3, <5>2
        <5>4. it.can_steal => bound[it.coro] = AnyThread
          BY <5>2
        <5> HIDE DEF it
        <5> QED
          BY <5>1, <5>3, <5>4
      <4>2. CASE i # Len(queue[v]) + 1
        <5>1. i \in 1..Len(queue[v]) /\ queue'[v][i] = queue[v][i]
          BY <3>1, <3>3, <4>2
        <5> QED
          BY <5>1 DEF ItemsRespectBound
      <4> QED
        BY <4>1, <4>2
    <3> QED
      BY <2>1, <3>2, <3>3 DEF TypeOK
  <2>4. BoundToThread'
    BY <2>1 DEF BoundToThread
  <2> QED
    BY <1>t, <2>2, <2>3, <2>4
<1>3. ASSUME NEW p \in Callers, PushNotify(p)
      PROVE  BInv'
  BY <1>3, <1>k, <1>t DEF PushNotify, Idle, TypeOK
<1>4. ASSUME NEW w \in Workers, Steal(w)
      PROVE  BInv'
  <2>1. Victim(w) \in Workers
    BY VictimIsWorker
  <2> DEFINE q == Victim(w)
  <2> HIDE DEF q
  <2>2. /\ q \in Workers /\ queue[q] # <<>> /\ Head(queue[q]).can_steal
        /\ queue' = [queue EXCEPT ![q] = Tail(queue[q])] /\ Take(w, q)
    BY <1>4, <2>1 DEF Steal, q
  <2>3. bound[Head(queue[q]).coro] = AnyThread
    BY <2>2, FrontIsItem DEF ItemsRespectBound
  <2> QED
    BY <1>t, <2>2, <2>3, TakeBound
<1>5. ASSUME NEW w \in Workers, NoSteal(w)
      PROVE  BInv'
  BY <1>5, <1>k, <1>t DEF NoSteal
<1>6. ASSUME NEW w \in Workers, Pop(w)
      PROVE  BInv'
  <2>1. bound[Head(queue[w]).coro] \in {w, AnyThread}
    BY <1>6, FrontIsItem DEF Pop, ItemsRespectBound
  <2> QED
    BY <1>6, <1>t, <2>1, TakeBound DEF Pop
<1>7. ASSUME NEW w \in Workers, PopWait(w)
      PROVE  BInv'
  BY <1>7, <1>k, <1>t DEF PopWait
<1>8. ASSUME NEW w \in Workers, PopFails(w)
      PROVE  BInv'
  BY <1>8, <1>k, <1>t DEF PopFails
<1>9. ASSUME NEW w \in Workers, Resumed(w)
      PROVE  BInv'
  BY <1>9, <1>k, <1>t DEF Resumed, TypeOK
<1>10. ASSUME NEW w \in Workers, SpuriousWake(w)
       PROVE  BInv'
  BY <1>10, <1>k, <1>t DEF SpuriousWake
<1>11. CASE DtorStart
  BY <1>11, <1>k, <1>t DEF DtorStart
<1>12. CASE QueueStop
  BY <1>12, <1>k, <1>t DEF QueueStop
<1>13. CASE StopNotify
  BY <1>13, <1>k, <1>t DEF StopNotify, NextQueue
<1>14. CASE Join
  BY <1>14, <1>k, <1>t DEF Join
<1>15. CASE UNCHANGED vars
  BY <1>15, <1>k, <1>t DEF vars
<1> QED
  BY <1>1, <1>2, <1>3, <1>4, <1>5, <1>6, <1>7, <1>8, <1>9, <1>10, <1>11, <1>12,
     <1>13, <1>14, <1>15 DEF Next, CallStep, WorkerStep, DtorStep

(* Types, items and calls that respect the id a coroutine was scheduled    *)
(* with, and workers that do: together an inductive invariant.             *)
THEOREM BoundInductive == Spec => []BInv
<1>1. Init => BInv
  BY InitBound
<1>2. BInv /\ [Next]_vars => BInv'
  BY BoundStep
<1> QED
  BY <1>1, <1>2, PTL DEF Spec

(* Every reachable state of the pool is well typed: in particular a worker *)
(* holds a coroutine exactly while it runs one, and a scan never leaves    *)
(* the vector of queues.                                                   *)
THEOREM CoTypeCorrect == Spec => []TypeOK
<1>1. BInv => TypeOK
  BY DEF BInv
<1> QED
  BY <1>1, BoundInductive, PTL

(* A coroutine scheduled with an id is resumed by that thread only.        *)
THEOREM StaysOnItsThread == Spec => []BoundToThread
<1>1. BInv => BoundToThread
  BY DEF BInv
<1> QED
  BY <1>1, BoundInductive, PTL

-----------------------------------------------------------------------------
(* Sleeping workers, and what the destructor leaves behind.                *)

(* A worker ends on an empty queue of a stopped pool: whatever is in its   *)
(* queue afterwards was queued after stopped_ was set.                     *)
LeftoversAreLate ==
  /\ \A w \in Workers : pc[w] = "exited" =>
       stopped_ /\ \A i \in 1..Len(queue[w]) : queue[w][i].coro \in late
  /\ \A w \in Workers : qstop[w] => stopped_
  /\ dtor.pc # "none" => stopped_
  /\ dtor.pc = "done" => \A w \in Workers : pc[w] = "exited"

DInv == BInv /\ OwnerAwake /\ LeftoversAreLate

LEMMA InitDrain == Init => DInv
<1> SUFFICES ASSUME Init PROVE DInv
  OBVIOUS
<1>1. OwnerAwake
  BY DEF Init, Top, OwnerAwake
<1>2. LeftoversAreLate
  BY DEF Init, Top, LeftoversAreLate
<1> QED
  BY <1>1, <1>2, InitBound DEF DInv

(* Taking the front of a queue leaves a part of it behind.                 *)
LEMMA TakeDrain ==
  ASSUME DInv, NEW w \in Workers, NEW q \in Workers, queue[q] # <<>>,
         pc[w] \in {"scan", "pop"},
         queue' = [queue EXCEPT ![q] = Tail(@)], Take(w, q)
  PROVE  OwnerAwake' /\ LeftoversAreLate'
<1> TypeOK
  BY DEF DInv, BInv
<1>1. /\ pc' = [pc EXCEPT ![w] = "run"]
      /\ UNCHANGED <<qstop, stopped_, call, dtor, late>>
  BY DEF Take
<1>2. \A v \in Workers : pc'[v] = pc[v] \/ pc'[v] = "run"
  BY <1>1 DEF TypeOK
<1>3. \A v \in Workers : queue'[v] # <<>> => queue[v] # <<>>
  BY DEF TypeOK
<1>4. OwnerAwake'
  BY <1>1, <1>2, <1>3 DEF DInv, OwnerAwake
<1>5. \A v \in Workers : \A i \in 1..Len(queue'[v]) :
        \E j \in 1..Len(queue[v]) : queue'[v][i] = queue[v][j]
  <2> SUFFICES ASSUME NEW v \in Workers, NEW i \in 1..Len(queue'[v])
               PROVE  \E j \in 1..Len(queue[v]) : queue'[v][i] = queue[v][j]
    OBVIOUS
  <2>1. CASE v # q
    BY <2>1 DEF TypeOK
  <2>2. CASE v = q
    <3> DEFINE s == queue[v]
    <3>1. queue'[v] = Tail(s) /\ s \in Seq(TaskItems) /\ s # <<>> /\ i \in 1..Len(Tail(s))
      BY <2>2 DEF TypeOK
    <3> HIDE DEF s
    <3>2. i + 1 \in 1..Len(s) /\ Tail(s)[i] = s[i + 1]
      BY <3>1
    <3> QED
      BY <3>1, <3>2 DEF s
  <2> QED
    BY <2>1, <2>2
<1>6. LeftoversAreLate'
  <2>1. \A v \in Workers : pc'[v] = "exited" <=> pc[v] = "exited"
    BY <1>1 DEF TypeOK
  <2> QED
    BY <1>1, <1>5, <2>1 DEF DInv, LeftoversAreLate
<1> QED
  BY <1>4, <1>6

LEMMA DrainStep == DInv /\ [Next]_vars => DInv'
<1> SUFFICES ASSUME DInv, [Next]_vars PROVE DInv'
  OBVIOUS
<1> USE DEF DInv
<1>b. BInv'
  BY BoundStep
<1> TypeOK
  BY DEF BInv
<1>1. ASSUME NEW p \in Callers, NEW h \in Coros, NEW id \in Workers \cup {AnyThread},
             ScheduleById(p, h, id)
      PROVE  DInv'
  <2>1. \A r \in Callers : call[r].pc = "notify" => call'[r] = call[r]
    BY <1>1 DEF ScheduleById, MaySchedule, TypeOK
  <2>2. UNCHANGED <<queue, qstop, stopped_, pc, dtor, late>>
    BY <1>1 DEF ScheduleById
  <2>3. OwnerAwake'
    BY <2>1, <2>2 DEF OwnerAwake
  <2>4. LeftoversAreLate'
    BY <2>2 DEF LeftoversAreLate
  <2> QED
    BY <1>b, <2>3, <2>4
<1>2. ASSUME NEW p \in Callers, NEW q \in Workers, Push(p, q)
      PROVE  DInv'
  <2> DEFINE it == [coro |-> call[p].coro,
                    can_steal |-> call[p].id = AnyThread /\ EnableWorkSteal]
  <2>1. /\ call[p].pc = "push"
        /\ queue' = [queue EXCEPT ![q] = Append(queue[q], it)]
        /\ call' = [call EXCEPT ![p] = [pc |-> "notify", coro |-> None, id |-> q]]
        /\ late' = IF stopped_ THEN late \cup {it.coro} ELSE late
        /\ UNCHANGED <<qstop, stopped_, pc, dtor>>
    BY <1>2 DEF Push, PushItem
  <2> HIDE DEF it
  <2>2. OwnerAwake'
    <3>1. \A r \in Callers : call[r].pc = "notify" => call'[r] = call[r]
      BY <2>1 DEF TypeOK
    <3>2. call'[p].pc = "notify" /\ call'[p].id = q
      BY <2>1 DEF TypeOK
    <3>3. \A v \in Workers : v # q => queue'[v] = queue[v]
      BY <2>1 DEF TypeOK
    <3> QED
      BY <2>1, <3>1, <3>2, <3>3 DEF OwnerAwake
  <2>3. \A v \in Workers : \A i \in 1..Len(queue'[v]) :
          \/ queue'[v][i] = it
          \/ i \in 1..Len(queue[v]) /\ queue'[v][i] = queue[v][i]
    <3> SUFFICES ASSUME NEW v \in Workers, NEW i \in 1..Len(queue'[v])
                 PROVE  \/ queue'[v][i] = it
                        \/ i \in 1..Len(queue[v]) /\ queue'[v][i] = queue[v][i]
      OBVIOUS
    <3>1. queue[v] \in Seq(TaskItems)
      BY DEF TypeOK
    <3>2. CASE queue'[v] = queue[v]
      BY <3>2
    <3>3. CASE queue'[v] = Append(queue[v], it)
      BY <3>1, <3>3
    <3> QED
      BY <2>1, <3>2, <3>3 DEF TypeOK
  <2>4. LeftoversAreLate'
    BY <2>1, <2>3 DEF LeftoversAreLate
  <2> QED
    BY <1>b, <2>2, <2>4
<1>3. ASSUME NEW p \in Callers, PushNotify(p)
      PROVE  DInv'
  <2>1. /\ call[p].pc = "notify"
        /\ call' = [call EXCEPT ![p] = Idle]
        /\ UNCHANGED <<queue, qstop, stopped_, dtor, late>>
    BY <1>3 DEF PushNotify
  <2>2. \A v \in Workers : /\ pc'[v] = "wait" => pc[v] = "wait" /\ v # call[p].id
                           /\ pc'[v] = "exited" <=> pc[v] = "exited"
    BY <1>3 DEF PushNotify, Wake, TypeOK
  <2>3. \A r \in Callers : r # p => call'[r] = call[r]
    BY <2>1 DEF TypeOK
  <2>4. OwnerAwake'
    BY <2>1, <2>2, <2>3 DEF OwnerAwake
  <2>5. LeftoversAreLate'
    BY <2>1, <2>2 DEF LeftoversAreLate
  <2> QED
    BY <1>b, <2>4, <2>5
<1>4. ASSUME NEW w \in Workers, Steal(w)
      PROVE  DInv'
  <2>1. Victim(w) \in Workers
    BY VictimIsWorker
  <2> QED
    BY <1>4, <1>b, <2>1, TakeDrain DEF Steal
<1>6. ASSUME NEW w \in Workers, Pop(w)
      PROVE  DInv'
  BY <1>6, <1>b, TakeDrain DEF Pop
<1>q. ASSUME NEW w \in Workers,
             \/ NoSteal(w) \/ PopWait(w) \/ PopFails(w) \/ Resumed(w) \/ SpuriousWake(w)
      PROVE  DInv'
  <2>1. UNCHANGED <<queue, qstop, stopped_, call, dtor, late>>
    BY <1>q DEF NoSteal, PopWait, PopFails, Resumed, SpuriousWake
  <2>2. \A v \in Workers : v # w => pc'[v] = pc[v]
    BY <1>q DEF NoSteal, PopWait, PopFails, Resumed, SpuriousWake, TypeOK
  <2>3. pc'[w] = "wait" => queue[w] = <<>> /\ ~qstop[w]
    BY <1>q DEF NoSteal, PopWait, PopFails, Resumed, SpuriousWake, Top, TypeOK
  <2>4. pc'[w] = "exited" => queue[w] = <<>> /\ stopped_
    BY <1>q DEF NoSteal, PopWait, PopFails, Resumed, SpuriousWake, Top, TypeOK
  <2>5. pc[w] # "exited"
    BY <1>q DEF NoSteal, PopWait, PopFails, Resumed, SpuriousWake
  <2>6. OwnerAwake'
    BY <2>1, <2>2, <2>3 DEF OwnerAwake
  <2>7. LeftoversAreLate'
    BY <2>1, <2>2, <2>4, <2>5 DEF LeftoversAreLate
  <2> QED
    BY <1>b, <2>6, <2>7
<1>11. CASE DtorStart
  <2>1. OwnerAwake'
    <3>1. \A w \in Workers : dtor # [pc |-> "notify", at |-> w]
      BY <1>11 DEF DtorStart
    <3>2. UNCHANGED <<queue, qstop, pc, call>>
      BY <1>11 DEF DtorStart
    <3> QED
      BY <3>1, <3>2 DEF OwnerAwake
  <2>2. LeftoversAreLate'
    BY <1>11 DEF DtorStart, LeftoversAreLate, TypeOK
  <2> QED
    BY <1>b, <2>1, <2>2
<1>12. CASE QueueStop
  <2>1. OwnerAwake'
    <3>1. dtor' = [pc |-> "notify", at |-> dtor.at] /\ dtor.pc = "stop"
      BY <1>12 DEF QueueStop, TypeOK
    <3>2. \A v \in Workers : v # dtor.at => qstop'[v] = qstop[v]
      BY <1>12 DEF QueueStop, TypeOK
    <3>3. \A v \in Workers : dtor # [pc |-> "notify", at |-> v]
      BY <3>1
    <3>4. UNCHANGED <<queue, pc, call>>
      BY <1>12 DEF QueueStop
    <3> QED
      BY <3>1, <3>2, <3>3, <3>4 DEF OwnerAwake
  <2>2. LeftoversAreLate'
    BY <1>12 DEF QueueStop, LeftoversAreLate, TypeOK
  <2> QED
    BY <1>b, <2>1, <2>2
<1>13. CASE StopNotify
  <2>1. /\ dtor.pc = "notify" /\ dtor'.pc \in {"stop", "join"}
        /\ UNCHANGED <<queue, qstop, stopped_, call, late>>
    BY <1>13 DEF StopNotify, NextQueue
  <2>2. \A v \in Workers : /\ pc'[v] = "wait" => pc[v] = "wait" /\ v # dtor.at
                           /\ pc'[v] = "exited" <=> pc[v] = "exited"
    BY <1>13 DEF StopNotify, Wake, TypeOK
  <2>3. OwnerAwake'
    BY <2>1, <2>2 DEF OwnerAwake
  <2>4. LeftoversAreLate'
    BY <2>1, <2>2 DEF LeftoversAreLate
  <2> QED
    BY <1>b, <2>3, <2>4
<1>14. CASE Join
  <2>1. OwnerAwake'
    BY <1>14 DEF Join, OwnerAwake
  <2>2. LeftoversAreLate'
    BY <1>14 DEF Join, LeftoversAreLate
  <2> QED
    BY <1>b, <2>1, <2>2
<1>15. CASE UNCHANGED vars
  BY <1>15, <1>b DEF vars, OwnerAwake, LeftoversAreLate
<1> QED
  BY <1>1, <1>2, <1>3, <1>4, <1>6, <1>q, <1>11, <1>12, <1>13, <1>14, <1>15
     DEF Next, CallStep, WorkerStep, DtorStep

LEMMA DrainInductive == Spec => []DInv
  BY InitDrain, DrainStep, PTL DEF Spec

(* No worker sleeps through the notification for its queue, from a push or *)
(* from the destructor's stop().                                           *)
THEOREM OwnersAreAwake == Spec => []OwnerAwake
<1>1. DInv => OwnerAwake
  BY DEF DInv
<1> QED
  BY <1>1, DrainInductive, PTL

(* The destructor leaves no coroutine behind that was queued before it     *)
(* began, and none running.                                                *)
THEOREM DestructorDrains == Spec => []DrainedAtEnd
<1>1. DInv => DrainedAtEnd
  <2> SUFFICES ASSUME DInv, dtor.pc = "done", NEW h \in Coros
               PROVE  Holders(h) = {} /\ (Slots(h) # {} => h \in late)
    BY DEF DrainedAtEnd
  <2> TypeOK
    BY DEF DInv, BInv
  <2>1. \A w \in Workers : pc[w] = "exited"
    BY DEF DInv, LeftoversAreLate
  <2>2. Holders(h) = {}
    <3>1. \A w \in Workers : item[w] = None
      BY <2>1 DEF TypeOK
    <3> QED
      BY <3>1, NoneAssumption DEF Holders
  <2>3. ASSUME Slots(h) # {} PROVE h \in late
    <3>1. PICK w \in Workers : \E i \in 1..Len(queue[w]) : queue[w][i].coro = h
      BY <2>3 DEF Slots
    <3> QED
      BY <2>1, <3>1 DEF DInv, LeftoversAreLate
  <2> QED
    BY <2>2, <2>3
<1> QED
  BY <1>1, DrainInductive, PTL

-----------------------------------------------------------------------------
(* Where a coroutine is.                                                   *)

Queued(h) == \E w \in Workers : \E i \in 1..Len(queue[w]) : queue[w][i].coro = h
Held(h)   == \E w \in Workers : item[w] = h
Called(h) == \E p \in Callers : call[p].pc = "push" /\ call[p].coro = h

(* In no kind of place twice.                                              *)
OneSlot(h) ==
  \A w, v \in Workers : \A i \in 1..Len(queue[w]), j \in 1..Len(queue[v]) :
    queue[w][i].coro = h /\ queue[v][j].coro = h => w = v /\ i = j

OneHolder(h) == \A w, v \in Workers : item[w] = h /\ item[v] = h => w = v

OneCall(h) ==
  \A p, r \in Callers :
    call[p].pc = "push" /\ call[p].coro = h /\ call[r].pc = "push" /\ call[r].coro = h
      => p = r

(* In one kind of place at most, and in one if it has been scheduled.      *)
Somewhere(h) == Queued(h) \/ Held(h) \/ Called(h) \/ h \in finished \/ h \in dropped

OneKind(h) ==
  /\ Queued(h) => ~Held(h) /\ ~Called(h) /\ h \notin finished \cup dropped
  /\ Held(h) => ~Called(h) /\ h \notin finished \cup dropped
  /\ Called(h) => h \notin finished \cup dropped
  /\ h \in finished => h \notin dropped
  /\ Somewhere(h) <=> bound[h] # None

Placed(h) == OneSlot(h) /\ OneHolder(h) /\ OneCall(h) /\ OneKind(h)

PInv == BInv /\ \A h \in Coros : Placed(h)

LEMMA InitPlaced == Init => PInv
<1> SUFFICES ASSUME Init, NEW h \in Coros PROVE Placed(h)
  BY InitBound DEF PInv
<1>1. ~Queued(h) /\ ~Held(h) /\ ~Called(h) /\ bound[h] = None
  BY NoneAssumption DEF Init, Queued, Held, Called, Idle
<1>2. h \notin finished /\ h \notin dropped
  BY DEF Init
<1>3. OneSlot(h) /\ OneHolder(h) /\ OneCall(h)
  BY <1>1 DEF OneSlot, OneHolder, OneCall, Queued, Held, Called
<1>4. OneKind(h)
  BY <1>1, <1>2 DEF OneKind, Somewhere
<1> QED
  BY <1>3, <1>4 DEF Placed

(* A step that leaves a coroutine where it is.                             *)
LEMMA Undisturbed ==
  ASSUME NEW h \in Coros, Placed(h),
         Queued(h)' <=> Queued(h), Held(h)' <=> Held(h), Called(h)' <=> Called(h),
         h \in finished' <=> h \in finished, h \in dropped' <=> h \in dropped,
         bound'[h] = bound[h],
         OneSlot(h)', OneHolder(h)', OneCall(h)'
  PROVE  Placed(h)'
  BY DEF Placed, OneKind, Somewhere

LEMMA SameSlots ==
  ASSUME NEW h \in Coros, Placed(h), queue' = queue
  PROVE  OneSlot(h)' /\ (Queued(h)' <=> Queued(h))
  BY DEF Placed, OneSlot, Queued

LEMMA SameHolders ==
  ASSUME NEW h \in Coros, Placed(h), \A w \in Workers : item'[w] = h <=> item[w] = h
  PROVE  OneHolder(h)' /\ (Held(h)' <=> Held(h))
  BY DEF Placed, OneHolder, Held

LEMMA SameCalls ==
  ASSUME NEW h \in Coros, Placed(h),
         \A p \in Callers : call'[p].pc = "push" /\ call'[p].coro = h
                              <=> call[p].pc = "push" /\ call[p].coro = h
  PROVE  OneCall(h)' /\ (Called(h)' <=> Called(h))
  BY DEF Placed, OneCall, Called

(* ScheduleById: from nowhere into a call, or dropped.                     *)
LEMMA SchedulePlaced ==
  ASSUME PInv, NEW p \in Callers, NEW g \in Coros, NEW id \in Workers \cup {AnyThread},
         ScheduleById(p, g, id), NEW h \in Coros
  PROVE  Placed(h)'
<1> TypeOK /\ Placed(h) /\ Placed(g)
  BY DEF PInv, BInv
<1>1. /\ call[p].pc = "idle" /\ bound[g] = None
      /\ bound' = [bound EXCEPT ![g] = id]
      /\ UNCHANGED <<queue, item, finished>>
  <2>1. g \in New
    BY DEF ScheduleById
  <2> QED
    BY <2>1 DEF ScheduleById, MaySchedule, New
<1>2. id # None
  BY NoneAssumption
<1>3. ~Somewhere(g)
  BY <1>1 DEF Placed, OneKind
<1>4. OneSlot(h)' /\ (Queued(h)' <=> Queued(h))
  BY <1>1, SameSlots
<1>5. OneHolder(h)' /\ (Held(h)' <=> Held(h))
  BY <1>1, SameHolders
<1>6. CASE stopped_
  <2>1. dropped' = dropped \cup {g} /\ call' = call
    BY <1>6 DEF ScheduleById
  <2>2. OneCall(h)' /\ (Called(h)' <=> Called(h))
    BY <2>1, SameCalls
  <2>3. CASE h = g
    <3>1. OneKind(h)'
      BY <1>1, <1>2, <1>3, <1>4, <1>5, <2>1, <2>2, <2>3 DEF OneKind, Somewhere, TypeOK
    <3> QED
      BY <1>4, <1>5, <2>2, <3>1 DEF Placed
  <2>4. CASE h # g
    BY <1>1, <1>4, <1>5, <2>1, <2>2, <2>4, Undisturbed DEF TypeOK
  <2> QED
    BY <2>3, <2>4
<1>7. CASE ~stopped_
  <2>1. /\ call' = [call EXCEPT ![p] = [pc |-> "push", coro |-> g, id |-> id]]
        /\ dropped' = dropped
    BY <1>7 DEF ScheduleById
  <2>2. /\ call'[p].pc = "push" /\ call'[p].coro = g
        /\ \A r \in Callers : r # p => call'[r] = call[r]
    BY <2>1 DEF TypeOK
  <2>3. CASE h = g
    <3>1. ~Called(h)
      BY <1>3, <2>3 DEF Somewhere
    <3>2. OneCall(h)' /\ Called(h)'
      BY <2>2, <2>3, <3>1 DEF OneCall, Called
    <3>3. OneKind(h)'
      BY <1>1, <1>2, <1>3, <1>4, <1>5, <2>1, <2>3, <3>2 DEF OneKind, Somewhere, TypeOK
    <3> QED
      BY <1>4, <1>5, <3>2, <3>3 DEF Placed
  <2>4. CASE h # g
    <3>1. OneCall(h)' /\ (Called(h)' <=> Called(h))
      BY <1>1, <2>2, <2>4, SameCalls
    <3> QED
      BY <1>1, <1>4, <1>5, <2>1, <2>4, <3>1, Undisturbed DEF TypeOK
  <2> QED
    BY <2>3, <2>4
<1> QED
  BY <1>6, <1>7

(* The push: from the call to the end of one queue.                        *)
LEMMA PushPlaced ==
  ASSUME PInv, NEW p \in Callers, NEW q \in Workers, Push(p, q), NEW h \in Coros
  PROVE  Placed(h)'
<1> TypeOK /\ Placed(h)
  BY DEF PInv, BInv
<1> DEFINE g  == call[p].coro
           it == [coro |-> g, can_steal |-> call[p].id = AnyThread /\ EnableWorkSteal]
           n  == Len(queue[q]) + 1
<1>1. /\ call[p].pc = "push"
      /\ queue' = [queue EXCEPT ![q] = Append(queue[q], it)]
      /\ call' = [call EXCEPT ![p] = [pc |-> "notify", coro |-> None, id |-> q]]
      /\ UNCHANGED <<item, bound, finished, dropped>>
  BY DEF Push, PushItem
<1>2. g \in Coros /\ bound[g] # None
  BY <1>1, NoneAssumption DEF PInv, BInv, CallsRespectBound, TypeOK
<1>3. Placed(g) /\ Called(g)
  BY <1>1, <1>2 DEF PInv, Called
<1>4. it.coro = g
  OBVIOUS
<1> HIDE DEF it
<1>5. /\ n \in Nat \ {0} /\ Len(queue'[q]) = n /\ queue'[q][n] = it
      /\ \A i \in 1..Len(queue[q]) : queue'[q][i] = queue[q][i]
      /\ \A w \in Workers : w # q => queue'[w] = queue[w]
      /\ \A w \in Workers : Len(queue[w]) \in Nat
  BY <1>1 DEF TypeOK
<1>6. \A w \in Workers : \A i \in 1..Len(queue[w]) : i \in 1..Len(queue'[w]) /\ queue'[w][i] = queue[w][i]
  BY <1>5
<1>7. \A w \in Workers : \A i \in 1..Len(queue'[w]) :
        \/ w = q /\ i = n
        \/ i \in 1..Len(queue[w]) /\ queue'[w][i] = queue[w][i]
  BY <1>5
<1>8. /\ call'[p].pc = "notify"
      /\ \A r \in Callers : r # p => call'[r] = call[r]
  BY <1>1 DEF TypeOK
<1>9. OneHolder(h)' /\ (Held(h)' <=> Held(h))
  BY <1>1, SameHolders
<1> HIDE DEF n
<1>10. CASE h = g
  <2>1. ~Queued(h)
    BY <1>3, <1>10 DEF Placed, OneKind
  <2>2. OneSlot(h)'
    BY <1>7, <2>1 DEF OneSlot, Queued
  <2>3. n \in 1..Len(queue'[q])
    BY <1>5
  <2>3a. Queued(h)'
    BY <1>4, <1>5, <1>10, <2>3 DEF Queued
  <2>4. OneCall(h)' /\ ~Called(h)'
    BY <1>1, <1>3, <1>8, <1>10 DEF OneCall, Called, Placed
  <2>5. OneKind(h)'
    BY <1>1, <1>2, <1>3, <1>9, <1>10, <2>3a, <2>4 DEF OneKind, Somewhere, Placed
  <2> QED
    BY <1>9, <2>2, <2>4, <2>5 DEF Placed
<1>11. CASE h # g
  <2>1. Queued(h)' <=> Queued(h)
    BY <1>4, <1>5, <1>6, <1>7, <1>11, SMTT(30) DEF Queued
  <2>2. OneSlot(h)'
    <3>1. \A w \in Workers : \A i \in 1..Len(queue'[w]) :
            queue'[w][i].coro = h => i \in 1..Len(queue[w]) /\ queue[w][i].coro = h
      BY <1>4, <1>5, <1>7, <1>11
    <3> QED
      BY <3>1 DEF OneSlot, Placed
  <2>3. OneCall(h)' /\ (Called(h)' <=> Called(h))
    BY <1>1, <1>8, <1>11, SameCalls
  <2> QED
    BY <1>1, <1>9, <2>1, <2>2, <2>3, Undisturbed
<1> QED
  BY <1>10, <1>11

(* Pop and Steal: from the front of one queue to one worker.               *)
LEMMA TakePlaced ==
  ASSUME PInv, NEW w \in Workers, NEW q \in Workers, queue[q] # <<>>,
         pc[w] \in {"scan", "pop"},
         queue' = [queue EXCEPT ![q] = Tail(@)], Take(w, q), NEW h \in Coros
  PROVE  Placed(h)'
<1> TypeOK /\ Placed(h)
  BY DEF PInv, BInv
<1> DEFINE g == Head(queue[q]).coro
           K(v, i) == IF v = q THEN i + 1 ELSE i
<1>1. /\ item' = [item EXCEPT ![w] = g]
      /\ UNCHANGED <<call, bound, finished, dropped>>
  BY DEF Take
<1>2. /\ g \in Coros /\ g # None
      /\ 1 \in 1..Len(queue[q]) /\ queue[q][1].coro = g
  BY FrontIsItem
<1>3. Placed(g) /\ Queued(g)
  BY <1>2 DEF PInv, Queued
<1>4. item[w] = None
  BY DEF TypeOK
<1>5. \A v \in Workers : \A i \in 1..Len(queue'[v]) :
        /\ K(v, i) \in 1..Len(queue[v]) /\ queue'[v][i] = queue[v][K(v, i)]
        /\ ~(v = q /\ K(v, i) = 1)
  <2> SUFFICES ASSUME NEW v \in Workers, NEW i \in 1..Len(queue'[v])
               PROVE  /\ K(v, i) \in 1..Len(queue[v]) /\ queue'[v][i] = queue[v][K(v, i)]
                      /\ ~(v = q /\ K(v, i) = 1)
    OBVIOUS
  <2>1. CASE v # q
    BY <2>1 DEF TypeOK
  <2>2. CASE v = q
    <3> DEFINE s == queue[v]
    <3>1. queue'[v] = Tail(s) /\ s \in Seq(TaskItems) /\ s # <<>> /\ i \in 1..Len(Tail(s))
      BY <2>2 DEF TypeOK
    <3> HIDE DEF s
    <3>2. i \in Nat \ {0} /\ i + 1 \in 1..Len(s) /\ Tail(s)[i] = s[i + 1]
      BY <3>1
    <3>3. i + 1 # 1
      BY <3>2
    <3> QED
      BY <2>2, <3>1, <3>2, <3>3 DEF s
  <2> QED
    BY <2>1, <2>2
<1>6. \A v \in Workers : \A j \in 1..Len(queue[v]) :
        \/ v = q /\ j = 1
        \/ \E i \in 1..Len(queue'[v]) : j = K(v, i)
  <2> SUFFICES ASSUME NEW v \in Workers, NEW j \in 1..Len(queue[v])
               PROVE  \/ v = q /\ j = 1
                      \/ \E i \in 1..Len(queue'[v]) : j = K(v, i)
    OBVIOUS
  <2>1. CASE v # q
    BY <2>1 DEF TypeOK
  <2>2. CASE v = q
    <3> DEFINE s == queue[v]
    <3>1. queue'[v] = Tail(s) /\ s \in Seq(TaskItems) /\ s # <<>> /\ j \in 1..Len(s)
      BY <2>2 DEF TypeOK
    <3> HIDE DEF s
    <3>2. j = 1 \/ (j - 1 \in 1..Len(Tail(s)) /\ j = (j - 1) + 1)
      BY <3>1
    <3> QED
      BY <2>2, <3>1, <3>2
  <2> QED
    BY <2>1, <2>2
<1>7. \A v \in Workers : \A i, j \in 1..Len(queue'[v]) : K(v, i) = K(v, j) => i = j
  <2>1. \A v \in Workers : Len(queue'[v]) \in Nat
    BY DEF TypeOK
  <2> QED
    BY <2>1
<1> HIDE DEF K, g
<1>8. /\ item'[w] = g
      /\ \A v \in Workers : v # w => item'[v] = item[v]
  BY <1>1 DEF TypeOK
<1>9. OneCall(h)' /\ (Called(h)' <=> Called(h))
  BY <1>1, SameCalls
<1>10. OneSlot(h)'
  BY <1>5, <1>7 DEF OneSlot, Placed
<1>11. CASE h = g
  <2>1. ~Queued(h)'
    <3> SUFFICES ASSUME NEW v \in Workers, NEW i \in 1..Len(queue'[v]), queue'[v][i].coro = h
                 PROVE  FALSE
      BY DEF Queued
    <3>1. /\ K(v, i) \in 1..Len(queue[v]) /\ queue[v][K(v, i)].coro = h
          /\ ~(v = q /\ K(v, i) = 1)
      BY <1>5
    <3>2. OneSlot(h)
      BY DEF Placed
    <3>3. v = q /\ K(v, i) = 1
      BY <1>2, <1>11, <3>1, <3>2 DEF OneSlot
    <3> QED
      BY <3>1, <3>3
  <2>2. ~Held(h) /\ ~Called(h) /\ h \notin finished /\ h \notin dropped /\ bound[h] # None
    BY <1>3, <1>11 DEF Placed, OneKind, Somewhere
  <2>3. OneHolder(h)' /\ Held(h)'
    BY <1>8, <1>11, <2>2 DEF OneHolder, Held
  <2>4. OneKind(h)'
    BY <1>1, <1>9, <2>1, <2>2, <2>3 DEF OneKind, Somewhere
  <2> QED
    BY <1>9, <1>10, <2>3, <2>4 DEF Placed
<1>12. CASE h # g
  <2>1. Queued(h)' <=> Queued(h)
    <3>1. Queued(h)' => Queued(h)
      BY <1>5 DEF Queued
    <3>2. ASSUME Queued(h) PROVE Queued(h)'
      <4>1. PICK v \in Workers : \E j \in 1..Len(queue[v]) : queue[v][j].coro = h
        BY <3>2 DEF Queued
      <4>2. PICK j \in 1..Len(queue[v]) : queue[v][j].coro = h
        BY <4>1
      <4>3. \E i \in 1..Len(queue'[v]) : j = K(v, i)
        BY <1>2, <1>6, <1>12, <4>2
      <4> QED
        BY <1>5, <4>2, <4>3 DEF Queued
    <3> QED
      BY <3>1, <3>2
  <2>2. \A v \in Workers : item'[v] = h <=> item[v] = h
    BY <1>4, <1>8, <1>12, NoneAssumption
  <2>3. OneHolder(h)' /\ (Held(h)' <=> Held(h))
    BY <2>2, SameHolders
  <2> QED
    BY <1>1, <1>9, <1>10, <2>1, <2>3, Undisturbed
<1> QED
  BY <1>11, <1>12

(* resume() returns: the worker lets go of the coroutine.                  *)
LEMMA ResumedPlaced ==
  ASSUME PInv, NEW w \in Workers, Resumed(w), NEW h \in Coros
  PROVE  Placed(h)'
<1> TypeOK /\ Placed(h)
  BY DEF PInv, BInv
<1> DEFINE g == item[w]
<1>1. /\ pc[w] = "run" /\ finished' = finished \cup {g}
      /\ item' = [item EXCEPT ![w] = None]
      /\ UNCHANGED <<queue, call, bound, dropped>>
  BY DEF Resumed
<1>2. g \in Coros /\ Held(g)
  BY <1>1 DEF TypeOK, Held
<1>3. /\ item'[w] = None
      /\ \A v \in Workers : v # w => item'[v] = item[v]
  BY <1>1 DEF TypeOK
<1>4. OneSlot(h)' /\ (Queued(h)' <=> Queued(h))
  BY <1>1, SameSlots
<1>5. OneCall(h)' /\ (Called(h)' <=> Called(h))
  BY <1>1, SameCalls
<1>6. CASE h = g
  <2>1. /\ ~Queued(h) /\ ~Called(h) /\ h \notin finished /\ h \notin dropped
        /\ bound[h] # None /\ OneHolder(h)
    BY <1>2, <1>6 DEF Placed, OneKind, Somewhere
  <2>2. ~Held(h)' /\ OneHolder(h)'
    BY <1>3, <1>6, <2>1, NoneAssumption DEF Held, OneHolder
  <2>3. OneKind(h)'
    BY <1>1, <1>4, <1>5, <1>6, <2>1, <2>2 DEF OneKind, Somewhere
  <2> QED
    BY <1>4, <1>5, <2>2, <2>3 DEF Placed
<1>7. CASE h # g
  <2>1. \A v \in Workers : item'[v] = h <=> item[v] = h
    BY <1>3, <1>7, NoneAssumption
  <2>2. OneHolder(h)' /\ (Held(h)' <=> Held(h))
    BY <2>1, SameHolders
  <2> QED
    BY <1>1, <1>4, <1>5, <1>7, <2>2, Undisturbed
<1> QED
  BY <1>6, <1>7

(* Every other step leaves every coroutine where it is.                    *)
LEMMA StillPlaced ==
  ASSUME PInv, UNCHANGED <<queue, item, bound, finished, dropped>>,
         \A p \in Callers : call'[p] = call[p] \/ (call[p].pc # "push" /\ call'[p].pc # "push"),
         NEW h \in Coros
  PROVE  Placed(h)'
<1> Placed(h)
  BY DEF PInv
<1>1. OneSlot(h)' /\ (Queued(h)' <=> Queued(h))
  BY SameSlots
<1>2. OneHolder(h)' /\ (Held(h)' <=> Held(h))
  BY SameHolders
<1>3. \A p \in Callers : call'[p].pc = "push" /\ call'[p].coro = h
                            <=> call[p].pc = "push" /\ call[p].coro = h
  OBVIOUS
<1>4. OneCall(h)' /\ (Called(h)' <=> Called(h))
  BY <1>3, SameCalls
<1> QED
  BY <1>1, <1>2, <1>4, Undisturbed

LEMMA PlacedStep == PInv /\ [Next]_vars => PInv'
<1> SUFFICES ASSUME PInv, [Next]_vars PROVE PInv'
  OBVIOUS
<1> TypeOK
  BY DEF PInv, BInv
<1>b. BInv'
  BY BoundStep DEF PInv
<1> SUFFICES ASSUME NEW h \in Coros PROVE Placed(h)'
  BY <1>b DEF PInv
<1>1. ASSUME NEW p \in Callers, NEW g \in Coros, NEW id \in Workers \cup {AnyThread},
             ScheduleById(p, g, id)
      PROVE  Placed(h)'
  BY <1>1, SchedulePlaced
<1>2. ASSUME NEW p \in Callers, NEW q \in Workers, Push(p, q)
      PROVE  Placed(h)'
  BY <1>2, PushPlaced
<1>3. ASSUME NEW p \in Callers, PushNotify(p)
      PROVE  Placed(h)'
  <2>1. UNCHANGED <<queue, item, bound, finished, dropped>> /\ call[p].pc = "notify"
    BY <1>3 DEF PushNotify
  <2>2. call' = [call EXCEPT ![p] = Idle]
    BY <1>3 DEF PushNotify
  <2>3. \A r \in Callers : call'[r] = call[r] \/ (call[r].pc # "push" /\ call'[r].pc # "push")
    BY <2>1, <2>2 DEF TypeOK, Idle
  <2> QED
    BY <2>1, <2>3, StillPlaced
<1>4. ASSUME NEW w \in Workers, Steal(w)
      PROVE  Placed(h)'
  <2>1. Victim(w) \in Workers
    BY VictimIsWorker
  <2> QED
    BY <1>4, <2>1, TakePlaced DEF Steal
<1>5. ASSUME NEW w \in Workers, Pop(w)
      PROVE  Placed(h)'
  BY <1>5, TakePlaced DEF Pop
<1>6. ASSUME NEW w \in Workers, Resumed(w)
      PROVE  Placed(h)'
  BY <1>6, ResumedPlaced
<1>7. ASSUME NEW w \in Workers,
             NoSteal(w) \/ PopWait(w) \/ PopFails(w) \/ SpuriousWake(w)
      PROVE  Placed(h)'
  <2>1. UNCHANGED <<queue, item, bound, finished, dropped, call>>
    BY <1>7 DEF NoSteal, PopWait, PopFails, SpuriousWake
  <2> QED
    BY <2>1, StillPlaced
<1>8. CASE DtorStart \/ QueueStop \/ StopNotify \/ Join \/ UNCHANGED vars
  <2>1. UNCHANGED <<queue, item, bound, finished, dropped, call>>
    BY <1>8 DEF DtorStart, QueueStop, StopNotify, NextQueue, Join, vars
  <2> QED
    BY <2>1, StillPlaced
<1> QED
  BY <1>1, <1>2, <1>3, <1>4, <1>5, <1>6, <1>7, <1>8
     DEF Next, CallStep, WorkerStep, DtorStep

(* A set whose elements are all equal has one element or none.             *)
LEMMA AtMostOne ==
  ASSUME NEW S, \A x, y \in S : x = y
  PROVE  Cardinality(S) = IF S = {} THEN 0 ELSE 1
<1>1. CASE S = {}
  BY <1>1, FS_EmptySet
<1>2. CASE S # {}
  <2>1. PICK x \in S : TRUE
    BY <1>2
  <2>2. S = {x}
    BY <2>1
  <2> QED
    BY <1>2, <2>2, FS_Singleton
<1> QED
  BY <1>1, <1>2

(* However workers steal from each other and whenever the pool is stopped, *)
(* a scheduled coroutine is in exactly one place: none is lost in a queue, *)
(* resumed twice, or both refused and resumed.                             *)
THEOREM CoroutinesAreKept == Spec => []OnePlace
<1>1. PInv => OnePlace
  <2> SUFFICES ASSUME PInv, NEW h \in Coros, bound[h] # None
               PROVE  Cardinality(Slots(h)) + Cardinality(Holders(h))
                        + Cardinality(InCalls(h)) + Cardinality(Over(h)) = 1
    BY DEF OnePlace
  <2> Placed(h)
    BY DEF PInv
  <2>1. Cardinality(Slots(h)) = IF Queued(h) THEN 1 ELSE 0
    <3>1. ASSUME NEW x \in Slots(h), NEW y \in Slots(h) PROVE x = y
      <4>1. PICK w \in Workers : x \in {<<w, i>> : i \in {j \in 1..Len(queue[w]) : queue[w][j].coro = h}}
        BY DEF Slots
      <4>2. PICK v \in Workers : y \in {<<v, i>> : i \in {j \in 1..Len(queue[v]) : queue[v][j].coro = h}}
        BY DEF Slots
      <4>3. PICK i \in 1..Len(queue[w]) : queue[w][i].coro = h /\ x = <<w, i>>
        BY <4>1
      <4>4. PICK j \in 1..Len(queue[v]) : queue[v][j].coro = h /\ y = <<v, j>>
        BY <4>2
      <4> QED
        BY <4>3, <4>4 DEF Placed, OneSlot
    <3>2. ASSUME Queued(h) PROVE Slots(h) # {}
      <4>1. PICK w \in Workers : \E i \in 1..Len(queue[w]) : queue[w][i].coro = h
        BY <3>2 DEF Queued
      <4>2. PICK i \in 1..Len(queue[w]) : queue[w][i].coro = h
        BY <4>1
      <4>3. <<w, i>> \in {<<w, j>> : j \in {k \in 1..Len(queue[w]) : queue[w][k].coro = h}}
        BY <4>2
      <4>4. <<w, i>> \in Slots(h)
        BY <4>3 DEF Slots
      <4> QED
        BY <4>4
    <3>3. ASSUME Slots(h) # {} PROVE Queued(h)
      <4>1. PICK w \in Workers : \E i \in 1..Len(queue[w]) : queue[w][i].coro = h
        BY <3>3 DEF Slots
      <4> QED
        BY <4>1 DEF Queued
    <3> QED
      BY <3>1, <3>2, <3>3, AtMostOne
  <2>2. Cardinality(Holders(h)) = IF Held(h) THEN 1 ELSE 0
    <3>1. \A x, y \in Holders(h) : x = y
      BY DEF Holders, Placed, OneHolder
    <3>2. Holders(h) = {} <=> ~Held(h)
      BY DEF Holders, Held
    <3> QED
      BY <3>1, <3>2, AtMostOne
  <2>3. Cardinality(InCalls(h)) = IF Called(h) THEN 1 ELSE 0
    <3>1. \A x, y \in InCalls(h) : x = y
      BY DEF InCalls, Placed, OneCall
    <3>2. InCalls(h) = {} <=> ~Called(h)
      BY DEF InCalls, Called
    <3> QED
      BY <3>1, <3>2, AtMostOne
  <2>4. Cardinality(Over(h)) = IF h \in finished \/ h \in dropped THEN 1 ELSE 0
    <3>1. ~(h \in finished /\ h \in dropped)
      BY DEF Placed, OneKind
    <3>2. \A x, y \in Over(h) : x = y
      BY <3>1 DEF Over
    <3>3. Over(h) = {} <=> ~(h \in finished \/ h \in dropped)
      BY DEF Over
    <3> QED
      BY <3>2, <3>3, AtMostOne
  <2>5. /\ Queued(h) => ~Held(h) /\ ~Called(h) /\ ~(h \in finished \/ h \in dropped)
        /\ Held(h) => ~Called(h) /\ ~(h \in finished \/ h \in dropped)
        /\ Called(h) => ~(h \in finished \/ h \in dropped)
        /\ Queued(h) \/ Held(h) \/ Called(h) \/ h \in finished \/ h \in dropped
    BY DEF Placed, OneKind, Somewhere
  <2> QED
    BY <2>1, <2>2, <2>3, <2>4, <2>5
<1> QED
  BY <1>1, InitPlaced, PlacedStep, PTL DEF Spec
=============================================================================
