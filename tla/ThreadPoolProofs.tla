-------------------------- MODULE ThreadPoolProofs --------------------------
(***************************************************************************)
(* The safety of ThreadPool for any number of workers, clients and tasks.  *)
(* The inductive invariant is IInv: the type invariant, the custody of     *)
(* every pending task, the agreement of the program counters with stop_,   *)
(* and the absence of lost wakeups.  ThreadPool implements TaskPool.       *)
(***************************************************************************)
EXTENDS ThreadPool, TLAPS

IInv == TypeOK /\ Custody /\ StopIsFinal /\ NoLostWakeup

-----------------------------------------------------------------------------
(* What the two queue operations of the pool do, element by element.       *)

(* tasks_.emplace(task), the push of Commit: one more element, at the end. *)
LEMMA AppendElements ==
  ASSUME NEW S, NEW s \in Seq(S), NEW e \in S
  PROVE  /\ Append(s, e) \in Seq(S)
         /\ Len(Append(s, e)) = Len(s) + 1
         /\ Len(s) \in Nat
         /\ Append(s, e) # <<>>
         /\ \A i \in 1..(Len(s) + 1) :
              Append(s, e)[i] = IF i = Len(s) + 1 THEN e ELSE s[i]
  OBVIOUS

(* front() and pop(), the take of a worker: the other elements move up.    *)
LEMMA TailElements ==
  ASSUME NEW S, NEW s \in Seq(S), s # <<>>
  PROVE  /\ Head(s) = s[1] /\ Head(s) \in S
         /\ Len(s) \in Nat /\ Len(s) >= 1
         /\ Tail(s) \in Seq(S)
         /\ Len(Tail(s)) = Len(s) - 1
         /\ \A i \in 1..(Len(s) - 1) : Tail(s)[i] = s[i + 1]
  OBVIOUS

(* The initial state of the pool: no task anywhere, every worker about to  *)
(* lock the mutex.                                                         *)
LEMMA InitIInv == Init => IInv
<1> SUFFICES ASSUME Init PROVE IInv
  OBVIOUS
<1> USE DEF Init
<1>1. TypeOK
  <2>1. tasks_ \in Seq(Tasks)
    OBVIOUS
  <2>2. pc \in [Workers -> WorkerStates] /\ client \in [Clients -> ClientStates]
    BY DEF WorkerStates, ClientStates
  <2>3. /\ running \in [Workers -> Tasks \cup {None}]
        /\ arg \in [Clients -> Tasks \cup {None}]
        /\ future \in [Tasks -> FutureStates]
    BY DEF FutureStates
  <2> QED
    BY <2>1, <2>2, <2>3 DEF TypeOK, OwnerStates
<1>2. Len(tasks_) = 0
  OBVIOUS
<1>3. Custody
  BY <1>2, NoneAssumption DEF Custody, Queued
<1>4. StopIsFinal
  BY DEF StopIsFinal
<1>5. NoLostWakeup
  BY DEF NoLostWakeup
<1> QED
  BY <1>1, <1>3, <1>4, <1>5 DEF IInv

-----------------------------------------------------------------------------
(* Every step of every thread keeps the type invariant.                    *)
LEMMA TypeOKStep == TypeOK /\ [Next]_vars => TypeOK'
<1> SUFFICES ASSUME TypeOK, [Next]_vars PROVE TypeOK'
  OBVIOUS
<1> USE DEF TypeOK, WorkerStates, ClientStates, FutureStates, OwnerStates
<1>1. ASSUME NEW w \in Workers, WorkerWait(w) PROVE TypeOK'
  BY <1>1 DEF WorkerWait
<1>2. ASSUME NEW w \in Workers, WorkerExit(w) PROVE TypeOK'
  BY <1>2 DEF WorkerExit
<1>3. ASSUME NEW w \in Workers, WorkerTake(w) PROVE TypeOK'
  <2>1. tasks_' \in Seq(Tasks) /\ Head(tasks_) \in Tasks
    BY <1>3, TailElements DEF WorkerTake, TakeTask
  <2> QED
    BY <1>3, <2>1, NoneAssumption DEF WorkerTake, TakeTask, NotifyProducer
<1>4. ASSUME NEW w \in Workers, WorkerRun(w) PROVE TypeOK'
  BY <1>4 DEF WorkerRun
<1>5. ASSUME NEW w \in Workers, SpuriousWake(w) PROVE TypeOK'
  BY <1>5 DEF SpuriousWake
<1>6. ASSUME NEW c \in Clients, CommitNotify(c) PROVE TypeOK'
  BY <1>6 DEF CommitNotify, LeaveCommit, NotifyOne, Waiting
<1>7. ASSUME NEW c \in Clients, NEW t \in Tasks, Commit(c, t) PROVE TypeOK'
  <2>1. tasks_' \in Seq(Tasks)
    BY <1>7, AppendElements, SMTT(30) DEF Commit
  <2> QED
    BY <1>7, <2>1 DEF Commit
<1>8. CASE CallShutdown
  BY <1>8 DEF CallShutdown, OwnerGoes
<1>9. CASE Destroy
  BY <1>9 DEF Destroy
<1>10. CASE ShutdownWait
  BY <1>10 DEF ShutdownWait, OwnerGoes
<1>11. CASE ShutdownStop
  BY <1>11 DEF ShutdownStop, OwnerGoes
<1>12. CASE ShutdownNotify
  BY <1>12 DEF ShutdownNotify, OwnerGoes, NotifyAll
<1>13. CASE ShutdownJoin
  BY <1>13 DEF ShutdownJoin, OwnerGoes, Returned
<1>14. CASE SpuriousProducerWake
  BY <1>14 DEF SpuriousProducerWake, OwnerGoes
<1>15. CASE UNCHANGED vars
  BY <1>15 DEF vars
<1> QED
  BY <1>1, <1>2, <1>3, <1>4, <1>5, <1>6, <1>7, <1>8, <1>9, <1>10, <1>11,
     <1>12, <1>13, <1>14, <1>15 DEF Next, WorkerStep, OwnerStep

(* No step sets stop_ again, queues a task behind it, or lets the owner past   *)
(* the join while a worker is left.                                            *)
LEMMA StopIsFinalStep == TypeOK /\ StopIsFinal /\ [Next]_vars => StopIsFinal'
<1> SUFFICES ASSUME TypeOK, StopIsFinal, [Next]_vars PROVE StopIsFinal'
  OBVIOUS
<1> USE DEF StopIsFinal, TypeOK
<1>1. ASSUME NEW w \in Workers, WorkerWait(w) PROVE StopIsFinal'
  BY <1>1 DEF WorkerWait
<1>2. ASSUME NEW w \in Workers, WorkerExit(w) PROVE StopIsFinal'
  BY <1>2 DEF WorkerExit
<1>3. ASSUME NEW w \in Workers, WorkerTake(w) PROVE StopIsFinal'
  <2>1. Head(tasks_) \in Tasks /\ Head(tasks_) # None
    BY <1>3, TailElements, NoneAssumption DEF WorkerTake, TakeTask
  <2> QED
    BY <1>3, <2>1 DEF WorkerTake, TakeTask, NotifyProducer
<1>4. ASSUME NEW w \in Workers, WorkerRun(w) PROVE StopIsFinal'
  BY <1>4 DEF WorkerRun
<1>5. ASSUME NEW w \in Workers, SpuriousWake(w) PROVE StopIsFinal'
  BY <1>5 DEF SpuriousWake
<1>6. ASSUME NEW c \in Clients, CommitNotify(c) PROVE StopIsFinal'
  BY <1>6 DEF CommitNotify, LeaveCommit, NotifyOne, Waiting
<1>7. ASSUME NEW c \in Clients, NEW t \in Tasks, Commit(c, t) PROVE StopIsFinal'
  BY <1>7 DEF Commit
<1>8. CASE CallShutdown
  BY <1>8 DEF CallShutdown, OwnerGoes
<1>9. CASE Destroy
  BY <1>9 DEF Destroy
<1>10. CASE ShutdownWait
  BY <1>10 DEF ShutdownWait, OwnerGoes
<1>11. CASE ShutdownStop
  BY <1>11 DEF ShutdownStop, OwnerGoes
<1>12. CASE ShutdownNotify
  BY <1>12 DEF ShutdownNotify, OwnerGoes, NotifyAll, Waiting
<1>13. CASE ShutdownJoin
  BY <1>13 DEF ShutdownJoin, OwnerGoes, Returned
<1>14. CASE SpuriousProducerWake
  BY <1>14 DEF SpuriousProducerWake, OwnerGoes
<1>15. CASE UNCHANGED vars
  BY <1>15 DEF vars
<1> QED
  BY <1>1, <1>2, <1>3, <1>4, <1>5, <1>6, <1>7, <1>8, <1>9, <1>10, <1>11,
     <1>12, <1>13, <1>14, <1>15 DEF Next, WorkerStep, OwnerStep

(* No step leaves a queued task, the owner or a worker without the thread that *)
(* will wake it.                                                               *)
LEMMA NoLostWakeupStep == TypeOK /\ StopIsFinal /\ NoLostWakeup /\ [Next]_vars => NoLostWakeup'
<1> SUFFICES ASSUME TypeOK, StopIsFinal, NoLostWakeup, [Next]_vars PROVE NoLostWakeup'
  OBVIOUS
<1> USE DEF NoLostWakeup, StopIsFinal, TypeOK, Waiting
<1>1. ASSUME NEW w \in Workers, WorkerWait(w) PROVE NoLostWakeup'
  BY <1>1 DEF WorkerWait
<1>2. ASSUME NEW w \in Workers, WorkerExit(w) PROVE NoLostWakeup'
  BY <1>2 DEF WorkerExit
<1>3. ASSUME NEW w \in Workers, WorkerTake(w) PROVE NoLostWakeup'
  BY <1>3 DEF WorkerTake, TakeTask, NotifyProducer
<1>4. ASSUME NEW w \in Workers, WorkerRun(w) PROVE NoLostWakeup'
  BY <1>4 DEF WorkerRun
<1>5. ASSUME NEW w \in Workers, SpuriousWake(w) PROVE NoLostWakeup'
  BY <1>5 DEF SpuriousWake
<1>6. ASSUME NEW c \in Clients, CommitNotify(c) PROVE NoLostWakeup'
  <2> USE <1>6 DEF CommitNotify, LeaveCommit
  <2>1. CASE Waiting = {} /\ UNCHANGED pc
    <3>1. tasks_ # <<>> => \A w \in Workers : pc[w] \in {"lock", "run"}
      BY <2>1 DEF WorkerStates
    <3> QED
      BY <2>1, <3>1, WorkersAssumption
  <2>2. ASSUME NEW w \in Waiting, pc' = [pc EXCEPT ![w] = "lock"]
        PROVE  NoLostWakeup'
    BY <2>2
  <2> QED
    BY <2>1, <2>2 DEF NotifyOne
<1>7. ASSUME NEW c \in Clients, NEW t \in Tasks, Commit(c, t) PROVE NoLostWakeup'
  BY <1>7 DEF Commit
<1>8. CASE CallShutdown
  BY <1>8 DEF CallShutdown, OwnerGoes
<1>9. CASE Destroy
  BY <1>9 DEF Destroy
<1>10. CASE ShutdownWait
  BY <1>10 DEF ShutdownWait, OwnerGoes
<1>11. CASE ShutdownStop
  BY <1>11 DEF ShutdownStop, OwnerGoes
<1>12. CASE ShutdownNotify
  BY <1>12 DEF ShutdownNotify, OwnerGoes, NotifyAll, Waiting
<1>13. CASE ShutdownJoin
  BY <1>13 DEF ShutdownJoin, OwnerGoes, Returned
<1>14. CASE SpuriousProducerWake
  BY <1>14 DEF SpuriousProducerWake, OwnerGoes
<1>15. CASE UNCHANGED vars
  BY <1>15 DEF vars
<1> QED
  BY <1>1, <1>2, <1>3, <1>4, <1>5, <1>6, <1>7, <1>8, <1>9, <1>10, <1>11,
     <1>12, <1>13, <1>14, <1>15 DEF Next, WorkerStep, OwnerStep

(* Custody of the next state, spelled out over the set Q of the tasks that are *)
(* then queued: the form in which the steps that touch the queue prove it.     *)
LEMMA CustodyPrimed ==
  ASSUME TypeOK', NEW Q,
         Q = {u \in Tasks : \E i \in 1..Len(tasks_') : tasks_'[i] = u},
         \A u \in Tasks : future'[u] = "pending" <=>
           \/ u \in Q
           \/ \E w \in Workers : running'[w] = u
           \/ \E c \in Clients : arg'[c] = u,
         \A i, j \in 1..Len(tasks_') : tasks_'[i] = tasks_'[j] => i = j,
         \A w \in Workers : running'[w] # None =>
           /\ running'[w] \notin Q
           /\ \A v \in Workers : running'[v] = running'[w] => v = w,
         \A c \in Clients : arg'[c] # None =>
           /\ arg'[c] \notin Q
           /\ \A w \in Workers : running'[w] # arg'[c]
           /\ \A d \in Clients : arg'[d] = arg'[c] => d = c
  PROVE  Custody'
  BY NoneAssumption DEF Custody, Queued, TypeOK

(* No step loses a pending task or puts it in a second place.                  *)
LEMMA CustodyStep == TypeOK /\ StopIsFinal /\ Custody /\ [Next]_vars => Custody'
<1> SUFFICES ASSUME TypeOK, StopIsFinal, Custody, [Next]_vars PROVE Custody'
  OBVIOUS
<1> USE NoneAssumption DEF Custody, StopIsFinal, TypeOK, Queued
<1>1. ASSUME NEW w \in Workers, WorkerWait(w) PROVE Custody'
  BY <1>1 DEF WorkerWait
<1>2. ASSUME NEW w \in Workers, WorkerExit(w) PROVE Custody'
  BY <1>2 DEF WorkerExit
<1>3. ASSUME NEW w \in Workers, WorkerTake(w) PROVE Custody'
  <2> DEFINE h == Head(tasks_)
             Q == {u \in Tasks : \E i \in 1..Len(tasks_) : tasks_[i] = u}
             R == {u \in Tasks : \E i \in 1..Len(tasks_') : tasks_'[i] = u}
  <2>1. /\ h = tasks_[1] /\ h \in Tasks
        /\ Len(tasks_) \in Nat /\ Len(tasks_) >= 1
        /\ Len(tasks_') = Len(tasks_) - 1
        /\ \A i \in 1..(Len(tasks_) - 1) : tasks_'[i] = tasks_[i + 1]
    BY <1>3, TailElements DEF WorkerTake, TakeTask
  <2>2. /\ running' = [running EXCEPT ![w] = h] /\ running[w] = None
        /\ UNCHANGED <<arg, future>>
    BY <1>3 DEF WorkerTake, TakeTask
  <2> HIDE DEF h
  <2>3. R = Q \ {h}
    <3>1. ASSUME NEW u \in R PROVE u \in Q \ {h}
      <4>1. PICK i \in 1..(Len(tasks_) - 1) : tasks_'[i] = u
        BY <2>1, <3>1
      <4>2. i + 1 \in 1..Len(tasks_) /\ tasks_[i + 1] = u /\ i + 1 # 1
        BY <2>1, <4>1
      <4> QED
        BY <2>1, <4>2
    <3>2. ASSUME NEW u \in Q, u # h PROVE u \in R
      <4>1. PICK i \in 1..Len(tasks_) : tasks_[i] = u
        BY <3>2
      <4>2. i - 1 \in 1..(Len(tasks_) - 1) /\ tasks_'[i - 1] = u
        BY <2>1, <3>2, <4>1
      <4> QED
        BY <2>1, <4>2
    <3> QED
      BY <3>1, <3>2
  <2>4. \A i, j \in 1..Len(tasks_') : tasks_'[i] = tasks_'[j] => i = j
    BY <2>1
  <2>5. h \in Q /\ h # None
    BY <2>1, NoneAssumption
  <2>6. \A u \in Tasks : Queued(u) <=> u \in Q
    OBVIOUS
  <2>7. TypeOK'
    BY TypeOKStep
  <2>8. R = {u \in Tasks : \E i \in 1..Len(tasks_') : tasks_'[i] = u}
    OBVIOUS
  <2> HIDE DEF Queued, Q, R
  <2>9. (\A v \in Workers : running[v] # h) /\ (\A c \in Clients : arg[c] # h)
    BY <2>5, <2>6, <2>1
  <2>10. \A u \in Tasks : future'[u] = "pending" <=>
        \/ u \in R
        \/ \E v \in Workers : running'[v] = u
        \/ \E d \in Clients : arg'[d] = u
    BY <2>1, <2>2, <2>3, <2>5, <2>6, <2>9
  <2>11. \A v \in Workers : running'[v] # None =>
        /\ running'[v] \notin R
        /\ \A x \in Workers : running'[x] = running'[v] => x = v
    BY <2>1, <2>2, <2>3, <2>5, <2>6, <2>9
  <2>12. \A e \in Clients : arg'[e] # None =>
        /\ arg'[e] \notin R
        /\ \A v \in Workers : running'[v] # arg'[e]
        /\ \A d \in Clients : arg'[d] = arg'[e] => d = e
    BY <2>1, <2>2, <2>3, <2>5, <2>6, <2>9
  <2> HIDE DEF Custody, StopIsFinal, TypeOK
  <2> QED
    BY <2>4, <2>7, <2>8, <2>10, <2>11, <2>12, CustodyPrimed
<1>4. ASSUME NEW w \in Workers, WorkerRun(w) PROVE Custody'
  BY <1>4, SMTT(30) DEF WorkerRun
<1>5. ASSUME NEW w \in Workers, SpuriousWake(w) PROVE Custody'
  <2>1. UNCHANGED <<tasks_, running, arg, future>>
    BY <1>5 DEF SpuriousWake
  <2> QED
    BY <2>1
<1>6. ASSUME NEW c \in Clients, CommitNotify(c) PROVE Custody'
  BY <1>6 DEF CommitNotify, LeaveCommit, NotifyOne, Waiting
<1>7. ASSUME NEW c \in Clients, NEW t \in Tasks, Commit(c, t) PROVE Custody'
  <2> DEFINE Q == {u \in Tasks : \E i \in 1..Len(tasks_) : tasks_[i] = u}
             R == {u \in Tasks : \E i \in 1..Len(tasks_') : tasks_'[i] = u}
  <2>1. /\ ~Queued(t) /\ t # None
        /\ \A w \in Workers : running[w] # t
        /\ \A d \in Clients : arg[d] # t
    BY <1>7 DEF Commit
  <2>2. \A u \in Tasks : Queued(u) <=> u \in Q
    OBVIOUS
  <2>3. TypeOK'
    BY TypeOKStep
  <2>4. R = {u \in Tasks : \E i \in 1..Len(tasks_') : tasks_'[i] = u}
    OBVIOUS
  <2>5. UNCHANGED running /\ future' = [future EXCEPT ![t] = "pending"]
    BY <1>7 DEF Commit
  <2>6. CASE stop_
    <3>1. UNCHANGED tasks_ /\ arg' = [arg EXCEPT ![c] = t] /\ arg[c] = None
      BY <1>7, <2>6 DEF Commit
    <3>2. R = Q
      BY <3>1
    <3> HIDE DEF Queued, Q, R
    <3>3. \A u \in Tasks : future'[u] = "pending" <=>
          \/ u \in R
          \/ \E v \in Workers : running'[v] = u
          \/ \E d \in Clients : arg'[d] = u
      BY <2>1, <2>2, <2>5, <3>1, <3>2
    <3>4. \A v \in Workers : running'[v] # None =>
          /\ running'[v] \notin R
          /\ \A x \in Workers : running'[x] = running'[v] => x = v
      BY <2>1, <2>2, <2>5, <3>1, <3>2
    <3>5. \A e \in Clients : arg'[e] # None =>
          /\ arg'[e] \notin R
          /\ \A v \in Workers : running'[v] # arg'[e]
          /\ \A d \in Clients : arg'[d] = arg'[e] => d = e
      BY <2>1, <2>2, <2>5, <3>1, <3>2
    <3>6. \A i, j \in 1..Len(tasks_') : tasks_'[i] = tasks_'[j] => i = j
      BY <3>1
    <3> HIDE DEF Custody, StopIsFinal, TypeOK
    <3> QED
      BY <2>3, <2>4, <3>3, <3>4, <3>5, <3>6, CustodyPrimed
  <2>7. CASE ~stop_
    <3>1. tasks_' = Append(tasks_, t) /\ UNCHANGED arg
      BY <1>7, <2>7 DEF Commit
    <3>2. /\ Len(tasks_) \in Nat /\ Len(tasks_') = Len(tasks_) + 1
          /\ \A i \in 1..(Len(tasks_) + 1) :
               tasks_'[i] = IF i = Len(tasks_) + 1 THEN t ELSE tasks_[i]
      BY <3>1, AppendElements
    <3>3. R = Q \cup {t}
      <4>1. ASSUME NEW u \in Q PROVE u \in R
        BY <3>2
      <4>2. ASSUME NEW u \in R, u # t PROVE u \in Q
        BY <3>2, <4>2
      <4>3. t \in R
        <5>1. Len(tasks_) + 1 \in 1..Len(tasks_') /\ tasks_'[Len(tasks_) + 1] = t
          BY <3>2
        <5> QED
          BY <5>1
      <4> QED
        BY <4>1, <4>2, <4>3
    <3>4. \A i, j \in 1..Len(tasks_') : tasks_'[i] = tasks_'[j] => i = j
      BY <2>1, <3>2
    <3> HIDE DEF Queued, Q, R
    <3>5. \A u \in Tasks : future'[u] = "pending" <=>
            \/ u \in R
            \/ \E w \in Workers : running'[w] = u
            \/ \E d \in Clients : arg'[d] = u
      BY <2>1, <2>2, <2>5, <3>1, <3>3
    <3>6. \A w \in Workers : running'[w] # None =>
            /\ running'[w] \notin R
            /\ \A v \in Workers : running'[v] = running'[w] => v = w
      BY <2>1, <2>2, <2>5, <3>3
    <3>7. \A e \in Clients : arg'[e] # None =>
            /\ arg'[e] \notin R
            /\ \A w \in Workers : running'[w] # arg'[e]
            /\ \A d \in Clients : arg'[d] = arg'[e] => d = e
      BY <2>1, <2>2, <2>5, <3>1, <3>3
    <3> HIDE DEF Custody, StopIsFinal, TypeOK
    <3> QED
      BY <2>3, <2>4, <3>4, <3>5, <3>6, <3>7, CustodyPrimed
  <2> QED
    BY <2>6, <2>7
<1>8. CASE CallShutdown
  BY <1>8 DEF CallShutdown, OwnerGoes
<1>9. CASE Destroy
  BY <1>9 DEF Destroy
<1>10. CASE ShutdownWait
  BY <1>10 DEF ShutdownWait, OwnerGoes
<1>11. CASE ShutdownStop
  BY <1>11 DEF ShutdownStop, OwnerGoes
<1>12. CASE ShutdownNotify
  BY <1>12 DEF ShutdownNotify, OwnerGoes, NotifyAll, Waiting
<1>13. CASE ShutdownJoin
  BY <1>13 DEF ShutdownJoin, OwnerGoes, Returned
<1>14. CASE SpuriousProducerWake
  BY <1>14 DEF SpuriousProducerWake, OwnerGoes
<1>15. CASE UNCHANGED vars
  BY <1>15 DEF vars
<1> QED
  BY <1>1, <1>2, <1>3, <1>4, <1>5, <1>6, <1>7, <1>8, <1>9, <1>10, <1>11,
     <1>12, <1>13, <1>14, <1>15 DEF Next, WorkerStep, OwnerStep

-----------------------------------------------------------------------------
(* Type correctness of every reachable state of the pool.                  *)
THEOREM TypeCorrect == Spec => []TypeOK
<1>1. Init => TypeOK
  BY InitIInv DEF IInv
<1> QED
  BY <1>1, TypeOKStep, PTL DEF Spec

(* The four parts are an invariant together: StopIsFinal is what the       *)
(* custody and the wakeup arguments rest on.                               *)
THEOREM Inductive == Spec => []IInv
<1>1. IInv /\ [Next]_vars => IInv'
  BY TypeOKStep, StopIsFinalStep, NoLostWakeupStep, CustodyStep DEF IInv
<1> QED
  BY <1>1, InitIInv, PTL DEF Spec

(* Whatever Commit accepts is in exactly one place until it is resolved.   *)
THEOREM TasksAreKept == Spec => []Custody
<1>1. IInv => Custody
  BY DEF IInv
<1> QED
  BY <1>1, Inductive, PTL

(* stop_ is set once, on an empty queue, and nothing is queued behind it.  *)
THEOREM StopStays == Spec => []StopIsFinal
<1>1. IInv => StopIsFinal
  BY DEF IInv
<1> QED
  BY <1>1, Inductive, PTL

(* No worker and no Shutdown sleeps through its notification.              *)
THEOREM WakeupsAreKept == Spec => []NoLostWakeup
<1>1. IInv => NoLostWakeup
  BY DEF IInv
<1> QED
  BY <1>1, Inductive, PTL

(* Once Shutdown has returned no worker is left and no accepted task is    *)
(* unfinished: a pending task could only be queued or running, and neither *)
(* the queue nor a worker holds one.                                       *)
THEOREM ShutdownCompletes == Spec => []ShutdownIsComplete
<1>1. IInv => ShutdownIsComplete
  <2> SUFFICES ASSUME IInv, owner \in {"closed", "destroyed"}
               PROVE  /\ stop_
                      /\ \A w \in Workers : pc[w] = "exited"
                      /\ \A t \in Tasks : future[t] = "pending" =>
                           \E c \in Clients : arg[c] = t
    BY DEF ShutdownIsComplete
  <2>1. stop_ /\ tasks_ = <<>> /\ \A w \in Workers : pc[w] = "exited"
    BY DEF IInv, StopIsFinal
  <2>2. \A w \in Workers : running[w] = None
    BY <2>1 DEF IInv, TypeOK
  <2>3. \A t \in Tasks : ~Queued(t)
    BY <2>1 DEF Queued
  <2> QED
    BY <2>1, <2>2, <2>3, NoneAssumption DEF IInv, Custody
<1> QED
  BY <1>1, Inductive, PTL

-----------------------------------------------------------------------------
(* ThreadPool implements TaskPool, for any number of threads and tasks.    *)

(* The status of the next state, over the set Q of the tasks then queued   *)
(* and the set R of the tasks then running.                                *)
LEMMA StatusPrimed ==
  ASSUME NEW Q, Q = {u \in Tasks : \E i \in 1..Len(tasks_') : tasks_'[i] = u},
         NEW R, R = {u \in Tasks : \E w \in Workers : running'[w] = u},
         NEW t \in Tasks
  PROVE  Status(t)' = StatusOf(future'[t], t \in Q, t \in R)
  <1>1. (\E i \in 1..Len(tasks_') : tasks_'[i] = t) <=> t \in Q
    OBVIOUS
  <1>2. (\E w \in Workers : running'[w] = t) <=> t \in R
    OBVIOUS
  <1> QED
    BY <1>1, <1>2 DEF Status, StatusOf, Queued

(* The same for the current state.                                         *)
LEMMA StatusNow ==
  ASSUME NEW Q, Q = {u \in Tasks : \E i \in 1..Len(tasks_) : tasks_[i] = u},
         NEW R, R = {u \in Tasks : \E w \in Workers : running[w] = u},
         NEW t \in Tasks
  PROVE  Status(t) = StatusOf(future[t], t \in Q, t \in R)
  <1>1. (\E i \in 1..Len(tasks_) : tasks_[i] = t) <=> t \in Q
    OBVIOUS
  <1>2. (\E w \in Workers : running[w] = t) <=> t \in R
    OBVIOUS
  <1> QED
    BY <1>1, <1>2 DEF Status, StatusOf, Queued

(* The pool starts as the contract does.                                   *)
LEMMA InitRefines == Init => Contract!Init
  <1> SUFFICES ASSUME Init PROVE Contract!Init
    OBVIOUS
  <1>1. \A t \in Tasks : Status(t) = "new"
    BY DEF Init, Status, StatusOf
  <1> QED
    BY <1>1 DEF Init, Contract!Init
(* A step that leaves the queue, the running tasks and stop_ alone, does   *)
(* not resolve an accepted task and does not return from Shutdown is       *)
(* invisible to the contract.                                              *)
LEMMA Invisible ==
  ASSUME UNCHANGED <<tasks_, stop_, running>>,
         \A t \in Tasks : Status(t)' = Status(t),
         owner' \in {"closed", "destroyed"} <=> owner \in {"closed", "destroyed"}
  PROVE  UNCHANGED Contract!vars
  <1>1. [t \in Tasks |-> Status(t)]' = [t \in Tasks |-> Status(t)]
    OBVIOUS
  <1> QED
    BY <1>1 DEF Contract!vars

(* If the tasks are kept, every step of a thread of the pool is a step of  *)
(* the contract or invisible to it.                                        *)
LEMMA StepRefines == IInv /\ IInv' /\ [Next]_vars => [Contract!Next]_(Contract!vars)
<1> SUFFICES ASSUME IInv, IInv', [Next]_vars
             PROVE  Contract!Next \/ UNCHANGED Contract!vars
  OBVIOUS
<1> DEFINE Q  == {u \in Tasks : \E i \in 1..Len(tasks_) : tasks_[i] = u}
           Qn == {u \in Tasks : \E i \in 1..Len(tasks_') : tasks_'[i] = u}
           R  == {u \in Tasks : \E w \in Workers : running[w] = u}
           Rn == {u \in Tasks : \E w \in Workers : running'[w] = u}
           Goal == Contract!Next \/ UNCHANGED Contract!vars
<1>a. \A t \in Tasks : Status(t) = StatusOf(future[t], t \in Q, t \in R)
  BY StatusNow
<1>b. \A t \in Tasks : Status(t)' = StatusOf(future'[t], t \in Qn, t \in Rn)
  BY StatusPrimed
<1>q. \A t \in Tasks : Queued(t) <=> t \in Q
  BY DEF Queued
<1>s. ASSUME UNCHANGED <<tasks_, running, future>>
      PROVE  \A t \in Tasks : Status(t)' = Status(t)
  BY <1>s, <1>a, <1>b
<1>1. ASSUME NEW w \in Workers, WorkerWait(w) \/ WorkerExit(w) \/ SpuriousWake(w)
      PROVE  Goal
  BY <1>1, <1>s, Invisible DEF WorkerWait, WorkerExit, SpuriousWake
<1>2. ASSUME NEW w \in Workers, WorkerTake(w) PROVE Goal
  <2> DEFINE h == Head(tasks_)
  <2>1. tasks_ # <<>> /\ tasks_' = Tail(tasks_) /\ UNCHANGED <<stop_, future>>
    BY <1>2 DEF WorkerTake, TakeTask
  <2>2. running' = [running EXCEPT ![w] = h] /\ running[w] = None
    BY <1>2 DEF WorkerTake, TakeTask, IInv, TypeOK
  <2>3. h \in Tasks /\ h \in Q /\ future[h] = "pending"
    <3>1. h = tasks_[1] /\ h \in Tasks /\ 1 \in 1..Len(tasks_)
      BY <2>1, TailElements DEF IInv, TypeOK
    <3>2. h \in Q
      BY <3>1
    <3> QED
      BY <3>1, <3>2, <1>q DEF IInv, Custody
  <2>4. Rn = R \cup {h}
    BY <2>2, <2>3, NoneAssumption DEF IInv, TypeOK
  <2>5. Qn = Q \ {h}
    <3>1. /\ h = tasks_[1] /\ Len(tasks_) \in Nat /\ Len(tasks_) >= 1
          /\ Len(tasks_') = Len(tasks_) - 1
          /\ \A i \in 1..(Len(tasks_) - 1) : tasks_'[i] = tasks_[i + 1]
      BY <2>1, TailElements DEF IInv, TypeOK
    <3>2. \A i, j \in 1..Len(tasks_) : tasks_[i] = tasks_[j] => i = j
      BY DEF IInv, Custody
    <3>3. ASSUME NEW u \in Qn PROVE u \in Q \ {h}
      <4>1. PICK i \in 1..(Len(tasks_) - 1) : tasks_'[i] = u
        BY <3>1
      <4>2. i + 1 \in 1..Len(tasks_) /\ tasks_[i + 1] = u /\ i + 1 # 1
        BY <3>1, <4>1
      <4> QED
        BY <3>1, <3>2, <4>2
    <3>4. ASSUME NEW u \in Q, u # h PROVE u \in Qn
      <4>1. PICK i \in 1..Len(tasks_) : tasks_[i] = u
        OBVIOUS
      <4>2. i - 1 \in 1..(Len(tasks_) - 1) /\ tasks_'[i - 1] = u
        BY <3>1, <3>4, <4>1
      <4> QED
        BY <3>1, <4>2
    <3> HIDE DEF Q, Qn, h
    <3> QED
      BY <3>3, <3>4
  <2> HIDE DEF Q, Qn, R, Rn, h
  <2>6. \A t \in Tasks : Status(t)' = IF t = h THEN "running" ELSE Status(t)
    BY <2>1, <2>3, <2>4, <2>5, <1>a, <1>b DEF StatusOf
  <2>7. [t \in Tasks |-> Status(t)]' =
          [[t \in Tasks |-> Status(t)] EXCEPT ![h] = "running"]
    BY <2>3, <2>6
  <2>8. (owner \in {"closed", "destroyed"})' = (owner \in {"closed", "destroyed"})
    BY <1>2 DEF WorkerTake, NotifyProducer
  <2>9. Contract!Start
    BY <2>1, <2>7, <2>8 DEF Contract!Start, h
  <2> QED
    BY <2>9 DEF Contract!Next
<1>3. ASSUME NEW w \in Workers, WorkerRun(w) PROVE Goal
  <2> DEFINE t == running[w]
  <2>1. /\ t \in Tasks /\ t # None
        /\ future' = [future EXCEPT ![t] = "ready"]
        /\ running' = [running EXCEPT ![w] = None]
        /\ UNCHANGED <<tasks_, stop_, owner>>
    BY <1>3 DEF WorkerRun, IInv, TypeOK
  <2>2. future[t] = "pending" /\ t \notin Q /\ t \in R
    BY <2>1, <1>q DEF IInv, Custody
  <2>3. Rn = R \ {t}
    BY <2>1, NoneAssumption DEF IInv, TypeOK, Custody
  <2>4. Qn = Q
    BY <2>1
  <2>5. future \in [Tasks -> FutureStates]
    BY DEF IInv, TypeOK
  <2> HIDE DEF Q, Qn, R, Rn, t
  <2>6. \A u \in Tasks : Status(u)' = IF u = t THEN "done" ELSE Status(u)
    BY <2>1, <2>3, <2>4, <2>5, <1>a, <1>b DEF StatusOf
  <2>7. [u \in Tasks |-> Status(u)]' =
          [[u \in Tasks |-> Status(u)] EXCEPT ![t] = "done"]
    BY <2>1, <2>6
  <2>8. Status(t) = "running"
    BY <2>1, <2>2, <1>a DEF StatusOf
  <2>9. Contract!Finish(t)
    BY <2>1, <2>7, <2>8 DEF Contract!Finish
  <2> QED
    BY <2>1, <2>9 DEF Contract!Next
<1>4. ASSUME NEW c \in Clients, NEW t \in Tasks, Commit(c, t) PROVE Goal
  <2>1. /\ future[t] = "none" /\ future' = [future EXCEPT ![t] = "pending"]
        /\ UNCHANGED <<stop_, running, owner>>
        /\ future \in [Tasks -> FutureStates]
    BY <1>4 DEF Commit, IInv, TypeOK
  <2>2. t \notin Q /\ t \notin R /\ Rn = R
    BY <2>1, <1>q DEF IInv, Custody
  <2>3. Status(t) = "new"
    BY <2>1, <1>a DEF StatusOf
  <2>4. CASE stop_
    <3>1. Qn = Q /\ UNCHANGED tasks_
      BY <1>4, <2>4 DEF Commit
    <3> HIDE DEF Q, Qn, R, Rn
    <3>2. \A u \in Tasks : Status(u)' = IF u = t THEN "refused" ELSE Status(u)
      BY <2>1, <2>2, <3>1, <1>a, <1>b DEF StatusOf
    <3>3. [u \in Tasks |-> Status(u)]' =
            [[u \in Tasks |-> Status(u)] EXCEPT ![t] = "refused"]
      BY <3>2
    <3>4. Contract!Refuse(t)
      BY <2>1, <2>3, <2>4, <3>1, <3>3 DEF Contract!Refuse
    <3> QED
      BY <3>4 DEF Contract!Next
  <2>5. CASE ~stop_
    <3>1. tasks_' = Append(tasks_, t)
      BY <1>4, <2>5 DEF Commit
    <3>2. Qn = Q \cup {t}
      <4>1. /\ Len(tasks_) \in Nat /\ Len(tasks_') = Len(tasks_) + 1
            /\ \A i \in 1..(Len(tasks_) + 1) :
                 tasks_'[i] = IF i = Len(tasks_) + 1 THEN t ELSE tasks_[i]
        BY <3>1, AppendElements DEF IInv, TypeOK
      <4>2. ASSUME NEW u \in Q PROVE u \in Qn
        BY <4>1
      <4>3. ASSUME NEW u \in Qn, u # t PROVE u \in Q
        BY <4>1, <4>3
      <4>4. t \in Qn
        <5>1. Len(tasks_) + 1 \in 1..Len(tasks_') /\ tasks_'[Len(tasks_) + 1] = t
          BY <4>1
        <5> QED
          BY <5>1
      <4> QED
        BY <4>2, <4>3, <4>4
    <3> HIDE DEF Q, Qn, R, Rn
    <3>3. \A u \in Tasks : Status(u)' = IF u = t THEN "queued" ELSE Status(u)
      BY <2>1, <2>2, <3>2, <1>a, <1>b DEF StatusOf
    <3>4. [u \in Tasks |-> Status(u)]' =
            [[u \in Tasks |-> Status(u)] EXCEPT ![t] = "queued"]
      BY <3>3
    <3>5. Contract!Accept(t)
      BY <2>1, <2>3, <2>5, <3>1, <3>4 DEF Contract!Accept
    <3> QED
      BY <3>5 DEF Contract!Next
  <2> QED
    BY <2>4, <2>5
<1>5. ASSUME NEW c \in Clients, CommitNotify(c) PROVE Goal
  <2>1. /\ UNCHANGED <<tasks_, stop_, running, owner>>
        /\ future' = [u \in Tasks |-> IF u = arg[c] THEN "broken" ELSE future[u]]
    BY <1>5 DEF CommitNotify, LeaveCommit
  <2>2. Qn = Q /\ Rn = R
    BY <2>1
  <2>3. ASSUME NEW u \in Tasks, u = arg[c]
        PROVE  u \notin Q /\ u \notin R /\ future[u] = "pending"
    BY <2>3, <1>q, NoneAssumption DEF IInv, Custody
  <2> HIDE DEF Q, Qn, R, Rn
  <2>4. \A u \in Tasks : Status(u)' = Status(u)
    BY <2>1, <2>2, <2>3, <1>a, <1>b DEF StatusOf
  <2> QED
    BY <2>1, <2>4, Invisible
<1>6. ASSUME CallShutdown \/ ShutdownWait \/ SpuriousProducerWake PROVE Goal
  BY <1>6, <1>s, Invisible
  DEF CallShutdown, ShutdownWait, SpuriousProducerWake, OwnerGoes
<1>7. CASE ShutdownNotify
  BY <1>7, <1>s, Invisible DEF ShutdownNotify, OwnerGoes
<1>8. CASE Destroy
  <2>1. owner' \in {"closed", "destroyed"} <=> owner \in {"closed", "destroyed"}
    BY <1>8 DEF Destroy, IInv, StopIsFinal
  <2> QED
    BY <1>8, <2>1, <1>s, Invisible DEF Destroy
<1>9. CASE ShutdownStop
  <2>1. UNCHANGED <<tasks_, running, future>> /\ tasks_ = <<>> /\ stop_' = TRUE
    BY <1>9 DEF ShutdownStop
  <2>2. stop_ = FALSE /\ owner \notin {"closed", "destroyed"}
                     /\ owner' \notin {"closed", "destroyed"}
    BY <1>9 DEF ShutdownStop, OwnerGoes, IInv, StopIsFinal, TypeOK
  <2>3. [t \in Tasks |-> Status(t)]' = [t \in Tasks |-> Status(t)]
    BY <2>1, <1>s
  <2>4. Contract!Close
    BY <2>1, <2>2, <2>3 DEF Contract!Close
  <2> QED
    BY <2>4 DEF Contract!Next
<1>10. CASE ShutdownJoin
  <2>1. /\ UNCHANGED <<tasks_, stop_, running, future>>
        /\ \A w \in Workers : pc[w] = "exited"
        /\ owner = "join" /\ owner' \in {"closed", "destroyed"}
    BY <1>10 DEF ShutdownJoin, OwnerGoes, Returned
  <2>2. stop_ /\ tasks_ = <<>> /\ \A w \in Workers : running[w] = None
    BY <2>1 DEF IInv, StopIsFinal, TypeOK
  <2>3. Q = {} /\ R = {}
    BY <2>2, NoneAssumption
  <2>4. \A t \in Tasks : Status(t) \notin {"queued", "running"}
    BY <2>3, <1>a DEF StatusOf
  <2>5. [t \in Tasks |-> Status(t)]' = [t \in Tasks |-> Status(t)]
    BY <2>1, <1>s
  <2>6. Contract!Return
    BY <2>1, <2>2, <2>4, <2>5 DEF Contract!Return
  <2> QED
    BY <2>6 DEF Contract!Next
<1>11. CASE UNCHANGED vars
  BY <1>11, <1>s, Invisible DEF vars
<1> QED
  BY <1>1, <1>2, <1>3, <1>4, <1>5, <1>6, <1>7, <1>8, <1>9, <1>10, <1>11
  DEF Next, WorkerStep, OwnerStep

(* The pool keeps the contract its users rely on: accepted tasks run once  *)
(* and in order, refused ones are never run, and Shutdown returns only     *)
(* when all accepted work is finished.                                     *)
THEOREM Refinement == Spec => ImplementsTaskPool
<1> QED
  BY InitRefines, StepRefines, Inductive, PTL
  DEF Spec, ImplementsTaskPool, Contract!Spec
=============================================================================
