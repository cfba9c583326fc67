-------------------------- MODULE TcpServerProofs ---------------------------
(***************************************************************************)
(* The safety of TcpServer for any set of clients and any number of        *)
(* threads, whether or not clients come before the acceptor is in epoll.   *)
(* The inductive invariant is IInv: which thread executes AcceptLoop, what *)
(* the queues of the kernel and of the pools hold, and where a connection  *)
(* is.                                                                     *)
(***************************************************************************)
EXTENDS TcpServer, SequenceTheorems, TLAPS

Distinct(s) == \A i, j \in 1..Len(s) : s[i] = s[j] => i = j

(* AcceptLoop is executed by one thread: it starts from an empty hand, and *)
(* while main is in epoll_wait an event asked for finds it parked.         *)
OneExecutor ==
  /\ loop \notin {"resume", "handoff"} => held = None
  /\ loop = "handoff" => held # None
  /\ rQueue # <<>> => loop = "none" /\ Len(rQueue) = 1
  /\ loop = "none" => ~ep.in
  /\ main = "created" => loop = "none" /\ rQueue = <<>>
  /\ main = "wait" /\ ep.in => loop = "parked"
  /\ main = "top" /\ ep.in => loop = "parked" \/ reactorDown
  /\ main = "run" => loop \in {"check", "ready", "suspend", "resume", "handoff"}
  /\ loop \in {"check", "ready", "suspend", "resume", "handoff"} /\ ep.in => main = "run"
  /\ main = "run" /\ loop \in {"check", "ready", "suspend", "handoff"} /\ ep.in => reactorDown

Backlogged == Distinct(backlog) /\ \A i \in 1..Len(backlog) : client[backlog[i]] = "backlog"

WorkQueued == Distinct(wQueue) /\ \A i \in 1..Len(wQueue) : wStatus[wQueue[i]] = "queued"

OnePlace ==
  \A c \in Clients :
    /\ client[c] = "accepted" => (held = c) # (wStatus[c] # "new")
    /\ client[c] # "accepted" => held # c /\ wStatus[c] = "new"

IInv == TypeOK /\ OneExecutor /\ Backlogged /\ WorkQueued /\ OnePlace

-----------------------------------------------------------------------------
(* Sequences: the queues only grow at their end, lose their front, and in  *)
(* the kernel any one entry.                                               *)

LEMMA Appended ==
  ASSUME NEW S, NEW s \in Seq(S), NEW e \in S
  PROVE  /\ Append(s, e) \in Seq(S)
         /\ Len(s) \in Nat /\ Len(Append(s, e)) = Len(s) + 1
         /\ \A i \in 1..(Len(s) + 1) :
              Append(s, e)[i] = IF i = Len(s) + 1 THEN e ELSE s[i]
  OBVIOUS

LEMMA Popped ==
  ASSUME NEW S, NEW s \in Seq(S), s # <<>>
  PROVE  /\ Head(s) = s[1] /\ Head(s) \in S
         /\ Len(s) \in Nat /\ Len(s) >= 1
         /\ Tail(s) \in Seq(S)
         /\ Len(Tail(s)) = Len(s) - 1
         /\ \A i \in 1..(Len(s) - 1) : Tail(s)[i] = s[i + 1]
  OBVIOUS

LEMMA Removed ==
  ASSUME NEW S, NEW s \in Seq(S), NEW at \in 1..Len(s)
  PROVE  /\ Without(s, at) \in Seq(S)
         /\ Len(s) \in Nat
         /\ Len(Without(s, at)) = Len(s) - 1
         /\ \A i \in 1..(Len(s) - 1) :
              Without(s, at)[i] = IF i < at THEN s[i] ELSE s[i + 1]
<1>1. Len(s) \in Nat /\ Len(s) - 1 \in Nat
  OBVIOUS
<1>2. \A i \in 1..(Len(s) - 1) : (IF i < at THEN s[i] ELSE s[i + 1]) \in S
  OBVIOUS
<1> QED
  BY <1>1, <1>2, IsASeq DEF Without

LEMMA DistinctAppended ==
  ASSUME NEW S, NEW s \in Seq(S), NEW e \in S, Distinct(s),
         \A i \in 1..Len(s) : s[i] # e
  PROVE  Distinct(Append(s, e))
  BY Appended DEF Distinct

LEMMA DistinctPopped ==
  ASSUME NEW S, NEW s \in Seq(S), s # <<>>, Distinct(s)
  PROVE  Distinct(Tail(s)) /\ \A i \in 1..Len(Tail(s)) : Tail(s)[i] # Head(s)
  BY Popped DEF Distinct

LEMMA DistinctRemoved ==
  ASSUME NEW S, NEW s \in Seq(S), NEW at \in 1..Len(s), Distinct(s)
  PROVE  /\ Distinct(Without(s, at))
         /\ \A i \in 1..Len(Without(s, at)) :
              /\ Without(s, at)[i] # s[at]
              /\ \E j \in 1..Len(s) : Without(s, at)[i] = s[j]
<1> DEFINE t == Without(s, at)
           J(i) == IF i < at THEN i ELSE i + 1
<1>1. /\ Len(s) \in Nat /\ Len(t) = Len(s) - 1
      /\ \A i \in 1..(Len(s) - 1) : t[i] = s[J(i)]
  BY Removed
<1>2. \A i \in 1..(Len(s) - 1) : J(i) \in 1..Len(s) /\ J(i) # at
  BY <1>1
<1>3. \A i, j \in 1..(Len(s) - 1) : J(i) = J(j) => i = j
  BY <1>1
<1> HIDE DEF t, J
<1>4. Distinct(t)
  BY <1>1, <1>2, <1>3, SMTT(30) DEF Distinct
<1>5. \A i \in 1..Len(t) : t[i] # s[at] /\ \E j \in 1..Len(s) : t[i] = s[j]
  BY <1>1, <1>2 DEF Distinct
<1> QED
  BY <1>4, <1>5 DEF t

-----------------------------------------------------------------------------
(* The constructed server.                                                 *)
LEMMA InitIInv == Init => IInv
<1> SUFFICES ASSUME Init PROVE IInv
  OBVIOUS
<1> USE DEF Init, Rpool!Init
<1>1. TypeOK
  <2>1. backlog \in Seq(Clients) /\ wQueue \in Seq(WorkTasks) /\ rQueue \in Seq({AcceptLoop})
    BY DEF WorkTasks
  <2> QED
    BY <2>1 DEF TypeOK, Statuses
<1>2. OneExecutor
  BY DEF OneExecutor
<1>3. Backlogged
  BY DEF Backlogged, Distinct
<1>4. WorkQueued
  BY DEF WorkQueued, Distinct, WorkTasks
<1>5. OnePlace
  BY NamesAssumption DEF OnePlace, WorkTasks
<1> QED
  BY <1>1, <1>2, <1>3, <1>4, <1>5 DEF IInv

-----------------------------------------------------------------------------
(* Every step keeps the types.                                             *)
LEMMA TypeStep == IInv /\ [Next]_vars => TypeOK'
<1> SUFFICES ASSUME TypeOK, OneExecutor, [Next]_vars PROVE TypeOK'
  BY DEF IInv
<1> USE DEF TypeOK, sockVars, loopVars, flagVars, workVars, rpoolVars
<1>1. ASSUME NEW c \in Clients, Connect(c) PROVE TypeOK'
  <2>1. backlog' \in Seq(Clients)
    BY <1>1, Appended DEF Connect
  <2> QED
    BY <1>1, <2>1 DEF Connect
<1>2. ASSUME NEW c \in Clients, Abort(c) PROVE TypeOK'
  <2>1. backlog' \in Seq(Clients)
    BY <1>2, Removed DEF Abort
  <2> QED
    BY <1>2, <2>1 DEF Abort
<1>a. ASSUME DoAccept
      PROVE  /\ backlog' \in Seq(Clients)
             /\ held' \in Clients \cup {None}
             /\ client' \in [Clients -> {"idle", "backlog", "accepted", "gone"}]
             /\ backlog = <<>> => held' = None
  <2>1. CASE backlog = <<>>
    BY <1>a, <2>1 DEF DoAccept
  <2>2. CASE backlog # <<>>
    <3>1. Head(backlog) \in Clients /\ Tail(backlog) \in Seq(Clients)
      BY <2>2, Popped
    <3> QED
      BY <1>a, <2>2, <3>1 DEF DoAccept
  <2> QED
    BY <2>1, <2>2
<1>l. ASSUME Leave
      PROVE  /\ main' \in {"created", "top", "wait", "run", "returned"}
             /\ rStatus' \in [{AcceptLoop} -> Statuses] /\ rQueue' \in Seq({AcceptLoop})
             /\ rOpen' \in BOOLEAN /\ rOver' \in BOOLEAN
  BY <1>l DEF Leave, Rpool!Finish, Statuses
<1>3. CASE LoopCheck
  <2>1. CASE is_shutdown_
    BY <1>3, <1>l, <2>1 DEF LoopCheck, LoopAt
  <2>2. CASE ~is_shutdown_
    BY <1>3, <2>2 DEF LoopCheck, LoopAt
  <2> QED
    BY <2>1, <2>2
<1>4. CASE AcceptReady
  BY <1>4, <1>a DEF AcceptReady, LoopAt
<1>5. CASE AcceptSuspend
  <2>1. /\ lsock' \in [attached : BOOLEAN, recv : BOOLEAN]
        /\ ep' \in [on : BOOLEAN, in : BOOLEAN] /\ edge' \in BOOLEAN
    <3>1. CASE reactorDown
      BY <1>5, <3>1 DEF AcceptSuspend
    <3>2. CASE ~reactorDown
      <4>1. /\ lsock' = [attached |-> TRUE, recv |-> TRUE]
            /\ ep' = [on |-> TRUE, in |-> TRUE]
            /\ edge' = (edge \/ backlog # <<>>)
        BY <1>5, <3>2 DEF AcceptSuspend, Arm
      <4>2. edge' \in BOOLEAN
        BY <4>1, Zenon
      <4> QED
        BY <4>1, <4>2
    <3> QED
      BY <3>1, <3>2
  <2>2. /\ LoopAt("suspend") /\ loop' = "parked" /\ Leave
        /\ UNCHANGED <<client, backlog, held, flagVars, workVars, proc>>
    BY <1>5 DEF AcceptSuspend
  <2> QED
    BY <1>l, <2>1, <2>2 DEF LoopAt
<1>6. CASE AcceptResume
  <2>1. CASE ~reactorDown /\ ~ep.on
    BY <1>6, <2>1 DEF AcceptResume, LoopAt
  <2>2. CASE ~(~reactorDown /\ ~ep.on)
    <3>1. /\ lsock' \in [attached : BOOLEAN, recv : BOOLEAN]
          /\ ep' \in [on : BOOLEAN, in : BOOLEAN]
      BY <1>6, <2>2 DEF AcceptResume
    <3>2. /\ backlog' \in Seq(Clients) /\ held' \in Clients \cup {None}
          /\ client' \in [Clients -> {"idle", "backlog", "accepted", "gone"}]
      BY <1>6, <2>2, <1>a DEF AcceptResume
    <3>3. /\ loop' = IF held' = None THEN "check" ELSE "handoff"
          /\ UNCHANGED <<edge, main, proc, flagVars, workVars, rpoolVars>>
      BY <1>6, <2>2 DEF AcceptResume
    <3> QED
      BY <3>1, <3>2, <3>3
  <2> QED
    BY <2>1, <2>2
<1>7. CASE Handoff
  <2>1. wStatus' \in [WorkTasks -> Statuses] /\ wQueue' \in Seq(WorkTasks)
    <3>1. held \in WorkTasks
      BY <1>7 DEF Handoff, LoopAt, OneExecutor, WorkTasks
    <3> QED
      <4>1. CASE Work!Accept(held)
        BY <4>1, <3>1, Appended DEF Work!Accept, Statuses
      <4>2. CASE Work!Refuse(held)
        BY <4>2, <3>1 DEF Work!Refuse, Statuses
      <4> QED
        BY <1>7, <4>1, <4>2 DEF Handoff
  <2> QED
    BY <1>7, <2>1 DEF Handoff, HandoffDone, Work!Accept, Work!Refuse
<1>8. CASE WorkerStart
  <2>1. wStatus' \in [WorkTasks -> Statuses] /\ wQueue' \in Seq(WorkTasks)
    BY <1>8, Popped DEF WorkerStart, Work!Start, Statuses
  <2> QED
    BY <1>8, <2>1 DEF WorkerStart, Work!Start
<1>9. CASE LoopStart
  <2>1. rStatus' \in [{AcceptLoop} -> Statuses] /\ rQueue' \in Seq({AcceptLoop})
    BY <1>9, Popped DEF LoopStart, Rpool!Start, Statuses
  <2>2. held = None
    BY <1>9 DEF LoopStart, Rpool!Start, OneExecutor
  <2> QED
    BY <1>9, <2>1, <2>2 DEF LoopStart, Rpool!Start
<1>10. ASSUME NEW t \in WorkTasks, WorkerFinish(t) PROVE TypeOK'
  BY <1>10 DEF WorkerFinish, Work!Finish, Statuses
<1>11. CASE Start
  <2>1. rStatus' \in [{AcceptLoop} -> Statuses] /\ rQueue' \in Seq({AcceptLoop})
    <3>1. CASE Rpool!Accept(AcceptLoop)
      <4>1. Append(rQueue, AcceptLoop) \in Seq({AcceptLoop})
        BY Appended
      <4> QED
        BY <3>1, <4>1 DEF Rpool!Accept, Statuses
    <3>2. CASE Rpool!Refuse(AcceptLoop)
      BY <3>2 DEF Rpool!Refuse, Statuses
    <3> QED
      BY <1>11, <3>1, <3>2 DEF Start
  <2> QED
    BY <1>11, <2>1 DEF Start, Rpool!Accept, Rpool!Refuse
<1>12. CASE MainTop
  BY <1>12 DEF MainTop
<1>13. CASE MainEvent
  <2>0. edge' \in BOOLEAN
    BY <1>13, Zenon DEF MainEvent
  <2>1. /\ UNCHANGED <<client, backlog, lsock, ep, held, flagVars, workVars, rpoolVars, proc>>
    BY <1>13 DEF MainEvent
  <2>2. \/ main' = "run" /\ loop' = "resume"
        \/ UNCHANGED <<main, loop>>
    BY <1>13 DEF MainEvent
  <2> QED
    BY <2>0, <2>1, <2>2
<1>14. CASE ShutdownFlag
  BY <1>14 DEF ShutdownFlag, CloserAt
<1>15. CASE ShutdownReactors
  BY <1>15 DEF ShutdownReactors, CloserAt
<1>16. CASE ShutdownTimer
  BY <1>16 DEF ShutdownTimer, CloserAt
<1>17. CASE ShutdownReactorPool
  <2>1. CASE CloserAt("rpool", "rjoin") /\ Rpool!Close
    <3>0. rOpen' \in BOOLEAN
      BY <2>1, Zenon DEF Rpool!Close
    <3>1. /\ closer' = "rjoin"
          /\ UNCHANGED <<rStatus, rQueue, rOver, sockVars, loopVars, is_shutdown_, reactorDown,
                         timerStop, workVars, proc>>
      BY <1>17, <2>1 DEF ShutdownReactorPool, CloserAt, Rpool!Close
    <3> QED
      BY <3>0, <3>1
  <2>2. CASE CloserAt("rjoin", "wpool") /\ Rpool!Return
    <3>1. /\ rOver' = TRUE /\ closer' = "wpool"
          /\ UNCHANGED <<rStatus, rQueue, rOpen, sockVars, loopVars, is_shutdown_, reactorDown,
                         timerStop, workVars, proc>>
      BY <1>17, <2>2 DEF ShutdownReactorPool, CloserAt, Rpool!Return
    <3> QED
      BY <3>1
  <2> QED
    BY <1>17, <2>1, <2>2 DEF ShutdownReactorPool
<1>18. CASE ShutdownWorkPool
  <2>1. CASE CloserAt("wpool", "wjoin") /\ Work!Close
    <3>0. wOpen' \in BOOLEAN
      BY <2>1, Zenon DEF Work!Close
    <3>1. /\ closer' = "wjoin"
          /\ UNCHANGED <<wStatus, wQueue, wOver, sockVars, loopVars, is_shutdown_, reactorDown,
                         timerStop, rpoolVars, proc>>
      BY <1>18, <2>1 DEF ShutdownWorkPool, CloserAt, Work!Close
    <3> QED
      BY <3>0, <3>1
  <2>2. CASE CloserAt("wjoin", "done") /\ Work!Return
    <3>1. /\ wOver' = TRUE /\ closer' = "done"
          /\ UNCHANGED <<wStatus, wQueue, wOpen, sockVars, loopVars, is_shutdown_, reactorDown,
                         timerStop, rpoolVars, proc>>
      BY <1>18, <2>2 DEF ShutdownWorkPool, CloserAt, Work!Return
    <3> QED
      BY <3>1
  <2> QED
    BY <1>18, <2>1, <2>2 DEF ShutdownWorkPool
<1>19. CASE UNCHANGED vars
  BY <1>19 DEF vars
<1> QED
  BY <1>1, <1>2, <1>3, <1>4, <1>5, <1>6, <1>7, <1>8, <1>9, <1>10, <1>11, <1>12,
     <1>13, <1>14, <1>15, <1>16, <1>17, <1>18, <1>19 DEF Next, LoopStep, ShutdownStep

-----------------------------------------------------------------------------
(* AcceptLoop passes from the reactor pool's thread to the main thread and *)
(* back into epoll, and never has two executors.                           *)
LEMMA ExecutorStep == IInv /\ [Next]_vars => OneExecutor'
<1> SUFFICES ASSUME TypeOK, OneExecutor, [Next]_vars PROVE OneExecutor'
  BY DEF IInv
<1> USE DEF OneExecutor, sockVars, loopVars, flagVars, workVars, rpoolVars
<1>f. ASSUME UNCHANGED <<ep, loop, held, main, reactorDown, rQueue>>
      PROVE  OneExecutor'
  BY <1>f
<1>1. ASSUME NEW c \in Clients, Connect(c) \/ Abort(c) PROVE OneExecutor'
  BY <1>1, <1>f DEF Connect, Abort
<1>3. CASE LoopCheck
  <2>0. loop = "check" /\ UNCHANGED <<ep, held, reactorDown>>
    BY <1>3 DEF LoopCheck, LoopAt
  <2>1. CASE is_shutdown_
    <3>1. CASE main = "run"
      BY <1>3, <2>0, <2>1, <3>1 DEF LoopCheck, Leave
    <3>2. CASE main # "run"
      BY <1>3, <2>0, <2>1, <3>2 DEF LoopCheck, Leave, Rpool!Finish
    <3> QED
      BY <3>1, <3>2
  <2>2. CASE ~is_shutdown_
    BY <1>3, <2>0, <2>2 DEF LoopCheck
  <2> QED
    BY <2>1, <2>2
<1>4. CASE AcceptReady
  <2>1. /\ loop = "ready" /\ loop' \in {"suspend", "resume"}
        /\ UNCHANGED <<ep, main, reactorDown, rQueue>>
    BY <1>4 DEF AcceptReady, LoopAt
  <2>2. loop' = "suspend" => held' = None
    BY <1>4 DEF AcceptReady, DoAccept
  <2> QED
    BY <2>1, <2>2
<1>5. CASE AcceptSuspend
  <2>1. loop = "suspend" /\ loop' = "parked" /\ UNCHANGED <<held, reactorDown>>
    BY <1>5 DEF AcceptSuspend, LoopAt
  <2>2. /\ rQueue' = rQueue
        /\ \/ main = "run" /\ main' = "top"
           \/ main # "run" /\ main' = main
    BY <1>5 DEF AcceptSuspend, Leave, Rpool!Finish
  <2> QED
    BY <2>1, <2>2 DEF TypeOK
<1>6. CASE AcceptResume
  <2>1. CASE ~reactorDown /\ ~ep.on
    BY <1>6, <2>1, <1>f DEF AcceptResume
  <2>2. CASE ~(~reactorDown /\ ~ep.on)
    <3>1. /\ loop = "resume" /\ loop' = IF held' = None THEN "check" ELSE "handoff"
          /\ UNCHANGED <<main, reactorDown, rQueue>>
      BY <1>6, <2>2 DEF AcceptResume, LoopAt
    <3>2. /\ reactorDown => ep' = ep
          /\ ~reactorDown => ep' = [ep EXCEPT !.in = FALSE]
      BY <1>6, <2>2 DEF AcceptResume
    <3>3. ~reactorDown => ~ep'.in
      BY <3>2 DEF TypeOK
    <3> QED
      BY <3>1, <3>2, <3>3
  <2> QED
    BY <2>1, <2>2
<1>7. CASE Handoff
  <2>1. /\ loop = "handoff" /\ loop' = "check" /\ held' = None
        /\ UNCHANGED <<ep, main, reactorDown, rQueue>>
    BY <1>7 DEF Handoff, HandoffDone, LoopAt
  <2> QED
    BY <2>1
<1>8. CASE WorkerStart
  BY <1>8, <1>f DEF WorkerStart
<1>9. CASE LoopStart
  <2>1. /\ loop = "none" /\ loop' = "check" /\ main # "created"
        /\ UNCHANGED <<ep, held, main, reactorDown>>
    BY <1>9 DEF LoopStart, Rpool!Start
  <2>2. rQueue' = <<>>
    <3>1. rQueue # <<>> /\ rQueue' = Tail(rQueue) /\ Len(rQueue) = 1
      BY <1>9 DEF LoopStart, Rpool!Start
    <3>2. rQueue' \in Seq({AcceptLoop}) /\ Len(rQueue') = 0
      BY <3>1, Popped DEF TypeOK
    <3> QED
      BY <3>2
  <2> QED
    BY <2>1, <2>2
<1>10. ASSUME NEW t \in WorkTasks, WorkerFinish(t) PROVE OneExecutor'
  BY <1>10, <1>f DEF WorkerFinish
<1>11. CASE Start
  <2>1. /\ main = "created" /\ main' = "top"
        /\ UNCHANGED <<ep, loop, held, reactorDown>>
    BY <1>11 DEF Start
  <2>2. rQueue' # <<>> => Len(rQueue') = 1
    <3>1. rQueue = <<>>
      BY <2>1
    <3>2. rQueue' \in {rQueue, Append(rQueue, AcceptLoop)}
      BY <1>11 DEF Start, Rpool!Accept, Rpool!Refuse
    <3>3. Len(Append(<<>>, AcceptLoop)) = 1
      OBVIOUS
    <3> QED
      BY <3>1, <3>2, <3>3
  <2> QED
    BY <2>1, <2>2
<1>12. CASE MainTop
  BY <1>12 DEF MainTop
<1>13. CASE MainEvent
  <2>1. main = "wait" /\ UNCHANGED <<ep, held, reactorDown, rQueue>>
    BY <1>13 DEF MainEvent
  <2>2. CASE ep.in /\ backlog # <<>>
    <3>1. main' = "run" /\ loop' = "resume" /\ loop = "parked"
      BY <1>13, <2>1, <2>2 DEF MainEvent
    <3> QED
      BY <2>1, <3>1
  <2>3. CASE ~(ep.in /\ backlog # <<>>)
    BY <1>13, <2>1, <2>3, <1>f DEF MainEvent
  <2> QED
    BY <2>2, <2>3
<1>14. CASE ShutdownFlag
  BY <1>14, <1>f DEF ShutdownFlag
<1>15. CASE ShutdownReactors
  <2>1. reactorDown' = TRUE /\ UNCHANGED <<ep, loop, held, main, rQueue>>
    BY <1>15 DEF ShutdownReactors, CloserAt
  <2> QED
    BY <2>1
<1>16. CASE ShutdownTimer
  BY <1>16, <1>f DEF ShutdownTimer
<1>17. CASE ShutdownReactorPool
  BY <1>17, <1>f DEF ShutdownReactorPool, Rpool!Close, Rpool!Return
<1>18. CASE ShutdownWorkPool
  BY <1>18, <1>f DEF ShutdownWorkPool
<1>19. CASE UNCHANGED vars
  BY <1>19, <1>f DEF vars
<1> QED
  BY <1>1, <1>3, <1>4, <1>5, <1>6, <1>7, <1>8, <1>9, <1>10, <1>11, <1>12,
     <1>13, <1>14, <1>15, <1>16, <1>17, <1>18, <1>19 DEF Next, LoopStep, ShutdownStep

-----------------------------------------------------------------------------
(* accept4 takes a connection that is in the accept queue, and from it.    *)
LEMMA Accepted ==
  ASSUME TypeOK, Backlogged, DoAccept
  PROVE  /\ Backlogged'
         /\ \/ held' = None /\ client' = client
            \/ /\ held' \in Clients /\ client[held'] = "backlog"
               /\ client' = [client EXCEPT ![held'] = "accepted"]
<1>1. CASE backlog = <<>>
  BY <1>1 DEF DoAccept, Backlogged
<1>2. CASE backlog # <<>>
  <2>1. /\ backlog \in Seq(Clients)
        /\ held' = Head(backlog) /\ backlog' = Tail(backlog)
        /\ client' = [client EXCEPT ![held'] = "accepted"]
    BY <1>2 DEF DoAccept, TypeOK
  <2>2. held' \in Clients /\ client[held'] = "backlog"
    BY <1>2, <2>1, Popped DEF Backlogged
  <2>3. Distinct(Tail(backlog)) /\ \A i \in 1..Len(Tail(backlog)) : Tail(backlog)[i] # Head(backlog)
    BY <1>2, <2>1, DistinctPopped DEF Backlogged
  <2>4. \A i \in 1..Len(Tail(backlog)) :
          Tail(backlog)[i] \in Clients /\ client[Tail(backlog)[i]] = "backlog"
    BY <1>2, <2>1, Popped DEF Backlogged
  <2> QED
    BY <2>1, <2>2, <2>3, <2>4 DEF Backlogged, TypeOK
<1> QED
  BY <1>1, <1>2

LEMMA BacklogStep == IInv /\ [Next]_vars => Backlogged'
<1> SUFFICES ASSUME TypeOK, Backlogged, [Next]_vars PROVE Backlogged'
  BY DEF IInv
<1> USE DEF sockVars
<1>f. ASSUME UNCHANGED <<client, backlog>> PROVE Backlogged'
  BY <1>f DEF Backlogged
<1>1. ASSUME NEW c \in Clients, Connect(c) PROVE Backlogged'
  <2>1. /\ client[c] = "idle" /\ backlog' = Append(backlog, c)
        /\ client' = [client EXCEPT ![c] = "backlog"] /\ backlog \in Seq(Clients)
    BY <1>1 DEF Connect, TypeOK
  <2>2. \A i \in 1..Len(backlog) : backlog[i] # c
    BY <2>1 DEF Backlogged
  <2>3. Distinct(backlog')
    BY <2>1, <2>2, DistinctAppended DEF Backlogged
  <2>4. \A i \in 1..Len(backlog') : client'[backlog'[i]] = "backlog"
    BY <2>1, Appended DEF Backlogged, TypeOK
  <2> QED
    BY <2>3, <2>4 DEF Backlogged
<1>2. ASSUME NEW c \in Clients, Abort(c) PROVE Backlogged'
  <2>1. client' = [client EXCEPT ![c] = "gone"] /\ backlog \in Seq(Clients)
    BY <1>2 DEF Abort, TypeOK
  <2>2. PICK at \in 1..Len(backlog) : backlog[at] = c /\ backlog' = Without(backlog, at)
    BY <1>2 DEF Abort
  <2>3. /\ Distinct(backlog')
        /\ \A i \in 1..Len(backlog') :
             backlog'[i] # c /\ \E j \in 1..Len(backlog) : backlog'[i] = backlog[j]
    BY <2>1, <2>2, DistinctRemoved DEF Backlogged
  <2> QED
    BY <2>1, <2>3 DEF Backlogged, TypeOK
<1>3. CASE AcceptReady
  BY <1>3, Accepted DEF AcceptReady
<1>4. CASE AcceptResume
  BY <1>4, <1>f, Accepted DEF AcceptResume
<1>5. ASSUME \/ LoopCheck \/ AcceptSuspend \/ Handoff \/ WorkerStart \/ LoopStart
             \/ (\E t \in WorkTasks : WorkerFinish(t))
      PROVE  Backlogged'
  BY <1>5, <1>f DEF LoopCheck, AcceptSuspend, Handoff, HandoffDone, WorkerStart, LoopStart,
     WorkerFinish
<1>6. ASSUME \/ Start \/ MainTop \/ MainEvent \/ ShutdownFlag \/ ShutdownStep \/ UNCHANGED vars
      PROVE  Backlogged'
  BY <1>6, <1>f DEF Start, MainTop, MainEvent, ShutdownFlag, ShutdownStep, ShutdownReactors,
     ShutdownTimer, ShutdownReactorPool, ShutdownWorkPool, vars
<1> QED
  BY <1>1, <1>2, <1>3, <1>4, <1>5, <1>6 DEF Next, LoopStep

-----------------------------------------------------------------------------
(* What Commit, a worker and Shutdown do to the work pool, and to the      *)
(* connections in it.                                                      *)

(* A connection is committed to the pool once: it is not in its queue yet. *)
LEMMA QueueStep == IInv /\ [Next]_vars => WorkQueued'
<1> SUFFICES ASSUME TypeOK, OneExecutor, WorkQueued, [Next]_vars
             PROVE  WorkQueued'
  BY DEF IInv
<1> USE DEF workVars
<1>f. ASSUME UNCHANGED <<wStatus, wQueue>>
      PROVE  WorkQueued'
  BY <1>f DEF WorkQueued
<1>1. CASE Handoff
  <2>1. held \in WorkTasks
    BY <1>1 DEF Handoff, HandoffDone, LoopAt, OneExecutor, TypeOK, WorkTasks
  <2>2. CASE Work!Accept(held)
    <3>1. /\ wQueue' = Append(wQueue, held)
          /\ wStatus' = [wStatus EXCEPT ![held] = "queued"] /\ wStatus[held] = "new"
      BY <2>2 DEF Work!Accept
    <3>2. wQueue \in Seq(WorkTasks) /\ \A i \in 1..Len(wQueue) : wQueue[i] # held
      BY <3>1 DEF WorkQueued, TypeOK
    <3>3. Distinct(wQueue')
      BY <2>1, <3>1, <3>2, DistinctAppended DEF WorkQueued
    <3>4. \A i \in 1..Len(wQueue') : wStatus'[wQueue'[i]] = "queued"
      BY <2>1, <3>1, <3>2, Appended DEF WorkQueued, TypeOK
    <3> QED
      BY <3>3, <3>4 DEF WorkQueued
  <2>3. CASE Work!Refuse(held)
    <3>1. /\ wQueue' = wQueue /\ wStatus[held] = "new"
          /\ wStatus' = [wStatus EXCEPT ![held] = "refused"]
      BY <2>3 DEF Work!Refuse
    <3> QED
      BY <2>1, <3>1 DEF WorkQueued, TypeOK
  <2> QED
    BY <1>1, <2>2, <2>3 DEF Handoff
<1>2. CASE WorkerStart
  <2>1. /\ wQueue # <<>> /\ wQueue \in Seq(WorkTasks) /\ wQueue' = Tail(wQueue)
        /\ wStatus' = [wStatus EXCEPT ![Head(wQueue)] = "running"]
    BY <1>2 DEF WorkerStart, Work!Start, TypeOK
  <2>2. Distinct(wQueue') /\ \A i \in 1..Len(wQueue') : wQueue'[i] # Head(wQueue)
    BY <2>1, DistinctPopped DEF WorkQueued
  <2>3. \A i \in 1..Len(wQueue') : wQueue'[i] \in WorkTasks /\ wStatus[wQueue'[i]] = "queued"
    BY <2>1, Popped DEF WorkQueued
  <2> QED
    BY <2>1, <2>2, <2>3 DEF WorkQueued, TypeOK
<1>3. ASSUME NEW t \in WorkTasks, WorkerFinish(t) PROVE WorkQueued'
  <2>1. /\ wStatus[t] = "running" /\ wStatus' = [wStatus EXCEPT ![t] = "done"]
        /\ wQueue' = wQueue
    BY <1>3 DEF WorkerFinish, Work!Finish
  <2> QED
    BY <2>1 DEF WorkQueued, TypeOK
<1>4. CASE ShutdownWorkPool
  BY <1>4, <1>f DEF ShutdownWorkPool, Work!Close, Work!Return
<1>5. ASSUME \/ (\E c \in Clients : Connect(c) \/ Abort(c)) \/ LoopCheck \/ AcceptReady
             \/ AcceptSuspend \/ AcceptResume \/ LoopStart
      PROVE  WorkQueued'
  BY <1>5, <1>f DEF Connect, Abort, LoopCheck, AcceptReady, AcceptSuspend, AcceptResume, LoopStart
<1>6. ASSUME \/ Start \/ MainTop \/ MainEvent \/ ShutdownFlag \/ ShutdownReactors
             \/ ShutdownTimer \/ ShutdownReactorPool \/ UNCHANGED vars
      PROVE  WorkQueued'
  BY <1>6, <1>f DEF Start, MainTop, MainEvent, ShutdownFlag, ShutdownReactors, ShutdownTimer,
     ShutdownReactorPool, CloserAt, vars
<1> QED
  BY <1>1, <1>2, <1>3, <1>4, <1>5, <1>6 DEF Next, LoopStep, ShutdownStep

(* A connection moves from the accept queue into AcceptLoop's hands and    *)
(* from there into the pool; no other step touches where it is.            *)
LEMMA PlaceStep == IInv /\ [Next]_vars => OnePlace'
<1> SUFFICES ASSUME IInv, [Next]_vars, NEW d \in Clients
             PROVE  /\ client'[d] = "accepted" => (held' = d) # (wStatus'[d] # "new")
                    /\ client'[d] # "accepted" => held' # d /\ wStatus'[d] = "new"
  BY DEF OnePlace
<1> DEFINE Goal == /\ client'[d] = "accepted" => (held' = d) # (wStatus'[d] # "new")
                   /\ client'[d] # "accepted" => held' # d /\ wStatus'[d] = "new"
<1> TypeOK /\ OneExecutor /\ Backlogged /\ WorkQueued
  BY DEF IInv
<1>0. /\ client[d] = "accepted" => (held = d) # (wStatus[d] # "new")
      /\ client[d] # "accepted" => held # d /\ wStatus[d] = "new"
  BY DEF IInv, OnePlace
<1> USE DEF sockVars, loopVars, workVars
<1>f. ASSUME held' = held,
             (client'[d] = "accepted") = (client[d] = "accepted"),
             (wStatus'[d] = "new") = (wStatus[d] = "new")
      PROVE  Goal
  BY <1>0, <1>f
<1>1. ASSUME NEW c \in Clients, Connect(c) \/ Abort(c) PROVE Goal
  <2>1. /\ UNCHANGED <<held, wStatus>> /\ client[c] # "accepted"
        /\ \E x \in {"backlog", "gone"} : client' = [client EXCEPT ![c] = x]
    BY <1>1 DEF Connect, Abort
  <2> QED
    BY <2>1, <1>f DEF TypeOK
<1>a. ASSUME DoAccept, held = None, wStatus' = wStatus PROVE Goal
  <2>1. held # d
    BY <1>a, NamesAssumption
  <2>2. CASE held' = None /\ client' = client
    BY <1>0, <1>a, <2>1, <2>2
  <2>3. CASE /\ held' \in Clients /\ client[held'] = "backlog"
             /\ client' = [client EXCEPT ![held'] = "accepted"]
    <3>1. CASE held' = d
      BY <1>0, <1>a, <2>3, <3>1 DEF TypeOK
    <3>2. CASE held' # d
      BY <1>0, <1>a, <2>1, <2>3, <3>2 DEF TypeOK
    <3> QED
      BY <3>1, <3>2
  <2> QED
    BY <1>a, <2>2, <2>3, Accepted
<1>2. CASE AcceptReady
  <2>1. held = None
    BY <1>2 DEF AcceptReady, LoopAt, TypeOK
  <2> QED
    BY <1>2, <1>a, <2>1 DEF AcceptReady
<1>3. CASE AcceptResume
  <2>1. wStatus' = wStatus
    BY <1>3 DEF AcceptResume
  <2>2. \/ UNCHANGED <<client, held>>
        \/ held = None /\ DoAccept
    BY <1>3 DEF AcceptResume
  <2> QED
    BY <1>a, <1>f, <2>1, <2>2
<1>4. CASE Handoff
  <2>1. /\ held \in Clients /\ held' = None /\ client' = client
        /\ wStatus[held] = "new"
        /\ \E x \in {"queued", "refused"} : wStatus' = [wStatus EXCEPT ![held] = x]
    BY <1>4 DEF Handoff, HandoffDone, LoopAt, Work!Accept, Work!Refuse, OneExecutor, TypeOK
  <2>2. held' # d
    BY <2>1, NamesAssumption
  <2>3. CASE held = d
    BY <1>0, <2>1, <2>2, <2>3 DEF TypeOK, WorkTasks
  <2>4. CASE held # d
    BY <1>0, <2>1, <2>2, <2>4 DEF TypeOK, WorkTasks
  <2> QED
    BY <2>3, <2>4
<1>5. CASE WorkerStart
  <2>1. /\ UNCHANGED <<held, client>>
        /\ wQueue # <<>> /\ wStatus' = [wStatus EXCEPT ![Head(wQueue)] = "running"]
    BY <1>5 DEF WorkerStart, Work!Start
  <2>2. Head(wQueue) \in WorkTasks /\ wStatus[Head(wQueue)] = "queued"
    BY <2>1, Popped DEF WorkQueued, TypeOK
  <2> QED
    BY <1>f, <2>1, <2>2 DEF TypeOK
<1>6. ASSUME NEW t \in WorkTasks, WorkerFinish(t) PROVE Goal
  <2>1. /\ UNCHANGED <<held, client>>
        /\ wStatus[t] = "running" /\ wStatus' = [wStatus EXCEPT ![t] = "done"]
    BY <1>6 DEF WorkerFinish, Work!Finish
  <2> QED
    BY <1>f, <2>1 DEF TypeOK
<1>7. ASSUME LoopCheck \/ AcceptSuspend \/ LoopStart \/ Start \/ MainTop \/ MainEvent PROVE Goal
  BY <1>7, <1>f DEF LoopCheck, AcceptSuspend, LoopStart, Start, MainTop, MainEvent
<1>8. ASSUME ShutdownFlag \/ ShutdownStep \/ UNCHANGED vars PROVE Goal
  BY <1>8, <1>f DEF ShutdownFlag, ShutdownStep, ShutdownReactors, ShutdownTimer,
     ShutdownReactorPool, ShutdownWorkPool, Work!Close, Work!Return, vars
<1> QED
  BY <1>1, <1>2, <1>3, <1>4, <1>5, <1>6, <1>7, <1>8 DEF Next, LoopStep

-----------------------------------------------------------------------------
(* IInv holds in every reachable state of the server.                      *)
THEOREM ServerInductive == Spec => []IInv
<1>1. IInv /\ [Next]_vars => IInv'
  BY TypeStep, ExecutorStep, BacklogStep, QueueStep, PlaceStep DEF IInv
<1> QED
  BY <1>1, InitIInv, PTL DEF Spec

(* An accepted connection is in AcceptLoop's hands or has been given to    *)
(* the work pool, and never both: however accepting interleaves with the   *)
(* shutdown, none is dropped and none is handled twice.                    *)
THEOREM ConnectionsAreKept == Spec => []NoConnectionDropped
<1>1. IInv => NoConnectionDropped
  BY DEF IInv, OnePlace, NoConnectionDropped
<1> QED
  BY <1>1, ServerInductive, PTL

(* AcceptLoop, after the flag is set, with c the last connection it takes. *)
Last(c) ==
  /\ is_shutdown_
  /\ \/ held = c
     \/ held = None /\ loop \in {"check", "end"}

LEMMA LastStep ==
  ASSUME NEW c \in Clients, IInv, Last(c), [Next]_vars
  PROVE  Last(c)'
<1> TypeOK /\ OneExecutor
  BY DEF IInv
<1>1. c # None /\ is_shutdown_
  BY NamesAssumption DEF Last
<1>2. held = c => loop \in {"resume", "handoff"}
  BY <1>1 DEF OneExecutor
<1> USE DEF Last, sockVars, loopVars, flagVars
<1>3. CASE LoopStep
  <2>1. CASE LoopCheck
    BY <1>1, <1>2, <2>1 DEF LoopCheck, LoopAt, OneExecutor
  <2>2. CASE AcceptReady \/ AcceptSuspend
    BY <1>2, <2>2 DEF AcceptReady, AcceptSuspend, LoopAt
  <2>3. CASE AcceptResume
    BY <1>1, <1>2, <2>3 DEF AcceptResume, LoopAt
  <2>4. CASE Handoff
    BY <1>2, <2>4 DEF Handoff, HandoffDone, LoopAt
  <2> QED
    BY <1>3, <2>1, <2>2, <2>3, <2>4 DEF LoopStep
<1>4. CASE LoopStart
  BY <1>2, <1>4 DEF LoopStart, Rpool!Start, OneExecutor
<1>5. CASE MainEvent
  BY <1>2, <1>5 DEF MainEvent, OneExecutor
<1>6. ASSUME \/ (\E d \in Clients : Connect(d) \/ Abort(d)) \/ WorkerStart
             \/ (\E t \in WorkTasks : WorkerFinish(t)) \/ Start \/ MainTop
      PROVE  Last(c)'
  BY <1>6 DEF Connect, Abort, WorkerStart, WorkerFinish, Start, MainTop
<1>7. ASSUME ShutdownFlag \/ ShutdownStep \/ UNCHANGED vars PROVE Last(c)'
  BY <1>7 DEF ShutdownFlag, ShutdownStep, ShutdownReactors, ShutdownTimer,
     ShutdownReactorPool, ShutdownWorkPool, vars
<1> QED
  BY <1>3, <1>4, <1>5, <1>6, <1>7 DEF Next

(* Once AcceptLoop holds a connection and the flag is set it takes no      *)
(* other: it is past its suspension, hands the connection over and tests   *)
(* the flag, and no event can resume it in between, on either thread.      *)
THEOREM ShutdownStopsAccepting == Spec => StopsAccepting
<1> SUFFICES ASSUME NEW c \in Clients
             PROVE  Spec => [](is_shutdown_ /\ held = c => [](held \in {c, None}))
  BY DEF StopsAccepting
<1>1. is_shutdown_ /\ held = c => Last(c)
  BY DEF Last
<1>2. IInv /\ Last(c) /\ [Next]_vars => Last(c)'
  BY LastStep
<1>3. Last(c) => held \in {c, None}
  BY DEF Last
<1> QED
  BY <1>1, <1>2, <1>3, ServerInductive, PTL DEF Spec
=============================================================================
