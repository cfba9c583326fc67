----------------------------- MODULE TcpServer ------------------------------
(***************************************************************************)
(* net::TcpServer (net/tcp/tcp_server.cpp) with its TcpAcceptor and        *)
(* AcceptAwaiter: how connections are accepted and handed to the work pool *)
(* and how the server is shut down.                                        *)
(*                                                                         *)
(* The two thread pools are used through their contract, TaskPool, which   *)
(* ThreadPool is proved to implement.  AcceptLoop() starts on the reactor  *)
(* pool's only thread; once it has waited, the main thread resumes it from *)
(* main_reactor_->Start().  The registration of the listening socket is    *)
(* one step here; EventLoop takes it apart.                                *)
(***************************************************************************)
EXTENDS Naturals, Sequences, FiniteSets

CONSTANTS Clients,      \* the connections that clients open
          Tick,         \* the timer's loop, a task of the work pool
          AcceptLoop,   \* the accept loop, the task of the reactor pool
          None,
          ThreadNum,    \* threads of the work pool
          Early         \* may a client connect before the acceptor is in epoll?

ASSUME NamesAssumption  == Tick \notin Clients /\ None \notin Clients
ASSUME ThreadsAssumption == ThreadNum \in Nat \ {0}
ASSUME EarlyAssumption  == Early \in BOOLEAN

VARIABLES client,     \* "idle", "backlog", "accepted" or "gone"
          backlog,    \* the kernel's accept queue
          lsock,      \* the listening Socket: attached, and recv_coro set
          ep,         \* its epoll entry: on, and EPOLLIN asked for
          edge,       \* it is in the epoll ready list
          loop,       \* where AcceptLoop stands
          held,       \* the connection AcceptLoop has in its hands
          main,       \* the thread that calls Start()
          closer,     \* the thread that calls Shutdown(): its next statement
          is_shutdown_, reactorDown, timerStop,
          wStatus, wQueue, wOpen, wOver,    \* work_thread_pool_
          rStatus, rQueue, rOpen, rOver,    \* reactor_thread_pool_
          proc

sockVars  == <<client, backlog, lsock, ep, edge>>
loopVars  == <<loop, held, main>>
flagVars  == <<closer, is_shutdown_, reactorDown, timerStop>>
workVars  == <<wStatus, wQueue, wOpen, wOver>>
rpoolVars == <<rStatus, rQueue, rOpen, rOver>>
vars == <<sockVars, loopVars, flagVars, workVars, rpoolVars, proc>>

WorkTasks == Clients \cup {Tick}

Work == INSTANCE TaskPool WITH
  Tasks <- WorkTasks, status <- wStatus, queue <- wQueue, open <- wOpen, over <- wOver

Rpool == INSTANCE TaskPool WITH
  Tasks <- {AcceptLoop}, status <- rStatus, queue <- rQueue, open <- rOpen, over <- rOver

Statuses == {"new", "queued", "running", "done", "refused"}

TypeOK ==
  /\ client \in [Clients -> {"idle", "backlog", "accepted", "gone"}]
  /\ backlog \in Seq(Clients)
  /\ lsock \in [attached : BOOLEAN, recv : BOOLEAN]
  /\ ep \in [on : BOOLEAN, in : BOOLEAN] /\ edge \in BOOLEAN
  /\ loop \in {"none", "check", "ready", "suspend", "parked", "resume", "handoff", "end"}
  /\ held \in Clients \cup {None}
  /\ loop \in {"check", "ready", "suspend", "parked"} => held = None
  /\ main \in {"created", "top", "wait", "run", "returned"}
  /\ closer \in {"flag", "reactor", "timer", "rpool", "rjoin", "wpool", "wjoin", "done"}
  /\ is_shutdown_ \in BOOLEAN /\ reactorDown \in BOOLEAN /\ timerStop \in BOOLEAN
  /\ wStatus \in [WorkTasks -> Statuses] /\ wQueue \in Seq(WorkTasks)
  /\ rStatus \in [{AcceptLoop} -> Statuses] /\ rQueue \in Seq({AcceptLoop})
  /\ wOpen \in BOOLEAN /\ wOver \in BOOLEAN /\ rOpen \in BOOLEAN /\ rOver \in BOOLEAN
  /\ proc \in {"up", "exit"}

(* The constructed server: listening, the timer's task committed.          *)
Init ==
  /\ client = [c \in Clients |-> "idle"] /\ backlog = <<>>
  /\ lsock = [attached |-> FALSE, recv |-> FALSE]
  /\ ep = [on |-> FALSE, in |-> FALSE] /\ edge = FALSE
  /\ loop = "none" /\ held = None /\ main = "created"
  /\ closer = "flag" /\ is_shutdown_ = FALSE /\ reactorDown = FALSE /\ timerStop = FALSE
  /\ wStatus = [t \in WorkTasks |-> IF t = Tick THEN "queued" ELSE "new"]
  /\ wQueue = <<Tick>> /\ wOpen = TRUE /\ wOver = FALSE
  /\ Rpool!Init
  /\ proc = "up"

-----------------------------------------------------------------------------
(* Clients and the kernel.                                                 *)

Connect(c) ==
  /\ proc = "up" /\ client[c] = "idle"
  /\ Early \/ ep.on
  /\ client' = [client EXCEPT ![c] = "backlog"]
  /\ backlog' = Append(backlog, c)
  /\ edge' = (edge \/ (ep.on /\ ep.in))
  /\ UNCHANGED <<lsock, ep, loopVars, flagVars, workVars, rpoolVars, proc>>

Without(queue, at) ==
  [i \in 1..(Len(queue) - 1) |-> IF i < at THEN queue[i] ELSE queue[i + 1]]

(* The client gives up while it is in the accept queue.                    *)
Abort(c) ==
  /\ proc = "up" /\ client[c] = "backlog"
  /\ client' = [client EXCEPT ![c] = "gone"]
  /\ \E at \in 1..Len(backlog) : backlog[at] = c /\ backlog' = Without(backlog, at)
  /\ UNCHANGED <<lsock, ep, edge, loopVars, flagVars, workVars, rpoolVars, proc>>

(* accept4(): the oldest connection, or EAGAIN.                            *)
DoAccept ==
  IF backlog = <<>>
    THEN held' = None /\ UNCHANGED <<client, backlog>>
    ELSE /\ held' = Head(backlog)
         /\ backlog' = Tail(backlog)
         /\ client' = [client EXCEPT ![Head(backlog)] = "accepted"]

-----------------------------------------------------------------------------
(* AcceptLoop.  The thread that executes it is the reactor pool's until it *)
(* first suspends, and the main thread afterwards.                         *)

LoopAt(pc) == proc = "up" /\ loop = pc

(* The executing thread leaves the coroutine.                              *)
Leave ==
  IF main = "run"
    THEN main' = "top" /\ UNCHANGED rpoolVars
    ELSE Rpool!Finish(AcceptLoop) /\ UNCHANGED main

LoopUnchecked ==
  /\ LoopAt("check")
  /\ loop' = "ready"
  /\ UNCHANGED <<sockVars, held, main, flagVars, workVars, rpoolVars, proc>>

LoopCheck ==
  /\ LoopAt("check")
  /\ IF is_shutdown_ THEN loop' = "end" /\ Leave
                     ELSE loop' = "ready" /\ UNCHANGED <<main, rpoolVars>>
  /\ UNCHANGED <<sockVars, held, flagVars, workVars, proc>>

AcceptReady ==
  /\ LoopAt("ready")
  /\ DoAccept
  /\ loop' = IF backlog = <<>> THEN "suspend" ELSE "resume"
  /\ UNCHANGED <<lsock, ep, edge, main, flagVars, workVars, rpoolVars, proc>>

ArmOnce ==
  /\ lsock' = [attached |-> TRUE, recv |-> TRUE]
  /\ ep' = [on |-> TRUE, in |-> ~lsock.attached]
  /\ edge' = (edge \/ (backlog # <<>> /\ ~lsock.attached))

(* Attach if need be, SetRecvCoro, and an EPOLL_CTL_MOD that polls again.  *)
Arm ==
  /\ lsock' = [attached |-> TRUE, recv |-> TRUE]
  /\ ep' = [on |-> TRUE, in |-> TRUE]
  /\ edge' = (edge \/ backlog # <<>>)

(* AddRecv: nothing at all once the reactor is shut down.                  *)
AcceptSuspend ==
  /\ LoopAt("suspend")
  /\ IF reactorDown THEN UNCHANGED <<lsock, ep, edge>> ELSE Arm
  /\ loop' = "parked"
  /\ Leave
  /\ UNCHANGED <<client, backlog, held, flagVars, workVars, proc>>

(* await_resume: DelRecv whether or not the coroutine had suspended, so    *)
(* also when the socket was never added: EPOLL_CTL_MOD fails, LOG_FATAL.   *)
AcceptResume ==
  /\ LoopAt("resume")
  /\ IF ~reactorDown /\ ~ep.on
       THEN /\ proc' = "exit"
            /\ UNCHANGED <<sockVars, loopVars>>
       ELSE /\ IF reactorDown
                 THEN UNCHANGED <<lsock, ep>>
                 ELSE /\ lsock' = [lsock EXCEPT !.recv = FALSE]
                      /\ ep' = [ep EXCEPT !.in = FALSE]
            /\ IF held = None THEN DoAccept ELSE UNCHANGED <<client, backlog, held>>
            /\ loop' = IF held' = None THEN "check" ELSE "handoff"
            /\ UNCHANGED <<edge, main, proc>>
  /\ UNCHANGED <<flagVars, workVars, rpoolVars>>

HandoffDone ==
  /\ held' = None
  /\ loop' = "check"
  /\ UNCHANGED <<sockVars, main, flagVars, rpoolVars, proc>>

HandoffForgotten ==
  /\ LoopAt("handoff")
  /\ UNCHANGED workVars
  /\ HandoffDone

(* work_thread_pool_->Commit: a stopped pool drops the handler and, with   *)
(* it, the connection.                                                     *)
Handoff ==
  /\ LoopAt("handoff")
  /\ Work!Accept(held) \/ Work!Refuse(held)
  /\ HandoffDone

-----------------------------------------------------------------------------
(* The pools' threads.                                                     *)

Busy == {t \in WorkTasks : wStatus[t] = "running"}

WorkerStart ==
  /\ proc = "up" /\ Cardinality(Busy) < ThreadNum
  /\ Work!Start
  /\ UNCHANGED <<sockVars, loopVars, flagVars, rpoolVars, proc>>

(* Tick returns when the timer manager is stopped; a handler returns when  *)
(* it first waits or ends.                                                 *)
WorkerFinish(t) ==
  /\ proc = "up"
  /\ t = Tick => timerStop
  /\ Work!Finish(t)
  /\ UNCHANGED <<sockVars, loopVars, flagVars, rpoolVars, proc>>

LoopStart ==
  /\ proc = "up"
  /\ Rpool!Start
  /\ loop' = "check"
  /\ UNCHANGED <<sockVars, held, main, flagVars, workVars, proc>>

-----------------------------------------------------------------------------
(* The main thread.                                                        *)

Start ==
  /\ proc = "up" /\ main = "created"
  /\ Rpool!Accept(AcceptLoop) \/ Rpool!Refuse(AcceptLoop)
  /\ main' = "top"
  /\ UNCHANGED <<sockVars, loop, held, flagVars, workVars, proc>>

MainTop ==
  /\ proc = "up" /\ main = "top"
  /\ main' = IF reactorDown THEN "returned" ELSE "wait"
  /\ UNCHANGED <<sockVars, loop, held, flagVars, workVars, rpoolVars, proc>>

(* epoll_wait has no timeout: without an event the thread stays in it.     *)
MainEvent ==
  /\ proc = "up" /\ main = "wait" /\ edge
  /\ edge' = FALSE
  /\ IF ep.in /\ backlog # <<>>
       THEN main' = "run" /\ loop' = "resume"
       ELSE UNCHANGED <<main, loop>>
  /\ UNCHANGED <<client, backlog, lsock, ep, held, flagVars, workVars, rpoolVars, proc>>

-----------------------------------------------------------------------------
(* Shutdown(), statement by statement.                                     *)

CloserAt(pc, next) == proc = "up" /\ closer = pc /\ closer' = next

ShutdownFlag ==
  /\ CloserAt("flag", "reactor")
  /\ is_shutdown_' = TRUE
  /\ UNCHANGED <<sockVars, loopVars, reactorDown, timerStop, workVars, rpoolVars, proc>>

(* main_reactor_ and the sub reactors, which have no thread of their own.  *)
ShutdownReactors ==
  /\ CloserAt("reactor", "timer")
  /\ reactorDown' = TRUE
  /\ UNCHANGED <<sockVars, loopVars, is_shutdown_, timerStop, workVars, rpoolVars, proc>>

TimerForgotten ==
  /\ CloserAt("timer", "rpool")
  /\ UNCHANGED <<sockVars, loopVars, is_shutdown_, reactorDown, timerStop, workVars, rpoolVars, proc>>

ShutdownTimer ==
  /\ CloserAt("timer", "rpool")
  /\ timerStop' = TRUE
  /\ UNCHANGED <<sockVars, loopVars, is_shutdown_, reactorDown, workVars, rpoolVars, proc>>

ShutdownReactorPool ==
  /\ \/ CloserAt("rpool", "rjoin") /\ Rpool!Close
     \/ CloserAt("rjoin", "wpool") /\ Rpool!Return
  /\ UNCHANGED <<sockVars, loopVars, is_shutdown_, reactorDown, timerStop, workVars, proc>>

ShutdownWorkPool ==
  /\ \/ CloserAt("wpool", "wjoin") /\ Work!Close
     \/ CloserAt("wjoin", "done") /\ Work!Return
  /\ UNCHANGED <<sockVars, loopVars, is_shutdown_, reactorDown, timerStop, rpoolVars, proc>>

-----------------------------------------------------------------------------
LoopStep == LoopCheck \/ AcceptReady \/ AcceptSuspend \/ AcceptResume \/ Handoff

ShutdownStep == ShutdownReactors \/ ShutdownTimer \/ ShutdownReactorPool \/ ShutdownWorkPool

Next ==
  \/ \E c \in Clients : Connect(c) \/ Abort(c)
  \/ LoopStep
  \/ WorkerStart \/ LoopStart \/ \E t \in WorkTasks : WorkerFinish(t)
  \/ Start \/ MainTop \/ MainEvent
  \/ ShutdownFlag \/ ShutdownStep

Spec == Init /\ [][Next]_vars

(* The server is started and its threads run; clients are free, and so is  *)
(* the caller of Shutdown until it has begun.                              *)
FairSpec ==
  /\ Spec
  /\ WF_vars(LoopStep) /\ WF_vars(LoopStart)
  /\ WF_vars(WorkerStart) /\ \A t \in WorkTasks : WF_vars(WorkerFinish(t))
  /\ WF_vars(Start) /\ WF_vars(MainTop \/ MainEvent)
  /\ WF_vars(ShutdownStep)

-----------------------------------------------------------------------------
(* A connection that was accepted is in AcceptLoop's hands or has been     *)
(* given to the work pool, exactly one of the two; the state is well       *)
(* typed.                                                                  *)
NoConnectionDropped ==
  /\ TypeOK
  /\ \A c \in Clients : client[c] = "accepted" <=> (held = c) # (wStatus[c] # "new")

(* A server that is being shut down stops accepting: once a connection is  *)
(* in AcceptLoop's hands and is_shutdown_ is set, no other one ever is,    *)
(* whether the loop was suspended or not, on whichever of its two threads  *)
(* it runs and whatever arrives in the accept queue.                       *)
StopsAccepting ==
  \A c \in Clients :
    [](is_shutdown_ /\ held = c => [](held \in {c, None}))

(* The user's thread listens for incoming connections: none of them ends   *)
(* the process.                                                            *)
AcceptorSurvives == proc = "up"

(* A client in the accept queue is accepted and its handler started.       *)
ClientServed ==
  \A c \in Clients :
    client[c] = "backlog" ~>
      (wStatus[c] \in {"running", "done"} \/ client[c] = "gone" \/ is_shutdown_)

(* A Shutdown that has begun returns, whatever the accept loop, the        *)
(* handlers and the timer's loop are doing.                                *)
ServerShutdownReturns == closer = "reactor" ~> closer = "done"
=============================================================================
