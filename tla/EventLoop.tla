----------------------------- MODULE EventLoop ------------------------------
(***************************************************************************)
(* The reactor of luce: EventManager (net/event_manager.cpp) over an       *)
(* edge-triggered epoll, the read and write awaiters (io/io_awaiter.h),    *)
(* AsyncRead and AsyncWrite (io/io_awaiter.cpp), Socket and TcpConnection, *)
(* driven by the echo handler of example/echo_server.cpp.                  *)
(*                                                                         *)
(* A connection's handler starts on a worker of work_thread_pool_.  The    *)
(* first time it has to wait, that worker registers the socket in epoll    *)
(* while the reactor thread, which runs main_reactor_->Start(), may        *)
(* already be delivering its events; from then on the reactor resumes the  *)
(* coroutine inline, on its own thread.  Every access to the state the two *)
(* threads share (handle.recv_coro, handle.send_coro, io_state_, the epoll *)
(* set) is a step.  Bytes are counted: a connection is a FIFO of them.     *)
(***************************************************************************)
EXTENDS Naturals, Sequences, FiniteSets

CONSTANTS Conns,      \* connections, each also naming its pool worker
          Reactor,    \* the thread that runs EventManager::Start
          MsgLimit,   \* bytes a peer sends at most
          BufSize,    \* size of the IOBuffer given to AsyncRead
          SndBuf,     \* capacity of a socket's send buffer
          InitSize,   \* initial size of events_
          Window,     \* may epoll_wait return a connection inside its registration?
          Closes,     \* may another thread call TcpConnection::Close?
          Faults      \* may peers reset and the reactor be shut down?

ASSUME ReactorAssumption == Reactor \notin Conns
ASSUME SizesAssumption   == {MsgLimit, BufSize, SndBuf, InitSize} \subseteq Nat \ {0}
ASSUME SwitchAssumption  == {Window, Closes, Faults} \subseteq BOOLEAN

VARIABLES net,      \* kernel and peer side of each connection
          ep,       \* its entry in the epoll set: on, and the events asked for
          ready,    \* the ready list of the epoll instance
          sock,     \* Socket and TcpConnection objects
          co,       \* the handler coroutine
          thr,      \* what each thread is doing
          current,  \* the connection whose coroutine the reactor runs
          batch,    \* events returned by epoll_wait, not yet dispatched
          size,     \* events_.size()
          is_shutdown_,
          proc      \* "up", or how the process died

vars == <<net, ep, ready, sock, co, thr, current, batch, size, is_shutdown_, proc>>

Threads == Conns \cup {Reactor}

Adds    == {"AddRecv", "AddSend"}
Methods == Adds \cup {"DelRecv", "DelSend"}

Links      == [peer : {"none", "open", "fin", "rst"}, err : BOOLEAN,
               rx : 0..MsgLimit, tx : 0..SndBuf, sent : 0..MsgLimit, got : 0..MsgLimit]
Interests  == [on : BOOLEAN, mask : SUBSET {"IN", "OUT"}]
Sockets    == [ioState : SUBSET {"IN", "OUT"}, attached : BOOLEAN, recv : BOOLEAN,
               send : BOOLEAN, closed : BOOLEAN]
Handlers   == [at : {"run", "recv", "send"}, buf : 0..BufSize,
               life : {"none", "live", "done", "freed"}]
Activities == [pc : {"idle", "read", "write", "enter", "coro", "load", "store", "ctl",
                     "again", "end", "leave", "gone", "loop", "wait", "stopped"},
               op : Methods, new : SUBSET {"IN", "OUT"}]

TypeOK ==
  /\ net \in [Conns -> Links]
  /\ ep \in [Conns -> Interests]
  /\ ready \in Seq(Conns)
  /\ sock \in [Conns -> Sockets]
  /\ co \in [Conns -> Handlers]
  /\ thr \in [Threads -> Activities]
  /\ current \in Conns
  /\ batch \in Seq([conn : Conns, ev : {"IN", "OUT"}])
  /\ size \in Nat \ {0}
  /\ is_shutdown_ \in BOOLEAN
  /\ proc \in {"up", "null resume", "exit", "sigpipe"}

Init ==
  /\ net = [c \in Conns |-> [peer |-> "none", err |-> FALSE, rx |-> 0, tx |-> 0,
                             sent |-> 0, got |-> 0]]
  /\ ep = [c \in Conns |-> [on |-> FALSE, mask |-> {}]]
  /\ ready = <<>>
  /\ sock = [c \in Conns |-> [ioState |-> {}, attached |-> FALSE, recv |-> FALSE,
                              send |-> FALSE, closed |-> FALSE]]
  /\ co = [c \in Conns |-> [at |-> "run", buf |-> 0, life |-> "none"]]
  /\ thr = [th \in Threads |-> [pc |-> IF th = Reactor THEN "loop" ELSE "idle",
                                op |-> "AddRecv", new |-> {}]]
  /\ current \in Conns
  /\ batch = <<>>
  /\ size = InitSize
  /\ is_shutdown_ = FALSE
  /\ proc = "up"

-----------------------------------------------------------------------------
(* The kernel: the poll mask of a socket, and the edge-triggered ready     *)
(* list, which an event or an epoll_ctl that finds the socket ready joins. *)

PollMask(n) ==
  {e \in {"IN", "OUT"} :
     \/ e = "IN"  /\ (n.rx > 0 \/ n.peer \in {"fin", "rst"})
     \/ e = "OUT" /\ (n.tx < SndBuf \/ n.peer = "rst")}

Listed(c) == \E i \in 1..Len(ready) : ready[i] = c

Enlist(c, happened) ==
  ready' = IF happened /\ ~Listed(c) THEN Append(ready, c) ELSE ready

Callback(c, events) == Enlist(c, ep[c].on /\ ep[c].mask \cap events # {})

(* EPOLL_CTL_ADD and EPOLL_CTL_MOD.                                        *)
EpollSet(c, mask) ==
  /\ ep' = [ep EXCEPT ![c] = [on |-> TRUE, mask |-> mask]]
  /\ Enlist(c, PollMask(net[c]) \cap mask # {})

(* EPOLL_CTL_DEL, or the close of the descriptor.  A socket is listed once *)
(* at most.                                                                *)
EpollDrop(c) ==
  /\ ep' = [ep EXCEPT ![c] = [on |-> FALSE, mask |-> {}]]
  /\ IF Listed(c)
       THEN \E at \in 1..Len(ready) :
              /\ ready[at] = c
              /\ ready' = [i \in 1..(Len(ready) - 1) |-> ready[IF i < at THEN i ELSE i + 1]]
       ELSE UNCHANGED ready

-----------------------------------------------------------------------------
(* The peer, and the acceptor that hands a connection to the work pool.    *)

PeerStep(c) ==
  /\ proc = "up"
  /\ UNCHANGED <<ep, sock, co, thr, current, batch, size, is_shutdown_, proc>>

PeerSend(c) ==
  /\ net[c].peer = "open" /\ net[c].sent < MsgLimit
  /\ net' = [net EXCEPT ![c].sent = @ + 1, ![c].rx = @ + 1]
  /\ Callback(c, {"IN"})
  /\ PeerStep(c)

PeerRecv(c) ==
  /\ net[c].peer \in {"open", "fin"} /\ net[c].tx > 0
  /\ net' = [net EXCEPT ![c].tx = @ - 1, ![c].got = @ + 1]
  /\ Callback(c, {"OUT"})
  /\ PeerStep(c)

PeerFin(c) ==
  /\ net[c].peer = "open"
  /\ net' = [net EXCEPT ![c].peer = "fin"]
  /\ Callback(c, {"IN"})
  /\ PeerStep(c)

(* A reset is reported once as ECONNRESET unless the stream had ended.     *)
PeerReset(c) ==
  /\ Faults
  /\ net[c].peer \in {"open", "fin"}
  /\ net' = [net EXCEPT ![c].err = (net[c].peer = "open"), ![c].peer = "rst", ![c].tx = 0]
  /\ Callback(c, {"IN", "OUT"})
  /\ PeerStep(c)

Accept(c) ==
  /\ proc = "up"
  /\ net[c].peer = "none"
  /\ net' = [net EXCEPT ![c].peer = "open"]
  /\ co' = [co EXCEPT ![c].life = "live"]
  /\ thr' = [thr EXCEPT ![c].pc = "read"]
  /\ UNCHANGED <<ep, ready, sock, current, batch, size, is_shutdown_, proc>>

-----------------------------------------------------------------------------
(* A thread inside the handler's coroutine.                                *)

Runs(th) == IF th = Reactor THEN current ELSE th

Goto(th, pc) == thr' = [thr EXCEPT ![th].pc = pc]

(* The thread leaves a coroutine that has suspended: a worker returns from *)
(* Task::run, the reactor goes on with its events.                         *)
Left(th) == IF th = Reactor THEN "loop" ELSE "leave"

At(th, pc) == proc = "up" /\ thr[th].pc = pc

Suspend(th, c, point, method) ==
  /\ co' = [co EXCEPT ![c].at = point]
  /\ thr' = [thr EXCEPT ![th].pc = "enter", ![th].op = method]

Readable(c) == IF net[c].rx < BufSize THEN net[c].rx ELSE BufSize

(* ::read(): data into the buffer.                                         *)
ReadData(th, c) ==
  /\ net[c].rx > 0
  /\ net' = [net EXCEPT ![c].rx = @ - Readable(c)]
  /\ co' = [co EXCEPT ![c].buf = Readable(c)]
  /\ Goto(th, "write")

(* ReadInnerAwaiter::await_ready.  A closed connection reads as 0 bytes;   *)
(* every error, not only EAGAIN, suspends the coroutine.                   *)
ReadReady(th) ==
  LET c == Runs(th) IN
  /\ At(th, "read")
  /\ \/ /\ ~sock[c].closed
        /\ ReadData(th, c)
     \/ /\ \/ sock[c].closed
           \/ net[c].rx = 0 /\ net[c].peer \in {"fin", "rst"} /\ ~net[c].err
        /\ Goto(th, "end")
        /\ UNCHANGED <<net, co>>
     \/ /\ ~sock[c].closed
        /\ net[c].rx = 0 /\ (net[c].peer = "open" \/ net[c].err)
        /\ net' = [net EXCEPT ![c].err = FALSE]
        /\ Suspend(th, c, "recv", "AddRecv")
  /\ UNCHANGED <<ep, ready, sock, current, batch, size, is_shutdown_, proc>>

(* The read of await_resume: EAGAIN makes AsyncRead start over, any other  *)
(* error, EBADF after a Close among them, ends it with 0 bytes, which the  *)
(* handler takes for the end.                                              *)
ReadAgain(th) ==
  LET c == Runs(th) IN
  /\ At(th, "again") /\ thr[th].op = "DelRecv"
  /\ \/ ~sock[c].closed /\ ReadData(th, c)
     \/ /\ sock[c].closed \/ net[c].rx = 0
        /\ Goto(th, IF net[c].peer = "open" /\ ~sock[c].closed THEN "read" ELSE "end")
        /\ net' = [net EXCEPT ![c].err = FALSE]
        /\ UNCHANGED co
  /\ UNCHANGED <<ep, ready, sock, current, batch, size, is_shutdown_, proc>>

Room(c) == LET free == SndBuf - net[c].tx
           IN  IF co[c].buf < free THEN co[c].buf ELSE free

WriteForgets(th, c) ==
  /\ net[c].peer # "rst" /\ Room(c) > 0
  /\ net' = [net EXCEPT ![c].tx = @ + Room(c)]
  /\ co' = [co EXCEPT ![c].buf = 0]
  /\ Goto(th, "read")
  /\ UNCHANGED proc

(* ::write(): as much as fits; AsyncWrite goes on until nothing is left.   *)
WriteData(th, c) ==
  /\ net[c].peer # "rst" /\ Room(c) > 0
  /\ net' = [net EXCEPT ![c].tx = @ + Room(c)]
  /\ co' = [co EXCEPT ![c].buf = @ - Room(c)]
  /\ Goto(th, IF co[c].buf = Room(c) THEN "read" ELSE "write")
  /\ UNCHANGED proc

(* Writing to a reset connection: the pending error once, then SIGPIPE.    *)
WritePipe(c) ==
  /\ net[c].peer = "rst" /\ ~net[c].err
  /\ proc' = "sigpipe"
  /\ UNCHANGED <<net, co, thr>>

(* WriteInnerAwaiter::await_ready.                                         *)
WriteReady(th) ==
  LET c == Runs(th) IN
  /\ At(th, "write")
  /\ \/ ~sock[c].closed /\ (WriteData(th, c) \/ WritePipe(c))
     \/ /\ ~sock[c].closed
        /\ IF net[c].peer = "rst" THEN net[c].err ELSE Room(c) = 0
        /\ net' = [net EXCEPT ![c].err = FALSE]
        /\ Suspend(th, c, "send", "AddSend")
        /\ UNCHANGED proc
     \/ /\ sock[c].closed
        /\ co' = [co EXCEPT ![c].buf = 0]
        /\ Goto(th, "read")
        /\ UNCHANGED <<net, proc>>
  /\ UNCHANGED <<ep, ready, sock, current, batch, size, is_shutdown_>>

(* The write of await_resume: EAGAIN makes AsyncWrite try again, another   *)
(* error ends it and the handler goes on to its next read.                 *)
WriteAgain(th) ==
  LET c == Runs(th) IN
  /\ At(th, "again") /\ thr[th].op = "DelSend"
  /\ \/ ~sock[c].closed /\ (WriteData(th, c) \/ WritePipe(c))
     \/ /\ ~sock[c].closed /\ net[c].peer # "rst" /\ Room(c) = 0
        /\ Goto(th, "write")
        /\ UNCHANGED <<net, co, proc>>
     \/ /\ sock[c].closed \/ (net[c].peer = "rst" /\ net[c].err)
        /\ net' = [net EXCEPT ![c].err = FALSE]
        /\ co' = [co EXCEPT ![c].buf = 0]
        /\ Goto(th, "read")
        /\ UNCHANGED proc
  /\ UNCHANGED <<ep, ready, sock, current, batch, size, is_shutdown_>>

-----------------------------------------------------------------------------
(* AddRecv, DelRecv, AddSend and DelSend.  They differ in the event, in    *)
(* whether they add it, and in what comes after them: the awaiter's system *)
(* call after a Del, leaving the suspended coroutine after an Add.         *)

Event(m) == IF m \in {"AddRecv", "DelRecv"} THEN "IN" ELSE "OUT"

AfterStays(th) == "again"

After(th) == IF thr[th].op \in Adds THEN Left(th) ELSE "again"

(* IsClosed() in the awaiter, is_shutdown_ and the Attach of the method:   *)
(* io_state_ and detached_ are set before the descriptor is added.         *)
Enter(th) ==
  LET c == Runs(th)  m == thr[th].op  IN
  /\ At(th, "enter")
  /\ \/ /\ sock[c].closed
        /\ Goto(th, IF m \in Adds THEN Left(th) ELSE "read")
        /\ UNCHANGED <<ep, ready, sock>>
     \/ /\ ~sock[c].closed /\ is_shutdown_
        /\ Goto(th, After(th))
        /\ UNCHANGED <<ep, ready, sock>>
     \/ /\ ~sock[c].closed /\ ~is_shutdown_
        /\ Goto(th, "coro")
        /\ IF m \in Adds /\ ~sock[c].attached
             THEN /\ sock' = [sock EXCEPT ![c].ioState = {Event(m)},
                                          ![c].attached = TRUE]
                  /\ EpollSet(c, {Event(m)})
             ELSE UNCHANGED <<ep, ready, sock>>
  /\ UNCHANGED <<net, co, current, batch, size, is_shutdown_, proc>>

NeverDelCoro(th) ==
  LET c == Runs(th)  m == thr[th].op  IN
  /\ At(th, "coro")
  /\ sock' = CASE m = "AddRecv" -> [sock EXCEPT ![c].recv = TRUE]
               [] m = "AddSend" -> [sock EXCEPT ![c].send = TRUE]
               [] OTHER -> sock
  /\ Goto(th, "load")
  /\ UNCHANGED <<net, ep, ready, co, current, batch, size, is_shutdown_, proc>>

(* SetRecvCoro, DelRecvCoro, SetSendCoro, DelSendCoro.                     *)
SetCoro(th) ==
  LET c == Runs(th)  m == thr[th].op  IN
  /\ At(th, "coro")
  /\ sock' = IF Event(m) = "IN" THEN [sock EXCEPT ![c].recv = (m \in Adds)]
                                ELSE [sock EXCEPT ![c].send = (m \in Adds)]
  /\ Goto(th, "load")
  /\ UNCHANGED <<net, ep, ready, co, current, batch, size, is_shutdown_, proc>>

(* Variants with a mistake: a Del that leaves the event in the interest    *)
(* set, and an Add that counts on Attach to have put it there.             *)
ChangeIOState(th, s) ==
  /\ At(th, "load")
  /\ thr' = [thr EXCEPT ![th].new = s, ![th].pc = "store"]
  /\ UNCHANGED <<net, ep, ready, sock, co, current, batch, size, is_shutdown_, proc>>

DelKeepsEvent(th) ==
  LET s == sock[Runs(th)].ioState  m == thr[th].op
  IN  ChangeIOState(th, IF m \in Adds THEN s \cup {Event(m)} ELSE s)

AddTrustsAttach(th) ==
  LET s == sock[Runs(th)].ioState  m == thr[th].op
  IN  ChangeIOState(th, IF m \in Adds THEN s ELSE s \ {Event(m)})

(* new_state = GetIOState() | EPOLLIN, or & ~EPOLLIN, and so for EPOLLOUT. *)
NewIOState(th) ==
  LET s == sock[Runs(th)].ioState  m == thr[th].op
  IN  ChangeIOState(th, IF m \in Adds THEN s \cup {Event(m)} ELSE s \ {Event(m)})

SetIOState(th) ==
  /\ At(th, "store")
  /\ sock' = [sock EXCEPT ![Runs(th)].ioState = thr[th].new]
  /\ Goto(th, "ctl")
  /\ UNCHANGED <<net, ep, ready, co, current, batch, size, is_shutdown_, proc>>

(* EPOLL_CTL_MOD.  On a descriptor that is not in the epoll set it fails,  *)
(* and LOG_FATAL ends the process.                                         *)
UpdateEvent(th) ==
  LET c == Runs(th) IN
  /\ At(th, "ctl")
  /\ IF ep[c].on
       THEN /\ EpollSet(c, thr[th].new)
            /\ Goto(th, After(th))
            /\ UNCHANGED proc
       ELSE /\ proc' = "exit"
            /\ UNCHANGED <<ep, ready, thr>>
  /\ UNCHANGED <<net, sock, co, current, batch, size, is_shutdown_>>

-----------------------------------------------------------------------------
(* The end of a connection.  The coroutine's frame and the lambda run by   *)
(* the worker each hold a TcpConnectionPtr; the last to let go destroys    *)
(* the TcpConnection (Detach if attached) and its Socket (close).          *)

DestroyConnection(c) ==
  /\ co' = [co EXCEPT ![c].life = "freed", ![c].at = "run"]
  /\ proc' = IF sock[c].attached /\ ~ep[c].on THEN "exit" ELSE proc
  /\ sock' = [sock EXCEPT ![c].attached = FALSE]
  /\ EpollDrop(c)

HandlerEnd(th) ==
  LET c == Runs(th) IN
  /\ At(th, "end")
  /\ IF th = Reactor /\ thr[c].pc # "gone"
       THEN /\ co' = [co EXCEPT ![c].life = "done"]
            /\ UNCHANGED <<sock, ep, ready, proc>>
       ELSE DestroyConnection(c)
  /\ Goto(th, IF th = Reactor THEN "loop" ELSE "gone")
  /\ UNCHANGED <<net, current, batch, size, is_shutdown_>>

WorkerLeave(c) ==
  /\ At(c, "leave")
  /\ IF co[c].life = "done"
       THEN DestroyConnection(c)
       ELSE UNCHANGED <<co, sock, ep, ready, proc>>
  /\ Goto(c, "gone")
  /\ UNCHANGED <<net, current, batch, size, is_shutdown_>>

(* TcpConnection::Close from another thread, as HttpServer's timer does:   *)
(* closing the descriptor takes it out of the epoll set.                   *)
Close(c) ==
  /\ proc = "up" /\ Closes
  /\ co[c].life = "live" /\ ~sock[c].closed
  /\ sock' = [sock EXCEPT ![c].closed = TRUE]
  /\ EpollDrop(c)
  /\ UNCHANGED <<net, co, thr, current, batch, size, is_shutdown_, proc>>

-----------------------------------------------------------------------------
(* EventManager::Start and Shutdown.  An epoll_wait that returns EINTR is  *)
(* simply called again.                                                    *)

Registering(c) == thr[c].pc \in {"coro", "load", "store", "ctl"}

(* No event of a connection is returned inside its own registration.  The  *)
(* other connections may be anywhere.                                      *)
Apart == \A i \in 1..Len(batch') : ~Registering(batch'[i].conn)

LoopTop ==
  /\ At(Reactor, "loop") /\ batch = <<>>
  /\ Goto(Reactor, IF is_shutdown_ THEN "stopped" ELSE "wait")
  /\ UNCHANGED <<net, ep, ready, sock, co, current, batch, size, is_shutdown_, proc>>

Pending(c) == PollMask(net[c]) \cap ep[c].mask

(* Start looks for EPOLLIN before EPOLLOUT.                                *)
Returned(c) == [conn |-> c, ev |-> IF "IN" \in Pending(c) THEN "IN" ELSE "OUT"]

(* At most events_.size() of the listed sockets that are really ready are  *)
(* returned and, being edge-triggered, leave the list; events_ grows when  *)
(* it was filled.                                                          *)
EpollWait ==
  LET at == {i \in 1..Len(ready) : Pending(ready[i]) # {}}
      m  == Cardinality(at)
      n  == IF m < size THEN m ELSE size
  IN
  /\ At(Reactor, "wait") /\ ready # <<>>
  /\ \E f \in [1..m -> at] :
       /\ \A i, j \in 1..m : i < j => f[i] < f[j]
       /\ batch' = [i \in 1..n |-> Returned(ready[f[i]])]
       /\ ready' = [i \in 1..(m - n) |-> ready[f[n + i]]]
  /\ Window \/ Apart
  /\ size' = IF n = size THEN 2 * size ELSE size
  /\ Goto(Reactor, IF n = 0 THEN "wait" ELSE "loop")
  /\ UNCHANGED <<net, ep, sock, co, current, is_shutdown_, proc>>

Resumable(e) ==
  /\ IF e.ev = "IN" THEN sock[e.conn].recv ELSE sock[e.conn].send
  /\ co[e.conn].life = "live"

Resume(c) ==
  /\ current' = c
  /\ thr' = [thr EXCEPT ![Reactor].pc = "enter",
       ![Reactor].op = IF co[c].at = "send" THEN "DelSend" ELSE "DelRecv"]
  /\ co' = [co EXCEPT ![c].at = "run"]
  /\ UNCHANGED proc

DispatchFirstOnly ==
  LET e == Head(batch) IN
  /\ At(Reactor, "loop") /\ batch # <<>>
  /\ batch' = <<>>
  /\ \/ Resumable(e) /\ Resume(e.conn)
     \/ /\ ~Resumable(e)
        /\ proc' = "null resume"
        /\ UNCHANGED <<current, thr, co>>
  /\ UNCHANGED <<net, ep, ready, sock, size, is_shutdown_>>

(* recv_coro.resume() or send_coro.resume(): on a null or dangling handle  *)
(* undefined behaviour, taken to end the process; otherwise the coroutine  *)
(* goes on where it suspended, whichever handle resumed it.                *)
Dispatch ==
  LET e == Head(batch) IN
  /\ At(Reactor, "loop") /\ batch # <<>>
  /\ batch' = Tail(batch)
  /\ \/ Resumable(e) /\ Resume(e.conn)
     \/ /\ ~Resumable(e)
        /\ proc' = "null resume"
        /\ UNCHANGED <<current, thr, co>>
  /\ UNCHANGED <<net, ep, ready, sock, size, is_shutdown_>>

Shutdown ==
  /\ proc = "up" /\ ~is_shutdown_ /\ Faults
  /\ is_shutdown_' = TRUE
  /\ UNCHANGED <<net, ep, ready, sock, co, thr, current, batch, size, proc>>

-----------------------------------------------------------------------------
HandlerStep(th) ==
  \/ ReadReady(th) \/ ReadAgain(th) \/ WriteReady(th) \/ WriteAgain(th)
  \/ Enter(th) \/ SetCoro(th) \/ NewIOState(th) \/ SetIOState(th) \/ UpdateEvent(th)
  \/ HandlerEnd(th)

WorkerStep(c) == HandlerStep(c) \/ WorkerLeave(c)

ReactorStep == LoopTop \/ EpollWait \/ Dispatch \/ HandlerStep(Reactor)

Next ==
  \/ \E c \in Conns : \/ PeerSend(c) \/ PeerRecv(c) \/ PeerFin(c) \/ PeerReset(c)
                      \/ Accept(c) \/ WorkerStep(c) \/ Close(c)
  \/ ReactorStep
  \/ Shutdown

Spec == Init /\ [][Next]_vars

(* The threads run, and a peer reads what it is sent; nobody has to        *)
(* connect, send, close or shut down.                                      *)
Fairness ==
  /\ \A c \in Conns : WF_vars(WorkerStep(c)) /\ WF_vars(PeerRecv(c))
  /\ WF_vars(ReactorStep)

FairSpec == Spec /\ Fairness

-----------------------------------------------------------------------------
(* Every byte a peer sent is in exactly one place on its way back to it:   *)
(* the receive buffer, the handler's buffer, the send buffer, the peer.    *)
(* Partial reads and writes, and the wakeups between them, lose and repeat *)
(* nothing, unless the connection was reset or closed.                     *)
EchoConserved ==
  \A c \in Conns : net[c].peer # "rst" /\ ~sock[c].closed =>
    net[c].sent = net[c].rx + co[c].buf + net[c].tx + net[c].got

InBody(th) == thr[th].pc \in {"read", "write", "again", "end"}

(* A coroutine is never executed by its worker and the reactor at once:    *)
(* when the reactor can resume it, the worker is past its last statement,  *)
(* even if it is still inside the registration; and every variable keeps   *)
(* to its type while the two write the same socket.                        *)
OneRunner ==
  /\ TypeOK
  /\ \A c \in Conns : current = c /\ thr[Reactor].pc \notin {"loop", "wait", "stopped"} =>
       ~InBody(c) /\ thr[c].pc # "enter"

(* The reactor wakes a coroutine only for what it waits for: an EPOLLIN    *)
(* that finds recv_coro set finds the coroutine suspended in a read, an    *)
(* EPOLLOUT that finds send_coro set, in a write.                          *)
ResumeMatchesWait ==
  thr[Reactor].pc = "loop" /\ batch # <<>> =>
    LET e == Head(batch) IN
      /\ e.ev = "IN"  /\ sock[e.conn].recv => co[e.conn].at = "recv"
      /\ e.ev = "OUT" /\ sock[e.conn].send => co[e.conn].at = "send"

(* No event reaches a socket whose handle is null or gone, and no epoll    *)
(* call of the reactor or of a worker fails unless another thread has      *)
(* closed a connection: apart from that the process is only ever ended by  *)
(* SIGPIPE.                                                                *)
NoCrash ==
  \/ proc \in {"up", "sigpipe"}
  \/ proc = "exit" /\ \E c \in Conns : sock[c].closed

(* A co_await on a connection suspends the handler and the event that it   *)
(* waits for resumes it: no event is delivered before the handle it        *)
(* resumes has been stored.                                                *)
NoNullResume == proc # "null resume"

Excused(c) ==
  is_shutdown_ \/ proc # "up" \/ net[c].peer = "rst" \/ sock[c].closed

(* No wakeup is lost: whatever a peer sends is echoed to it, however the   *)
(* arrival of bytes falls between a read that found nothing, the           *)
(* registration with epoll and the next epoll_wait.                        *)
EverythingEchoed ==
  \A c \in Conns : \A n \in 1..MsgLimit :
    net[c].sent >= n ~> (net[c].got >= n \/ Excused(c))

(* A connection that its peer has closed or reset is destroyed, unless     *)
(* another thread closed it: its handler, once suspended, stays so.        *)
ClosedIsReleased ==
  \A c \in Conns :
    net[c].peer \in {"fin", "rst"} ~>
      (co[c].life = "freed" \/ is_shutdown_ \/ proc # "up" \/ sock[c].closed)
=============================================================================
