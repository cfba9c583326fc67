-------------------------- MODULE EventLoopProofs ---------------------------
(***************************************************************************)
(* Theorems about the reactor, the awaiters and the echo handler for any   *)
(* number of connections, any buffer sizes and any number of bytes.        *)
(***************************************************************************)
EXTENDS EventLoop, FiniteSetTheorems, SequenceTheorems, TLAPS

(* The reactor is executing a coroutine, and whose.                        *)
Active == thr[Reactor].pc \notin {"loop", "wait", "stopped"}

InReactor(c) == Active /\ current = c

(* The statements of AddRecv, DelRecv, AddSend and DelSend.                *)
Method == {"enter", "coro", "load", "store", "ctl"}

ReactorPlaces == {"read", "write", "again", "end", "loop", "wait", "stopped"} \cup Method
WorkerPlaces  == {"idle", "read", "write", "end", "leave", "gone"} \cup Method

(* Before a worker has stored a handle.                                    *)
Early == {"idle", "read", "write", "enter", "coro", "end"}

ReactorControl ==
  /\ thr[Reactor].pc \in ReactorPlaces
  /\ thr[Reactor].pc = "again" => thr[Reactor].op \notin Adds

WorkerControl(c) ==
  /\ thr[c].pc \in WorkerPlaces /\ thr[c].op \in Adds
  /\ thr[c].pc \in Early => ~sock[c].recv /\ ~sock[c].send /\ ~InReactor(c)
  /\ net[c].peer = "none" => thr[c].pc = "idle"

Bounded(c) == net[c].rx + co[c].buf + net[c].tx + net[c].got <= net[c].sent

RInv == TypeOK /\ ReactorControl /\ \A c \in Conns : WorkerControl(c) /\ Bounded(c)

-----------------------------------------------------------------------------
LEMMA InitRunner == Init => RInv
<1> SUFFICES ASSUME Init PROVE RInv
  OBVIOUS
<1>1. TypeOK
  <2>1. net \in [Conns -> Links]
    BY SizesAssumption DEF Init, Links
  <2>2. ep \in [Conns -> Interests]
    BY DEF Init, Interests
  <2>3. sock \in [Conns -> Sockets]
    BY DEF Init, Sockets
  <2>4. co \in [Conns -> Handlers]
    BY SizesAssumption DEF Init, Handlers
  <2>5. thr \in [Threads -> Activities]
    BY DEF Init, Activities, Methods, Adds
  <2>6. is_shutdown_ \in BOOLEAN
    BY Zenon DEF Init
  <2>7. current \in Conns /\ size \in Nat \ {0} /\ proc = "up" /\ ready = <<>> /\ batch = <<>>
    BY SizesAssumption DEF Init
  <2> QED
    BY <2>1, <2>2, <2>3, <2>4, <2>5, <2>6, <2>7 DEF TypeOK
<1>2. ReactorControl
  BY DEF Init, ReactorControl, ReactorPlaces, Threads
<1>3. ASSUME NEW c \in Conns PROVE WorkerControl(c) /\ Bounded(c)
  BY ReactorAssumption DEF Init, WorkerControl, Bounded, WorkerPlaces, Threads, Adds, InReactor, Active
<1> QED
  BY <1>1, <1>2, <1>3 DEF RInv

(* What the parts of the actions do to the fields of the state.            *)

LEMMA Sizes == MsgLimit \in Nat \ {0} /\ BufSize \in Nat \ {0} /\ SndBuf \in Nat \ {0}
               /\ InitSize \in Nat \ {0}
  BY SizesAssumption

LEMMA Fields ==
  ASSUME TypeOK, NEW c \in Conns
  PROVE  /\ net[c] \in Links /\ ep[c] \in Interests /\ sock[c] \in Sockets
         /\ co[c] \in Handlers /\ thr[c] \in Activities /\ thr[Reactor] \in Activities
         /\ net[c].rx \in Nat /\ net[c].tx \in Nat /\ net[c].sent \in Nat
         /\ net[c].got \in Nat /\ co[c].buf \in Nat
         /\ c \in Threads /\ Reactor \in Threads /\ c # Reactor
<1>1. c \in Threads /\ Reactor \in Threads /\ c # Reactor
  BY ReactorAssumption DEF Threads
<1>2. /\ net[c] \in Links /\ ep[c] \in Interests /\ sock[c] \in Sockets
      /\ co[c] \in Handlers /\ thr[c] \in Activities /\ thr[Reactor] \in Activities
  BY <1>1 DEF TypeOK
<1> QED
  BY <1>1, <1>2, Sizes DEF Links, Handlers

LEMMA GotoEffect ==
  ASSUME TypeOK, NEW th \in Threads,
         NEW p \in {"idle", "read", "write", "enter", "coro", "load", "store", "ctl",
                    "again", "end", "leave", "gone", "loop", "wait", "stopped"},
         Goto(th, p)
  PROVE  /\ thr' \in [Threads -> Activities]
         /\ thr'[th].pc = p /\ thr'[th].op = thr[th].op /\ thr'[th].new = thr[th].new
         /\ \A u \in Threads : u # th => thr'[u] = thr[u]
<1>1. thr \in [Threads -> Activities]
  BY DEF TypeOK
<1> QED
  BY <1>1 DEF Goto, Activities

LEMMA SuspendEffect ==
  ASSUME TypeOK, NEW th \in Threads, NEW c \in Conns, NEW point \in {"recv", "send"},
         NEW method \in Methods, Suspend(th, c, point, method)
  PROVE  /\ thr' \in [Threads -> Activities] /\ co' \in [Conns -> Handlers]
         /\ thr'[th].pc = "enter" /\ thr'[th].op = method
         /\ \A u \in Threads : u # th => thr'[u] = thr[u]
         /\ co'[c].at = point /\ co'[c].buf = co[c].buf /\ co'[c].life = co[c].life
         /\ \A d \in Conns : d # c => co'[d] = co[d]
<1>1. thr \in [Threads -> Activities] /\ co \in [Conns -> Handlers]
  BY DEF TypeOK
<1>2. /\ thr' \in [Threads -> Activities] /\ thr'[th].pc = "enter" /\ thr'[th].op = method
      /\ \A u \in Threads : u # th => thr'[u] = thr[u]
  BY <1>1 DEF Suspend, Activities
<1>3. /\ co' \in [Conns -> Handlers]
      /\ co'[c].at = point /\ co'[c].buf = co[c].buf /\ co'[c].life = co[c].life
      /\ \A d \in Conns : d # c => co'[d] = co[d]
  BY <1>1 DEF Suspend, Handlers
<1> QED
  BY <1>2, <1>3

LEMMA ErrorRead ==
  ASSUME TypeOK, NEW c \in Conns, net' = [net EXCEPT ![c].err = FALSE]
  PROVE  /\ net' \in [Conns -> Links]
         /\ net'[c].peer = net[c].peer /\ net'[c].rx = net[c].rx /\ net'[c].tx = net[c].tx
         /\ net'[c].sent = net[c].sent /\ net'[c].got = net[c].got
         /\ \A d \in Conns : d # c => net'[d] = net[d]
<1>1. net \in [Conns -> Links] /\ net[c] \in Links
  BY DEF TypeOK
<1>2. /\ net'[c] = [net[c] EXCEPT !.err = FALSE]
      /\ net' = [net EXCEPT ![c] = [net[c] EXCEPT !.err = FALSE]]
  BY <1>1
<1>3. [net[c] EXCEPT !.err = FALSE] \in Links
  BY <1>1 DEF Links
<1> QED
  BY <1>1, <1>2, <1>3 DEF Links

LEMMA ReadDataEffect ==
  ASSUME TypeOK, NEW th \in Threads, NEW c \in Conns, ReadData(th, c)
  PROVE  /\ net' \in [Conns -> Links] /\ co' \in [Conns -> Handlers]
         /\ thr' \in [Threads -> Activities]
         /\ thr'[th].pc = "write" /\ thr'[th].op = thr[th].op /\ thr'[th].new = thr[th].new
         /\ \A u \in Threads : u # th => thr'[u] = thr[u]
         /\ net'[c].rx \in Nat /\ co'[c].buf \in Nat
         /\ net'[c].rx + co'[c].buf = net[c].rx
         /\ net'[c].peer = net[c].peer /\ net'[c].tx = net[c].tx
         /\ net'[c].sent = net[c].sent /\ net'[c].got = net[c].got
         /\ co'[c].at = co[c].at /\ co'[c].life = co[c].life
         /\ \A d \in Conns : d # c => net'[d] = net[d] /\ co'[d] = co[d]
<1>1. /\ net \in [Conns -> Links] /\ net[c] \in Links
      /\ co \in [Conns -> Handlers] /\ co[c] \in Handlers
  BY DEF TypeOK
<1> DEFINE k == Readable(c)
<1>2. k \in 0..BufSize /\ k <= net[c].rx /\ net[c].rx \in 0..MsgLimit
  BY <1>1, Sizes DEF Readable, Links
<1>3. net[c].rx - k \in 0..MsgLimit /\ (net[c].rx - k) + k = net[c].rx
  BY <1>2, Sizes
<1>4. /\ net' = [net EXCEPT ![c].rx = net[c].rx - k]
      /\ co' = [co EXCEPT ![c].buf = k]
      /\ Goto(th, "write")
  BY DEF ReadData
<1> HIDE DEF k
<1>5. /\ net' \in [Conns -> Links]
      /\ net'[c].rx = net[c].rx - k
      /\ net'[c].peer = net[c].peer /\ net'[c].tx = net[c].tx
      /\ net'[c].sent = net[c].sent /\ net'[c].got = net[c].got
      /\ \A d \in Conns : d # c => net'[d] = net[d]
  BY <1>1, <1>3, <1>4 DEF Links
<1>6. /\ co' \in [Conns -> Handlers]
      /\ co'[c].buf = k /\ co'[c].at = co[c].at /\ co'[c].life = co[c].life
      /\ \A d \in Conns : d # c => co'[d] = co[d]
  BY <1>1, <1>2, <1>4 DEF Handlers
<1>7. /\ thr' \in [Threads -> Activities]
      /\ thr'[th].pc = "write" /\ thr'[th].op = thr[th].op /\ thr'[th].new = thr[th].new
      /\ \A u \in Threads : u # th => thr'[u] = thr[u]
  BY <1>4, GotoEffect
<1>8. net'[c].rx \in Nat /\ co'[c].buf \in Nat /\ net'[c].rx + co'[c].buf = net[c].rx
  BY <1>2, <1>3, <1>5, <1>6, Sizes
<1> QED
  BY <1>5, <1>6, <1>7, <1>8

LEMMA WriteDataEffect ==
  ASSUME TypeOK, NEW th \in Threads, NEW c \in Conns, WriteData(th, c)
  PROVE  /\ net' \in [Conns -> Links] /\ co' \in [Conns -> Handlers]
         /\ thr' \in [Threads -> Activities]
         /\ thr'[th].pc \in {"read", "write"} /\ thr'[th].op = thr[th].op
         /\ thr'[th].new = thr[th].new
         /\ \A u \in Threads : u # th => thr'[u] = thr[u]
         /\ net'[c].tx \in Nat /\ co'[c].buf \in Nat
         /\ net'[c].tx + co'[c].buf = net[c].tx + co[c].buf
         /\ thr'[th].pc = "read" => co'[c].buf = 0
         /\ net'[c].peer = net[c].peer /\ net'[c].rx = net[c].rx
         /\ net'[c].sent = net[c].sent /\ net'[c].got = net[c].got
         /\ co'[c].at = co[c].at /\ co'[c].life = co[c].life
         /\ \A d \in Conns : d # c => net'[d] = net[d] /\ co'[d] = co[d]
         /\ proc' = proc
<1>1. /\ net \in [Conns -> Links] /\ net[c] \in Links
      /\ co \in [Conns -> Handlers] /\ co[c] \in Handlers
  BY DEF TypeOK
<1> DEFINE k == Room(c)
<1>2. net[c].tx \in 0..SndBuf /\ co[c].buf \in 0..BufSize
  BY <1>1 DEF Links, Handlers
<1>3. k \in Nat /\ k <= co[c].buf /\ net[c].tx + k \in 0..SndBuf /\ co[c].buf - k \in 0..BufSize
  BY <1>2, Sizes DEF Room
<1>4. /\ net' = [net EXCEPT ![c].tx = net[c].tx + k]
      /\ co' = [co EXCEPT ![c].buf = co[c].buf - k]
      /\ Goto(th, IF co[c].buf = k THEN "read" ELSE "write")
      /\ proc' = proc
  BY DEF WriteData
<1> HIDE DEF k
<1>5. /\ net' \in [Conns -> Links]
      /\ net'[c].tx = net[c].tx + k
      /\ net'[c].peer = net[c].peer /\ net'[c].rx = net[c].rx
      /\ net'[c].sent = net[c].sent /\ net'[c].got = net[c].got
      /\ \A d \in Conns : d # c => net'[d] = net[d]
  BY <1>1, <1>3, <1>4 DEF Links
<1>6. /\ co' \in [Conns -> Handlers]
      /\ co'[c].buf = co[c].buf - k /\ co'[c].at = co[c].at /\ co'[c].life = co[c].life
      /\ \A d \in Conns : d # c => co'[d] = co[d]
  BY <1>1, <1>3, <1>4 DEF Handlers
<1>7. /\ thr' \in [Threads -> Activities]
      /\ thr'[th].pc = (IF co[c].buf = k THEN "read" ELSE "write")
      /\ thr'[th].op = thr[th].op /\ thr'[th].new = thr[th].new
      /\ \A u \in Threads : u # th => thr'[u] = thr[u]
  BY <1>4, GotoEffect
<1>8. /\ net'[c].tx \in Nat /\ co'[c].buf \in Nat
      /\ net'[c].tx + co'[c].buf = net[c].tx + co[c].buf
      /\ thr'[th].pc = "read" => co'[c].buf = 0
  BY <1>2, <1>3, <1>5, <1>6, <1>7, Sizes
<1> QED
  BY <1>4, <1>5, <1>6, <1>7, <1>8

LEMMA EnlistEffect ==
  ASSUME TypeOK, NEW c \in Conns, NEW happened, Enlist(c, happened)
  PROVE  ready' \in Seq(Conns)
<1>1. ready' = ready \/ ready' = Append(ready, c)
  BY Zenon DEF Enlist
<1>2. ready \in Seq(Conns)
  BY DEF TypeOK
<1>3. Append(ready, c) \in Seq(Conns)
  BY <1>2
<1> QED
  BY <1>1, <1>2, <1>3

LEMMA EpollSetEffect ==
  ASSUME TypeOK, NEW c \in Conns, NEW mask \in SUBSET {"IN", "OUT"}, EpollSet(c, mask)
  PROVE  /\ ready' \in Seq(Conns) /\ ep' \in [Conns -> Interests]
         /\ ep'[c].on = TRUE /\ ep'[c].mask = mask
         /\ \A d \in Conns : d # c => ep'[d] = ep[d]
<1>1. ready' \in Seq(Conns)
  BY EnlistEffect DEF EpollSet
<1>2. ep' = [ep EXCEPT ![c] = [on |-> TRUE, mask |-> mask]] /\ ep \in [Conns -> Interests]
  BY DEF EpollSet, TypeOK
<1>3. [on |-> TRUE, mask |-> mask] \in Interests
  BY DEF Interests
<1> QED
  BY <1>1, <1>2, <1>3

LEMMA EpollDropEffect ==
  ASSUME TypeOK, NEW c \in Conns, EpollDrop(c)
  PROVE  /\ ready' \in Seq(Conns) /\ ep' \in [Conns -> Interests]
         /\ ep'[c].on = FALSE /\ ep'[c].mask = {}
         /\ \A d \in Conns : d # c => ep'[d] = ep[d]
<1>1. ready' \in Seq(Conns)
  <2>1. CASE Listed(c)
    <3>1. PICK at \in 1..Len(ready) :
            ready' = [i \in 1..(Len(ready) - 1) |-> ready[IF i < at THEN i ELSE i + 1]]
      BY <2>1 DEF EpollDrop
    <3>s. ready \in Seq(Conns)
      BY DEF TypeOK
    <3>2. Len(ready) \in Nat /\ Len(ready) - 1 \in Nat
      BY <3>s
    <3> DEFINE e(i) == ready[IF i < at THEN i ELSE i + 1]
    <3>3. \A i \in 1..(Len(ready) - 1) : e(i) \in Conns
      BY <3>s, <3>2
    <3> HIDE DEF e
    <3>4. [i \in 1..(Len(ready) - 1) |-> e(i)] \in Seq(Conns)
      BY <3>2, <3>3, IsASeq
    <3> QED
      BY <3>1, <3>4 DEF e
  <2>2. CASE ~Listed(c)
    BY <2>2 DEF EpollDrop, TypeOK
  <2> QED
    BY <2>1, <2>2
<1>2. ep' = [ep EXCEPT ![c] = [on |-> FALSE, mask |-> {}]] /\ ep \in [Conns -> Interests]
  BY DEF EpollDrop, TypeOK
<1>3. [on |-> FALSE, mask |-> {}] \in Interests
  BY DEF Interests
<1> QED
  BY <1>1, <1>2, <1>3

LEMMA DestroyEffect ==
  ASSUME TypeOK, NEW c \in Conns, DestroyConnection(c)
  PROVE  /\ ready' \in Seq(Conns) /\ ep' \in [Conns -> Interests]
         /\ sock' \in [Conns -> Sockets] /\ co' \in [Conns -> Handlers]
         /\ ep'[c].on = FALSE /\ ep'[c].mask = {} /\ sock'[c].attached = FALSE
         /\ sock'[c].ioState = sock[c].ioState /\ sock'[c].closed = sock[c].closed
         /\ sock'[c].recv = sock[c].recv /\ sock'[c].send = sock[c].send
         /\ co'[c].life = "freed" /\ co'[c].at = "run" /\ co'[c].buf = co[c].buf
         /\ \A d \in Conns : d # c => ep'[d] = ep[d] /\ sock'[d] = sock[d] /\ co'[d] = co[d]
         /\ proc' = proc \/ (proc' = "exit" /\ sock[c].attached /\ ~ep[c].on)
<1>1. /\ sock \in [Conns -> Sockets] /\ co \in [Conns -> Handlers]
      /\ sock[c] \in Sockets /\ co[c] \in Handlers
  BY DEF TypeOK
<1>2. /\ co' = [co EXCEPT ![c].life = "freed", ![c].at = "run"]
      /\ sock' = [sock EXCEPT ![c].attached = FALSE]
      /\ EpollDrop(c)
  BY DEF DestroyConnection
<1>3. /\ co' \in [Conns -> Handlers]
      /\ co'[c].life = "freed" /\ co'[c].at = "run" /\ co'[c].buf = co[c].buf
      /\ \A d \in Conns : d # c => co'[d] = co[d]
  BY <1>1, <1>2 DEF Handlers
<1>4. /\ sock' \in [Conns -> Sockets]
      /\ sock'[c].attached = FALSE
      /\ sock'[c].ioState = sock[c].ioState /\ sock'[c].closed = sock[c].closed
      /\ sock'[c].recv = sock[c].recv /\ sock'[c].send = sock[c].send
      /\ \A d \in Conns : d # c => sock'[d] = sock[d]
  BY <1>1, <1>2 DEF Sockets
<1>5. proc' = proc \/ (proc' = "exit" /\ sock[c].attached /\ ~ep[c].on)
  BY DEF DestroyConnection
<1> QED
  BY <1>2, <1>3, <1>4, <1>5, EpollDropEffect, ZenonT(60)

LEMMA AcceptEffect ==
  ASSUME TypeOK, NEW c \in Conns, Accept(c)
  PROVE  /\ net' \in [Conns -> Links] /\ co' \in [Conns -> Handlers]
         /\ thr' \in [Threads -> Activities]
         /\ net[c].peer = "none" /\ net'[c].peer = "open"
         /\ net'[c].rx = net[c].rx /\ net'[c].tx = net[c].tx
         /\ net'[c].sent = net[c].sent /\ net'[c].got = net[c].got
         /\ co'[c].life = "live" /\ co'[c].at = co[c].at /\ co'[c].buf = co[c].buf
         /\ thr'[c].pc = "read" /\ thr'[c].op = thr[c].op
         /\ \A u \in Threads : u # c => thr'[u] = thr[u]
         /\ \A d \in Conns : d # c => net'[d] = net[d] /\ co'[d] = co[d]
         /\ UNCHANGED <<ep, ready, sock, current, batch, size, is_shutdown_, proc>>
<1>1. /\ net \in [Conns -> Links] /\ co \in [Conns -> Handlers] /\ c \in Threads
      /\ thr \in [Threads -> Activities]
  BY DEF TypeOK, Threads
<1>2. /\ net' = [net EXCEPT ![c].peer = "open"] /\ co' = [co EXCEPT ![c].life = "live"]
      /\ thr' = [thr EXCEPT ![c].pc = "read"] /\ net[c].peer = "none"
      /\ UNCHANGED <<ep, ready, sock, current, batch, size, is_shutdown_, proc>>
  BY DEF Accept
<1>3. /\ net' \in [Conns -> Links] /\ net'[c].peer = "open"
      /\ net'[c].rx = net[c].rx /\ net'[c].tx = net[c].tx
      /\ net'[c].sent = net[c].sent /\ net'[c].got = net[c].got
      /\ \A d \in Conns : d # c => net'[d] = net[d]
  BY <1>1, <1>2 DEF Links
<1>4. /\ co' \in [Conns -> Handlers]
      /\ co'[c].life = "live" /\ co'[c].at = co[c].at /\ co'[c].buf = co[c].buf
      /\ \A d \in Conns : d # c => co'[d] = co[d]
  BY <1>1, <1>2 DEF Handlers
<1>5. /\ thr' \in [Threads -> Activities]
      /\ thr'[c].pc = "read" /\ thr'[c].op = thr[c].op
      /\ \A u \in Threads : u # c => thr'[u] = thr[u]
  BY <1>1, <1>2 DEF Activities
<1> QED
  BY <1>2, <1>3, <1>4, <1>5

(* A peer's step moves bytes or ends the stream.                           *)
PeerActs(c) == PeerSend(c) \/ PeerRecv(c) \/ PeerFin(c) \/ PeerReset(c)

LEMMA PeerEffect ==
  ASSUME TypeOK, NEW c \in Conns, Bounded(c), PeerActs(c)
  PROVE  /\ net' \in [Conns -> Links] /\ ready' \in Seq(Conns)
         /\ net[c].peer # "none" /\ net'[c].peer # "none"
         /\ net[c].peer = "rst" => net'[c].peer = "rst"
         /\ net'[c].peer # "rst" =>
              net'[c].sent - (net'[c].rx + net'[c].tx + net'[c].got)
                = net[c].sent - (net[c].rx + net[c].tx + net[c].got)
         /\ net'[c].sent - (net'[c].rx + net'[c].tx + net'[c].got)
              >= net[c].sent - (net[c].rx + net[c].tx + net[c].got)
         /\ \A d \in Conns : d # c => net'[d] = net[d]
         /\ \E events : Callback(c, events)
         /\ UNCHANGED <<ep, sock, co, thr, current, batch, size, is_shutdown_, proc>>
<1>1. /\ net \in [Conns -> Links] /\ net[c] \in Links /\ co[c].buf \in Nat
      /\ net[c].rx \in Nat /\ net[c].tx \in Nat /\ net[c].sent \in Nat /\ net[c].got \in Nat
  BY Fields DEF TypeOK
<1>2. net[c].rx + co[c].buf + net[c].tx + net[c].got <= net[c].sent
  BY DEF Bounded
<1>3. UNCHANGED <<ep, sock, co, thr, current, batch, size, is_shutdown_, proc>>
  BY DEF PeerActs, PeerSend, PeerRecv, PeerFin, PeerReset, PeerStep
<1>4. \E events : Callback(c, events)
  BY DEF PeerActs, PeerSend, PeerRecv, PeerFin, PeerReset
<1>5. ready' \in Seq(Conns)
  BY <1>4, EnlistEffect DEF Callback
<1> DEFINE Goal == /\ net' \in [Conns -> Links]
                   /\ net[c].peer # "none" /\ net'[c].peer # "none"
                   /\ net[c].peer = "rst" => net'[c].peer = "rst"
                   /\ net'[c].peer # "rst" =>
                        net'[c].sent - (net'[c].rx + net'[c].tx + net'[c].got)
                          = net[c].sent - (net[c].rx + net[c].tx + net[c].got)
                   /\ net'[c].sent - (net'[c].rx + net'[c].tx + net'[c].got)
                        >= net[c].sent - (net[c].rx + net[c].tx + net[c].got)
                   /\ \A d \in Conns : d # c => net'[d] = net[d]
<1>6. ASSUME PeerSend(c) PROVE Goal
  <2>1. /\ net' = [net EXCEPT ![c].sent = net[c].sent + 1, ![c].rx = net[c].rx + 1]
        /\ net[c].peer = "open" /\ net[c].sent < MsgLimit
    BY <1>6 DEF PeerSend
  <2>2. net[c].sent + 1 \in 0..MsgLimit /\ net[c].rx + 1 \in 0..MsgLimit
    BY <1>1, <1>2, <2>1, Sizes
  <2>3. /\ net' \in [Conns -> Links]
        /\ net'[c].sent = net[c].sent + 1 /\ net'[c].rx = net[c].rx + 1
        /\ net'[c].tx = net[c].tx /\ net'[c].got = net[c].got /\ net'[c].peer = net[c].peer
        /\ \A d \in Conns : d # c => net'[d] = net[d]
    BY <1>1, <2>1, <2>2 DEF Links
  <2> QED
    BY <1>1, <2>1, <2>3
<1>7. ASSUME PeerRecv(c) PROVE Goal
  <2>1. /\ net' = [net EXCEPT ![c].tx = net[c].tx - 1, ![c].got = net[c].got + 1]
        /\ net[c].peer \in {"open", "fin"} /\ net[c].tx > 0
    BY <1>7 DEF PeerRecv
  <2>2. net[c].tx - 1 \in 0..SndBuf /\ net[c].got + 1 \in 0..MsgLimit
    BY <1>1, <1>2, <2>1, Sizes DEF Links
  <2>3. /\ net' \in [Conns -> Links]
        /\ net'[c].tx = net[c].tx - 1 /\ net'[c].got = net[c].got + 1
        /\ net'[c].rx = net[c].rx /\ net'[c].sent = net[c].sent /\ net'[c].peer = net[c].peer
        /\ \A d \in Conns : d # c => net'[d] = net[d]
    BY <1>1, <2>1, <2>2 DEF Links
  <2> QED
    BY <1>1, <2>1, <2>3
<1>8. ASSUME PeerFin(c) PROVE Goal
  <2>1. net' = [net EXCEPT ![c].peer = "fin"] /\ net[c].peer = "open"
    BY <1>8 DEF PeerFin
  <2>2. /\ net' \in [Conns -> Links]
        /\ net'[c].tx = net[c].tx /\ net'[c].got = net[c].got
        /\ net'[c].rx = net[c].rx /\ net'[c].sent = net[c].sent /\ net'[c].peer = "fin"
        /\ \A d \in Conns : d # c => net'[d] = net[d]
    BY <1>1, <2>1 DEF Links
  <2> QED
    BY <1>1, <2>1, <2>2
<1>9. ASSUME PeerReset(c) PROVE Goal
  <2> DEFINE pending == (net[c].peer = "open")
  <2>1. /\ net' = [net EXCEPT ![c].err = pending, ![c].peer = "rst", ![c].tx = 0]
        /\ net[c].peer \in {"open", "fin"}
    BY <1>9 DEF PeerReset
  <2>2. pending \in BOOLEAN
    BY Zenon
  <2> HIDE DEF pending
  <2>3. 0 \in 0..SndBuf
    BY Sizes
  <2>4. /\ net' \in [Conns -> Links]
        /\ net'[c].tx = 0 /\ net'[c].got = net[c].got
        /\ net'[c].rx = net[c].rx /\ net'[c].sent = net[c].sent /\ net'[c].peer = "rst"
        /\ \A d \in Conns : d # c => net'[d] = net[d]
    BY <1>1, <2>1, <2>2, <2>3 DEF Links
  <2> QED
    BY <1>1, <2>1, <2>4
<1> QED
  BY <1>3, <1>4, <1>5, <1>6, <1>7, <1>8, <1>9 DEF PeerActs

-----------------------------------------------------------------------------
(* A step of a thread inside a coroutine touches that coroutine's          *)
(* connection and that thread only.                                        *)
OthersKept(th, c) ==
  /\ \A u \in Threads : u # th => thr'[u] = thr[u]
  /\ \A d \in Conns : d # c => /\ net'[d] = net[d] /\ ep'[d] = ep[d]
                               /\ sock'[d] = sock[d] /\ co'[d] = co[d]
  /\ UNCHANGED <<current, batch, size, is_shutdown_>>

(* Nothing but the thread's place and, where the action says so, the bytes *)
(* of the connection changes.                                              *)
SocketKept == UNCHANGED <<ep, ready, sock>>

BytesKept(c) ==
  /\ net'[c].peer = net[c].peer /\ net'[c].rx = net[c].rx /\ net'[c].tx = net[c].tx
  /\ net'[c].sent = net[c].sent /\ net'[c].got = net[c].got

HandlerKept(c) ==
  co'[c].at = co[c].at /\ co'[c].life = co[c].life /\ co'[c].buf = co[c].buf

LEMMA RunsType ==
  ASSUME TypeOK, NEW th \in Threads
  PROVE  Runs(th) \in Conns
  BY DEF TypeOK, Runs, Threads

(* ReadReady and ReadAgain: data, the end of the stream, a new attempt, or *)
(* suspension.                                                             *)
GotData(th, c) ==
  /\ thr'[th].pc = "write" /\ thr'[th].op = thr[th].op
  /\ ~sock[c].closed
  /\ net'[c].rx \in Nat /\ co'[c].buf \in Nat /\ net'[c].rx + co'[c].buf = net[c].rx
  /\ net'[c].peer = net[c].peer /\ net'[c].tx = net[c].tx
  /\ net'[c].sent = net[c].sent /\ net'[c].got = net[c].got
  /\ co'[c].at = co[c].at /\ co'[c].life = co[c].life

ReadOver(th, c) ==
  /\ thr'[th].pc = "end" \/ (thr'[th].pc = "read" /\ ~sock[c].closed /\ thr[th].pc = "again")
  /\ thr'[th].op = thr[th].op
  /\ BytesKept(c) /\ HandlerKept(c)

Suspended(th, c, point, method) ==
  /\ thr'[th].pc = "enter" /\ thr'[th].op = method
  /\ BytesKept(c)
  /\ co'[c].at = point /\ co'[c].buf = co[c].buf /\ co'[c].life = co[c].life

TypeKept ==
  /\ net' \in [Conns -> Links] /\ co' \in [Conns -> Handlers]
  /\ thr' \in [Threads -> Activities]

LEMMA ReadReadyEffect ==
  ASSUME TypeOK, NEW th \in Threads, NEW c \in Conns, c = Runs(th), ReadReady(th)
  PROVE  /\ thr[th].pc = "read" /\ TypeKept /\ SocketKept /\ OthersKept(th, c) /\ proc' = proc
         /\ \/ GotData(th, c)
            \/ ReadOver(th, c)
            \/ ~sock[c].closed /\ Suspended(th, c, "recv", "AddRecv")
<1>1. /\ thr[th].pc = "read"
      /\ UNCHANGED <<ep, ready, sock, current, batch, size, is_shutdown_, proc>>
  BY DEF ReadReady, At
<1>2. CASE ~sock[c].closed /\ ReadData(th, c)
  BY <1>1, <1>2, ReadDataEffect DEF GotData, TypeKept, SocketKept, OthersKept
<1>3. CASE Goto(th, "end") /\ UNCHANGED <<net, co>>
  <2>1. /\ thr' \in [Threads -> Activities]
        /\ thr'[th].pc = "end" /\ thr'[th].op = thr[th].op
        /\ \A u \in Threads : u # th => thr'[u] = thr[u]
    BY <1>3, GotoEffect
  <2>2. net' \in [Conns -> Links] /\ co' \in [Conns -> Handlers]
    BY <1>3 DEF TypeOK
  <2> QED
    BY <1>1, <1>3, <2>1, <2>2
       DEF ReadOver, TypeKept, SocketKept, OthersKept, BytesKept, HandlerKept
<1>4. CASE /\ ~sock[c].closed /\ net' = [net EXCEPT ![c].err = FALSE]
           /\ Suspend(th, c, "recv", "AddRecv")
  <2>1. "AddRecv" \in Methods
    BY DEF Methods, Adds
  <2>2. /\ thr' \in [Threads -> Activities] /\ co' \in [Conns -> Handlers]
        /\ thr'[th].pc = "enter" /\ thr'[th].op = "AddRecv"
        /\ \A u \in Threads : u # th => thr'[u] = thr[u]
        /\ co'[c].at = "recv" /\ co'[c].buf = co[c].buf /\ co'[c].life = co[c].life
        /\ \A d \in Conns : d # c => co'[d] = co[d]
    BY <1>4, <2>1, SuspendEffect
  <2> QED
    BY <1>1, <1>4, <2>2, ErrorRead
       DEF Suspended, TypeKept, SocketKept, OthersKept, BytesKept
<1> QED
  BY <1>1, <1>2, <1>3, <1>4 DEF ReadReady

LEMMA ReadAgainEffect ==
  ASSUME TypeOK, NEW th \in Threads, NEW c \in Conns, c = Runs(th), ReadAgain(th)
  PROVE  /\ thr[th].pc = "again" /\ thr[th].op = "DelRecv"
         /\ TypeKept /\ SocketKept /\ OthersKept(th, c) /\ proc' = proc
         /\ GotData(th, c) \/ ReadOver(th, c)
<1>1. /\ thr[th].pc = "again" /\ thr[th].op = "DelRecv"
      /\ UNCHANGED <<ep, ready, sock, current, batch, size, is_shutdown_, proc>>
  BY DEF ReadAgain, At
<1>2. CASE ~sock[c].closed /\ ReadData(th, c)
  BY <1>1, <1>2, ReadDataEffect DEF GotData, TypeKept, SocketKept, OthersKept
<1>3. CASE /\ Goto(th, IF net[c].peer = "open" /\ ~sock[c].closed THEN "read" ELSE "end")
           /\ net' = [net EXCEPT ![c].err = FALSE] /\ UNCHANGED co
  <2>1. /\ thr' \in [Threads -> Activities]
        /\ thr'[th].pc = "end" \/ (thr'[th].pc = "read" /\ ~sock[c].closed)
        /\ thr'[th].op = thr[th].op
        /\ \A u \in Threads : u # th => thr'[u] = thr[u]
    BY <1>3, GotoEffect
  <2>2. co' \in [Conns -> Handlers]
    BY <1>3 DEF TypeOK
  <2> QED
    BY <1>1, <1>3, <2>1, <2>2, ErrorRead
       DEF ReadOver, TypeKept, SocketKept, OthersKept, BytesKept, HandlerKept
<1> QED
  BY <1>1, <1>2, <1>3 DEF ReadAgain

(* WriteReady and WriteAgain: bytes sent, an error that ends AsyncWrite,   *)
(* a new attempt, SIGPIPE, or suspension.                                  *)
SentData(th, c) ==
  /\ thr'[th].pc \in {"read", "write"} /\ thr'[th].op = thr[th].op
  /\ thr'[th].pc = "read" => co'[c].buf = 0
  /\ net'[c].tx \in Nat /\ co'[c].buf \in Nat
  /\ net'[c].tx + co'[c].buf = net[c].tx + co[c].buf
  /\ net'[c].peer = net[c].peer /\ net'[c].rx = net[c].rx
  /\ net'[c].sent = net[c].sent /\ net'[c].got = net[c].got
  /\ co'[c].at = co[c].at /\ co'[c].life = co[c].life
  /\ proc' = proc

WriteOver(th, c) ==
  /\ thr'[th].pc = "read" /\ thr'[th].op = thr[th].op
  /\ sock[c].closed \/ net[c].peer = "rst"
  /\ BytesKept(c)
  /\ co'[c].at = co[c].at /\ co'[c].life = co[c].life /\ co'[c].buf = 0
  /\ proc' = proc

WriteRetry(th, c) ==
  /\ thr'[th].pc = "write" /\ thr'[th].op = thr[th].op
  /\ BytesKept(c) /\ HandlerKept(c)
  /\ proc' = proc

Killed(c) == proc' = "sigpipe" /\ UNCHANGED <<net, co, thr>>

LEMMA WriteOverEffect ==
  ASSUME TypeOK, NEW th \in Threads, NEW c \in Conns,
         sock[c].closed \/ net[c].peer = "rst",
         UNCHANGED net \/ net' = [net EXCEPT ![c].err = FALSE],
         co' = [co EXCEPT ![c].buf = 0], Goto(th, "read"), proc' = proc,
         UNCHANGED <<ep, ready, sock, current, batch, size, is_shutdown_>>
  PROVE  TypeKept /\ OthersKept(th, c) /\ WriteOver(th, c)
<1>1. /\ net' \in [Conns -> Links] /\ BytesKept(c)
      /\ \A d \in Conns : d # c => net'[d] = net[d]
  BY ErrorRead DEF BytesKept, TypeOK
<1>z. 0 \in 0..BufSize
  BY Sizes
<1>2. co \in [Conns -> Handlers]
  BY DEF TypeOK
<1>3. /\ co' \in [Conns -> Handlers]
      /\ co'[c].buf = 0 /\ co'[c].at = co[c].at /\ co'[c].life = co[c].life
      /\ \A d \in Conns : d # c => co'[d] = co[d]
  BY <1>2, <1>z DEF Handlers
<1>4. /\ thr' \in [Threads -> Activities]
      /\ thr'[th].pc = "read" /\ thr'[th].op = thr[th].op
      /\ \A u \in Threads : u # th => thr'[u] = thr[u]
  BY GotoEffect
<1> QED
  BY <1>1, <1>3, <1>4 DEF TypeKept, OthersKept, WriteOver

LEMMA KilledEffect ==
  ASSUME TypeOK, NEW th \in Threads, NEW c \in Conns, WritePipe(c),
         UNCHANGED <<ep, ready, sock, current, batch, size, is_shutdown_>>
  PROVE  TypeKept /\ OthersKept(th, c) /\ Killed(c)
  BY DEF WritePipe, Killed, TypeKept, OthersKept, TypeOK

LEMMA SentEffect ==
  ASSUME TypeOK, NEW th \in Threads, NEW c \in Conns, WriteData(th, c),
         UNCHANGED <<ep, ready, sock, current, batch, size, is_shutdown_>>
  PROVE  TypeKept /\ OthersKept(th, c) /\ SentData(th, c)
  BY WriteDataEffect DEF SentData, TypeKept, OthersKept

LEMMA WriteReadyEffect ==
  ASSUME TypeOK, NEW th \in Threads, NEW c \in Conns, c = Runs(th), WriteReady(th)
  PROVE  /\ thr[th].pc = "write" /\ TypeKept /\ SocketKept /\ OthersKept(th, c)
         /\ \/ SentData(th, c) \/ WriteOver(th, c) \/ Killed(c)
            \/ ~sock[c].closed /\ Suspended(th, c, "send", "AddSend") /\ proc' = proc
<1>1. thr[th].pc = "write"
  BY DEF WriteReady, At
<1>2. UNCHANGED <<ep, ready, sock, current, batch, size, is_shutdown_>> /\ SocketKept
  BY DEF WriteReady, SocketKept
<1>3. CASE ~sock[c].closed /\ WriteData(th, c)
  BY <1>1, <1>2, <1>3, SentEffect
<1>4. CASE ~sock[c].closed /\ WritePipe(c)
  BY <1>1, <1>2, <1>4, KilledEffect
<1>5. CASE /\ ~sock[c].closed /\ net' = [net EXCEPT ![c].err = FALSE]
           /\ Suspend(th, c, "send", "AddSend") /\ UNCHANGED proc
  <2>1. "AddSend" \in Methods
    BY DEF Methods, Adds
  <2>2. /\ thr' \in [Threads -> Activities] /\ co' \in [Conns -> Handlers]
        /\ thr'[th].pc = "enter" /\ thr'[th].op = "AddSend"
        /\ \A u \in Threads : u # th => thr'[u] = thr[u]
        /\ co'[c].at = "send" /\ co'[c].buf = co[c].buf /\ co'[c].life = co[c].life
        /\ \A d \in Conns : d # c => co'[d] = co[d]
    BY <1>5, <2>1, SuspendEffect
  <2> QED
    BY <1>1, <1>2, <1>5, <2>2, ErrorRead DEF Suspended, TypeKept, OthersKept, BytesKept
<1>6. CASE /\ sock[c].closed /\ co' = [co EXCEPT ![c].buf = 0] /\ Goto(th, "read")
           /\ UNCHANGED <<net, proc>>
  BY <1>1, <1>2, <1>6, WriteOverEffect
<1> QED
  BY <1>3, <1>4, <1>5, <1>6 DEF WriteReady

LEMMA WriteAgainEffect ==
  ASSUME TypeOK, NEW th \in Threads, NEW c \in Conns, c = Runs(th), WriteAgain(th)
  PROVE  /\ thr[th].pc = "again" /\ thr[th].op = "DelSend"
         /\ TypeKept /\ SocketKept /\ OthersKept(th, c)
         /\ SentData(th, c) \/ WriteOver(th, c) \/ WriteRetry(th, c) \/ Killed(c)
<1>1. thr[th].pc = "again" /\ thr[th].op = "DelSend"
  BY DEF WriteAgain, At
<1>2. UNCHANGED <<ep, ready, sock, current, batch, size, is_shutdown_>> /\ SocketKept
  BY DEF WriteAgain, SocketKept
<1>3. CASE ~sock[c].closed /\ WriteData(th, c)
  BY <1>1, <1>2, <1>3, SentEffect
<1>4. CASE ~sock[c].closed /\ WritePipe(c)
  BY <1>1, <1>2, <1>4, KilledEffect
<1>5. CASE Goto(th, "write") /\ UNCHANGED <<net, co, proc>>
  <2>1. /\ thr' \in [Threads -> Activities]
        /\ thr'[th].pc = "write" /\ thr'[th].op = thr[th].op
        /\ \A u \in Threads : u # th => thr'[u] = thr[u]
    BY <1>5, GotoEffect
  <2>2. net' \in [Conns -> Links] /\ co' \in [Conns -> Handlers]
    BY <1>5 DEF TypeOK
  <2> QED
    BY <1>1, <1>2, <1>5, <2>1, <2>2
       DEF WriteRetry, TypeKept, OthersKept, BytesKept, HandlerKept
<1>6. CASE /\ sock[c].closed \/ (net[c].peer = "rst" /\ net[c].err)
           /\ net' = [net EXCEPT ![c].err = FALSE] /\ co' = [co EXCEPT ![c].buf = 0]
           /\ Goto(th, "read") /\ UNCHANGED proc
  BY <1>1, <1>2, <1>6, WriteOverEffect
<1> QED
  BY <1>3, <1>4, <1>5, <1>6 DEF WriteAgain

(* AddRecv, DelRecv, AddSend and DelSend.                                  *)
StoredKept(c) ==
  /\ sock'[c].recv = sock[c].recv /\ sock'[c].send = sock[c].send
  /\ sock'[c].closed = sock[c].closed

Skipped(th, c) ==
  /\ UNCHANGED <<ep, ready, sock>>
  /\ \/ sock[c].closed /\ thr'[th].pc = IF thr[th].op \in Adds THEN Left(th) ELSE "read"
     \/ ~sock[c].closed /\ is_shutdown_ /\ thr'[th].pc = After(th)

Entered(th, c) ==
  /\ ~sock[c].closed /\ ~is_shutdown_ /\ thr'[th].pc = "coro"
  /\ \/ UNCHANGED <<ep, ready, sock>> /\ (thr[th].op \notin Adds \/ sock[c].attached)
     \/ /\ thr[th].op \in Adds /\ ~sock[c].attached
        /\ sock'[c].ioState = {Event(thr[th].op)} /\ sock'[c].attached = TRUE
        /\ StoredKept(c)
        /\ EpollSet(c, {Event(thr[th].op)})

LEMMA MethodFacts ==
  ASSUME TypeOK, NEW th \in Threads
  PROVE  /\ thr[th] \in Activities /\ thr[th].op \in Methods /\ thr[th].new \in SUBSET {"IN", "OUT"}
         /\ Event(thr[th].op) \in {"IN", "OUT"}
         /\ Left(th) = (IF th = Reactor THEN "loop" ELSE "leave")
         /\ After(th) = (IF thr[th].op \in Adds THEN Left(th) ELSE "again")
<1>1. thr[th] \in Activities
  BY DEF TypeOK
<1> QED
  BY <1>1 DEF Activities, Event, Left, After

LEMMA EnterEffect ==
  ASSUME TypeOK, NEW th \in Threads, NEW c \in Conns, c = Runs(th), Enter(th)
  PROVE  /\ thr[th].pc = "enter" /\ thr'[th].op = thr[th].op
         /\ thr' \in [Threads -> Activities] /\ sock' \in [Conns -> Sockets]
         /\ ep' \in [Conns -> Interests] /\ ready' \in Seq(Conns)
         /\ OthersKept(th, c) /\ UNCHANGED <<net, co, proc>>
         /\ Skipped(th, c) \/ Entered(th, c)
<1> DEFINE m == thr[th].op
<1>1. thr[th].pc = "enter" /\ UNCHANGED <<net, co, current, batch, size, is_shutdown_, proc>>
  BY DEF Enter, At
<1>t. ep \in [Conns -> Interests] /\ sock \in [Conns -> Sockets] /\ ready \in Seq(Conns)
  BY DEF TypeOK
<1>2. CASE sock[c].closed /\ Goto(th, IF m \in Adds THEN Left(th) ELSE "read")
           /\ UNCHANGED <<ep, ready, sock>>
  <2>1. /\ thr' \in [Threads -> Activities] /\ thr'[th].op = m
        /\ thr'[th].pc = IF m \in Adds THEN Left(th) ELSE "read"
        /\ \A u \in Threads : u # th => thr'[u] = thr[u]
    BY <1>2, GotoEffect, MethodFacts
  <2> QED
    BY <1>1, <1>t, <1>2, <2>1 DEF Skipped, OthersKept
<1>3. CASE ~sock[c].closed /\ is_shutdown_ /\ Goto(th, After(th)) /\ UNCHANGED <<ep, ready, sock>>
  <2>1. /\ thr' \in [Threads -> Activities] /\ thr'[th].op = m
        /\ thr'[th].pc = After(th)
        /\ \A u \in Threads : u # th => thr'[u] = thr[u]
    BY <1>3, GotoEffect, MethodFacts
  <2> QED
    BY <1>1, <1>t, <1>3, <2>1 DEF Skipped, OthersKept
<1>4. CASE /\ ~sock[c].closed /\ ~is_shutdown_ /\ Goto(th, "coro")
           /\ ~(m \in Adds /\ ~sock[c].attached) /\ UNCHANGED <<ep, ready, sock>>
  <2>1. /\ thr' \in [Threads -> Activities] /\ thr'[th].op = m
        /\ thr'[th].pc = "coro"
        /\ \A u \in Threads : u # th => thr'[u] = thr[u]
    BY <1>4, GotoEffect
  <2> QED
    BY <1>1, <1>t, <1>4, <2>1 DEF Entered, OthersKept
<1>5. CASE /\ ~sock[c].closed /\ ~is_shutdown_ /\ Goto(th, "coro")
           /\ m \in Adds /\ ~sock[c].attached
           /\ sock' = [sock EXCEPT ![c].ioState = {Event(m)}, ![c].attached = TRUE]
           /\ EpollSet(c, {Event(m)})
  <2>1. /\ thr' \in [Threads -> Activities] /\ thr'[th].op = m
        /\ thr'[th].pc = "coro"
        /\ \A u \in Threads : u # th => thr'[u] = thr[u]
    BY <1>5, GotoEffect
  <2> DEFINE e == {Event(m)}
  <2>2. e \in SUBSET {"IN", "OUT"}
    BY MethodFacts
  <2>3. sock' = [sock EXCEPT ![c].ioState = e, ![c].attached = TRUE] /\ EpollSet(c, e)
    BY <1>5
  <2> HIDE DEF e
  <2>4. /\ ready' \in Seq(Conns) /\ ep' \in [Conns -> Interests]
        /\ \A d \in Conns : d # c => ep'[d] = ep[d]
    BY <2>2, <2>3, EpollSetEffect
  <2>5. /\ sock' \in [Conns -> Sockets]
        /\ sock'[c].ioState = e /\ sock'[c].attached = TRUE
        /\ sock'[c].recv = sock[c].recv /\ sock'[c].send = sock[c].send
        /\ sock'[c].closed = sock[c].closed
        /\ \A d \in Conns : d # c => sock'[d] = sock[d]
    BY <1>t, <2>2, <2>3, ZenonT(60) DEF Sockets
  <2> QED
    BY <1>1, <1>5, <2>1, <2>3, <2>4, <2>5 DEF Entered, OthersKept, StoredKept, e
<1> QED
  BY <1>2, <1>3, <1>4, <1>5 DEF Enter

LEMMA SetCoroEffect ==
  ASSUME TypeOK, NEW th \in Threads, NEW c \in Conns, c = Runs(th), SetCoro(th)
  PROVE  /\ thr[th].pc = "coro" /\ thr'[th].pc = "load" /\ thr'[th].op = thr[th].op
         /\ thr' \in [Threads -> Activities] /\ sock' \in [Conns -> Sockets]
         /\ OthersKept(th, c) /\ UNCHANGED <<net, ep, ready, co, proc>>
         /\ sock'[c].closed = sock[c].closed /\ sock'[c].attached = sock[c].attached
         /\ sock'[c].ioState = sock[c].ioState
         /\ IF Event(thr[th].op) = "IN"
              THEN (sock'[c].recv <=> thr[th].op \in Adds) /\ sock'[c].send = sock[c].send
              ELSE (sock'[c].send <=> thr[th].op \in Adds) /\ sock'[c].recv = sock[c].recv
<1> DEFINE b == thr[th].op \in Adds
<1>1. b \in BOOLEAN
  OBVIOUS
<1>2. /\ thr[th].pc = "coro" /\ Goto(th, "load")
      /\ sock' = IF Event(thr[th].op) = "IN" THEN [sock EXCEPT ![c].recv = b]
                                             ELSE [sock EXCEPT ![c].send = b]
      /\ UNCHANGED <<net, ep, ready, co, current, batch, size, is_shutdown_, proc>>
  BY DEF SetCoro, At
<1> HIDE DEF b
<1>3. sock \in [Conns -> Sockets]
  BY DEF TypeOK
<1>4. /\ sock' \in [Conns -> Sockets]
      /\ sock'[c].closed = sock[c].closed /\ sock'[c].attached = sock[c].attached
      /\ sock'[c].ioState = sock[c].ioState
      /\ \A d \in Conns : d # c => sock'[d] = sock[d]
      /\ IF Event(thr[th].op) = "IN"
           THEN sock'[c].recv = b /\ sock'[c].send = sock[c].send
           ELSE sock'[c].send = b /\ sock'[c].recv = sock[c].recv
  <2>1. CASE Event(thr[th].op) = "IN"
    BY <1>1, <1>2, <1>3, <2>1 DEF Sockets
  <2>2. CASE Event(thr[th].op) # "IN"
    BY <1>1, <1>2, <1>3, <2>2 DEF Sockets
  <2> QED
    BY <2>1, <2>2
<1>5. /\ thr' \in [Threads -> Activities]
      /\ thr'[th].pc = "load" /\ thr'[th].op = thr[th].op
      /\ \A u \in Threads : u # th => thr'[u] = thr[u]
  BY <1>2, GotoEffect
<1>6. IF Event(thr[th].op) = "IN"
        THEN (sock'[c].recv <=> thr[th].op \in Adds) /\ sock'[c].send = sock[c].send
        ELSE (sock'[c].send <=> thr[th].op \in Adds) /\ sock'[c].recv = sock[c].recv
  BY <1>4 DEF b
<1>7. OthersKept(th, c)
  BY <1>2, <1>4, <1>5 DEF OthersKept
<1> QED
  BY <1>2, <1>4, <1>5, <1>6, <1>7

LEMMA NewIOStateEffect ==
  ASSUME TypeOK, NEW th \in Threads, NEW c \in Conns, c = Runs(th), NewIOState(th)
  PROVE  /\ thr[th].pc = "load" /\ thr'[th].pc = "store" /\ thr'[th].op = thr[th].op
         /\ thr' \in [Threads -> Activities]
         /\ OthersKept(th, c) /\ UNCHANGED <<net, ep, ready, sock, co, proc>>
         /\ thr'[th].new = IF thr[th].op \in Adds
                             THEN sock[c].ioState \cup {Event(thr[th].op)}
                             ELSE sock[c].ioState \ {Event(thr[th].op)}
<1> DEFINE s == IF thr[th].op \in Adds THEN sock[c].ioState \cup {Event(thr[th].op)}
                                       ELSE sock[c].ioState \ {Event(thr[th].op)}
<1>1. ChangeIOState(th, s)
  BY DEF NewIOState
<1>2. s \in SUBSET {"IN", "OUT"}
  <2>1. sock[c].ioState \in SUBSET {"IN", "OUT"}
    BY DEF TypeOK, Sockets
  <2> QED
    BY <2>1, MethodFacts
<1>3. thr \in [Threads -> Activities]
  BY DEF TypeOK
<1> HIDE DEF s
<1>4. /\ thr[th].pc = "load"
      /\ thr' = [thr EXCEPT ![th].new = s, ![th].pc = "store"]
      /\ UNCHANGED <<net, ep, ready, sock, co, current, batch, size, is_shutdown_, proc>>
  BY <1>1 DEF ChangeIOState, At
<1>5. /\ thr' \in [Threads -> Activities] /\ thr'[th].pc = "store" /\ thr'[th].op = thr[th].op
      /\ thr'[th].new = s
      /\ \A u \in Threads : u # th => thr'[u] = thr[u]
  BY <1>2, <1>3, <1>4 DEF Activities
<1>6. OthersKept(th, c)
  BY <1>4, <1>5 DEF OthersKept
<1> QED
  BY <1>4, <1>5, <1>6 DEF s

LEMMA SetIOStateEffect ==
  ASSUME TypeOK, NEW th \in Threads, NEW c \in Conns, c = Runs(th), SetIOState(th)
  PROVE  /\ thr[th].pc = "store" /\ thr'[th].pc = "ctl" /\ thr'[th].op = thr[th].op
         /\ thr'[th].new = thr[th].new
         /\ thr' \in [Threads -> Activities] /\ sock' \in [Conns -> Sockets]
         /\ OthersKept(th, c) /\ UNCHANGED <<net, ep, ready, co, proc>>
         /\ StoredKept(c) /\ sock'[c].attached = sock[c].attached
         /\ sock'[c].ioState = thr[th].new
<1>1. /\ thr[th].pc = "store" /\ Goto(th, "ctl")
      /\ sock' = [sock EXCEPT ![c].ioState = thr[th].new]
      /\ UNCHANGED <<net, ep, ready, co, current, batch, size, is_shutdown_, proc>>
  BY DEF SetIOState, At
<1>2. sock \in [Conns -> Sockets]
  BY DEF TypeOK
<1>3. thr[th].new \in SUBSET {"IN", "OUT"}
  BY MethodFacts
<1>4. /\ sock' \in [Conns -> Sockets] /\ sock'[c].ioState = thr[th].new
      /\ sock'[c].closed = sock[c].closed /\ sock'[c].attached = sock[c].attached
      /\ sock'[c].recv = sock[c].recv /\ sock'[c].send = sock[c].send
      /\ \A d \in Conns : d # c => sock'[d] = sock[d]
  BY <1>1, <1>2, <1>3 DEF Sockets
<1>5. /\ thr' \in [Threads -> Activities] /\ thr'[th].pc = "ctl" /\ thr'[th].op = thr[th].op
      /\ thr'[th].new = thr[th].new
      /\ \A u \in Threads : u # th => thr'[u] = thr[u]
  BY <1>1, GotoEffect
<1> QED
  BY <1>1, <1>4, <1>5 DEF OthersKept, StoredKept

LEMMA UpdateEventEffect ==
  ASSUME TypeOK, NEW th \in Threads, NEW c \in Conns, c = Runs(th), UpdateEvent(th)
  PROVE  /\ thr[th].pc = "ctl" /\ thr'[th].op = thr[th].op
         /\ thr' \in [Threads -> Activities] /\ ep' \in [Conns -> Interests]
         /\ ready' \in Seq(Conns)
         /\ OthersKept(th, c) /\ UNCHANGED <<net, sock, co>>
         /\ \/ /\ ep[c].on /\ thr'[th].pc = After(th) /\ proc' = proc
               /\ EpollSet(c, thr[th].new)
            \/ ~ep[c].on /\ proc' = "exit" /\ UNCHANGED <<ep, ready, thr>>
<1>1. thr[th].pc = "ctl" /\ UNCHANGED <<net, sock, co, current, batch, size, is_shutdown_>>
  BY DEF UpdateEvent, At
<1>2. CASE ep[c].on /\ EpollSet(c, thr[th].new) /\ Goto(th, After(th)) /\ UNCHANGED proc
  <2>1. /\ ready' \in Seq(Conns) /\ ep' \in [Conns -> Interests]
        /\ \A d \in Conns : d # c => ep'[d] = ep[d]
    BY <1>2, EpollSetEffect, MethodFacts
  <2>2. /\ thr' \in [Threads -> Activities] /\ thr'[th].pc = After(th)
        /\ thr'[th].op = thr[th].op
        /\ \A u \in Threads : u # th => thr'[u] = thr[u]
    BY <1>2, GotoEffect, MethodFacts
  <2> QED
    BY <1>1, <1>2, <2>1, <2>2 DEF OthersKept
<1>3. CASE ~ep[c].on /\ proc' = "exit" /\ UNCHANGED <<ep, ready, thr>>
  BY <1>1, <1>3 DEF OthersKept, TypeOK
<1> QED
  BY <1>2, <1>3 DEF UpdateEvent

(* The end of a connection.                                                *)
Destroyed(c) ==
  /\ EpollDrop(c)
  /\ ep'[c].on = FALSE /\ ep'[c].mask = {} /\ sock'[c].attached = FALSE
  /\ sock'[c].ioState = sock[c].ioState /\ StoredKept(c)
  /\ co'[c].life = "freed" /\ co'[c].at = "run" /\ co'[c].buf = co[c].buf
  /\ proc' = proc \/ (proc' = "exit" /\ sock[c].attached /\ ~ep[c].on)

EndKept ==
  /\ thr' \in [Threads -> Activities] /\ ep' \in [Conns -> Interests]
  /\ sock' \in [Conns -> Sockets] /\ co' \in [Conns -> Handlers] /\ ready' \in Seq(Conns)

LEMMA DestroyedEffect ==
  ASSUME TypeOK, NEW c \in Conns, DestroyConnection(c)
  PROVE  /\ Destroyed(c)
         /\ ep' \in [Conns -> Interests] /\ ready' \in Seq(Conns)
         /\ sock' \in [Conns -> Sockets] /\ co' \in [Conns -> Handlers]
         /\ \A d \in Conns : d # c => ep'[d] = ep[d] /\ sock'[d] = sock[d] /\ co'[d] = co[d]
<1>1. EpollDrop(c)
  BY DEF DestroyConnection
<1> QED
  BY <1>1, DestroyEffect DEF Destroyed, StoredKept

LEMMA HandlerEndEffect ==
  ASSUME TypeOK, NEW th \in Threads, NEW c \in Conns, c = Runs(th), HandlerEnd(th)
  PROVE  /\ thr[th].pc = "end" /\ thr'[th].op = thr[th].op
         /\ thr'[th].pc = IF th = Reactor THEN "loop" ELSE "gone"
         /\ EndKept /\ OthersKept(th, c) /\ UNCHANGED net
         /\ \/ /\ th = Reactor /\ thr[c].pc # "gone"
               /\ co'[c].life = "done" /\ co'[c].at = co[c].at /\ co'[c].buf = co[c].buf
               /\ UNCHANGED <<sock, ep, ready, proc>>
            \/ (th # Reactor \/ thr[c].pc = "gone") /\ Destroyed(c)
<1>1. /\ thr[th].pc = "end" /\ Goto(th, IF th = Reactor THEN "loop" ELSE "gone")
      /\ UNCHANGED <<net, current, batch, size, is_shutdown_>>
  BY DEF HandlerEnd, At
<1>2. /\ thr' \in [Threads -> Activities] /\ thr'[th].op = thr[th].op
      /\ thr'[th].pc = IF th = Reactor THEN "loop" ELSE "gone"
      /\ \A u \in Threads : u # th => thr'[u] = thr[u]
  BY <1>1, GotoEffect
<1>3. CASE /\ th = Reactor /\ thr[c].pc # "gone"
           /\ co' = [co EXCEPT ![c].life = "done"] /\ UNCHANGED <<sock, ep, ready, proc>>
  <2>1. co \in [Conns -> Handlers]
    BY DEF TypeOK
  <2>2. /\ co' \in [Conns -> Handlers]
        /\ co'[c].life = "done" /\ co'[c].at = co[c].at /\ co'[c].buf = co[c].buf
        /\ \A d \in Conns : d # c => co'[d] = co[d]
    BY <1>3, <2>1 DEF Handlers
  <2>3. /\ ep' \in [Conns -> Interests] /\ sock' \in [Conns -> Sockets] /\ ready' \in Seq(Conns)
    BY <1>3 DEF TypeOK
  <2> QED
    BY <1>1, <1>2, <1>3, <2>2, <2>3 DEF EndKept, OthersKept
<1>4. CASE (th # Reactor \/ thr[c].pc = "gone") /\ DestroyConnection(c)
  BY <1>1, <1>2, <1>4, DestroyedEffect DEF EndKept, OthersKept
<1> QED
  BY <1>3, <1>4 DEF HandlerEnd

LEMMA WorkerLeaveEffect ==
  ASSUME TypeOK, NEW c \in Conns, WorkerLeave(c)
  PROVE  /\ thr[c].pc = "leave" /\ thr'[c].op = thr[c].op /\ thr'[c].pc = "gone"
         /\ EndKept /\ OthersKept(c, c) /\ UNCHANGED net
         /\ \/ co[c].life # "done" /\ UNCHANGED <<co, sock, ep, ready, proc>>
            \/ co[c].life = "done" /\ Destroyed(c)
<1>1. /\ thr[c].pc = "leave" /\ Goto(c, "gone")
      /\ UNCHANGED <<net, current, batch, size, is_shutdown_>>
  BY DEF WorkerLeave, At
<1>2. /\ thr' \in [Threads -> Activities] /\ thr'[c].op = thr[c].op /\ thr'[c].pc = "gone"
      /\ \A u \in Threads : u # c => thr'[u] = thr[u]
  BY <1>1, GotoEffect, Fields
<1>3. CASE co[c].life # "done" /\ UNCHANGED <<co, sock, ep, ready, proc>>
  <2>1. /\ ep' \in [Conns -> Interests] /\ sock' \in [Conns -> Sockets]
        /\ co' \in [Conns -> Handlers] /\ ready' \in Seq(Conns)
    BY <1>3 DEF TypeOK
  <2> QED
    BY <1>1, <1>2, <1>3, <2>1 DEF EndKept, OthersKept
<1>4. CASE co[c].life = "done" /\ DestroyConnection(c)
  BY <1>1, <1>2, <1>4, DestroyedEffect DEF EndKept, OthersKept
<1> QED
  BY <1>3, <1>4 DEF WorkerLeave

LEMMA CloseEffect ==
  ASSUME TypeOK, NEW c \in Conns, Close(c)
  PROVE  /\ Closes /\ co[c].life = "live" /\ ~sock[c].closed
         /\ ep' \in [Conns -> Interests] /\ ready' \in Seq(Conns)
         /\ sock' \in [Conns -> Sockets]
         /\ EpollDrop(c) /\ ep'[c].on = FALSE /\ ep'[c].mask = {}
         /\ sock'[c].closed = TRUE /\ sock'[c].attached = sock[c].attached
         /\ sock'[c].recv = sock[c].recv /\ sock'[c].send = sock[c].send
         /\ sock'[c].ioState = sock[c].ioState
         /\ \A d \in Conns : d # c => ep'[d] = ep[d] /\ sock'[d] = sock[d]
         /\ UNCHANGED <<net, co, thr, current, batch, size, is_shutdown_, proc>>
<1>1. /\ Closes /\ co[c].life = "live" /\ ~sock[c].closed
      /\ sock' = [sock EXCEPT ![c].closed = TRUE] /\ EpollDrop(c)
      /\ UNCHANGED <<net, co, thr, current, batch, size, is_shutdown_, proc>>
  BY DEF Close
<1>2. sock \in [Conns -> Sockets]
  BY DEF TypeOK
<1>3. /\ sock' \in [Conns -> Sockets]
      /\ sock'[c].closed = TRUE /\ sock'[c].attached = sock[c].attached
      /\ sock'[c].recv = sock[c].recv /\ sock'[c].send = sock[c].send
      /\ sock'[c].ioState = sock[c].ioState
      /\ \A d \in Conns : d # c => sock'[d] = sock[d]
  BY <1>1, <1>2 DEF Sockets
<1> QED
  BY <1>1, <1>3, EpollDropEffect

(* The event loop.                                                         *)
Batches == Seq([conn : Conns, ev : {"IN", "OUT"}])

InBatch(c) == \E i \in 1..Len(batch) : batch[i].conn = c

ListedOnce  == \A i, j \in 1..Len(ready) : ready[i] = ready[j] => i = j
BatchedOnce == \A i, j \in 1..Len(batch) : batch[i].conn = batch[j].conn => i = j

LEMMA EpollWaitEffect ==
  ASSUME TypeOK, EpollWait
  PROVE  /\ thr[Reactor].pc = "wait" /\ thr'[Reactor].pc \in {"wait", "loop"}
         /\ thr'[Reactor].op = thr[Reactor].op /\ thr' \in [Threads -> Activities]
         /\ \A c \in Conns : thr'[c] = thr[c]
         /\ batch' \in Batches /\ ready' \in Seq(Conns) /\ size' \in Nat \ {0}
         /\ UNCHANGED <<net, ep, sock, co, current, is_shutdown_, proc>>
         /\ \A i \in 1..Len(batch') :
              \E c \in Conns : batch'[i] = Returned(c) /\ Pending(c) # {}
         /\ ListedOnce => ListedOnce' /\ BatchedOnce'
<1> DEFINE at == {i \in 1..Len(ready) : Pending(ready[i]) # {}}
           m  == Cardinality(at)
           n  == IF m < size THEN m ELSE size
<1>1. /\ thr[Reactor].pc = "wait"
      /\ Goto(Reactor, IF n = 0 THEN "wait" ELSE "loop")
      /\ size' = IF n = size THEN 2 * size ELSE size
      /\ UNCHANGED <<net, ep, sock, co, current, is_shutdown_, proc>>
  BY DEF EpollWait, At
<1>2. PICK f \in [1..m -> at] :
        /\ \A i, j \in 1..m : i < j => f[i] < f[j]
        /\ batch' = [i \in 1..n |-> Returned(ready[f[i]])]
        /\ ready' = [i \in 1..(m - n) |-> ready[f[n + i]]]
  BY DEF EpollWait
<1>3. ready \in Seq(Conns) /\ size \in Nat \ {0}
  BY DEF TypeOK
<1>4. Len(ready) \in Nat
  BY <1>3
<1>5. m \in Nat
  <2>1. IsFiniteSet(1..Len(ready))
    BY <1>4, FS_Interval
  <2>2. IsFiniteSet(at)
    BY <2>1, FS_Subset
  <2> QED
    BY <2>2, FS_CardinalityType
<1>6. \A i \in 1..m : f[i] \in 1..Len(ready) /\ Pending(ready[f[i]]) # {} /\ ready[f[i]] \in Conns
  <2> SUFFICES ASSUME NEW i \in 1..m
               PROVE  f[i] \in 1..Len(ready) /\ Pending(ready[f[i]]) # {} /\ ready[f[i]] \in Conns
    OBVIOUS
  <2> HIDE DEF m
  <2>1. f[i] \in at
    BY <1>2
  <2>2. f[i] \in 1..Len(ready) /\ Pending(ready[f[i]]) # {}
    BY <2>1
  <2> QED
    BY <1>3, <2>2
<1> HIDE DEF at, m
<1>7. n \in Nat /\ n <= m /\ m - n \in Nat /\ size' \in Nat \ {0}
  BY <1>1, <1>3, <1>5
<1> HIDE DEF n
<1>8. \A i, j \in 1..m : f[i] = f[j] => i = j
  <2> SUFFICES ASSUME NEW i \in 1..m, NEW j \in 1..m, f[i] = f[j], i # j PROVE FALSE
    OBVIOUS
  <2>1. i < j \/ j < i
    BY <1>5
  <2>2. f[i] < f[j] \/ f[j] < f[i]
    BY <1>2, <2>1
  <2>3. f[i] \in Nat /\ f[j] \in Nat
    BY <1>4, <1>6
  <2> QED
    BY <2>2, <2>3
<1> DEFINE e(i) == Returned(ready[f[i]])
           r(i) == ready[f[n + i]]
<1>9. \A i \in 1..n : i \in 1..m
  BY <1>5, <1>7
<1>10. \A i \in 1..(m - n) : n + i \in 1..m
  BY <1>5, <1>7
<1>11. \A c \in Conns : Returned(c) \in [conn : Conns, ev : {"IN", "OUT"}] /\ Returned(c).conn = c
  BY DEF Returned
<1>12. \A i \in 1..n : e(i) \in [conn : Conns, ev : {"IN", "OUT"}]
  BY <1>6, <1>9, <1>11
<1>13. \A i \in 1..(m - n) : r(i) \in Conns
  BY <1>6, <1>10
<1>14. batch' = [i \in 1..n |-> e(i)] /\ ready' = [i \in 1..(m - n) |-> r(i)]
  BY <1>2
<1> HIDE DEF e, r
<1>15. batch' \in Batches /\ ready' \in Seq(Conns)
  <2>1. [i \in 1..n |-> e(i)] \in Seq([conn : Conns, ev : {"IN", "OUT"}])
    BY <1>7, <1>12, IsASeq
  <2>2. [i \in 1..(m - n) |-> r(i)] \in Seq(Conns)
    BY <1>7, <1>13, IsASeq
  <2> QED
    BY <1>14, <2>1, <2>2 DEF Batches
<1>16. Len(batch') = n /\ Len(ready') = m - n
  BY <1>7, <1>14, <1>15, LenProperties DEF Batches
<1>17. \A i \in 1..n : batch'[i] = Returned(ready[f[i]])
  BY <1>14 DEF e
<1>18. \A i \in 1..(m - n) : ready'[i] = ready[f[n + i]]
  BY <1>14 DEF r
<1>19. \A i \in 1..Len(batch') : \E c \in Conns : batch'[i] = Returned(c) /\ Pending(c) # {}
  BY <1>6, <1>9, <1>16, <1>17
<1>20. ASSUME ListedOnce PROVE ListedOnce' /\ BatchedOnce'
  <2>1. \A i, j \in 1..m : ready[f[i]] = ready[f[j]] => i = j
    BY <1>6, <1>8, <1>20 DEF ListedOnce
  <2>2. BatchedOnce'
    <3>1. \A i \in 1..n : i \in 1..m /\ batch'[i].conn = ready[f[i]]
      BY <1>6, <1>9, <1>11, <1>17
    <3> QED
      BY <1>16, <2>1, <3>1 DEF BatchedOnce
  <2>3. ASSUME NEW i \in 1..(m - n), NEW j \in 1..(m - n), ready'[i] = ready'[j] PROVE i = j
    <3>1. n + i = n + j
      BY <1>10, <1>18, <2>1, <2>3
    <3> QED
      BY <1>7, <3>1
  <2> QED
    BY <1>16, <2>2, <2>3 DEF ListedOnce
<1>21. /\ thr' \in [Threads -> Activities] /\ thr'[Reactor].pc \in {"wait", "loop"}
       /\ thr'[Reactor].op = thr[Reactor].op
       /\ \A u \in Threads : u # Reactor => thr'[u] = thr[u]
  <2>1. Reactor \in Threads
    BY DEF Threads
  <2> QED
    BY <1>1, <2>1, GotoEffect
<1>22. \A c \in Conns : thr'[c] = thr[c]
  BY <1>21, ReactorAssumption DEF Threads
<1> QED
  BY <1>1, <1>7, <1>15, <1>19, <1>20, <1>21, <1>22

LEMMA LoopTopEffect ==
  ASSUME TypeOK, LoopTop
  PROVE  /\ thr[Reactor].pc = "loop" /\ batch = <<>>
         /\ thr'[Reactor].pc = IF is_shutdown_ THEN "stopped" ELSE "wait"
         /\ thr'[Reactor].op = thr[Reactor].op /\ thr' \in [Threads -> Activities]
         /\ \A c \in Conns : thr'[c] = thr[c]
         /\ UNCHANGED <<net, ep, ready, sock, co, current, batch, size, is_shutdown_, proc>>
<1>1. /\ thr[Reactor].pc = "loop" /\ batch = <<>>
      /\ Goto(Reactor, IF is_shutdown_ THEN "stopped" ELSE "wait")
      /\ UNCHANGED <<net, ep, ready, sock, co, current, batch, size, is_shutdown_, proc>>
  BY DEF LoopTop, At
<1>2. Reactor \in Threads /\ \A c \in Conns : c \in Threads /\ c # Reactor
  BY ReactorAssumption DEF Threads
<1> QED
  BY <1>1, <1>2, GotoEffect

Handle(c, e) == IF e = "IN" THEN sock[c].recv ELSE sock[c].send

LEMMA DispatchEffect ==
  ASSUME TypeOK, Dispatch
  PROVE  /\ thr[Reactor].pc = "loop" /\ batch # <<>>
         /\ batch' = Tail(batch) /\ batch' \in Batches
         /\ Head(batch) \in [conn : Conns, ev : {"IN", "OUT"}]
         /\ thr' \in [Threads -> Activities] /\ co' \in [Conns -> Handlers] /\ current' \in Conns
         /\ \A d \in Conns : thr'[d] = thr[d]
         /\ UNCHANGED <<net, ep, ready, sock, size, is_shutdown_>>
         /\ LET e == Head(batch)  c == Head(batch).conn IN
            \/ /\ Handle(c, e.ev) /\ co[c].life = "live"
               /\ current' = c /\ proc' = proc
               /\ thr'[Reactor].pc = "enter"
               /\ thr'[Reactor].op = IF co[c].at = "send" THEN "DelSend" ELSE "DelRecv"
               /\ co'[c].at = "run" /\ co'[c].buf = co[c].buf /\ co'[c].life = co[c].life
               /\ \A d \in Conns : d # c => co'[d] = co[d]
            \/ /\ ~(Handle(c, e.ev) /\ co[c].life = "live")
               /\ proc' = "null resume" /\ UNCHANGED <<current, thr, co>>
<1> DEFINE e == Head(batch)
           c == Head(batch).conn
<1>1. /\ thr[Reactor].pc = "loop" /\ batch # <<>>  /\ batch' = Tail(batch)
      /\ UNCHANGED <<net, ep, ready, sock, size, is_shutdown_>>
  BY DEF Dispatch, At
<1>2. batch \in Batches
  BY DEF TypeOK, Batches
<1>3. e \in [conn : Conns, ev : {"IN", "OUT"}] /\ batch' \in Batches
  BY <1>1, <1>2, HeadTailProperties DEF Batches
<1>4. c \in Conns
  BY <1>3
<1>5. Reactor \in Threads /\ \A d \in Conns : d \in Threads /\ d # Reactor
  BY ReactorAssumption DEF Threads
<1>6. co \in [Conns -> Handlers] /\ thr \in [Threads -> Activities] /\ current \in Conns
  BY DEF TypeOK
<1> HIDE DEF e, c
<1>7. CASE Resumable(e) /\ Resume(c)
  <2>1. Handle(c, e.ev) /\ co[c].life = "live"
    BY <1>7 DEF Resumable, Handle, e, c
  <2>2. /\ current' = c /\ proc' = proc
        /\ co' = [co EXCEPT ![c].at = "run"]
        /\ thr' = [thr EXCEPT ![Reactor].pc = "enter",
                     ![Reactor].op = IF co[c].at = "send" THEN "DelSend" ELSE "DelRecv"]
    BY <1>7 DEF Resume
  <2>3. /\ co' \in [Conns -> Handlers]
        /\ co'[c].at = "run" /\ co'[c].buf = co[c].buf /\ co'[c].life = co[c].life
        /\ \A d \in Conns : d # c => co'[d] = co[d]
    BY <1>4, <1>6, <2>2 DEF Handlers
  <2> DEFINE m == IF co[c].at = "send" THEN "DelSend" ELSE "DelRecv"
  <2>4. m \in Methods
    BY DEF Methods
  <2>5. thr' = [thr EXCEPT ![Reactor].pc = "enter", ![Reactor].op = m]
    BY <2>2
  <2> HIDE DEF m
  <2>6. /\ thr' \in [Threads -> Activities]
        /\ thr'[Reactor].pc = "enter" /\ thr'[Reactor].op = m
        /\ \A u \in Threads : u # Reactor => thr'[u] = thr[u]
    BY <1>5, <1>6, <2>4, <2>5, ZenonT(60) DEF Activities
  <2> QED
    BY <1>1, <1>3, <1>4, <1>5, <2>1, <2>2, <2>3, <2>6 DEF e, c, m
<1>8. CASE ~Resumable(e) /\ proc' = "null resume" /\ UNCHANGED <<current, thr, co>>
  <2>1. ~(Handle(c, e.ev) /\ co[c].life = "live")
    BY <1>8 DEF Resumable, Handle, e, c
  <2> QED
    BY <1>1, <1>3, <1>6, <1>8, <2>1 DEF e, c
<1> QED
  BY <1>7, <1>8 DEF Dispatch, e, c

LEMMA ShutdownEffect ==
  ASSUME TypeOK, Shutdown
  PROVE  /\ is_shutdown_' \in BOOLEAN /\ is_shutdown_'
         /\ UNCHANGED <<net, ep, ready, sock, co, thr, current, batch, size, proc>>
<1>1. is_shutdown_' = TRUE
      /\ UNCHANGED <<net, ep, ready, sock, co, thr, current, batch, size, proc>>
  BY DEF Shutdown
<1>2. is_shutdown_' \in BOOLEAN /\ is_shutdown_'
  BY <1>1, Zenon
<1> QED
  BY <1>1, <1>2

-----------------------------------------------------------------------------
(* Types, and one thread in a coroutine at a time.                         *)

WellPlaced(th, c) ==
  /\ th = Reactor => /\ thr'[th].pc \in ReactorPlaces
                     /\ thr'[th].pc = "again" => thr'[th].op \notin Adds
  /\ th # Reactor => /\ thr'[th].pc \in WorkerPlaces /\ thr'[th].op \in Adds
                     /\ thr'[th].pc \in Early =>
                          /\ thr[th].pc \in Early
                          /\ sock'[c].recv = sock[c].recv /\ sock'[c].send = sock[c].send

(* What a thread inside a coroutine does, short of the invariants.         *)
LEMMA HandlerFacts ==
  ASSUME RInv, NEW th \in Threads, NEW c \in Conns, c = Runs(th), HandlerStep(th)
  PROVE  /\ TypeOK' /\ OthersKept(th, c) /\ WellPlaced(th, c) /\ Bounded(c)'
         /\ net'[c].peer = net[c].peer
         /\ thr[th].pc \in {"read", "write", "again", "end"} \cup Method
<1> TypeOK /\ Bounded(c) /\ ReactorControl /\ \A d \in Conns : WorkerControl(d)
  BY DEF RInv
<1>n. /\ net[c].rx \in Nat /\ net[c].tx \in Nat /\ net[c].sent \in Nat
      /\ net[c].got \in Nat /\ co[c].buf \in Nat /\ c # Reactor
      /\ net[c].rx + co[c].buf + net[c].tx + net[c].got <= net[c].sent
  BY Fields DEF Bounded
<1>m. /\ thr[th].op \in Methods
      /\ Left(th) = (IF th = Reactor THEN "loop" ELSE "leave")
      /\ After(th) = (IF thr[th].op \in Adds THEN Left(th) ELSE "again")
  BY MethodFacts
<1>w. th # Reactor => thr[th].op \in Adds /\ thr[th].pc \in WorkerPlaces
  BY DEF WorkerControl, Threads
<1>a. "AddRecv" \in Adds /\ "AddSend" \in Adds /\ "DelRecv" \notin Adds /\ "DelSend" \notin Adds
  BY DEF Adds
<1>1. CASE ReadReady(th) \/ ReadAgain(th)
  <2>1. /\ thr[th].pc \in {"read", "again"} /\ TypeKept /\ SocketKept /\ OthersKept(th, c)
        /\ proc' = proc /\ (thr[th].pc = "again" => thr[th].op \notin Adds)
        /\ \/ GotData(th, c) \/ ReadOver(th, c)
           \/ ~sock[c].closed /\ Suspended(th, c, "recv", "AddRecv")
    BY <1>1, <1>a, ReadReadyEffect, ReadAgainEffect
  <2>2. TypeOK'
    BY <2>1 DEF TypeOK, TypeKept, SocketKept, OthersKept
  <2>3. Bounded(c)' /\ net'[c].peer = net[c].peer
    <3>1. CASE GotData(th, c)
      BY <1>n, <3>1 DEF GotData, Bounded
    <3>2. CASE ReadOver(th, c) \/ Suspended(th, c, "recv", "AddRecv")
      BY <1>n, <3>2 DEF ReadOver, Suspended, BytesKept, HandlerKept, Bounded
    <3> QED
      BY <2>1, <3>1, <3>2
  <2>4. WellPlaced(th, c)
    BY <1>w, <1>a, <2>1 DEF GotData, ReadOver, Suspended, SocketKept, WellPlaced, ReactorPlaces,
       WorkerPlaces, Early, Method
  <2> QED
    BY <2>1, <2>2, <2>3, <2>4
<1>2. CASE WriteReady(th) \/ WriteAgain(th)
  <2>1. /\ thr[th].pc \in {"write", "again"} /\ TypeKept /\ SocketKept /\ OthersKept(th, c)
        /\ thr[th].pc = "again" => thr[th].op \notin Adds
        /\ \/ SentData(th, c) \/ WriteOver(th, c) \/ WriteRetry(th, c) \/ Killed(c)
           \/ Suspended(th, c, "send", "AddSend") /\ proc' = proc
    BY <1>2, <1>a, WriteReadyEffect, WriteAgainEffect
  <2>2. TypeOK'
    BY <2>1 DEF TypeOK, TypeKept, SocketKept, OthersKept, SentData, WriteOver, WriteRetry, Killed
  <2>3. Bounded(c)' /\ net'[c].peer = net[c].peer
    <3>1. CASE SentData(th, c)
      BY <1>n, <3>1 DEF SentData, Bounded
    <3>2. CASE WriteOver(th, c)
      BY <1>n, <3>2 DEF WriteOver, BytesKept, Bounded
    <3>3. CASE WriteRetry(th, c) \/ Suspended(th, c, "send", "AddSend")
      BY <1>n, <3>3 DEF WriteRetry, Suspended, BytesKept, HandlerKept, Bounded
    <3>4. CASE Killed(c)
      BY <3>4 DEF Killed, Bounded
    <3> QED
      BY <2>1, <3>1, <3>2, <3>3, <3>4
  <2>4. WellPlaced(th, c)
    BY <1>w, <1>a, <2>1 DEF SentData, WriteOver, WriteRetry, Killed, Suspended, SocketKept,
       WellPlaced, ReactorPlaces, WorkerPlaces, Early, Method
  <2> QED
    BY <2>1, <2>2, <2>3, <2>4
<1>3. CASE Enter(th)
  <2>1. /\ thr[th].pc = "enter" /\ thr'[th].op = thr[th].op
        /\ thr' \in [Threads -> Activities] /\ sock' \in [Conns -> Sockets]
        /\ ep' \in [Conns -> Interests] /\ ready' \in Seq(Conns)
        /\ OthersKept(th, c) /\ UNCHANGED <<net, co, proc>>
        /\ Skipped(th, c) \/ Entered(th, c)
    BY <1>3, EnterEffect
  <2>2. TypeOK'
    BY <2>1 DEF TypeOK, OthersKept
  <2>3. Bounded(c)' /\ net'[c].peer = net[c].peer
    BY <2>1 DEF Bounded
  <2>4. WellPlaced(th, c)
    <3>1. CASE Skipped(th, c)
      BY <1>m, <1>w, <2>1, <3>1 DEF Skipped, WellPlaced, ReactorPlaces, WorkerPlaces, Early, Method
    <3>2. CASE Entered(th, c)
      BY <1>m, <1>w, <2>1, <3>2 DEF Entered, StoredKept, WellPlaced, ReactorPlaces, WorkerPlaces,
         Early, Method
    <3> QED
      BY <2>1, <3>1, <3>2
  <2> QED
    BY <2>1, <2>2, <2>3, <2>4 DEF Method
<1>4. CASE SetCoro(th) \/ NewIOState(th) \/ SetIOState(th)
  <2>1. /\ thr[th].pc \in Method /\ thr'[th].op = thr[th].op
        /\ thr'[th].pc \in {"load", "store", "ctl"}
        /\ thr' \in [Threads -> Activities] /\ sock' \in [Conns -> Sockets]
        /\ OthersKept(th, c) /\ UNCHANGED <<net, ep, ready, co, proc>>
    <3>1. CASE SetCoro(th)
      BY <3>1, SetCoroEffect DEF Method
    <3>2. CASE NewIOState(th)
      <4>1. sock \in [Conns -> Sockets]
        BY DEF TypeOK
      <4> QED
        BY <3>2, <4>1, NewIOStateEffect DEF Method
    <3>3. CASE SetIOState(th)
      BY <3>3, SetIOStateEffect DEF Method
    <3> QED
      BY <1>4, <3>1, <3>2, <3>3
  <2>2. TypeOK'
    BY <2>1 DEF TypeOK, OthersKept
  <2>3. Bounded(c)' /\ net'[c].peer = net[c].peer
    BY <2>1 DEF Bounded
  <2>4. WellPlaced(th, c)
    BY <1>w, <2>1 DEF WellPlaced, ReactorPlaces, WorkerPlaces, Early, Method
  <2> QED
    BY <2>1, <2>2, <2>3, <2>4
<1>5. CASE UpdateEvent(th)
  <2>1. /\ thr[th].pc = "ctl" /\ thr'[th].op = thr[th].op
        /\ thr' \in [Threads -> Activities] /\ ep' \in [Conns -> Interests]
        /\ ready' \in Seq(Conns)
        /\ OthersKept(th, c) /\ UNCHANGED <<net, sock, co>>
        /\ \/ thr'[th].pc = After(th) /\ proc' = proc
           \/ proc' = "exit" /\ UNCHANGED thr
    BY <1>5, UpdateEventEffect
  <2>2. TypeOK'
    BY <2>1 DEF TypeOK, OthersKept
  <2>3. Bounded(c)' /\ net'[c].peer = net[c].peer
    BY <2>1 DEF Bounded
  <2>4. WellPlaced(th, c)
    BY <1>w, <1>m, <2>1 DEF WellPlaced, ReactorPlaces, WorkerPlaces, Early, Method
  <2> QED
    BY <2>1, <2>2, <2>3, <2>4 DEF Method
<1>6. CASE HandlerEnd(th)
  <2>1. /\ thr[th].pc = "end" /\ thr'[th].op = thr[th].op
        /\ thr'[th].pc = IF th = Reactor THEN "loop" ELSE "gone"
        /\ EndKept /\ OthersKept(th, c) /\ UNCHANGED net
        /\ co'[c].buf = co[c].buf /\ (proc' = proc \/ proc' = "exit")
    BY <1>6, HandlerEndEffect DEF Destroyed
  <2>2. TypeOK'
    BY <2>1 DEF TypeOK, OthersKept, EndKept
  <2>3. Bounded(c)' /\ net'[c].peer = net[c].peer
    BY <2>1 DEF Bounded
  <2>4. WellPlaced(th, c)
    BY <1>w, <2>1 DEF WellPlaced, ReactorPlaces, WorkerPlaces, Early, Method
  <2> QED
    BY <2>1, <2>2, <2>3, <2>4
<1> QED
  BY <1>1, <1>2, <1>3, <1>4, <1>5, <1>6 DEF HandlerStep

(* A step inside one coroutine leaves the others alone.                    *)
LEMMA OtherReactor ==
  ASSUME TypeOK, NEW th \in Threads, NEW c \in Conns, c = Runs(th), OthersKept(th, c),
         NEW d \in Conns, d # c, thr[Reactor].pc \in ReactorPlaces,
         th = Reactor => Active
  PROVE  /\ thr'[d] = thr[d] /\ (InReactor(d)' <=> InReactor(d))
         /\ InReactor(d) => thr'[Reactor] = thr[Reactor]
         /\ net'[d] = net[d] /\ ep'[d] = ep[d] /\ sock'[d] = sock[d] /\ co'[d] = co[d]
<1>1. d # th /\ d \in Threads /\ Reactor \in Threads
  BY ReactorAssumption DEF Runs, Threads
<1>2. CASE th = Reactor
  BY <1>1, <1>2 DEF OthersKept, Runs, InReactor
<1>3. CASE th # Reactor
  BY <1>1, <1>3 DEF OthersKept, InReactor, Active
<1> QED
  BY <1>2, <1>3

LEMMA HandlerRunner ==
  ASSUME RInv, NEW th \in Threads, HandlerStep(th)
  PROVE  RInv'
<1> TypeOK /\ ReactorControl /\ \A d \in Conns : WorkerControl(d) /\ Bounded(d)
  BY DEF RInv
<1>1. PICK c \in Conns : c = Runs(th)
  BY RunsType
<1>2. /\ TypeOK' /\ OthersKept(th, c) /\ WellPlaced(th, c) /\ Bounded(c)'
      /\ net'[c].peer = net[c].peer
      /\ thr[th].pc \in {"read", "write", "again", "end"} \cup Method
  BY <1>1, HandlerFacts
<1>3. th = Reactor => Active
  BY <1>2 DEF Active, Method
<1>4. Reactor \in Threads /\ c \in Threads /\ c # Reactor
  BY <1>1, Fields
<1>5. ReactorControl'
  <2>1. CASE th = Reactor
    BY <1>2, <2>1 DEF WellPlaced, ReactorControl
  <2>2. CASE th # Reactor
    BY <1>2, <1>4, <2>2 DEF OthersKept, ReactorControl
  <2> QED
    BY <2>1, <2>2
<1>6. WorkerControl(c)'
  <2>1. CASE th = Reactor
    <3>1. InReactor(c) /\ thr'[c] = thr[c]
      BY <1>1, <1>2, <1>3, <1>4, <2>1 DEF InReactor, OthersKept, Runs
    <3>2. thr[c].pc \notin Early
      BY <1>1, <3>1 DEF WorkerControl
    <3> QED
      BY <1>1, <1>2, <3>1, <3>2 DEF WorkerControl
  <2>2. CASE th # Reactor
    <3>1. th = c
      BY <1>1, <2>2 DEF Runs
    <3>2. thr'[Reactor] = thr[Reactor] /\ current' = current
      BY <1>2, <1>4, <2>2 DEF OthersKept
    <3>3. InReactor(c)' <=> InReactor(c)
      BY <3>2 DEF InReactor, Active
    <3>4. net[c].peer # "none"
      BY <1>1, <1>2, <3>1 DEF WorkerControl, Method
    <3> QED
      BY <1>1, <1>2, <2>2, <3>1, <3>3, <3>4 DEF WellPlaced, WorkerControl
  <2> QED
    BY <2>1, <2>2
<1>7. ASSUME NEW d \in Conns, d # c PROVE WorkerControl(d)' /\ Bounded(d)'
  <2>1. /\ thr'[d] = thr[d] /\ (InReactor(d)' <=> InReactor(d))
        /\ net'[d] = net[d] /\ sock'[d] = sock[d] /\ co'[d] = co[d]
    BY <1>1, <1>2, <1>3, <1>7, OtherReactor DEF ReactorControl
  <2> QED
    BY <2>1 DEF WorkerControl, Bounded
<1> QED
  BY <1>2, <1>5, <1>6, <1>7 DEF RInv

LEMMA RunnerStep == RInv /\ [Next]_vars => RInv'
<1> SUFFICES ASSUME RInv, [Next]_vars PROVE RInv'
  OBVIOUS
<1> TypeOK /\ ReactorControl /\ \A d \in Conns : WorkerControl(d) /\ Bounded(d)
  BY DEF RInv
<1>0. \A d \in Conns : d \in Threads /\ d # Reactor
  BY ReactorAssumption DEF Threads
<1>1. ASSUME NEW c \in Conns, PeerActs(c) PROVE RInv'
  <2>1. /\ net' \in [Conns -> Links] /\ ready' \in Seq(Conns)
        /\ net[c].peer # "none" /\ net'[c].peer # "none"
        /\ net'[c].sent - (net'[c].rx + net'[c].tx + net'[c].got)
              >= net[c].sent - (net[c].rx + net[c].tx + net[c].got)
        /\ \A d \in Conns : d # c => net'[d] = net[d]
        /\ UNCHANGED <<ep, sock, co, thr, current, batch, size, is_shutdown_, proc>>
    BY <1>1, PeerEffect
  <2>2. TypeOK'
    BY <2>1 DEF TypeOK
  <2>3. ReactorControl'
    BY <2>1 DEF ReactorControl
  <2>4. ASSUME NEW d \in Conns PROVE WorkerControl(d)'
    BY <2>1 DEF WorkerControl, InReactor, Active
  <2>5. ASSUME NEW d \in Conns PROVE Bounded(d)'
    <3>1. CASE d = c
      <4>1. /\ net[c].rx \in Nat /\ net[c].tx \in Nat /\ net[c].sent \in Nat
            /\ net[c].got \in Nat /\ co[c].buf \in Nat
        BY Fields
      <4>2. net'[c] \in Links
        BY <2>1
      <4>3. /\ net'[c].rx \in Nat /\ net'[c].tx \in Nat /\ net'[c].sent \in Nat
            /\ net'[c].got \in Nat
        BY <4>2, Sizes DEF Links
      <4>4. co'[c].buf = co[c].buf
        BY <2>1
      <4>5. net[c].rx + co[c].buf + net[c].tx + net[c].got <= net[c].sent
        BY DEF Bounded
      <4>6. net'[c].rx + co'[c].buf + net'[c].tx + net'[c].got <= net'[c].sent
        <5>1. net'[c].sent - (net'[c].rx + net'[c].tx + net'[c].got)
                >= net[c].sent - (net[c].rx + net[c].tx + net[c].got)
          BY <2>1
        <5>2. \A s, r, x, g, b, s1, r1, x1, g1 \in Nat :
                s1 - (r1 + x1 + g1) >= s - (r + x + g) /\ r + b + x + g <= s
                  => r1 + b + x1 + g1 <= s1
          OBVIOUS
        <5> QED
          BY <4>1, <4>3, <4>4, <4>5, <5>1, <5>2
      <4> QED
        BY <3>1, <4>6 DEF Bounded
    <3>2. CASE d # c
      BY <2>1, <3>2 DEF Bounded
    <3> QED
      BY <3>1, <3>2
  <2> QED
    BY <2>2, <2>3, <2>4, <2>5 DEF RInv
<1>2. ASSUME NEW c \in Conns, Accept(c) PROVE RInv'
  <2>1. /\ net' \in [Conns -> Links] /\ co' \in [Conns -> Handlers]
        /\ thr' \in [Threads -> Activities]
        /\ net[c].peer = "none" /\ net'[c].peer = "open"
        /\ net'[c].rx = net[c].rx /\ net'[c].tx = net[c].tx
        /\ net'[c].sent = net[c].sent /\ net'[c].got = net[c].got
        /\ co'[c].buf = co[c].buf
        /\ thr'[c].pc = "read" /\ thr'[c].op = thr[c].op
        /\ \A u \in Threads : u # c => thr'[u] = thr[u]
        /\ \A d \in Conns : d # c => net'[d] = net[d] /\ co'[d] = co[d]
        /\ UNCHANGED <<ep, ready, sock, current, batch, size, is_shutdown_, proc>>
    BY <1>2, AcceptEffect
  <2>2. TypeOK'
    BY <2>1 DEF TypeOK
  <2>3. thr'[Reactor] = thr[Reactor] /\ thr[c].pc = "idle"
    BY <1>0, <2>1 DEF Threads, WorkerControl
  <2>4. ReactorControl'
    BY <2>3 DEF ReactorControl
  <2>5. ASSUME NEW d \in Conns PROVE WorkerControl(d)'
    <3>1. InReactor(d)' <=> InReactor(d)
      BY <2>1, <2>3 DEF InReactor, Active
    <3> QED
      BY <1>0, <2>1, <2>3, <3>1 DEF WorkerControl, Early, WorkerPlaces
  <2>6. ASSUME NEW d \in Conns PROVE Bounded(d)'
    BY <2>1 DEF Bounded
  <2> QED
    BY <2>2, <2>4, <2>5, <2>6 DEF RInv
<1>3. ASSUME NEW th \in Threads, HandlerStep(th) PROVE RInv'
  BY <1>3, HandlerRunner
<1>4. ASSUME NEW c \in Conns, WorkerLeave(c) PROVE RInv'
  <2>1. /\ thr[c].pc = "leave" /\ thr'[c].op = thr[c].op /\ thr'[c].pc = "gone"
        /\ EndKept /\ OthersKept(c, c) /\ UNCHANGED net
        /\ co'[c].buf = co[c].buf /\ (proc' = proc \/ proc' = "exit")
    BY <1>4, WorkerLeaveEffect DEF Destroyed
  <2>2. TypeOK'
    BY <2>1 DEF TypeOK, EndKept, OthersKept
  <2>3. thr'[Reactor] = thr[Reactor] /\ current' = current
    BY <1>0, <2>1 DEF Threads, OthersKept
  <2>4. ReactorControl'
    BY <2>3 DEF ReactorControl
  <2>5. ASSUME NEW d \in Conns PROVE WorkerControl(d)' /\ Bounded(d)'
    <3>1. InReactor(d)' <=> InReactor(d)
      BY <2>3 DEF InReactor, Active
    <3>2. CASE d = c
      BY <2>1, <3>1, <3>2 DEF WorkerControl, Bounded, Early, WorkerPlaces
    <3>3. CASE d # c
      BY <1>0, <2>1, <3>1, <3>3 DEF WorkerControl, Bounded, OthersKept
    <3> QED
      BY <3>2, <3>3
  <2> QED
    BY <2>2, <2>4, <2>5 DEF RInv
<1>5. ASSUME NEW c \in Conns, Close(c) PROVE RInv'
  <2>1. /\ ep' \in [Conns -> Interests] /\ ready' \in Seq(Conns) /\ sock' \in [Conns -> Sockets]
        /\ sock'[c].recv = sock[c].recv /\ sock'[c].send = sock[c].send
        /\ \A d \in Conns : d # c => sock'[d] = sock[d]
        /\ UNCHANGED <<net, co, thr, current, batch, size, is_shutdown_, proc>>
    BY <1>5, CloseEffect
  <2>2. TypeOK'
    BY <2>1 DEF TypeOK
  <2>3. ASSUME NEW d \in Conns PROVE WorkerControl(d)' /\ Bounded(d)'
    BY <2>1 DEF WorkerControl, Bounded, InReactor, Active
  <2> QED
    BY <2>1, <2>2, <2>3 DEF RInv, ReactorControl
<1>6. CASE LoopTop
  <2>1. /\ thr[Reactor].pc = "loop" /\ thr'[Reactor].pc \in {"stopped", "wait"}
        /\ thr' \in [Threads -> Activities]
        /\ \A c \in Conns : thr'[c] = thr[c]
        /\ UNCHANGED <<net, ep, ready, sock, co, current, batch, size, is_shutdown_, proc>>
    BY <1>6, LoopTopEffect
  <2>2. TypeOK'
    BY <2>1 DEF TypeOK
  <2>3. ReactorControl'
    BY <2>1 DEF ReactorControl, ReactorPlaces
  <2>4. ASSUME NEW d \in Conns PROVE WorkerControl(d)' /\ Bounded(d)'
    BY <2>1 DEF WorkerControl, Bounded, InReactor, Active
  <2> QED
    BY <2>2, <2>3, <2>4 DEF RInv
<1>7. CASE EpollWait
  <2>1. /\ thr[Reactor].pc = "wait" /\ thr'[Reactor].pc \in {"wait", "loop"}
        /\ thr' \in [Threads -> Activities]
        /\ \A c \in Conns : thr'[c] = thr[c]
        /\ batch' \in Batches /\ ready' \in Seq(Conns) /\ size' \in Nat \ {0}
        /\ UNCHANGED <<net, ep, sock, co, current, is_shutdown_, proc>>
    BY <1>7, EpollWaitEffect
  <2>2. TypeOK'
    BY <2>1 DEF TypeOK, Batches
  <2>3. ReactorControl'
    BY <2>1 DEF ReactorControl, ReactorPlaces
  <2>4. ASSUME NEW d \in Conns PROVE WorkerControl(d)' /\ Bounded(d)'
    BY <2>1 DEF WorkerControl, Bounded, InReactor, Active
  <2> QED
    BY <2>2, <2>3, <2>4 DEF RInv
<1>8. CASE Dispatch
  <2> DEFINE e == Head(batch)
             c == Head(batch).conn
  <2>1. /\ thr[Reactor].pc = "loop" /\ batch' \in Batches
        /\ e \in [conn : Conns, ev : {"IN", "OUT"}]
        /\ thr' \in [Threads -> Activities] /\ co' \in [Conns -> Handlers] /\ current' \in Conns
        /\ \A d \in Conns : thr'[d] = thr[d]
        /\ UNCHANGED <<net, ep, ready, sock, size, is_shutdown_>>
    BY <1>8, DispatchEffect
  <2>2. \/ /\ Handle(c, e.ev) /\ current' = c /\ proc' = proc /\ thr'[Reactor].pc = "enter"
           /\ co'[c].buf = co[c].buf
           /\ \A d \in Conns : d # c => co'[d] = co[d]
        \/ proc' = "null resume" /\ UNCHANGED <<current, thr, co>>
    BY <1>8, DispatchEffect
  <2>3. c \in Conns
    BY <2>1
  <2> HIDE DEF e, c
  <2>4. TypeOK'
    BY <2>1, <2>2 DEF TypeOK, Batches
  <2>5. ReactorControl'
    BY <2>1, <2>2 DEF ReactorControl, ReactorPlaces, Method
  <2>6. ASSUME NEW d \in Conns PROVE Bounded(d)'
    BY <2>1, <2>2, <2>3 DEF Bounded
  <2>7. ASSUME NEW d \in Conns PROVE WorkerControl(d)'
    <3>1. ~InReactor(d)
      BY <2>1 DEF InReactor, Active
    <3>2. InReactor(d)' => d = c /\ (sock[c].recv \/ sock[c].send)
      BY <2>1, <2>2 DEF InReactor, Active, Handle
    <3> QED
      BY <2>1, <3>2 DEF WorkerControl
  <2> QED
    BY <2>4, <2>5, <2>6, <2>7 DEF RInv
<1>9. CASE Shutdown
  <2>1. /\ is_shutdown_' \in BOOLEAN
        /\ UNCHANGED <<net, ep, ready, sock, co, thr, current, batch, size, proc>>
    BY <1>9, ShutdownEffect
  <2>2. TypeOK'
    BY <2>1 DEF TypeOK
  <2>3. ASSUME NEW d \in Conns PROVE WorkerControl(d)' /\ Bounded(d)'
    BY <2>1 DEF WorkerControl, Bounded, InReactor, Active
  <2> QED
    BY <2>1, <2>2, <2>3 DEF RInv, ReactorControl
<1>10. CASE UNCHANGED vars
  <2>1. UNCHANGED <<net, ep, ready, sock, co, thr, current, batch, size, is_shutdown_, proc>>
    BY <1>10 DEF vars
  <2>2. TypeOK'
    BY <2>1 DEF TypeOK
  <2>3. ASSUME NEW d \in Conns PROVE WorkerControl(d)' /\ Bounded(d)'
    BY <2>1 DEF WorkerControl, Bounded, InReactor, Active
  <2> QED
    BY <2>1, <2>2, <2>3 DEF RInv, ReactorControl
<1> QED
  BY <1>0, <1>1, <1>2, <1>3, <1>4, <1>5, <1>6, <1>7, <1>8, <1>9, <1>10
     DEF Next, PeerActs, WorkerStep, ReactorStep, Threads

(* No interleaving of a worker and the reactor has both inside a           *)
(* coroutine, and the socket state that they write without a lock keeps    *)
(* to its type.                                                            *)
THEOREM OneThreadAtATime == Spec => []OneRunner
<1>1. RInv => OneRunner
  <2> SUFFICES ASSUME RInv PROVE OneRunner
    OBVIOUS
  <2>1. TypeOK
    BY DEF RInv
  <2>2. ASSUME NEW c \in Conns, current = c, thr[Reactor].pc \notin {"loop", "wait", "stopped"}
        PROVE  ~InBody(c) /\ thr[c].pc # "enter"
    <3>1. InReactor(c)
      BY <2>2 DEF InReactor, Active
    <3> QED
      BY <3>1 DEF RInv, WorkerControl, WorkerPlaces, Early, Method, InBody
  <2> QED
    BY <2>1, <2>2 DEF OneRunner
<1> QED
  BY <1>1, InitRunner, RunnerStep, PTL DEF Spec

-----------------------------------------------------------------------------
(* The handler's buffer: it is empty whenever the next access to it is a   *)
(* read, although reads and writes are partial and suspended in between.   *)

(* A thread is between two suspension points of c's coroutine.             *)
Executed(c) ==
  \/ thr[c].pc \in {"read", "write", "end"}
  \/ InReactor(c) /\ ~(thr[Reactor].pc \in Method /\ thr[Reactor].op \in Adds)

Lifetime(c) ==
  /\ Executed(c) <=> co[c].life = "live" /\ co[c].at = "run"
  /\ co[c].at # "run" => co[c].life = "live"
  /\ InReactor(c) => co[c].life = "live"
  /\ co[c].life = "none" <=> thr[c].pc = "idle"
  /\ co[c].life = "freed" => thr[c].pc = "gone"

Reading(c) ==
  \/ co[c].at = "recv" \/ thr[c].pc \in {"idle", "read"}
  \/ /\ InReactor(c)
     /\ \/ thr[Reactor].pc = "read"
        \/ thr[Reactor].pc \in Method \cup {"again"} /\ thr[Reactor].op = "DelRecv"

Emptied(c) == ~sock[c].closed /\ Reading(c) => co[c].buf = 0

Conserved(c) ==
  net[c].peer # "rst" /\ ~sock[c].closed =>
    net[c].sent = net[c].rx + co[c].buf + net[c].tx + net[c].got

Echoes(c) == Lifetime(c) /\ Emptied(c) /\ Conserved(c)

EInv == RInv /\ \A c \in Conns : Echoes(c)

LEMMA InitEcho == Init => EInv
<1> SUFFICES ASSUME Init PROVE EInv
  OBVIOUS
<1>1. RInv
  BY InitRunner
<1>2. ASSUME NEW c \in Conns PROVE Echoes(c)
  <2>1. /\ thr[c].pc = "idle" /\ thr[Reactor].pc = "loop"
        /\ co[c] = [at |-> "run", buf |-> 0, life |-> "none"]
        /\ net[c] = [peer |-> "none", err |-> FALSE, rx |-> 0, tx |-> 0, sent |-> 0, got |-> 0]
    BY ReactorAssumption DEF Init, Threads
  <2> QED
    BY <2>1 DEF Echoes, Lifetime, Emptied, Conserved, Executed, InReactor, Active
<1> QED
  BY <1>1, <1>2 DEF EInv

LEMMA RunsFacts ==
  ASSUME RInv, NEW th \in Threads, NEW c \in Conns, c = Runs(th), OthersKept(th, c),
         thr[th].pc \in {"read", "write", "again", "end"} \cup Method
  PROVE  /\ th = Reactor => /\ InReactor(c) /\ thr'[c] = thr[c] /\ thr[c].pc \notin Early
                            /\ InReactor(c)' <=> thr'[Reactor].pc \notin {"loop", "wait", "stopped"}
         /\ th # Reactor => /\ th = c /\ thr'[Reactor] = thr[Reactor]
                            /\ InReactor(c)' <=> InReactor(c)
                            /\ thr[c].op \in Adds /\ thr[c].pc # "again"
                            /\ thr[c].pc \in Early => ~InReactor(c)
<1>0. Reactor \in Threads /\ c \in Threads /\ c # Reactor /\ WorkerControl(c)
  BY Fields DEF RInv
<1>1. ASSUME th = Reactor
      PROVE  /\ InReactor(c) /\ thr'[c] = thr[c] /\ thr[c].pc \notin Early
             /\ InReactor(c)' <=> thr'[Reactor].pc \notin {"loop", "wait", "stopped"}
  <2>1. InReactor(c)
    BY <1>1 DEF InReactor, Active, Runs, Method
  <2>2. thr'[c] = thr[c] /\ current' = current /\ current = c
    BY <1>0, <1>1 DEF OthersKept, Runs
  <2> QED
    BY <1>0, <2>1, <2>2 DEF WorkerControl, InReactor, Active
<1>2. ASSUME th # Reactor
      PROVE  /\ th = c /\ thr'[Reactor] = thr[Reactor]
             /\ InReactor(c)' <=> InReactor(c)
             /\ thr[c].op \in Adds /\ thr[c].pc # "again"
             /\ thr[c].pc \in Early => ~InReactor(c)
  <2>1. th = c
    BY <1>2 DEF Runs
  <2>2. thr'[Reactor] = thr[Reactor] /\ current' = current
    BY <1>0, <1>2 DEF OthersKept
  <2> QED
    BY <1>0, <2>1, <2>2 DEF WorkerControl, InReactor, Active, WorkerPlaces, Method
<1> QED
  BY <1>1, <1>2

LEMMA AddsAre ==
  /\ "AddRecv" \in Adds /\ "AddSend" \in Adds
  /\ \A m \in Methods : m \in Adds \/ m = "DelRecv" \/ m = "DelSend"
  /\ "DelRecv" \notin Adds /\ "DelSend" \notin Adds
  BY DEF Adds, Methods

(* Before and after a step of a thread in the body of a coroutine.         *)
LEMMA InBodyBefore ==
  ASSUME RInv, NEW th \in Threads, NEW c \in Conns, c = Runs(th), OthersKept(th, c),
         thr[th].pc \in {"read", "write", "again", "end"}, Echoes(c)
  PROVE  /\ co[c].life = "live" /\ co[c].at = "run"
         /\ ~sock[c].closed /\ thr[th].pc = "read" => co[c].buf = 0
         /\ ~sock[c].closed /\ thr[th].pc = "again" /\ thr[th].op = "DelRecv" => co[c].buf = 0
<1>1. /\ th = Reactor => InReactor(c)
      /\ th # Reactor => th = c /\ thr[c].pc # "again"
  BY RunsFacts
<1>2. Executed(c)
  BY <1>1 DEF Executed, Method
<1>3. thr[th].pc = "read" \/ (thr[th].pc = "again" /\ thr[th].op = "DelRecv") => Reading(c)
  BY <1>1 DEF Reading
<1> QED
  BY <1>2, <1>3 DEF Echoes, Lifetime, Emptied

LEMMA InBodyAfter ==
  ASSUME RInv, NEW th \in Threads, NEW c \in Conns, c = Runs(th), OthersKept(th, c),
         thr[th].pc \in {"read", "write", "again", "end"}, Echoes(c),
         sock'[c].closed = sock[c].closed, co'[c].life = "live",
         \/ thr'[th].pc \in {"read", "write", "end"} /\ co'[c].at = "run"
         \/ /\ thr'[th].pc = "enter" /\ thr'[th].op \in Adds /\ co'[c].at \in {"recv", "send"}
            /\ co'[c].at = "recv" => thr[th].pc = "read" /\ co'[c].buf = co[c].buf,
         ~sock[c].closed /\ thr'[th].pc = "read" => co'[c].buf = 0
  PROVE  Lifetime(c)' /\ Emptied(c)'
<1>0. "enter" \in Method /\ "read" \notin Method /\ "write" \notin Method /\ "end" \notin Method
      /\ "again" \notin Method
  BY DEF Method
<1>1. ~sock[c].closed /\ thr[th].pc = "read" => co[c].buf = 0
  BY InBodyBefore
<1>2. CASE th = Reactor
  <2>1. /\ InReactor(c)' /\ thr'[c] = thr[c] /\ thr[c].pc \notin Early
    BY <1>2, RunsFacts
  <2>2. thr'[c].pc \notin {"idle", "read", "write", "end"}
    BY <2>1 DEF Early
  <2>3. Executed(c)' <=> thr'[th].pc # "enter"
    BY <1>0, <1>2, <2>1, <2>2 DEF Executed
  <2>4. co[c].life = "live"
    BY InBodyBefore
  <2>5. Lifetime(c)'
    BY <2>1, <2>2, <2>3, <2>4 DEF Lifetime, Echoes
  <2>6. Reading(c)' => thr'[th].pc = "read" \/ (thr'[th].pc = "enter" /\ co'[c].at = "recv")
    BY <1>0, <1>2, <2>2, AddsAre DEF Reading
  <2>7. Emptied(c)'
    BY <1>1, <2>6 DEF Emptied
  <2> QED
    BY <2>5, <2>7
<1>3. CASE th # Reactor
  <2>1. th = c /\ ~InReactor(c)'
    BY <1>3, RunsFacts DEF Early
  <2>2. Executed(c)' <=> thr'[c].pc # "enter"
    BY <2>1 DEF Executed
  <2>3. Lifetime(c)'
    BY <2>1, <2>2 DEF Lifetime
  <2>4. Reading(c)' => thr'[th].pc = "read" \/ (thr'[th].pc = "enter" /\ co'[c].at = "recv")
    BY <2>1 DEF Reading
  <2>5. Emptied(c)'
    BY <1>1, <2>4 DEF Emptied
  <2> QED
    BY <2>3, <2>5
<1> QED
  BY <1>2, <1>3

LEMMA ReadEcho ==
  ASSUME RInv, NEW th \in Threads, NEW c \in Conns, c = Runs(th), Echoes(c),
         ReadReady(th) \/ ReadAgain(th)
  PROVE  Echoes(c)'
<1> TypeOK
  BY DEF RInv
<1>1. /\ thr[th].pc \in {"read", "again"} /\ SocketKept /\ OthersKept(th, c)
      /\ thr[th].pc = "again" => thr[th].op = "DelRecv"
      /\ \/ GotData(th, c) \/ ReadOver(th, c)
         \/ thr[th].pc = "read" /\ Suspended(th, c, "recv", "AddRecv")
  BY ReadReadyEffect, ReadAgainEffect
<1>2. co[c].life = "live" /\ co[c].at = "run" /\ (~sock[c].closed => co[c].buf = 0)
  BY <1>1, InBodyBefore
<1>3. sock' = sock
  BY <1>1 DEF SocketKept
<1>4. /\ net[c].rx \in Nat /\ net[c].tx \in Nat /\ net[c].sent \in Nat
      /\ net[c].got \in Nat /\ co[c].buf \in Nat
  BY Fields
<1>5. CASE GotData(th, c)
  <2>1. Lifetime(c)' /\ Emptied(c)'
    BY <1>1, <1>2, <1>3, <1>5, InBodyAfter DEF GotData
  <2>2. Conserved(c)'
    <3>1. co[c].buf = 0 /\ Conserved(c)
      BY <1>2, <1>5 DEF GotData, Echoes
    <3> QED
      BY <1>3, <1>4, <1>5, <3>1 DEF Conserved, GotData
  <2> QED
    BY <2>1, <2>2 DEF Echoes
<1>6. CASE ReadOver(th, c)
  <2>1. Lifetime(c)' /\ Emptied(c)'
    BY <1>1, <1>2, <1>3, <1>6, InBodyAfter DEF ReadOver, HandlerKept
  <2>2. Conserved(c)'
    BY <1>3, <1>6 DEF Conserved, ReadOver, HandlerKept, BytesKept, Echoes
  <2> QED
    BY <2>1, <2>2 DEF Echoes
<1>7. CASE thr[th].pc = "read" /\ Suspended(th, c, "recv", "AddRecv")
  <2>1. Lifetime(c)' /\ Emptied(c)'
    BY <1>1, <1>2, <1>3, <1>7, InBodyAfter, AddsAre DEF Suspended
  <2>2. Conserved(c)'
    BY <1>3, <1>7 DEF Conserved, Suspended, BytesKept, Echoes
  <2> QED
    BY <2>1, <2>2 DEF Echoes
<1> QED
  BY <1>1, <1>5, <1>6, <1>7

LEMMA WriteEcho ==
  ASSUME RInv, NEW th \in Threads, NEW c \in Conns, c = Runs(th), Echoes(c),
         WriteReady(th) \/ WriteAgain(th)
  PROVE  Echoes(c)'
<1> TypeOK
  BY DEF RInv
<1>1. /\ thr[th].pc \in {"write", "again"} /\ SocketKept /\ OthersKept(th, c)
      /\ \/ SentData(th, c) \/ WriteOver(th, c) \/ WriteRetry(th, c) \/ Killed(c)
         \/ Suspended(th, c, "send", "AddSend")
  BY WriteReadyEffect, WriteAgainEffect
<1>2. co[c].life = "live" /\ co[c].at = "run"
  BY <1>1, InBodyBefore
<1>3. sock' = sock
  BY <1>1 DEF SocketKept
<1>4. /\ net[c].rx \in Nat /\ net[c].tx \in Nat /\ net[c].sent \in Nat
      /\ net[c].got \in Nat /\ co[c].buf \in Nat
  BY Fields
<1>5. CASE SentData(th, c)
  <2>1. Lifetime(c)' /\ Emptied(c)'
    BY <1>1, <1>2, <1>3, <1>5, InBodyAfter DEF SentData
  <2>2. Conserved(c)'
    BY <1>3, <1>4, <1>5 DEF Conserved, SentData, Echoes
  <2> QED
    BY <2>1, <2>2 DEF Echoes
<1>6. CASE WriteOver(th, c)
  <2>1. Lifetime(c)' /\ Emptied(c)'
    BY <1>1, <1>2, <1>3, <1>6, InBodyAfter DEF WriteOver
  <2>2. Conserved(c)'
    BY <1>3, <1>6 DEF Conserved, WriteOver, BytesKept
  <2> QED
    BY <2>1, <2>2 DEF Echoes
<1>7. CASE WriteRetry(th, c)
  <2>1. Lifetime(c)' /\ Emptied(c)'
    BY <1>1, <1>2, <1>3, <1>7, InBodyAfter DEF WriteRetry, HandlerKept
  <2>2. Conserved(c)'
    BY <1>3, <1>7 DEF Conserved, WriteRetry, HandlerKept, BytesKept, Echoes
  <2> QED
    BY <2>1, <2>2 DEF Echoes
<1>8. CASE Suspended(th, c, "send", "AddSend")
  <2>1. Lifetime(c)' /\ Emptied(c)'
    BY <1>1, <1>2, <1>3, <1>8, InBodyAfter, AddsAre DEF Suspended
  <2>2. Conserved(c)'
    BY <1>3, <1>8 DEF Conserved, Suspended, BytesKept, Echoes
  <2> QED
    BY <2>1, <2>2 DEF Echoes
<1>9. CASE Killed(c)
  <2>1. current' = current
    BY <1>1 DEF OthersKept
  <2> QED
    BY <1>3, <1>9, <2>1 DEF Killed, Echoes, Lifetime, Emptied, Conserved, Executed, Reading,
       InReactor, Active
<1> QED
  BY <1>1, <1>5, <1>6, <1>7, <1>8, <1>9

(* The places a method of EventManager can leave a thread at.              *)
MethodGoes(th, c) ==
  /\ thr[th].pc \in Method /\ thr'[th].op = thr[th].op
  /\ sock'[c].closed = sock[c].closed
  /\ UNCHANGED <<net, co>>
  /\ \/ thr'[th].pc \in Method
     \/ thr[th].op \in Adds /\ thr'[th].pc = Left(th)
     \/ thr[th].op \notin Adds /\ thr'[th].pc = "again"
     \/ thr[th].op \notin Adds /\ thr'[th].pc = "read" /\ sock[c].closed

LEMMA MethodEffect ==
  ASSUME TypeOK, NEW th \in Threads, NEW c \in Conns, c = Runs(th),
         \/ Enter(th) \/ SetCoro(th) \/ NewIOState(th) \/ SetIOState(th) \/ UpdateEvent(th)
  PROVE  MethodGoes(th, c) /\ OthersKept(th, c)
<1>0. After(th) = (IF thr[th].op \in Adds THEN Left(th) ELSE "again")
  BY MethodFacts
<1>1. CASE Enter(th)
  <2>1. /\ thr[th].pc = "enter" /\ thr'[th].op = thr[th].op
        /\ OthersKept(th, c) /\ UNCHANGED <<net, co>>
        /\ Skipped(th, c) \/ Entered(th, c)
    BY <1>1, EnterEffect
  <2>2. CASE Skipped(th, c)
    BY <1>0, <2>1, <2>2 DEF Skipped, MethodGoes, Method
  <2>3. CASE Entered(th, c)
    BY <2>1, <2>3 DEF Entered, StoredKept, MethodGoes, Method
  <2> QED
    BY <2>1, <2>2, <2>3
<1>2. CASE SetCoro(th)
  BY <1>2, SetCoroEffect DEF MethodGoes, Method
<1>3. CASE NewIOState(th)
  BY <1>3, NewIOStateEffect DEF MethodGoes, Method
<1>4. CASE SetIOState(th)
  BY <1>4, SetIOStateEffect DEF MethodGoes, Method, StoredKept
<1>5. CASE UpdateEvent(th)
  BY <1>0, <1>5, UpdateEventEffect DEF MethodGoes, Method
<1> QED
  BY <1>1, <1>2, <1>3, <1>4, <1>5

LEMMA MethodEcho ==
  ASSUME RInv, NEW th \in Threads, NEW c \in Conns, c = Runs(th), Echoes(c),
         MethodGoes(th, c), OthersKept(th, c)
  PROVE  Echoes(c)'
<1>0. /\ thr[th].pc \in Method /\ thr'[th].op = thr[th].op
      /\ sock'[c].closed = sock[c].closed /\ net'[c] = net[c] /\ co'[c] = co[c]
      /\ Left(th) = (IF th = Reactor THEN "loop" ELSE "leave")
      /\ \/ thr'[th].pc \in Method
         \/ thr[th].op \in Adds /\ thr'[th].pc = Left(th)
         \/ thr[th].op \notin Adds /\ thr'[th].pc = "again"
         \/ thr[th].op \notin Adds /\ thr'[th].pc = "read" /\ sock[c].closed
  BY DEF MethodGoes, Left
<1>1. Conserved(c)'
  BY <1>0 DEF Conserved, Echoes
<1>2. CASE th = Reactor
  <2>1. /\ InReactor(c) /\ thr'[c] = thr[c] /\ thr[c].pc \notin Early
        /\ InReactor(c)' <=> thr'[Reactor].pc \notin {"loop", "wait", "stopped"}
    BY <1>0, <1>2, RunsFacts
  <2>2. thr[c].pc \notin {"idle", "read", "write", "end"}
    BY <2>1 DEF Early
  <2>3. Executed(c) <=> thr[th].op \notin Adds
    BY <1>0, <1>2, <2>1, <2>2 DEF Executed
  <2>4. InReactor(c)' <=> thr'[th].pc # "loop"
    BY <1>0, <1>2, <2>1 DEF Method
  <2>5. Executed(c)' <=> thr[th].op \notin Adds
    BY <1>0, <1>2, <2>1, <2>2, <2>4 DEF Executed, Method
  <2>6. Lifetime(c)'
    BY <1>0, <2>1, <2>3, <2>5 DEF Lifetime, Echoes
  <2>7. Reading(c)' => Reading(c) \/ sock[c].closed
    BY <1>0, <1>2, <2>1, <2>2, <2>4 DEF Reading, Method
  <2>8. Emptied(c)'
    BY <1>0, <2>7 DEF Emptied, Echoes
  <2> QED
    BY <1>1, <2>6, <2>8 DEF Echoes
<1>3. CASE th # Reactor
  <2>1. /\ th = c /\ thr'[Reactor] = thr[Reactor] /\ (InReactor(c)' <=> InReactor(c))
        /\ thr[c].op \in Adds
    BY <1>0, <1>3, RunsFacts
  <2>2. /\ thr[c].pc \notin {"idle", "read", "write", "end", "gone"}
        /\ thr'[c].pc \notin {"idle", "read", "write", "end"}
    BY <1>0, <1>3, <2>1 DEF Method
  <2>3. (Executed(c)' <=> Executed(c)) /\ (Reading(c)' <=> Reading(c))
    BY <1>0, <2>1, <2>2 DEF Executed, Reading
  <2>4. Lifetime(c)'
    BY <1>0, <2>1, <2>2, <2>3 DEF Lifetime, Echoes
  <2>5. Emptied(c)'
    BY <1>0, <2>3 DEF Emptied, Echoes
  <2> QED
    BY <1>1, <2>4, <2>5 DEF Echoes
<1> QED
  BY <1>2, <1>3

LEMMA EndEcho ==
  ASSUME RInv, NEW th \in Threads, NEW c \in Conns, c = Runs(th), Echoes(c), HandlerEnd(th)
  PROVE  Echoes(c)'
<1> TypeOK
  BY DEF RInv
<1>1. /\ thr[th].pc = "end" /\ thr'[th].pc = (IF th = Reactor THEN "loop" ELSE "gone")
      /\ OthersKept(th, c) /\ UNCHANGED net
      /\ co'[c].buf = co[c].buf /\ sock'[c].closed = sock[c].closed
      /\ \/ /\ th = Reactor /\ thr[c].pc # "gone"
            /\ co'[c].life = "done" /\ co'[c].at = co[c].at
         \/ /\ th # Reactor \/ thr[c].pc = "gone"
            /\ co'[c].life = "freed" /\ co'[c].at = "run"
  BY HandlerEndEffect, ZenonT(60) DEF Destroyed, StoredKept
<1>2. co[c].at = "run"
  BY <1>1, InBodyBefore
<1>3. Conserved(c)'
  BY <1>1 DEF Conserved, Echoes
<1>4. ~InReactor(c)' /\ thr'[c].pc \notin {"idle", "read", "write", "end"}
      /\ (co'[c].life = "freed" => thr'[c].pc = "gone")
  <2>1. CASE th = Reactor
    BY <1>1, <2>1, RunsFacts DEF Early
  <2>2. CASE th # Reactor
    BY <1>1, <2>2, RunsFacts DEF Early
  <2> QED
    BY <2>1, <2>2
<1> QED
  BY <1>1, <1>2, <1>3, <1>4 DEF Echoes, Lifetime, Emptied, Executed, Reading

LEMMA EchoStep == EInv /\ [Next]_vars => EInv'
<1> SUFFICES ASSUME EInv, [Next]_vars PROVE EInv'
  OBVIOUS
<1> RInv /\ TypeOK /\ \A d \in Conns : Echoes(d) /\ WorkerControl(d) /\ Bounded(d)
  BY DEF EInv, RInv
<1>r. RInv'
  BY RunnerStep
<1>s. SUFFICES \A d \in Conns : Echoes(d)'
  BY <1>r DEF EInv
<1>0. Reactor \in Threads /\ \A d \in Conns : d \in Threads /\ d # Reactor
  BY ReactorAssumption DEF Threads
<1>1. ASSUME NEW c \in Conns, PeerActs(c), NEW d \in Conns PROVE Echoes(d)'
  <2>1. /\ net' \in [Conns -> Links]
        /\ net[c].peer = "rst" => net'[c].peer = "rst"
        /\ net'[c].peer # "rst" =>
             net'[c].sent - (net'[c].rx + net'[c].tx + net'[c].got)
               = net[c].sent - (net[c].rx + net[c].tx + net[c].got)
        /\ \A g \in Conns : g # c => net'[g] = net[g]
        /\ UNCHANGED <<sock, co, thr, current>>
    BY <1>1, PeerEffect
  <2>2. Lifetime(d)' /\ Emptied(d)'
    BY <2>1 DEF Echoes, Lifetime, Emptied, Executed, Reading, InReactor, Active
  <2>3. Conserved(d)'
    <3>1. CASE d = c
      <4> SUFFICES ASSUME net'[c].peer # "rst", ~sock'[c].closed
                   PROVE  net'[c].sent = net'[c].rx + co'[c].buf + net'[c].tx + net'[c].got
        BY <3>1 DEF Conserved
      <4>1. /\ net[c].rx \in Nat /\ net[c].tx \in Nat /\ net[c].sent \in Nat
            /\ net[c].got \in Nat /\ co[c].buf \in Nat
        BY Fields
      <4>2. net'[c] \in Links
        BY <2>1
      <4>3. /\ net'[c].rx \in Nat /\ net'[c].tx \in Nat /\ net'[c].sent \in Nat
            /\ net'[c].got \in Nat
        BY <4>2, Sizes DEF Links
      <4>4. co'[c].buf = co[c].buf /\ sock'[c] = sock[c]
        BY <2>1
      <4>5. net[c].sent = net[c].rx + co[c].buf + net[c].tx + net[c].got
        BY <2>1, <4>4 DEF Echoes, Conserved
      <4>6. net'[c].sent - (net'[c].rx + net'[c].tx + net'[c].got)
              = net[c].sent - (net[c].rx + net[c].tx + net[c].got)
        BY <2>1
      <4>7. \A s, r, x, g, b, s1, r1, x1, g1 \in Nat :
              s1 - (r1 + x1 + g1) = s - (r + x + g) /\ s = r + b + x + g
                => s1 = r1 + b + x1 + g1
        OBVIOUS
      <4> QED
        BY <4>1, <4>3, <4>4, <4>5, <4>6, <4>7
    <3>2. CASE d # c
      BY <2>1, <3>2 DEF Echoes, Conserved
    <3> QED
      BY <3>1, <3>2
  <2> QED
    BY <2>2, <2>3 DEF Echoes
<1>2. ASSUME NEW c \in Conns, Accept(c), NEW d \in Conns PROVE Echoes(d)'
  <2>1. /\ net[c].peer = "none" /\ net'[c].peer = "open"
        /\ net'[c].rx = net[c].rx /\ net'[c].tx = net[c].tx
        /\ net'[c].sent = net[c].sent /\ net'[c].got = net[c].got
        /\ co'[c].buf = co[c].buf /\ co'[c].at = co[c].at /\ co'[c].life = "live"
        /\ thr'[c].pc = "read"
        /\ \A u \in Threads : u # c => thr'[u] = thr[u]
        /\ \A g \in Conns : g # c => net'[g] = net[g] /\ co'[g] = co[g]
        /\ UNCHANGED <<sock, current>>
    BY <1>2, AcceptEffect
  <2>2. thr'[Reactor] = thr[Reactor] /\ (InReactor(d)' <=> InReactor(d))
    BY <1>0, <2>1 DEF InReactor, Active
  <2>3. CASE d = c
    <3>1. thr[c].pc = "idle" /\ ~InReactor(c)
      BY <2>1 DEF WorkerControl, Early
    <3>2. co[c].at = "run" /\ (~sock[c].closed => co[c].buf = 0)
      BY <3>1 DEF Echoes, Lifetime, Emptied, Reading
    <3>3. Lifetime(c)' /\ Emptied(c)'
      BY <2>1, <2>2, <2>3, <3>1, <3>2 DEF Lifetime, Emptied, Executed
    <3>4. Conserved(c)'
      BY <2>1 DEF Echoes, Conserved
    <3> QED
      BY <2>3, <3>3, <3>4 DEF Echoes
  <2>4. CASE d # c
    <3>1. thr'[d] = thr[d] /\ net'[d] = net[d] /\ co'[d] = co[d] /\ sock' = sock
      BY <1>0, <2>1, <2>4
    <3> QED
      BY <2>2, <3>1 DEF Echoes, Lifetime, Emptied, Conserved, Executed, Reading
  <2> QED
    BY <2>3, <2>4
<1>3. ASSUME NEW th \in Threads, HandlerStep(th), NEW d \in Conns PROVE Echoes(d)'
  <2>1. PICK c \in Conns : c = Runs(th)
    BY RunsType
  <2>2. /\ OthersKept(th, c) /\ thr[th].pc \in {"read", "write", "again", "end"} \cup Method
    BY <1>3, <2>1, HandlerFacts
  <2>3. CASE d = c
    <3>1. CASE ReadReady(th) \/ ReadAgain(th)
      BY <2>1, <2>3, <3>1, ReadEcho
    <3>2. CASE WriteReady(th) \/ WriteAgain(th)
      BY <2>1, <2>3, <3>2, WriteEcho
    <3>3. CASE Enter(th) \/ SetCoro(th) \/ NewIOState(th) \/ SetIOState(th) \/ UpdateEvent(th)
      BY <2>1, <2>3, <3>3, MethodEffect, MethodEcho
    <3>4. CASE HandlerEnd(th)
      BY <2>1, <2>3, <3>4, EndEcho
    <3> QED
      BY <1>3, <3>1, <3>2, <3>3, <3>4 DEF HandlerStep
  <2>4. CASE d # c
    <3>1. th = Reactor => Active
      BY <2>2 DEF Active, Method
    <3>2. /\ thr'[d] = thr[d] /\ (InReactor(d)' <=> InReactor(d))
          /\ InReactor(d) => thr'[Reactor] = thr[Reactor]
          /\ net'[d] = net[d] /\ sock'[d] = sock[d] /\ co'[d] = co[d]
      BY <2>1, <2>2, <2>4, <3>1, OtherReactor DEF RInv, ReactorControl
    <3> QED
      BY <3>2 DEF Echoes, Lifetime, Emptied, Conserved, Executed, Reading
  <2> QED
    BY <2>3, <2>4
<1>4. ASSUME NEW c \in Conns, WorkerLeave(c), NEW d \in Conns PROVE Echoes(d)'
  <2>1. /\ thr[c].pc = "leave" /\ thr'[c].pc = "gone" /\ OthersKept(c, c) /\ UNCHANGED net
        /\ co'[c].buf = co[c].buf /\ sock'[c].closed = sock[c].closed
        /\ \/ co[c].life # "done" /\ co'[c].life = co[c].life /\ co'[c].at = co[c].at
           \/ co[c].life = "done" /\ co'[c].life = "freed" /\ co'[c].at = "run"
    BY <1>4, WorkerLeaveEffect DEF Destroyed, StoredKept
  <2>2. thr'[Reactor] = thr[Reactor] /\ (InReactor(d)' <=> InReactor(d))
    BY <1>0, <2>1 DEF OthersKept, InReactor, Active
  <2>3. CASE d = c
    <3>1. Lifetime(c)'
      BY <2>1, <2>2, <2>3 DEF Echoes, Lifetime, Executed
    <3>2. Emptied(c)'
      BY <2>1, <2>2, <2>3 DEF Echoes, Lifetime, Emptied, Reading
    <3>3. Conserved(c)'
      BY <2>1 DEF Echoes, Conserved
    <3> QED
      BY <2>3, <3>1, <3>2, <3>3 DEF Echoes
  <2>4. CASE d # c
    <3>1. thr'[d] = thr[d] /\ net'[d] = net[d] /\ co'[d] = co[d] /\ sock'[d] = sock[d]
      BY <1>0, <2>1, <2>4 DEF OthersKept
    <3> QED
      BY <2>2, <3>1 DEF Echoes, Lifetime, Emptied, Conserved, Executed, Reading
  <2> QED
    BY <2>3, <2>4
<1>5. ASSUME NEW c \in Conns, Close(c), NEW d \in Conns PROVE Echoes(d)'
  <2>1. /\ sock'[c].closed /\ (d # c => sock'[d] = sock[d])
        /\ UNCHANGED <<net, co, thr, current>>
    BY <1>5, CloseEffect
  <2> QED
    BY <2>1 DEF Echoes, Lifetime, Emptied, Conserved, Executed, Reading, InReactor, Active
<1>6. ASSUME LoopTop \/ EpollWait \/ Shutdown \/ UNCHANGED vars, NEW d \in Conns
      PROVE  Echoes(d)'
  <2>1. /\ thr'[d] = thr[d] /\ UNCHANGED <<net, sock, co, current>>
        /\ \/ thr'[Reactor] = thr[Reactor]
           \/ /\ thr[Reactor].pc \in {"loop", "wait"}
              /\ thr'[Reactor].pc \in {"stopped", "wait", "loop"}
    BY <1>6, LoopTopEffect, EpollWaitEffect, ShutdownEffect DEF vars
  <2>2. /\ InReactor(d)' <=> InReactor(d)
        /\ InReactor(d) => thr'[Reactor] = thr[Reactor]
    BY <2>1 DEF InReactor, Active
  <2> QED
    BY <2>1, <2>2 DEF Echoes, Lifetime, Emptied, Conserved, Executed, Reading
<1>7. ASSUME Dispatch, NEW d \in Conns PROVE Echoes(d)'
  <2>1. Head(batch) \in [conn : Conns, ev : {"IN", "OUT"}]
    BY <1>7, DispatchEffect
  <2>2. PICK c \in Conns : c = Head(batch).conn
    BY <2>1
  <2>3. /\ thr[Reactor].pc = "loop" /\ thr'[d] = thr[d] /\ thr'[c] = thr[c]
        /\ UNCHANGED <<net, sock>>
        /\ \/ /\ sock[c].recv \/ sock[c].send
              /\ co[c].life = "live" /\ current' = c /\ thr'[Reactor].pc = "enter"
              /\ thr'[Reactor].op = (IF co[c].at = "send" THEN "DelSend" ELSE "DelRecv")
              /\ co'[c].at = "run" /\ co'[c].buf = co[c].buf /\ co'[c].life = co[c].life
              /\ d # c => co'[d] = co[d]
           \/ UNCHANGED <<current, thr, co>>
    BY <1>7, <2>2, DispatchEffect DEF Handle
  <2>4. ~InReactor(d) /\ ~InReactor(c)
    BY <2>3 DEF InReactor, Active
  <2>5. CASE UNCHANGED <<current, thr, co>>
    BY <2>3, <2>5 DEF Echoes, Lifetime, Emptied, Conserved, Executed, Reading, InReactor, Active
  <2>6. CASE current' = c /\ thr'[Reactor].pc = "enter" /\ d # c /\ co'[d] = co[d]
    <3>1. ~InReactor(d)'
      BY <2>6 DEF InReactor
    <3> QED
      BY <2>3, <2>4, <2>6, <3>1 DEF Echoes, Lifetime, Emptied, Conserved, Executed, Reading
  <2>7. CASE /\ sock[c].recv \/ sock[c].send
             /\ co[c].life = "live" /\ current' = c /\ thr'[Reactor].pc = "enter"
             /\ thr'[Reactor].op = (IF co[c].at = "send" THEN "DelSend" ELSE "DelRecv")
             /\ co'[c].at = "run" /\ co'[c].buf = co[c].buf /\ co'[c].life = co[c].life
             /\ d = c
    <3>1. thr[c].pc \notin {"idle", "read", "write", "end"}
      BY <2>7 DEF WorkerControl, Early
    <3>2. ~Executed(c)
      BY <2>4, <3>1 DEF Executed
    <3>3. co[c].at \in {"recv", "send"}
      BY <2>7, <3>2 DEF Echoes, Lifetime, TypeOK, Handlers
    <3>4. InReactor(c)' /\ Executed(c)'
      BY <2>7, AddsAre DEF InReactor, Active, Executed
    <3>5. Lifetime(c)'
      BY <2>3, <2>7, <3>1, <3>4 DEF Lifetime, Echoes
    <3>6. Reading(c)' => Reading(c)
      BY <2>3, <2>7, <3>1, <3>3 DEF Reading
    <3>7. Emptied(c)' /\ Conserved(c)'
      BY <2>3, <2>7, <3>6 DEF Emptied, Conserved, Echoes
    <3> QED
      BY <2>7, <3>5, <3>7 DEF Echoes
  <2> QED
    BY <2>3, <2>5, <2>6, <2>7
<1> QED
  BY <1>0, <1>1, <1>2, <1>3, <1>4, <1>5, <1>6, <1>7
     DEF Next, PeerActs, WorkerStep, ReactorStep, Threads

LEMMA EchoInductive == Spec => []EInv
  BY InitEcho, EchoStep, PTL DEF Spec

(* For every buffer size and message length, partial reads and writes and  *)
(* the suspensions between them neither lose nor repeat a byte.            *)
THEOREM BytesAreKept == Spec => []EchoConserved
<1>1. EInv => EchoConserved
  BY DEF EInv, Echoes, Conserved, EchoConserved
<1> QED
  BY <1>1, EchoInductive, PTL

-----------------------------------------------------------------------------
(* The stored handles and what the coroutine waits for.                    *)

Point(m) == IF m \in {"AddRecv", "DelRecv"} THEN "recv" ELSE "send"

(* What the coroutine waits for, or has just been resumed from.            *)
WaitsFor(c) ==
  IF InReactor(c) /\ thr[Reactor].pc \in {"enter", "coro"} /\ thr[Reactor].op \notin Adds
    THEN Point(thr[Reactor].op)
    ELSE co[c].at

Matched(c) ==
  /\ sock[c].recv => WaitsFor(c) = "recv"
  /\ sock[c].send => WaitsFor(c) = "send"

(* A closed connection, and the last events of a reactor that has been     *)
(* shut down, skip the Del: the handle stays behind, but no event that     *)
(* would use it is or will be delivered.                                   *)
Stale(c) ==
  /\ ~InBatch(c)
  /\ sock[c].closed \/ (is_shutdown_ /\ thr[Reactor].pc # "wait")

AddsAwaited(c) ==
  /\ thr[c].pc \in {"enter", "coro"} => co[c].at = Point(thr[c].op)
  /\ InReactor(c) /\ thr[Reactor].pc \in {"enter", "coro"} /\ thr[Reactor].op \in Adds =>
       co[c].at = Point(thr[Reactor].op)

Waits(c) ==
  /\ AddsAwaited(c)
  /\ InReactor(c) => ~InBatch(c)
  /\ sock[c].closed => ~ep[c].on
  /\ ~ep[c].on => ep[c].mask = {}
  /\ Matched(c) \/ Stale(c)

MInv == EInv /\ ListedOnce /\ BatchedOnce /\ \A c \in Conns : Waits(c)

LEMMA InitWaits == Init => MInv
<1> SUFFICES ASSUME Init PROVE MInv
  OBVIOUS
<1>1. EInv
  BY InitEcho
<1>2. ready = <<>> /\ batch = <<>>
  BY DEF Init
<1>3. ListedOnce /\ BatchedOnce
  BY <1>2 DEF ListedOnce, BatchedOnce
<1>4. ASSUME NEW c \in Conns PROVE Waits(c)
  <2>1. /\ thr[c].pc = "idle" /\ thr[Reactor].pc = "loop"
        /\ ep[c] = [on |-> FALSE, mask |-> {}]
        /\ ~sock[c].recv /\ ~sock[c].send /\ ~sock[c].closed
    BY ReactorAssumption DEF Init, Threads
  <2> QED
    BY <2>1 DEF Waits, AddsAwaited, Matched, InReactor, Active
<1> QED
  BY <1>1, <1>3, <1>4 DEF MInv

(* The ready list holds a socket once.                                     *)
LEMMA EnlistOnce ==
  ASSUME TypeOK, ListedOnce, NEW c \in Conns, NEW happened, Enlist(c, happened)
  PROVE  ListedOnce'
<1>1. ready \in Seq(Conns)
  BY DEF TypeOK
<1>2. ready' = ready \/ (ready' = Append(ready, c) /\ ~Listed(c))
  BY Zenon DEF Enlist
<1>3. CASE ready' = ready
  BY <1>3 DEF ListedOnce
<1>4. CASE ready' = Append(ready, c) /\ ~Listed(c)
  <2>1. /\ Len(ready') = Len(ready) + 1 /\ ready'[Len(ready) + 1] = c /\ Len(ready) \in Nat
        /\ \A i \in 1..Len(ready) : ready'[i] = ready[i]
    BY <1>1, <1>4
  <2>2. \A i \in 1..Len(ready) : ready[i] # c
    BY <1>4 DEF Listed
  <2> QED
    BY <2>1, <2>2 DEF ListedOnce
<1> QED
  BY <1>2, <1>3, <1>4

LEMMA EpollDropOnce ==
  ASSUME TypeOK, ListedOnce, NEW c \in Conns, EpollDrop(c)
  PROVE  ListedOnce'
<1>1. CASE Listed(c)
  <2>1. PICK at \in 1..Len(ready) :
          ready' = [i \in 1..(Len(ready) - 1) |-> ready[IF i < at THEN i ELSE i + 1]]
    BY <1>1 DEF EpollDrop
  <2>2. ready \in Seq(Conns) /\ ready' \in Seq(Conns)
    BY EpollDropEffect DEF TypeOK
  <2>3. Len(ready) \in Nat /\ Len(ready) - 1 \in Nat
    BY <2>2
  <2> DEFINE k(i) == IF i < at THEN i ELSE i + 1
  <2>4. Len(ready') = Len(ready) - 1 /\ \A i \in 1..(Len(ready) - 1) : ready'[i] = ready[k(i)]
    BY <2>1, <2>2, <2>3, LenProperties
  <2>5. \A i \in 1..(Len(ready) - 1) : k(i) \in 1..Len(ready)
    BY <2>3
  <2>6. \A i, j \in 1..(Len(ready) - 1) : k(i) = k(j) => i = j
    BY <2>3
  <2> HIDE DEF k
  <2> QED
    BY <2>4, <2>5, <2>6 DEF ListedOnce
<1>2. CASE ~Listed(c)
  BY <1>2 DEF EpollDrop, ListedOnce
<1> QED
  BY <1>1, <1>2

LEMMA HandlerListedOnce ==
  ASSUME TypeOK, ListedOnce, NEW th \in Threads, HandlerStep(th)
  PROVE  ListedOnce'
<1>1. PICK c \in Conns : c = Runs(th)
  BY RunsType
<1>2. CASE ReadReady(th) \/ ReadAgain(th) \/ WriteReady(th) \/ WriteAgain(th)
           \/ SetCoro(th) \/ NewIOState(th) \/ SetIOState(th)
  <2>1. ready' = ready
    BY <1>2 DEF ReadReady, ReadAgain, WriteReady, WriteAgain, SetCoro, NewIOState, ChangeIOState,
       SetIOState
  <2> QED
    BY <2>1 DEF ListedOnce
<1>3. CASE Enter(th) \/ UpdateEvent(th)
  <2>1. ready' = ready \/ \E mask : EpollSet(c, mask)
    BY <1>1, <1>3, EnterEffect, UpdateEventEffect DEF Skipped, Entered
  <2>2. ready' = ready \/ \E h : Enlist(c, h)
    BY <2>1 DEF EpollSet
  <2> QED
    BY <1>1, <2>2, EnlistOnce DEF ListedOnce
<1>4. CASE HandlerEnd(th)
  <2>1. ready' = ready \/ EpollDrop(c)
    BY <1>1, <1>4, HandlerEndEffect DEF Destroyed
  <2> QED
    BY <2>1, EpollDropOnce DEF ListedOnce
<1> QED
  BY <1>2, <1>3, <1>4 DEF HandlerStep

(* A step of a thread inside a coroutine does not bring the reactor to     *)
(* epoll_wait.                                                             *)
LEMMA StillStale ==
  ASSUME RInv, NEW th \in Threads, NEW c \in Conns, c = Runs(th), HandlerStep(th), NEW d \in Conns,
         Stale(d), sock'[d].closed = sock[d].closed
  PROVE  Stale(d)'
<1> TypeOK
  BY DEF RInv
<1>1. OthersKept(th, c) /\ thr[th].pc \in {"read", "write", "again", "end"} \cup Method
  BY HandlerFacts
<1>2. batch' = batch /\ is_shutdown_' = is_shutdown_
  BY <1>1 DEF OthersKept
<1>3. thr[Reactor].pc # "wait" => thr'[Reactor].pc # "wait"
  <2>1. CASE th = Reactor
    <3>1. CASE ReadReady(th) \/ ReadAgain(th)
      BY <2>1, <3>1, ReadReadyEffect, ReadAgainEffect DEF GotData, ReadOver, Suspended
    <3>2. CASE WriteReady(th) \/ WriteAgain(th)
      BY <2>1, <3>2, WriteReadyEffect, WriteAgainEffect
         DEF SentData, WriteOver, WriteRetry, Killed, Suspended
    <3>3. CASE Enter(th) \/ SetCoro(th) \/ NewIOState(th) \/ SetIOState(th) \/ UpdateEvent(th)
      <4>1. MethodGoes(th, c)
        BY <3>3, MethodEffect
      <4> QED
        BY <2>1, <4>1 DEF MethodGoes, Method, Left
    <3>4. CASE HandlerEnd(th)
      BY <2>1, <3>4, HandlerEndEffect
    <3> QED
      BY <3>1, <3>2, <3>3, <3>4 DEF HandlerStep
  <2>2. CASE th # Reactor
    BY <1>1, <2>2 DEF OthersKept, Threads
  <2> QED
    BY <2>1, <2>2
<1> QED
  BY <1>2, <1>3 DEF Stale, InBatch

(* While its body runs, a coroutine waits for nothing and no handle of it  *)
(* is stored, but for the stale ones.                                      *)
LEMMA BodyWaits ==
  ASSUME RInv, NEW th \in Threads, NEW c \in Conns, c = Runs(th), Echoes(c), Waits(c),
         HandlerStep(th), thr[th].pc \in {"read", "write", "again", "end"},
         StoredKept(c),
         ep'[c].on => ~sock[c].closed, ~ep'[c].on => ep'[c].mask = {},
         \/ thr'[th].pc \in {"read", "write", "again", "end", "loop", "gone"}
         \/ thr'[th].pc = "enter" /\ co'[c].at = Point(thr'[th].op)
  PROVE  Waits(c)'
<1> TypeOK
  BY DEF RInv
<1>1. OthersKept(th, c)
  BY HandlerFacts
<1>2. batch' = batch
  BY <1>1 DEF OthersKept
<1>3. co[c].at = "run"
  BY <1>1, InBodyBefore
<1>4. /\ th = Reactor => InReactor(c) /\ thr'[c] = thr[c] /\ thr[c].pc \notin Early
      /\ th # Reactor => th = c /\ ~InReactor(c) /\ ~InReactor(c)'
  BY <1>1, RunsFacts DEF Early
<1>5. WaitsFor(c) = "run"
  BY <1>3, <1>4 DEF WaitsFor
<1>6. Matched(c)' \/ Stale(c)'
  <2>1. CASE Matched(c)
    BY <1>5, <2>1 DEF Matched, StoredKept
  <2>2. CASE Stale(c)
    BY <2>2, StillStale DEF StoredKept
  <2> QED
    BY <2>1, <2>2 DEF Waits
<1>7. AddsAwaited(c)'
  <2>1. CASE th = Reactor
    BY <1>4, <2>1 DEF AddsAwaited, Early
  <2>2. CASE th # Reactor
    BY <1>4, <2>2 DEF AddsAwaited
  <2> QED
    BY <2>1, <2>2
<1>8. InReactor(c)' => ~InBatch(c)'
  BY <1>2, <1>4 DEF Waits, InBatch
<1> QED
  BY <1>6, <1>7, <1>8 DEF Waits, StoredKept

LEMMA ReadWriteWaits ==
  ASSUME RInv, NEW th \in Threads, NEW c \in Conns, c = Runs(th), Echoes(c), Waits(c),
         ReadReady(th) \/ ReadAgain(th) \/ WriteReady(th) \/ WriteAgain(th)
  PROVE  Waits(c)'
<1> TypeOK
  BY DEF RInv
<1>1. /\ thr[th].pc \in {"read", "write", "again"} /\ SocketKept
      /\ \/ thr'[th].pc \in {"read", "write", "again", "end"}
         \/ thr'[th].pc = "enter" /\ co'[c].at = Point(thr'[th].op)
  <2>1. CASE ReadReady(th) \/ ReadAgain(th)
    BY <2>1, ReadReadyEffect, ReadAgainEffect DEF GotData, ReadOver, Suspended, Point
  <2>2. CASE WriteReady(th) \/ WriteAgain(th)
    BY <2>2, WriteReadyEffect, WriteAgainEffect
       DEF SentData, WriteOver, WriteRetry, Killed, Suspended, Point
  <2> QED
    BY <2>1, <2>2
<1>2. sock' = sock /\ ep' = ep
  BY <1>1 DEF SocketKept
<1>3. HandlerStep(th)
  BY DEF HandlerStep
<1> QED
  BY <1>1, <1>2, <1>3, BodyWaits DEF Waits, StoredKept

LEMMA EndWaits ==
  ASSUME RInv, NEW th \in Threads, NEW c \in Conns, c = Runs(th), Echoes(c), Waits(c),
         HandlerEnd(th)
  PROVE  Waits(c)'
<1> TypeOK
  BY DEF RInv
<1>1. /\ thr[th].pc = "end" /\ thr'[th].pc \in {"loop", "gone"}
      /\ UNCHANGED <<sock, ep>> \/ Destroyed(c)
  BY HandlerEndEffect
<1>2. StoredKept(c)
  BY <1>1 DEF StoredKept, Destroyed
<1>3. (ep'[c].on => ~sock[c].closed) /\ (~ep'[c].on => ep'[c].mask = {})
  BY <1>1 DEF Waits, Destroyed
<1>4. HandlerStep(th)
  BY DEF HandlerStep
<1> QED
  BY <1>1, <1>2, <1>3, <1>4, BodyWaits

(* Inside AddRecv, DelRecv, AddSend and DelSend the handle is written at   *)
(* one statement; elsewhere what the coroutine waits for stays the same.   *)
LEMMA EnterWaits ==
  ASSUME RInv, NEW th \in Threads, NEW c \in Conns, c = Runs(th), Waits(c), Enter(th)
  PROVE  Waits(c)'
<1> TypeOK
  BY DEF RInv
<1>0. HandlerStep(th)
  BY DEF HandlerStep
<1>1. /\ thr[th].pc = "enter" /\ thr'[th].op = thr[th].op /\ OthersKept(th, c)
      /\ UNCHANGED <<net, co, proc>>
      /\ Skipped(th, c) \/ Entered(th, c)
  BY EnterEffect
<1>2. /\ Left(th) = (IF th = Reactor THEN "loop" ELSE "leave")
      /\ After(th) = (IF thr[th].op \in Adds THEN Left(th) ELSE "again")
      /\ {Event(thr[th].op)} \in SUBSET {"IN", "OUT"}
  BY MethodFacts
<1>3. batch' = batch /\ is_shutdown_' = is_shutdown_ /\ co' = co
  BY <1>1 DEF OthersKept
<1>4. /\ th = Reactor => /\ InReactor(c) /\ thr'[c] = thr[c] /\ thr[c].pc \notin Early
                         /\ InReactor(c)' <=> thr'[Reactor].pc \notin {"loop", "wait", "stopped"}
      /\ th # Reactor => /\ th = c /\ ~InReactor(c) /\ ~InReactor(c)' /\ thr[c].op \in Adds
                         /\ ~sock[c].recv /\ ~sock[c].send
  <2>1. "enter" \in Method /\ "enter" \in Early
    BY DEF Method, Early
  <2> QED
    BY <1>1, <2>1, RunsFacts DEF RInv, WorkerControl
<1>5. StoredKept(c) /\ (ep'[c].on => ~sock[c].closed) /\ (~ep'[c].on => ep'[c].mask = {})
  <2>1. CASE UNCHANGED <<ep, sock>>
    BY <2>1 DEF StoredKept, Waits
  <2>2. CASE ~sock[c].closed /\ StoredKept(c) /\ EpollSet(c, {Event(thr[th].op)})
    BY <1>2, <2>2, EpollSetEffect
  <2> QED
    BY <1>1, <2>1, <2>2 DEF Skipped, Entered
<1>6. InReactor(c)' => ~InBatch(c)'
  BY <1>3, <1>4 DEF Waits, InBatch
<1>7. AddsAwaited(c)'
  <2>1. CASE th = Reactor
    BY <1>1, <1>3, <1>4, <2>1 DEF AddsAwaited, Waits, Early
  <2>2. CASE th # Reactor
    BY <1>1, <1>3, <1>4, <2>2 DEF AddsAwaited, Waits
  <2> QED
    BY <2>1, <2>2
<1>8. Matched(c)' \/ Stale(c)'
  <2>1. CASE th # Reactor
    BY <1>4, <1>5, <2>1 DEF Matched, StoredKept
  <2>2. CASE Stale(c)
    BY <1>0, <1>5, <2>2, StillStale DEF StoredKept
  <2>3. CASE th = Reactor /\ thr[th].op \in Adds /\ Matched(c)
    <3>1. WaitsFor(c)' = WaitsFor(c)
      BY <1>1, <1>3, <2>3 DEF WaitsFor
    <3> QED
      BY <1>5, <2>3, <3>1 DEF Matched, StoredKept
  <2>4. CASE th = Reactor /\ thr[th].op \notin Adds /\ Matched(c) /\ Entered(th, c)
    <3>1. WaitsFor(c)' = WaitsFor(c)
      BY <1>1, <1>3, <1>4, <2>4 DEF WaitsFor, Entered
    <3> QED
      BY <1>5, <2>4, <3>1 DEF Matched, StoredKept
  <2>5. CASE th = Reactor /\ thr[th].op \notin Adds /\ Skipped(th, c)
    <3>1. ~InBatch(c)'
      BY <1>3, <1>4, <2>5 DEF Waits, InBatch
    <3>2. sock'[c].closed \/ (is_shutdown_' /\ thr'[Reactor].pc # "wait")
      BY <1>2, <1>3, <1>5, <2>5 DEF Skipped, StoredKept
    <3> QED
      BY <3>1, <3>2 DEF Stale
  <2> QED
    BY <1>1, <2>1, <2>2, <2>3, <2>4, <2>5 DEF Waits
<1> QED
  BY <1>5, <1>6, <1>7, <1>8 DEF Waits, StoredKept

LEMMA SetCoroWaits ==
  ASSUME RInv, NEW th \in Threads, NEW c \in Conns, c = Runs(th), Waits(c), SetCoro(th)
  PROVE  Waits(c)'
<1> TypeOK
  BY DEF RInv
<1>0. HandlerStep(th)
  BY DEF HandlerStep
<1>1. /\ thr[th].pc = "coro" /\ thr'[th].pc = "load" /\ thr'[th].op = thr[th].op
      /\ OthersKept(th, c) /\ UNCHANGED <<ep, co>>
      /\ sock'[c].closed = sock[c].closed
      /\ IF Event(thr[th].op) = "IN"
           THEN (sock'[c].recv <=> thr[th].op \in Adds) /\ sock'[c].send = sock[c].send
           ELSE (sock'[c].send <=> thr[th].op \in Adds) /\ sock'[c].recv = sock[c].recv
  BY SetCoroEffect
<1>2. batch' = batch /\ co' = co /\ ep' = ep /\ thr[th].op \in Methods
  BY <1>1, MethodFacts DEF OthersKept
<1>3. /\ th = Reactor => InReactor(c) /\ thr'[c] = thr[c] /\ thr[c].pc \notin Early
      /\ th # Reactor => /\ th = c /\ ~InReactor(c) /\ ~InReactor(c)' /\ thr[c].op \in Adds
                         /\ ~sock[c].recv /\ ~sock[c].send
  <2>1. "coro" \in Method /\ "coro" \in Early
    BY DEF Method, Early
  <2> QED
    BY <1>1, <2>1, RunsFacts DEF RInv, WorkerControl
<1>4. AddsAwaited(c)' /\ (InReactor(c)' => ~InBatch(c)')
  <2>1. CASE th = Reactor
    BY <1>1, <1>2, <1>3, <2>1 DEF AddsAwaited, Waits, Early, InBatch
  <2>2. CASE th # Reactor
    BY <1>1, <1>3, <2>2 DEF AddsAwaited
  <2> QED
    BY <2>1, <2>2
<1>5. Matched(c)' \/ Stale(c)'
  <2>1. WaitsFor(c)' = co[c].at
    BY <1>1, <1>2, <1>3 DEF WaitsFor
  <2>2. Event(thr[th].op) = "IN" <=> Point(thr[th].op) = "recv"
    BY DEF Event, Point
  <2>3. Point(thr[th].op) \in {"recv", "send"}
    BY DEF Point
  <2>4. CASE thr[th].op \in Adds /\ Matched(c)
    <3>1. co[c].at = Point(thr[th].op)
      BY <1>1, <1>3, <2>4 DEF Waits, AddsAwaited
    <3>2. WaitsFor(c) = co[c].at
      BY <1>3, <2>4 DEF WaitsFor
    <3> QED
      BY <1>1, <2>1, <2>2, <2>3, <2>4, <3>1, <3>2 DEF Matched
  <2>5. CASE thr[th].op \notin Adds /\ Matched(c)
    <3>1. th = Reactor /\ WaitsFor(c) = Point(thr[th].op)
      BY <1>1, <1>3, <2>5 DEF WaitsFor
    <3> QED
      BY <1>1, <2>1, <2>2, <2>3, <2>5, <3>1 DEF Matched
  <2>6. CASE Stale(c)
    BY <1>0, <1>1, <2>6, StillStale
  <2> QED
    BY <2>4, <2>5, <2>6 DEF Waits
<1> QED
  BY <1>1, <1>2, <1>4, <1>5 DEF Waits

LEMMA UpdateWaits ==
  ASSUME RInv, NEW th \in Threads, NEW c \in Conns, c = Runs(th), Waits(c),
         NewIOState(th) \/ SetIOState(th) \/ UpdateEvent(th)
  PROVE  Waits(c)'
<1> TypeOK
  BY DEF RInv
<1>0. HandlerStep(th)
  BY DEF HandlerStep
<1>1. /\ thr[th].pc \in {"load", "store", "ctl"}
      /\ thr'[th].pc \in {"store", "ctl", "again", "loop", "leave"}
      /\ OthersKept(th, c) /\ UNCHANGED co /\ StoredKept(c)
      /\ UNCHANGED ep \/ (ep[c].on /\ EpollSet(c, thr[th].new))
  <2>1. CASE NewIOState(th)
    BY <2>1, NewIOStateEffect DEF StoredKept
  <2>2. CASE SetIOState(th)
    BY <2>2, SetIOStateEffect
  <2>3. CASE UpdateEvent(th)
    BY <2>3, UpdateEventEffect, MethodFacts DEF StoredKept
  <2> QED
    BY <2>1, <2>2, <2>3
<1>2. batch' = batch /\ co' = co
  BY <1>1 DEF OthersKept
<1>3. /\ th = Reactor => InReactor(c) /\ thr'[c] = thr[c] /\ thr[c].pc \notin Early
      /\ th # Reactor => /\ th = c /\ thr'[Reactor] = thr[Reactor]
                         /\ InReactor(c)' <=> InReactor(c)
  BY <1>1, RunsFacts DEF Method
<1>4. (ep'[c].on => ~sock[c].closed) /\ (~ep'[c].on => ep'[c].mask = {})
  <2>1. CASE UNCHANGED ep
    BY <2>1 DEF Waits
  <2>2. CASE ep[c].on /\ EpollSet(c, thr[th].new)
    BY <2>2, EpollSetEffect, MethodFacts DEF Waits
  <2> QED
    BY <1>1, <2>1, <2>2
<1>5. AddsAwaited(c)' /\ (InReactor(c)' => ~InBatch(c)')
  <2>1. CASE th = Reactor
    BY <1>1, <1>2, <1>3, <2>1 DEF AddsAwaited, Waits, Early, InBatch
  <2>2. CASE th # Reactor
    BY <1>1, <1>2, <1>3, <2>2 DEF AddsAwaited, Waits, InBatch
  <2> QED
    BY <2>1, <2>2
<1>6. WaitsFor(c)' = WaitsFor(c)
  BY <1>1, <1>2, <1>3 DEF WaitsFor
<1>7. Matched(c)' \/ Stale(c)'
  <2>1. CASE Matched(c)
    BY <1>1, <1>6, <2>1 DEF Matched, StoredKept
  <2>2. CASE Stale(c)
    BY <1>0, <1>1, <2>2, StillStale DEF StoredKept
  <2> QED
    BY <2>1, <2>2 DEF Waits
<1> QED
  BY <1>1, <1>4, <1>5, <1>7 DEF Waits, StoredKept

(* Dispatch takes the first event of the batch; the others stay.           *)
LEMMA BatchTail ==
  ASSUME TypeOK, batch # <<>>, batch' = Tail(batch)
  PROVE  /\ InBatch(Head(batch).conn)
         /\ \A d \in Conns : InBatch(d)' => InBatch(d)
         /\ BatchedOnce => /\ BatchedOnce'
                           /\ \A d \in Conns : d = Head(batch).conn => ~InBatch(d)'
<1> DEFINE E == [conn : Conns, ev : {"IN", "OUT"}]
<1>1. batch \in Seq(E)
  BY DEF TypeOK
<1> HIDE DEF E
<1>2. /\ Len(batch) \in Nat \ {0} /\ Len(batch') = Len(batch) - 1 /\ Head(batch) = batch[1]
      /\ \A i \in 1..Len(batch') : batch'[i] = batch[i + 1]
  BY <1>1
<1>3. \A i \in 1..Len(batch') : i + 1 \in 1..Len(batch) /\ i + 1 # 1
  BY <1>2
<1>4. 1 \in 1..Len(batch)
  BY <1>2
<1>5. InBatch(Head(batch).conn) /\ \A d \in Conns : InBatch(d)' => InBatch(d)
  BY <1>2, <1>3, <1>4 DEF InBatch
<1>6. ASSUME BatchedOnce
      PROVE  BatchedOnce' /\ \A d \in Conns : d = Head(batch).conn => ~InBatch(d)'
  <2>1. \A d \in Conns : d = Head(batch).conn => ~InBatch(d)'
    BY <1>2, <1>3, <1>4, <1>6 DEF InBatch, BatchedOnce
  <2>2. ASSUME NEW i \in 1..Len(batch'), NEW j \in 1..Len(batch'),
               batch'[i].conn = batch'[j].conn
        PROVE  i = j
    <3>1. i + 1 = j + 1
      BY <1>2, <1>3, <1>6, <2>2 DEF BatchedOnce
    <3> QED
      BY <3>1
  <2> QED
    BY <2>1, <2>2 DEF BatchedOnce
<1> QED
  BY <1>5, <1>6

LEMMA WaitsStep == MInv /\ [Next]_vars => MInv'
<1> SUFFICES ASSUME MInv, [Next]_vars PROVE MInv'
  OBVIOUS
<1> EInv /\ RInv /\ TypeOK /\ ReactorControl /\ ListedOnce /\ BatchedOnce
    /\ \A c \in Conns : Echoes(c) /\ Waits(c) /\ WorkerControl(c) /\ Bounded(c)
  BY DEF MInv, EInv, RInv
<1>0. Reactor \in Threads /\ \A d \in Conns : d \in Threads /\ d # Reactor
  BY ReactorAssumption DEF Threads
<1>e. EInv'
  BY EchoStep
<1> DEFINE Goal == ListedOnce' /\ BatchedOnce' /\ \A c \in Conns : Waits(c)'
<1>1. ASSUME NEW c \in Conns, PeerActs(c) PROVE Goal
  <2>1. /\ \E events : Callback(c, events)
        /\ UNCHANGED <<ep, sock, co, thr, current, batch, size, is_shutdown_, proc>>
    BY <1>1, PeerEffect
  <2>2. ListedOnce'
    BY <2>1, EnlistOnce DEF Callback
  <2>3. BatchedOnce'
    BY <2>1 DEF BatchedOnce
  <2>4. ASSUME NEW d \in Conns PROVE Waits(d)'
    BY <2>1 DEF Waits, AddsAwaited, Matched, Stale, WaitsFor, InReactor, Active, InBatch
  <2> QED
    BY <2>2, <2>3, <2>4
<1>2. ASSUME NEW c \in Conns, Accept(c) PROVE Goal
  <2>1. /\ net[c].peer = "none"
        /\ co'[c].at = co[c].at /\ thr'[c].pc = "read"
        /\ \A u \in Threads : u # c => thr'[u] = thr[u]
        /\ \A g \in Conns : g # c => co'[g] = co[g]
        /\ UNCHANGED <<ep, ready, sock, current, batch, is_shutdown_>>
    BY <1>2, AcceptEffect
  <2>2. ListedOnce' /\ BatchedOnce'
    BY <2>1 DEF ListedOnce, BatchedOnce
  <2>3. ASSUME NEW d \in Conns PROVE Waits(d)'
    <3>1. thr'[Reactor] = thr[Reactor] /\ (InReactor(d)' <=> InReactor(d))
      BY <1>0, <2>1 DEF InReactor, Active
    <3>2. thr'[d] = thr[d] \/ (d = c /\ thr'[d].pc = "read")
      BY <1>0, <2>1
    <3>3. co'[d].at = co[d].at
      BY <2>1
    <3> QED
      BY <2>1, <3>1, <3>2, <3>3 DEF Waits, AddsAwaited, Matched, Stale, WaitsFor, InBatch
  <2> QED
    BY <2>2, <2>3
<1>3. ASSUME NEW th \in Threads, HandlerStep(th) PROVE Goal
  <2>1. PICK c \in Conns : c = Runs(th)
    BY RunsType
  <2>2. OthersKept(th, c) /\ thr[th].pc \in {"read", "write", "again", "end"} \cup Method
    BY <1>3, <2>1, HandlerFacts
  <2>3. ListedOnce' /\ BatchedOnce'
    BY <1>3, <2>2, HandlerListedOnce DEF OthersKept, BatchedOnce
  <2>4. Waits(c)'
    BY <1>3, <2>1, ReadWriteWaits, EnterWaits, SetCoroWaits, UpdateWaits, EndWaits
       DEF HandlerStep
  <2>5. ASSUME NEW d \in Conns, d # c PROVE Waits(d)'
    <3>1. th = Reactor => Active
      BY <2>2 DEF Active, Method
    <3>2. /\ thr'[d] = thr[d] /\ (InReactor(d)' <=> InReactor(d))
          /\ InReactor(d) => thr'[Reactor] = thr[Reactor]
          /\ ep'[d] = ep[d] /\ sock'[d] = sock[d] /\ co'[d] = co[d]
      BY <2>1, <2>2, <2>5, <3>1, OtherReactor DEF ReactorControl
    <3>3. batch' = batch
      BY <2>2 DEF OthersKept
    <3>4. Stale(d) => Stale(d)'
      BY <1>3, <2>1, <3>2, StillStale
    <3>5. WaitsFor(d)' = WaitsFor(d)
      BY <3>2 DEF WaitsFor
    <3> QED
      BY <3>2, <3>3, <3>4, <3>5 DEF Waits, AddsAwaited, Matched, InBatch
  <2> QED
    BY <2>3, <2>4, <2>5
<1>4. ASSUME NEW c \in Conns, WorkerLeave(c) PROVE Goal
  <2>1. /\ thr[c].pc = "leave" /\ thr'[c].pc = "gone" /\ OthersKept(c, c)
        /\ \/ UNCHANGED <<co, sock, ep, ready>>
           \/ co[c].life = "done" /\ Destroyed(c)
    BY <1>4, WorkerLeaveEffect
  <2>2. /\ UNCHANGED <<current, batch, is_shutdown_>> /\ thr'[Reactor] = thr[Reactor]
        /\ \A d \in Conns : d # c => /\ thr'[d] = thr[d] /\ ep'[d] = ep[d]
                                     /\ sock'[d] = sock[d] /\ co'[d] = co[d]
    BY <1>0, <2>1 DEF OthersKept
  <2>3. ListedOnce' /\ BatchedOnce'
    BY <2>1, <2>2, EpollDropOnce DEF ListedOnce, BatchedOnce, Destroyed
  <2>4. /\ StoredKept(c) /\ co'[c].at = co[c].at
        /\ ep'[c].on => ~sock[c].closed
        /\ ~ep'[c].on => ep'[c].mask = {}
    <3>1. CASE UNCHANGED <<co, sock, ep>>
      BY <3>1 DEF StoredKept, Waits
    <3>2. CASE co[c].life = "done" /\ Destroyed(c)
      <4>1. co[c].at = "run"
        BY <3>2 DEF Echoes, Lifetime
      <4> QED
        BY <3>2, <4>1 DEF Destroyed
    <3> QED
      BY <2>1, <3>1, <3>2
  <2>5. ASSUME NEW d \in Conns PROVE Waits(d)'
    <3>1. InReactor(d)' <=> InReactor(d)
      BY <2>2 DEF InReactor, Active
    <3>2. CASE d = c
      BY <2>1, <2>2, <2>4, <3>1, <3>2
         DEF Waits, AddsAwaited, Matched, Stale, WaitsFor, InBatch, StoredKept
    <3>3. CASE d # c
      BY <2>2, <3>1, <3>3 DEF Waits, AddsAwaited, Matched, Stale, WaitsFor, InBatch
    <3> QED
      BY <3>2, <3>3
  <2> QED
    BY <2>3, <2>5
<1>5. ASSUME NEW c \in Conns, Close(c) PROVE Goal
  <2>1. /\ EpollDrop(c) /\ ep'[c].on = FALSE /\ ep'[c].mask = {}
        /\ sock'[c].closed = TRUE
        /\ sock'[c].recv = sock[c].recv /\ sock'[c].send = sock[c].send
        /\ \A d \in Conns : d # c => ep'[d] = ep[d] /\ sock'[d] = sock[d]
        /\ UNCHANGED <<net, co, thr, current, batch, size, is_shutdown_, proc>>
    BY <1>5, CloseEffect
  <2>2. ListedOnce' /\ BatchedOnce'
    BY <2>1, EpollDropOnce DEF BatchedOnce
  <2>3. ASSUME NEW d \in Conns PROVE Waits(d)'
    BY <2>1 DEF Waits, AddsAwaited, Matched, Stale, WaitsFor, InReactor, Active, InBatch
  <2> QED
    BY <2>2, <2>3
<1>6. ASSUME LoopTop PROVE Goal
  <2>1. /\ thr[Reactor].pc = "loop" /\ thr'[Reactor].pc = IF is_shutdown_ THEN "stopped" ELSE "wait"
        /\ \A c \in Conns : thr'[c] = thr[c]
        /\ UNCHANGED <<net, ep, ready, sock, co, current, batch, size, is_shutdown_, proc>>
    BY <1>6, LoopTopEffect
  <2>2. ListedOnce' /\ BatchedOnce'
    BY <2>1 DEF ListedOnce, BatchedOnce
  <2>3. ASSUME NEW d \in Conns PROVE Waits(d)'
    <3>1. ~InReactor(d) /\ ~InReactor(d)'
      BY <2>1 DEF InReactor, Active
    <3>2. Stale(d) => Stale(d)'
      BY <2>1 DEF Stale, InBatch
    <3> QED
      BY <2>1, <3>1, <3>2 DEF Waits, AddsAwaited, Matched, WaitsFor
  <2> QED
    BY <2>2, <2>3
<1>7. ASSUME EpollWait PROVE Goal
  <2>1. /\ thr[Reactor].pc = "wait" /\ thr'[Reactor].pc \in {"wait", "loop"}
        /\ \A c \in Conns : thr'[c] = thr[c]
        /\ UNCHANGED <<net, ep, sock, co, current, is_shutdown_, proc>>
        /\ \A i \in 1..Len(batch') :
             \E c \in Conns : batch'[i] = Returned(c) /\ Pending(c) # {}
        /\ ListedOnce' /\ BatchedOnce'
    BY <1>7, EpollWaitEffect
  <2>2. ASSUME NEW d \in Conns PROVE Waits(d)'
    <3>1. ~InReactor(d) /\ ~InReactor(d)'
      BY <2>1 DEF InReactor, Active
    <3>2. Stale(d) => sock[d].closed
      BY <2>1 DEF Stale
    <3>3. sock[d].closed => ~InBatch(d)'
      <4> SUFFICES ASSUME sock[d].closed, NEW i \in 1..Len(batch'), batch'[i].conn = d
                   PROVE  FALSE
        BY DEF InBatch
      <4>1. PICK c \in Conns : batch'[i] = Returned(c) /\ Pending(c) # {}
        BY <2>1
      <4>2. c = d
        BY <4>1 DEF Returned
      <4>3. ep[d].mask = {}
        BY DEF Waits
      <4> QED
        BY <4>1, <4>2, <4>3 DEF Pending
    <3> QED
      BY <2>1, <3>1, <3>2, <3>3 DEF Waits, AddsAwaited, Matched, WaitsFor, Stale
  <2> QED
    BY <2>1, <2>2
<1>8. ASSUME Dispatch PROVE Goal
  <2>1. Head(batch) \in [conn : Conns, ev : {"IN", "OUT"}] /\ batch # <<>> /\ batch' = Tail(batch)
    BY <1>8, DispatchEffect
  <2>2. PICK c \in Conns : c = Head(batch).conn
    BY <2>1
  <2>3. /\ thr[Reactor].pc = "loop"
        /\ \A d \in Conns : thr'[d] = thr[d]
        /\ UNCHANGED <<net, ep, ready, sock, is_shutdown_>>
        /\ \/ /\ sock[c].recv \/ sock[c].send
              /\ current' = c /\ thr'[Reactor].pc = "enter"
              /\ thr'[Reactor].op = (IF co[c].at = "send" THEN "DelSend" ELSE "DelRecv")
              /\ \A d \in Conns : d # c => co'[d] = co[d]
           \/ UNCHANGED <<current, thr, co>>
    BY <1>8, <2>2, DispatchEffect DEF Handle
  <2>4. /\ InBatch(c) /\ ~InBatch(c)' /\ BatchedOnce'
        /\ \A d \in Conns : InBatch(d)' => InBatch(d)
    BY <2>1, <2>2, BatchTail
  <2>5. ListedOnce'
    BY <2>3 DEF ListedOnce
  <2>6. ASSUME NEW d \in Conns PROVE Waits(d)'
    <3>1. ~InReactor(d)
      BY <2>3 DEF InReactor, Active
    <3>2. Stale(d) => Stale(d)'
      BY <2>3, <2>4 DEF Stale
    <3>3. CASE UNCHANGED <<current, thr, co>>
      BY <2>3, <3>1, <3>2, <3>3 DEF Waits, AddsAwaited, Matched, WaitsFor, InReactor, Active
    <3>4. CASE current' = c /\ co'[d] = co[d] /\ d # c
      <4>1. ~InReactor(d)'
        BY <3>4 DEF InReactor
      <4> QED
        BY <2>3, <3>1, <3>2, <3>4, <4>1 DEF Waits, AddsAwaited, Matched, WaitsFor
    <3>5. CASE /\ d = c /\ current' = c /\ thr'[Reactor].pc = "enter"
               /\ sock[c].recv \/ sock[c].send
               /\ thr'[Reactor].op = (IF co[c].at = "send" THEN "DelSend" ELSE "DelRecv")
      <4>1. Matched(c)
        BY <2>4 DEF Waits, Stale
      <4>2. WaitsFor(c) = co[c].at /\ co[c].at \in {"recv", "send"}
        BY <3>1, <3>5, <4>1 DEF Matched, WaitsFor
      <4>3. InReactor(c)'
        BY <3>5 DEF InReactor, Active
      <4>4. WaitsFor(c)' = co[c].at
        BY <3>5, <4>2, <4>3, AddsAre DEF WaitsFor, Point
      <4>5. thr[c].pc \notin {"enter", "coro"}
        BY <3>5 DEF WorkerControl, Early
      <4>6. AddsAwaited(c)'
        BY <2>3, <3>5, <4>5, AddsAre DEF AddsAwaited
      <4> QED
        BY <2>3, <2>4, <3>5, <4>1, <4>2, <4>4, <4>6 DEF Waits, Matched
    <3> QED
      BY <2>3, <3>3, <3>4, <3>5
  <2> QED
    BY <2>4, <2>5, <2>6
<1>9. ASSUME Shutdown \/ UNCHANGED vars PROVE Goal
  <2>1. /\ is_shutdown_' \/ is_shutdown_' = is_shutdown_
        /\ UNCHANGED <<net, ep, ready, sock, co, thr, current, batch, size, proc>>
    BY <1>9, ShutdownEffect DEF vars
  <2>2. ListedOnce' /\ BatchedOnce'
    BY <2>1 DEF ListedOnce, BatchedOnce
  <2>3. ASSUME NEW d \in Conns PROVE Waits(d)'
    <3>1. InReactor(d)' <=> InReactor(d)
      BY <2>1 DEF InReactor, Active
    <3>2. Stale(d) => Stale(d)'
      BY <2>1 DEF Stale, InBatch
    <3> QED
      BY <2>1, <3>1, <3>2 DEF Waits, AddsAwaited, Matched, WaitsFor, InBatch
  <2> QED
    BY <2>2, <2>3
<1>10. Goal
  BY <1>0, <1>1, <1>2, <1>3, <1>4, <1>5, <1>6, <1>7, <1>8, <1>9
     DEF Next, PeerActs, WorkerStep, ReactorStep, Threads
<1> QED
  BY <1>e, <1>10 DEF MInv

LEMMA WaitsInductive == Spec => []MInv
  BY InitWaits, WaitsStep, PTL DEF Spec

(* With any number of connections, whichever statement of a registration   *)
(* the reactor interrupts and whenever a connection is closed or the       *)
(* reactor shut down, an event never resumes a coroutine that waits for    *)
(* something else.                                                         *)
THEOREM WakeupsMatch == Spec => []ResumeMatchesWait
<1>1. MInv => ResumeMatchesWait
  <2> SUFFICES ASSUME MInv, thr[Reactor].pc = "loop", batch # <<>>
               PROVE  LET e == Head(batch) IN
                        /\ e.ev = "IN"  /\ sock[e.conn].recv => co[e.conn].at = "recv"
                        /\ e.ev = "OUT" /\ sock[e.conn].send => co[e.conn].at = "send"
    BY DEF ResumeMatchesWait
  <2>1. TypeOK /\ \A c \in Conns : Waits(c)
    BY DEF MInv, EInv, RInv
  <2> DEFINE E == [conn : Conns, ev : {"IN", "OUT"}]
  <2>2. batch \in Seq(E)
    BY <2>1 DEF TypeOK
  <2> HIDE DEF E
  <2>3. Head(batch) \in E
    BY <2>2
  <2>4. PICK c \in Conns : c = Head(batch).conn
    BY <2>3 DEF E
  <2>5. InBatch(c)
    <3>1. 1 \in 1..Len(batch) /\ Head(batch) = batch[1]
      BY <2>2
    <3> QED
      BY <2>4, <3>1 DEF InBatch
  <2>6. Matched(c)
    BY <2>1, <2>5 DEF Waits, Stale
  <2>7. WaitsFor(c) = co[c].at
    BY DEF WaitsFor, InReactor, Active
  <2> QED
    BY <2>4, <2>6, <2>7 DEF Matched
<1> QED
  BY <1>1, WaitsInductive, PTL

-----------------------------------------------------------------------------
(* The interest in epoll and the stored handles, when no event of a        *)
(* connection is returned inside the registration of that connection.      *)
Changes == {"coro", "load", "store", "ctl"}

(* Each event of S has a coroutine to resume.                              *)
Armed(c, S) == \A x \in S : Handle(c, x)

(* A thread changes the handle, io_state_ and the epoll entry in turn.     *)
Halfway(th, c) ==
  /\ thr[th].pc \in {"coro", "load"} => Armed(c, sock[c].ioState \ {Event(thr[th].op)})
  /\ thr[th].pc = "load" /\ thr[th].op \in Adds => Handle(c, Event(thr[th].op))
  /\ thr[th].pc \in {"store", "ctl"} => Armed(c, thr[th].new)
  /\ thr[th].pc = "ctl" => Armed(c, sock[c].ioState)

Changed(c) ==
  thr[c].pc \in Changes \/ (InReactor(c) /\ thr[Reactor].pc \in Changes)

Settled(c) == ep[c].on => Armed(c, ep[c].mask) /\ Armed(c, sock[c].ioState)

(* An event that has been returned has its coroutine waiting.              *)
Due(c) ==
  \A i \in 1..Len(batch) : batch[i].conn = c =>
    /\ ep[c].on \/ sock[c].closed
    /\ co[c].life = "live" /\ thr[c].pc \in {"leave", "gone"}
    /\ Handle(c, batch[i].ev)

Armament(c) ==
  /\ thr[c].pc \in Changes => Halfway(c, c)
  /\ InReactor(c) /\ thr[Reactor].pc \in Changes => Halfway(Reactor, c)
  /\ ~Changed(c) => Settled(c)

(* Only the Close of another thread takes out of epoll what is registered. *)
Registered(c) ==
  /\ ep[c].on => sock[c].attached
  /\ sock[c].attached => ep[c].on \/ sock[c].closed
  /\ thr[c].pc \in {"idle", "read", "write", "enter", "end"} => ~ep[c].on
  /\ thr[c].pc \in Changes => ep[c].on \/ sock[c].closed
  /\ InReactor(c) => (ep[c].on \/ sock[c].closed) /\ thr[c].pc \in {"leave", "gone"}

Sound(c) == Registered(c) /\ Armament(c) /\ Due(c)

NInv == MInv /\ NoCrash /\ \A c \in Conns : Sound(c)

LEMMA InitSound == Init => NInv
<1> SUFFICES ASSUME Init PROVE NInv
  OBVIOUS
<1>1. MInv
  BY InitWaits
<1>2. NoCrash /\ batch = <<>>
  BY DEF Init, NoCrash
<1>3. ASSUME NEW c \in Conns PROVE Sound(c)
  <2>1. /\ thr[c].pc = "idle" /\ thr[Reactor].pc = "loop"
        /\ ~ep[c].on /\ ~sock[c].attached /\ ~sock[c].closed
    BY ReactorAssumption DEF Init, Threads
  <2>2. Registered(c) /\ Armament(c)
    BY <2>1 DEF Registered, Armament, Settled, InReactor, Active, Changes
  <2>3. Due(c)
    BY <1>2 DEF Due
  <2> QED
    BY <2>2, <2>3 DEF Sound
<1> QED
  BY <1>1, <1>2, <1>3 DEF NInv

(* The parts of NInv that a step of one connection's threads uses.         *)
LEMMA NInvParts ==
  ASSUME NInv
  PROVE  /\ MInv /\ EInv /\ RInv /\ TypeOK /\ ReactorControl /\ NoCrash
         /\ \A c \in Conns : /\ Sound(c) /\ Registered(c) /\ Armament(c) /\ Due(c)
                             /\ Waits(c) /\ Echoes(c) /\ WorkerControl(c) /\ Bounded(c)
  BY DEF NInv, Sound, MInv, EInv, RInv

LEMMA SoundKept ==
  ASSUME NEW c \in Conns, Sound(c), ep'[c] = ep[c], sock'[c] = sock[c],
         co'[c].life = co[c].life, thr'[c] = thr[c],
         InReactor(c)' <=> InReactor(c), InReactor(c) => thr'[Reactor] = thr[Reactor],
         batch' = batch
  PROVE  Sound(c)'
<1>1. \A x : Handle(c, x)' <=> Handle(c, x)
  BY DEF Handle
<1>2. Registered(c)'
  BY DEF Sound, Registered
<1>3. Due(c)'
  BY <1>1 DEF Sound, Due
<1>4. Armament(c)'
  <2>1. ~Changed(c)' => Settled(c)'
    BY <1>1 DEF Sound, Armament, Changed, Settled, Armed
  <2>2. thr'[c].pc \in Changes => Halfway(c, c)'
    BY <1>1 DEF Sound, Armament, Halfway, Armed
  <2>3. InReactor(c)' /\ thr'[Reactor].pc \in Changes => Halfway(Reactor, c)'
    BY <1>1 DEF Sound, Armament, Halfway, Armed
  <2> QED
    BY <2>1, <2>2, <2>3 DEF Armament
<1> QED
  BY <1>2, <1>3, <1>4 DEF Sound

(* Nothing happens after the end of the process.                           *)
LEMMA HandlerIsUp ==
  ASSUME NEW th \in Threads, HandlerStep(th)
  PROVE  proc = "up"
  BY DEF HandlerStep, ReadReady, ReadAgain, WriteReady, WriteAgain, Enter, SetCoro,
         NewIOState, SetIOState, UpdateEvent, HandlerEnd, ChangeIOState, At

LEMMA OthersAreUp ==
  ASSUME NEW c \in Conns,
         \/ PeerActs(c) \/ Accept(c) \/ WorkerLeave(c) \/ Close(c)
         \/ LoopTop \/ EpollWait \/ Dispatch \/ Shutdown
  PROVE  proc = "up"
  BY DEF PeerActs, PeerSend, PeerRecv, PeerFin, PeerReset, PeerStep, Accept, WorkerLeave,
         Close, LoopTop, EpollWait, Dispatch, Shutdown, At

(* A connection whose coroutine is being executed, or registered, has no   *)
(* undelivered event.                                                      *)
LEMMA NotDue ==
  ASSUME NInv, NEW th \in Threads, NEW c \in Conns, c = Runs(th), HandlerStep(th)
  PROVE  /\ Due(c)'
         /\ th = Reactor => /\ InReactor(c) /\ thr'[c] = thr[c]
                            /\ ep[c].on \/ sock[c].closed
                            /\ thr[c].pc \in {"leave", "gone"}
                            /\ InReactor(c)' <=> thr'[Reactor].pc \notin {"loop", "wait", "stopped"}
         /\ th # Reactor => th = c /\ ~InReactor(c) /\ ~InReactor(c)' /\ thr[c].op \in Adds
         /\ proc = "up"
<1>p. RInv /\ Sound(c) /\ Registered(c) /\ Due(c) /\ Waits(c)
  BY NInvParts
<1>1. OthersKept(th, c) /\ thr[th].pc \in {"read", "write", "again", "end"} \cup Method
  BY <1>p, HandlerFacts
<1>2. thr[th].pc \notin {"leave", "gone"}
  BY <1>1 DEF Method
<1>3. /\ th = Reactor => /\ InReactor(c) /\ thr'[c] = thr[c]
                         /\ InReactor(c)' <=> thr'[Reactor].pc \notin {"loop", "wait", "stopped"}
      /\ th # Reactor => th = c /\ (InReactor(c)' <=> InReactor(c)) /\ thr[c].op \in Adds
  BY <1>p, <1>1, RunsFacts
<1>4. th # Reactor => ~InReactor(c)
  BY <1>p, <1>2, <1>3 DEF Registered
<1>5. ~InBatch(c)
  BY <1>p, <1>2, <1>3 DEF Waits, Due, InBatch
<1>6. batch' = batch
  BY <1>1 DEF OthersKept
<1>7. Due(c)'
  BY <1>5, <1>6 DEF Due, InBatch
<1>8. proc = "up"
  BY HandlerIsUp
<1> QED
  BY <1>p, <1>3, <1>4, <1>7, <1>8 DEF Registered

LEMMA ReadWriteSound ==
  ASSUME NInv, NEW th \in Threads, NEW c \in Conns, c = Runs(th),
         ReadReady(th) \/ ReadAgain(th) \/ WriteReady(th) \/ WriteAgain(th)
  PROVE  Sound(c)' /\ NoCrash'
<1>p. TypeOK /\ NoCrash /\ Registered(c) /\ Armament(c)
  BY NInvParts
<1>0. HandlerStep(th)
  BY DEF HandlerStep
<1>1. /\ thr[th].pc \in {"read", "write", "again"} /\ SocketKept
      /\ thr'[th].pc \in {"read", "write", "again", "end", "enter"}
      /\ proc' = proc \/ proc' = "sigpipe"
  <2>1. CASE ReadReady(th) \/ ReadAgain(th)
    BY <1>p, <2>1, ReadReadyEffect, ReadAgainEffect DEF GotData, ReadOver, Suspended
  <2>2. CASE WriteReady(th) \/ WriteAgain(th)
    BY <1>p, <2>2, WriteReadyEffect, WriteAgainEffect
       DEF SentData, WriteOver, WriteRetry, Killed, Suspended
  <2> QED
    BY <2>1, <2>2
<1>2. sock' = sock /\ ep' = ep
  BY <1>1 DEF SocketKept
<1>3. /\ Due(c)'
      /\ th = Reactor => /\ InReactor(c) /\ thr'[c] = thr[c]
                         /\ ep[c].on \/ sock[c].closed
                         /\ thr[c].pc \in {"leave", "gone"}
      /\ th # Reactor => th = c /\ ~InReactor(c) /\ ~InReactor(c)'
      /\ proc = "up"
  BY <1>0, NotDue
<1>4. th # Reactor => thr[c].pc # "again" 
  BY <1>1, <1>3, NInvParts DEF WorkerControl, WorkerPlaces, Method
<1>5. th # Reactor => ~ep[c].on
  BY <1>p, <1>1, <1>3, <1>4 DEF Registered
<1>6. Registered(c)'
  BY <1>p, <1>1, <1>2, <1>3, <1>5 DEF Registered, Changes
<1>7. ~Changed(c) /\ ~Changed(c)' /\ thr'[c].pc \notin Changes
  BY <1>1, <1>3 DEF Changed, Changes
<1>8. Settled(c)'
  BY <1>p, <1>2, <1>7 DEF Armament, Settled, Armed, Handle
<1>9. Armament(c)'
  BY <1>7, <1>8 DEF Armament, Changed
<1>10. NoCrash'
  BY <1>1, <1>3 DEF NoCrash
<1> QED
  BY <1>3, <1>6, <1>9, <1>10 DEF Sound

LEMMA EndSound ==
  ASSUME NInv, NEW th \in Threads, NEW c \in Conns, c = Runs(th), HandlerEnd(th)
  PROVE  Sound(c)' /\ NoCrash'
<1>p. TypeOK /\ NoCrash /\ Registered(c) /\ Armament(c)
  BY NInvParts
<1>0. HandlerStep(th)
  BY DEF HandlerStep
<1>1. /\ thr[th].pc = "end" /\ thr'[th].pc = IF th = Reactor THEN "loop" ELSE "gone"
      /\ \/ th = Reactor /\ UNCHANGED <<sock, ep, proc>>
         \/ Destroyed(c)
  BY <1>p, HandlerEndEffect
<1>2. /\ Due(c)'
      /\ th = Reactor => /\ InReactor(c) /\ thr'[c] = thr[c]
                         /\ ep[c].on \/ sock[c].closed
                         /\ thr[c].pc \in {"leave", "gone"}
                         /\ InReactor(c)' <=> thr'[Reactor].pc \notin {"loop", "wait", "stopped"}
      /\ th # Reactor => th = c /\ ~InReactor(c) /\ ~InReactor(c)'
      /\ proc = "up"
  BY <1>0, NotDue
<1>3. ~InReactor(c)' /\ thr'[c].pc \in {"leave", "gone"}
  BY <1>1, <1>2
<1>4. NoCrash'
  <2>1. proc' = "up" \/ (proc' = "exit" /\ sock'[c].closed)
    BY <1>p, <1>1, <1>2 DEF Destroyed, StoredKept, Registered
  <2> QED
    BY <2>1 DEF NoCrash
<1>5. /\ ep'[c].on => sock'[c].attached
      /\ sock'[c].attached => ep'[c].on \/ sock'[c].closed
  BY <1>p, <1>1 DEF Destroyed, Registered
<1>6. Registered(c)'
  BY <1>3, <1>5 DEF Registered, Changes
<1>7. ~Changed(c)' /\ thr'[c].pc \notin Changes
  BY <1>3 DEF Changed, Changes
<1>8. Settled(c)'
  <2>1. CASE th = Reactor /\ UNCHANGED <<sock, ep>>
    <3>1. ~Changed(c)
      BY <1>1, <1>2, <2>1 DEF Changed, Changes
    <3> QED
      BY <1>p, <2>1, <3>1 DEF Armament, Settled, Armed, Handle
  <2>2. CASE Destroyed(c)
    BY <2>2 DEF Destroyed, Settled
  <2> QED
    BY <1>1, <2>1, <2>2
<1>9. Armament(c)'
  BY <1>3, <1>7, <1>8 DEF Armament
<1> QED
  BY <1>2, <1>4, <1>6, <1>9 DEF Sound

LEMMA EnterSound ==
  ASSUME NInv, NEW th \in Threads, NEW c \in Conns, c = Runs(th), Enter(th)
  PROVE  Sound(c)' /\ NoCrash'
<1>p. TypeOK /\ NoCrash /\ Registered(c) /\ Armament(c)
  BY NInvParts
<1>0. HandlerStep(th)
  BY DEF HandlerStep
<1>1. /\ thr[th].pc = "enter" /\ thr'[th].op = thr[th].op /\ proc' = proc
      /\ Skipped(th, c) \/ Entered(th, c)
  BY <1>p, EnterEffect
<1>2. /\ Due(c)'
      /\ th = Reactor => /\ InReactor(c) /\ thr'[c] = thr[c]
                         /\ ep[c].on \/ sock[c].closed
                         /\ thr[c].pc \in {"leave", "gone"}
                         /\ InReactor(c)' <=> thr'[Reactor].pc \notin {"loop", "wait", "stopped"}
      /\ th # Reactor => th = c /\ ~InReactor(c) /\ ~InReactor(c)' /\ thr[c].op \in Adds
      /\ proc = "up"
  BY <1>0, NotDue
<1>3. /\ Left(th) = (IF th = Reactor THEN "loop" ELSE "leave")
      /\ After(th) = (IF thr[th].op \in Adds THEN Left(th) ELSE "again")
      /\ {Event(thr[th].op)} \in SUBSET {"IN", "OUT"}
  BY <1>p, MethodFacts
<1>4. /\ th # Reactor => ~ep[c].on
      /\ ~sock[c].closed => /\ th # Reactor => ~sock[c].attached
                            /\ th = Reactor => ep[c].on /\ sock[c].attached
  BY <1>p, <1>1, <1>2 DEF Registered
<1>5. NoCrash'
  BY <1>1, <1>2 DEF NoCrash
<1>6. ~Changed(c)
  BY <1>1, <1>2 DEF Changed, Changes
<1>7. Settled(c)
  BY <1>p, <1>6 DEF Armament
<1>8. CASE Skipped(th, c)
  <2>1. /\ sock' = sock /\ ep' = ep
        /\ thr'[th].pc = After(th) \/ (thr'[th].pc = "read" /\ thr[th].op \notin Adds)
    BY <1>3, <1>8 DEF Skipped
  <2>2. Registered(c)'
    BY <1>p, <1>2, <1>3, <1>4, <2>1 DEF Registered, Changes
  <2>3. ~Changed(c)' /\ thr'[c].pc \notin Changes
    BY <1>2, <1>3, <2>1 DEF Changed, Changes
  <2>4. Settled(c)'
    BY <1>7, <2>1 DEF Settled, Armed, Handle
  <2>5. Armament(c)'
    BY <2>3, <2>4 DEF Armament, Changed
  <2> QED
    BY <1>2, <1>5, <2>2, <2>5 DEF Sound
<1>9. CASE Entered(th, c) /\ th = Reactor
  <2>1. sock' = sock /\ ep' = ep /\ thr'[th].pc = "coro" /\ ep[c].on
    BY <1>4, <1>9 DEF Entered
  <2>2. Registered(c)'
    BY <1>p, <1>2, <1>9, <2>1 DEF Registered, Changes
  <2>3. Changed(c)' /\ thr'[c].pc \notin Changes
    BY <1>2, <1>9, <2>1 DEF Changed, Changes
  <2>4. Halfway(Reactor, c)'
    BY <1>2, <1>7, <1>9, <2>1 DEF Halfway, Settled, Armed, Handle
  <2> QED
    BY <1>2, <1>5, <2>2, <2>3, <2>4 DEF Sound, Armament
<1>10. CASE Entered(th, c) /\ th # Reactor
  <2>1. /\ thr'[c].pc = "coro"
        /\ sock'[c].ioState = {Event(thr[th].op)} /\ sock'[c].attached = TRUE
        /\ sock'[c].closed = sock[c].closed /\ EpollSet(c, {Event(thr[th].op)})
    BY <1>2, <1>4, <1>10 DEF Entered, StoredKept
  <2>2. ep'[c].on = TRUE
    BY <1>p, <1>3, <2>1, EpollSetEffect
  <2>3. Registered(c)'
    BY <1>2, <1>10, <2>1, <2>2 DEF Registered, Changes
  <2>4. Changed(c)'
    BY <2>1 DEF Changed, Changes
  <2>5. Halfway(c, c)'
    <3>1. sock'[c].ioState \ {Event(thr'[c].op)} = {}
      BY <1>1, <1>2, <1>10, <2>1
    <3> QED
      BY <2>1, <3>1 DEF Halfway, Armed
  <2> QED
    BY <1>2, <1>5, <1>10, <2>3, <2>4, <2>5 DEF Sound, Armament
<1> QED
  BY <1>1, <1>8, <1>9, <1>10

(* The statements after it: each leaves every event that is, or is about   *)
(* to be, asked for with its handle.                                       *)
LEMMA ChangeSound ==
  ASSUME NInv, NEW th \in Threads, NEW c \in Conns, c = Runs(th), HandlerStep(th),
         thr[th].pc \in Changes, thr'[th].pc \in Changes, Halfway(th, c)',
         ep'[c].on = ep[c].on, sock'[c].attached = sock[c].attached,
         sock'[c].closed = sock[c].closed
  PROVE  Sound(c)'
<1>p. TypeOK /\ Registered(c)
  BY NInvParts
<1>2. /\ Due(c)'
      /\ th = Reactor => /\ InReactor(c) /\ thr'[c] = thr[c]
                         /\ ep[c].on \/ sock[c].closed
                         /\ thr[c].pc \in {"leave", "gone"}
                         /\ InReactor(c)' <=> thr'[Reactor].pc \notin {"loop", "wait", "stopped"}
      /\ th # Reactor => th = c /\ ~InReactor(c) /\ ~InReactor(c)'
      /\ proc = "up"
  BY NotDue
<1>3. th = Reactor => thr'[c].pc \notin Changes
  BY <1>2 DEF Changes
<1>4. Changed(c)'
  BY <1>2 DEF Changed, Changes
<1>5. Registered(c)'
  BY <1>p, <1>2 DEF Registered, Changes
<1>6. Armament(c)'
  <2>1. CASE th = Reactor
    BY <1>3, <1>4, <2>1 DEF Armament
  <2>2. CASE th # Reactor
    BY <1>2, <1>4, <2>2 DEF Armament
  <2> QED
    BY <2>1, <2>2
<1> QED
  BY <1>2, <1>5, <1>6 DEF Sound

LEMMA IsHalfway ==
  ASSUME NInv, NEW th \in Threads, NEW c \in Conns, c = Runs(th), HandlerStep(th),
         thr[th].pc \in Changes
  PROVE  Halfway(th, c)
<1>p. Armament(c)
  BY NInvParts
<1>1. (th = Reactor => InReactor(c)) /\ (th # Reactor => th = c)
  BY NotDue
<1> QED
  BY <1>p, <1>1 DEF Armament

LEMMA SetCoroSound ==
  ASSUME NInv, NEW th \in Threads, NEW c \in Conns, c = Runs(th), SetCoro(th)
  PROVE  Sound(c)' /\ NoCrash'
<1>p. TypeOK /\ NoCrash
  BY NInvParts
<1>0. HandlerStep(th)
  BY DEF HandlerStep
<1>1. /\ thr[th].pc = "coro" /\ thr'[th].pc = "load" /\ thr'[th].op = thr[th].op
      /\ UNCHANGED <<ep, proc>>
      /\ sock'[c].closed = sock[c].closed /\ sock'[c].attached = sock[c].attached
      /\ sock'[c].ioState = sock[c].ioState
      /\ IF Event(thr[th].op) = "IN"
           THEN (sock'[c].recv <=> thr[th].op \in Adds) /\ sock'[c].send = sock[c].send
           ELSE (sock'[c].send <=> thr[th].op \in Adds) /\ sock'[c].recv = sock[c].recv
  BY <1>p, SetCoroEffect
<1>2. thr[th].pc \in Changes /\ thr'[th].pc \in Changes
  BY <1>1 DEF Changes
<1>3. Armed(c, sock[c].ioState \ {Event(thr[th].op)})
  BY <1>0, <1>1, <1>2, IsHalfway DEF Halfway
<1>4. PICK ev \in {"IN", "OUT"} : ev = Event(thr[th].op)
  BY <1>p, MethodFacts
<1>5. /\ \A x \in {"IN", "OUT"} : x # ev => (Handle(c, x)' <=> Handle(c, x))
      /\ Handle(c, ev)' <=> thr[th].op \in Adds
  BY <1>1, <1>4 DEF Handle
<1>6. sock[c].ioState \in SUBSET {"IN", "OUT"}
  BY <1>p DEF TypeOK, Sockets
<1>7. \A x \in sock[c].ioState : x # ev => Handle(c, x)'
  BY <1>3, <1>4, <1>5, <1>6 DEF Armed
<1>8. Event(thr'[th].op) = ev
  BY <1>1, <1>4
<1>9. Halfway(th, c)'
  BY <1>1, <1>5, <1>7, <1>8 DEF Halfway, Armed
<1> QED
  BY <1>0, <1>1, <1>2, <1>9, ChangeSound, HandlerIsUp DEF NoCrash

LEMMA IOStateSound ==
  ASSUME NInv, NEW th \in Threads, NEW c \in Conns, c = Runs(th),
         NewIOState(th) \/ SetIOState(th)
  PROVE  Sound(c)' /\ NoCrash'
<1>p. TypeOK /\ NoCrash
  BY NInvParts
<1>0. HandlerStep(th)
  BY DEF HandlerStep
<1>1. CASE NewIOState(th)
  <2>1. /\ thr[th].pc = "load" /\ thr'[th].pc = "store" /\ thr'[th].op = thr[th].op
        /\ UNCHANGED <<ep, sock, proc>>
        /\ thr'[th].new = IF thr[th].op \in Adds
                            THEN sock[c].ioState \cup {Event(thr[th].op)}
                            ELSE sock[c].ioState \ {Event(thr[th].op)}
    BY <1>p, <1>1, NewIOStateEffect
  <2>2. thr[th].pc \in Changes /\ thr'[th].pc \in Changes
    BY <2>1 DEF Changes
  <2>3. /\ Armed(c, sock[c].ioState \ {Event(thr[th].op)})
        /\ thr[th].op \in Adds => Handle(c, Event(thr[th].op))
    BY <1>0, <2>1, <2>2, IsHalfway DEF Halfway
  <2>4. \A x \in thr'[th].new : Handle(c, x)
    BY <2>1, <2>3 DEF Armed
  <2>5. Halfway(th, c)'
    BY <2>1, <2>4 DEF Halfway, Armed, Handle
  <2> QED
    BY <1>0, <2>1, <2>2, <2>5, ChangeSound, HandlerIsUp DEF NoCrash
<1>2. CASE SetIOState(th)
  <2>1. /\ thr[th].pc = "store" /\ thr'[th].pc = "ctl" /\ thr'[th].op = thr[th].op
        /\ thr'[th].new = thr[th].new /\ UNCHANGED <<ep, proc>>
        /\ StoredKept(c) /\ sock'[c].attached = sock[c].attached
        /\ sock'[c].ioState = thr[th].new
    BY <1>p, <1>2, SetIOStateEffect
  <2>2. thr[th].pc \in Changes /\ thr'[th].pc \in Changes
    BY <2>1 DEF Changes
  <2>3. Armed(c, thr[th].new)
    BY <1>0, <2>1, <2>2, IsHalfway DEF Halfway
  <2>4. \A x : Handle(c, x)' <=> Handle(c, x)
    BY <2>1 DEF Handle, StoredKept
  <2>5. Halfway(th, c)'
    BY <2>1, <2>3, <2>4 DEF Halfway, Armed
  <2> QED
    BY <1>0, <2>1, <2>2, <2>5, ChangeSound, HandlerIsUp DEF NoCrash, StoredKept
<1> QED
  BY <1>1, <1>2

LEMMA UpdateSound ==
  ASSUME NInv, NEW th \in Threads, NEW c \in Conns, c = Runs(th), UpdateEvent(th)
  PROVE  Sound(c)' /\ NoCrash'
<1>p. TypeOK /\ Sound(c) /\ Registered(c)
  BY NInvParts
<1>0. HandlerStep(th)
  BY DEF HandlerStep
<1>1. /\ thr[th].pc = "ctl" /\ thr[th].pc \in Changes
      /\ UNCHANGED sock
      /\ \/ /\ ep[c].on /\ thr'[th].pc = After(th) /\ proc' = proc
            /\ EpollSet(c, thr[th].new)
         \/ ~ep[c].on /\ proc' = "exit" /\ UNCHANGED <<ep, co, thr, current, batch>>
  BY <1>p, UpdateEventEffect DEF Changes, OthersKept
<1>2. /\ Due(c)'
      /\ th = Reactor => /\ InReactor(c) /\ thr'[c] = thr[c]
                         /\ thr[c].pc \in {"leave", "gone"}
      /\ th # Reactor => th = c /\ ~InReactor(c) /\ ~InReactor(c)'
                         /\ thr[c].op \in Adds
      /\ proc = "up"
  BY <1>0, NotDue
<1>3. CASE ~ep[c].on
  <2>1. sock'[c].closed /\ proc' = "exit"
    BY <1>p, <1>0, <1>1, <1>3, NotDue DEF Registered
  <2>2. InReactor(c)' <=> InReactor(c)
    BY <1>1, <1>3 DEF InReactor, Active
  <2>3. Sound(c)'
    BY <1>p, <1>1, <1>3, <2>2, SoundKept
  <2> QED
    BY <2>1, <2>3 DEF NoCrash
<1> SUFFICES ASSUME ep[c].on PROVE Sound(c)' /\ NoCrash'
  BY <1>3
<1>4. thr'[th].pc = After(th) /\ proc' = proc /\ EpollSet(c, thr[th].new)
  BY <1>1
<1>5. ep'[c].on = TRUE /\ ep'[c].mask = thr[th].new
  BY <1>p, <1>4, MethodFacts, EpollSetEffect
<1>6. After(th) = (IF thr[th].op \in Adds THEN (IF th = Reactor THEN "loop" ELSE "leave") ELSE "again")
  BY <1>p, MethodFacts
<1>7. ~Changed(c)' /\ thr'[c].pc \in {"leave", "gone"} /\ thr'[c].pc \notin Changes
  BY <1>2, <1>4, <1>6 DEF Changed, Changes
<1>8. Registered(c)'
  BY <1>p, <1>1, <1>2, <1>5, <1>7 DEF Registered, Changes
<1>9. Armed(c, thr[th].new) /\ Armed(c, sock[c].ioState)
  BY <1>0, <1>1, IsHalfway DEF Halfway
<1>10. Settled(c)'
  BY <1>1, <1>5, <1>9 DEF Settled, Armed, Handle
<1>11. Armament(c)'
  BY <1>7, <1>10 DEF Armament, Changed
<1> QED
  BY <1>2, <1>4, <1>8, <1>11 DEF Sound, NoCrash

(* epoll_wait returns only events whose handle has been stored.            *)
LEMMA WaitSound ==
  ASSUME NInv, EpollWait, Apart
  PROVE  \A d \in Conns : Due(d)'
<1>p. TypeOK
  BY NInvParts
<1>1. /\ thr[Reactor].pc = "wait"
      /\ \A c \in Conns : thr'[c] = thr[c]
      /\ UNCHANGED <<net, ep, sock, co>>
      /\ \A i \in 1..Len(batch') : \E c \in Conns : batch'[i] = Returned(c) /\ Pending(c) # {}
  BY <1>p, EpollWaitEffect
<1> SUFFICES ASSUME NEW d \in Conns, NEW i \in 1..Len(batch'), batch'[i].conn = d
             PROVE  /\ ep'[d].on /\ co'[d].life = "live" /\ thr'[d].pc \in {"leave", "gone"}
                    /\ Handle(d, batch[i].ev)'
  BY DEF Due
<1>d. Registered(d) /\ Armament(d) /\ Waits(d) /\ Echoes(d) /\ WorkerControl(d)
  BY NInvParts
<1>2. batch'[i] = Returned(d) /\ Pending(d) # {}
  <2>1. PICK c \in Conns : batch'[i] = Returned(c) /\ Pending(c) # {}
    BY <1>1
  <2>2. c = d
    BY <2>1 DEF Returned
  <2> QED
    BY <2>1, <2>2
<1>3. PICK ev \in {"IN", "OUT"} : batch'[i].ev = ev /\ ev \in ep[d].mask
  <2>1. batch'[i].ev = IF "IN" \in Pending(d) THEN "IN" ELSE "OUT"
    BY <1>2 DEF Returned
  <2>2. Pending(d) \subseteq {"IN", "OUT"} /\ Pending(d) \subseteq ep[d].mask
    BY DEF Pending, PollMask
  <2> QED
    BY <1>2, <2>1, <2>2
<1>4. ep[d].on
  BY <1>d, <1>3 DEF Waits
<1>5. ~InReactor(d) /\ thr[d].pc \notin Changes
  BY <1>1 DEF InReactor, Active, Apart, Registering, Changes
<1>6. Handle(d, ev)
  BY <1>d, <1>3, <1>4, <1>5 DEF Armament, Changed, Settled, Armed
<1>7. Matched(d)
  BY <1>d, <1>1, <1>4 DEF Waits, Stale
<1>8. co[d].at \in {"recv", "send"}
  BY <1>5, <1>6, <1>7 DEF Handle, Matched, WaitsFor
<1>9. co[d].life = "live"
  BY <1>d, <1>8 DEF Echoes, Lifetime
<1>10. thr[d].pc \in {"leave", "gone"}
  BY <1>d, <1>5, <1>6 DEF WorkerControl, WorkerPlaces, Early, Changes, Method, Handle
<1> QED
  BY <1>1, <1>3, <1>4, <1>6, <1>9, <1>10 DEF Handle

LEMMA SoundStep == NInv /\ [Next]_vars /\ [EpollWait => Apart]_vars => NInv'
<1> SUFFICES ASSUME NInv, [Next]_vars, [EpollWait => Apart]_vars PROVE NInv'
  OBVIOUS
<1>p. /\ MInv /\ EInv /\ RInv /\ TypeOK /\ ReactorControl /\ NoCrash
      /\ \A c \in Conns : /\ Sound(c) /\ Registered(c) /\ Armament(c) /\ Due(c)
                          /\ Waits(c) /\ Echoes(c) /\ WorkerControl(c) /\ Bounded(c)
  BY NInvParts
<1>0. Reactor \in Threads /\ \A d \in Conns : d \in Threads /\ d # Reactor
  BY ReactorAssumption DEF Threads
<1>m. MInv'
  BY <1>p, WaitsStep
<1> DEFINE Goal == NoCrash' /\ \A d \in Conns : Sound(d)'
<1>1. ASSUME NEW c \in Conns, PeerActs(c) PROVE Goal
  <2>1. UNCHANGED <<ep, sock, co, thr, current, batch, proc>>
    BY <1>p, <1>1, PeerEffect
  <2>2. ASSUME NEW d \in Conns PROVE InReactor(d)' <=> InReactor(d)
    BY <2>1 DEF InReactor, Active
  <2> QED
    BY <1>p, <1>1, <2>1, <2>2, SoundKept, OthersAreUp DEF NoCrash
<1>2. ASSUME NEW c \in Conns, Accept(c) PROVE Goal
  <2>1. /\ net[c].peer = "none" /\ thr'[c].pc = "read"
        /\ \A u \in Threads : u # c => thr'[u] = thr[u]
        /\ \A d \in Conns : d # c => co'[d] = co[d]
        /\ UNCHANGED <<ep, sock, current, batch, proc>>
    BY <1>p, <1>2, AcceptEffect
  <2>2. thr'[Reactor] = thr[Reactor] /\ \A d \in Conns : InReactor(d)' <=> InReactor(d)
    BY <1>0, <2>1 DEF InReactor, Active
  <2>3. ASSUME NEW d \in Conns, d # c PROVE Sound(d)'
    BY <1>p, <1>0, <2>1, <2>2, <2>3, SoundKept
  <2>4. Sound(c)'
    <3>1. thr[c].pc = "idle" /\ ~InReactor(c)
      BY <1>p, <2>1 DEF WorkerControl, Early
    <3>2. ~ep[c].on
      BY <1>p, <3>1 DEF Registered
    <3>3. Due(c)'
      BY <1>p, <2>1, <3>1 DEF Due
    <3>4. Registered(c)'
      BY <1>p, <2>1, <2>2, <3>1, <3>2 DEF Registered, Changes
    <3>5. Armament(c)'
      BY <2>1, <2>2, <3>1, <3>2 DEF Armament, Settled, Changes
    <3> QED
      BY <3>3, <3>4, <3>5 DEF Sound
  <2> QED
    BY <1>2, <2>1, <2>3, <2>4, OthersAreUp DEF NoCrash
<1>3. ASSUME NEW th \in Threads, HandlerStep(th) PROVE Goal
  <2>1. PICK c \in Conns : c = Runs(th)
    BY <1>p, RunsType
  <2>2. OthersKept(th, c) /\ thr[th].pc \in {"read", "write", "again", "end"} \cup Method
    BY <1>p, <1>3, <2>1, HandlerFacts
  <2>3. Sound(c)' /\ NoCrash'
    BY <1>3, <2>1, ReadWriteSound, EnterSound, SetCoroSound, IOStateSound, UpdateSound, EndSound
       DEF HandlerStep
  <2>4. ASSUME NEW d \in Conns, d # c PROVE Sound(d)'
    <3>1. th = Reactor => Active
      BY <2>2 DEF Active, Method
    <3>2. /\ thr'[d] = thr[d] /\ (InReactor(d)' <=> InReactor(d))
          /\ InReactor(d) => thr'[Reactor] = thr[Reactor]
          /\ ep'[d] = ep[d] /\ sock'[d] = sock[d] /\ co'[d] = co[d]
      BY <1>p, <2>1, <2>2, <2>4, <3>1, OtherReactor DEF ReactorControl
    <3>3. batch' = batch
      BY <2>2 DEF OthersKept
    <3> QED
      BY <1>p, <3>2, <3>3, SoundKept
  <2> QED
    BY <2>3, <2>4
<1>4. ASSUME NEW c \in Conns, WorkerLeave(c) PROVE Goal
  <2>1. /\ thr[c].pc = "leave" /\ thr'[c].pc = "gone" /\ OthersKept(c, c)
        /\ \/ UNCHANGED <<co, sock, ep, proc>>
           \/ co[c].life = "done" /\ Destroyed(c)
    BY <1>p, <1>4, WorkerLeaveEffect
  <2>2. /\ UNCHANGED <<current, batch>> /\ thr'[Reactor] = thr[Reactor]
        /\ \A d \in Conns : d # c => /\ thr'[d] = thr[d] /\ ep'[d] = ep[d]
                                     /\ sock'[d] = sock[d] /\ co'[d] = co[d]
    BY <1>0, <2>1 DEF OthersKept
  <2>3. \A d \in Conns : InReactor(d)' <=> InReactor(d)
    BY <2>2 DEF InReactor, Active
  <2>4. NoCrash'
    <3>1. proc = "up"
      BY <1>4, OthersAreUp
    <3>2. proc' = "up" \/ (proc' = "exit" /\ sock'[c].closed)
      BY <1>p, <2>1, <3>1 DEF Registered, Destroyed, StoredKept
    <3> QED
      BY <3>2 DEF NoCrash
  <2>5. ASSUME NEW d \in Conns, d # c PROVE Sound(d)'
    BY <1>p, <2>2, <2>3, <2>5, SoundKept
  <2>6. CASE co[c].life = "done" /\ Destroyed(c)
    <3>1. ~InReactor(c)
      BY <1>p, <2>6 DEF Echoes, Lifetime
    <3>2. Due(c)'
      BY <1>p, <2>2, <2>6 DEF Due
    <3>3. Registered(c)'
      BY <1>p, <2>1, <2>3, <2>6, <3>1 DEF Registered, Changes, Destroyed, StoredKept
    <3>4. Armament(c)'
      BY <2>1, <2>3, <2>6, <3>1 DEF Armament, Settled, Changes, Destroyed
    <3> QED
      BY <2>4, <2>5, <3>2, <3>3, <3>4 DEF Sound
  <2>7. CASE UNCHANGED <<co, sock, ep>>
    <3>1. \A x : Handle(c, x)' <=> Handle(c, x)
      BY <2>7 DEF Handle
    <3>2. Due(c)'
      BY <1>p, <2>1, <2>2, <2>7, <3>1 DEF Due
    <3>3. Registered(c)'
      BY <1>p, <2>1, <2>3, <2>7 DEF Registered, Changes
    <3>4. thr[c].pc \notin Changes /\ thr'[c].pc \notin Changes
      BY <2>1 DEF Changes
    <3>5. Changed(c)' <=> Changed(c)
      BY <2>2, <2>3, <3>4 DEF Changed
    <3>6. Settled(c) => Settled(c)'
      BY <2>7, <3>1 DEF Settled, Armed
    <3>7. Halfway(Reactor, c) => Halfway(Reactor, c)'
      BY <2>2, <2>7, <3>1 DEF Halfway, Armed
    <3>8. Armament(c)'
      BY <1>p, <2>2, <2>3, <3>4, <3>5, <3>6, <3>7 DEF Armament
    <3> QED
      BY <2>4, <2>5, <3>2, <3>3, <3>8 DEF Sound
  <2> QED
    BY <2>1, <2>6, <2>7
<1>5. ASSUME NEW c \in Conns, Close(c) PROVE Goal
  <2>1. /\ co[c].life = "live" /\ ep'[c].on = FALSE /\ sock'[c].closed = TRUE
        /\ sock'[c].attached = sock[c].attached /\ sock'[c].ioState = sock[c].ioState
        /\ sock'[c].recv = sock[c].recv /\ sock'[c].send = sock[c].send
        /\ \A d \in Conns : d # c => ep'[d] = ep[d] /\ sock'[d] = sock[d]
        /\ UNCHANGED <<co, thr, current, batch, proc>>
    BY <1>p, <1>5, CloseEffect
  <2>2. ASSUME NEW d \in Conns PROVE InReactor(d)' <=> InReactor(d)
    BY <2>1 DEF InReactor, Active
  <2>3. ASSUME NEW d \in Conns, d # c PROVE Sound(d)'
    BY <1>p, <2>1, <2>2, <2>3, SoundKept
  <2>4. \A x : Handle(c, x)' <=> Handle(c, x)
    BY <2>1 DEF Handle
  <2>5. Due(c)'
    BY <1>p, <2>1, <2>4 DEF Due
  <2>6. Registered(c)'
    BY <1>p, <2>1, <2>2 DEF Registered
  <2>7. \A th \in Threads : Halfway(th, c) => Halfway(th, c)'
    BY <2>1, <2>4 DEF Halfway, Armed
  <2>8. Armament(c)'
    BY <1>0, <1>p, <2>1, <2>2, <2>7 DEF Armament, Settled
  <2>9. NoCrash'
    BY <1>5, <2>1, OthersAreUp DEF NoCrash
  <2> QED
    BY <2>3, <2>5, <2>6, <2>8, <2>9 DEF Sound
<1>6. ASSUME LoopTop \/ (EpollWait /\ Apart) PROVE Goal
  <2>1. /\ thr[Reactor].pc \in {"loop", "wait"} /\ thr'[Reactor].pc \in {"loop", "wait", "stopped"}
        /\ \A c \in Conns : thr'[c] = thr[c]
        /\ UNCHANGED <<ep, sock, co, proc>>
    BY <1>p, <1>6, LoopTopEffect, EpollWaitEffect
  <2>2. ASSUME NEW d \in Conns PROVE Sound(d)'
    <3>1. ~InReactor(d) /\ ~InReactor(d)'
      BY <2>1 DEF InReactor, Active
    <3>2. Due(d)'
      <4>1. CASE LoopTop
        <5>1. batch' = batch
          BY <1>p, <4>1, LoopTopEffect
        <5> QED
          BY <1>p, <2>1, <5>1 DEF Due, Handle
      <4>2. CASE EpollWait /\ Apart
        BY <4>2, WaitSound
      <4> QED
        BY <1>6, <4>1, <4>2
    <3>3. Registered(d)'
      BY <1>p, <2>1, <3>1 DEF Registered
    <3>4. \A x : Handle(d, x)' <=> Handle(d, x)
      BY <2>1 DEF Handle
    <3>5. Armament(d)'
      BY <1>p, <2>1, <3>1, <3>4 DEF Armament, Changed, Settled, Armed, Halfway
    <3> QED
      BY <3>2, <3>3, <3>5 DEF Sound
  <2> QED
    BY <1>6, <1>p, <2>1, <2>2, OthersAreUp DEF NoCrash
<1>7. ASSUME Dispatch PROVE Goal
  <2>1. Head(batch) \in [conn : Conns, ev : {"IN", "OUT"}] /\ batch # <<>> /\ batch' = Tail(batch)
    BY <1>p, <1>7, DispatchEffect
  <2>2. PICK c \in Conns : c = Head(batch).conn
    BY <2>1
  <2> DEFINE E == [conn : Conns, ev : {"IN", "OUT"}]
  <2>3. batch \in Seq(E)
    BY <1>p DEF TypeOK
  <2> HIDE DEF E
  <2>4. /\ 1 \in 1..Len(batch) /\ Head(batch) = batch[1] /\ Len(batch) \in Nat
        /\ Len(batch') = Len(batch) - 1
        /\ \A i \in 1..Len(batch') : batch'[i] = batch[i + 1]
    BY <2>1, <2>3
  <2>5. /\ ep[c].on \/ sock[c].closed
        /\ co[c].life = "live" /\ thr[c].pc \in {"leave", "gone"}
        /\ Handle(c, Head(batch).ev)
    BY <1>p, <2>2, <2>4 DEF Due
  <2>6. /\ thr[Reactor].pc = "loop" /\ current' = c /\ thr'[Reactor].pc = "enter"
        /\ \A d \in Conns : thr'[d] = thr[d] /\ co'[d].life = co[d].life
        /\ UNCHANGED <<ep, sock, proc>>
    BY <1>p, <1>7, <2>2, <2>5, DispatchEffect
  <2>7. ASSUME NEW d \in Conns PROVE Sound(d)'
    <3>1. ~InReactor(d) /\ (InReactor(d)' => d = c)
      BY <2>6 DEF InReactor, Active
    <3>2. \A i \in 1..Len(batch') : i + 1 \in 1..Len(batch)
      BY <2>4
    <3>3. Due(d)'
      <4>1. Due(d)
        BY <1>p
      <4> SUFFICES ASSUME NEW i \in 1..Len(batch'), batch'[i].conn = d
                   PROVE  /\ ep'[d].on \/ sock'[d].closed
                          /\ co'[d].life = "live" /\ thr'[d].pc \in {"leave", "gone"}
                          /\ Handle(d, batch[i].ev)'
        BY DEF Due
      <4>2. i + 1 \in 1..Len(batch) /\ batch'[i] = batch[i + 1]
        BY <2>4, <3>2
      <4> QED
        BY <2>6, <4>1, <4>2 DEF Due, Handle
    <3>4. Registered(d)'
      <4>1. UNCHANGED <<ep, sock>> /\ thr'[d] = thr[d] /\ Registered(d)
        BY <1>p, <2>6
      <4>2. InReactor(d)' => (ep'[d].on \/ sock'[d].closed) /\ thr'[d].pc \in {"leave", "gone"}
        BY <2>5, <3>1, <4>1
      <4> QED
        BY <4>1, <4>2 DEF Registered
    <3>5. \A x : Handle(d, x)' <=> Handle(d, x)
      BY <2>6 DEF Handle
    <3>6. thr'[Reactor].pc \notin Changes
      BY <2>6 DEF Changes
    <3>7. Armament(d)'
      BY <1>p, <2>6, <3>1, <3>5, <3>6 DEF Armament, Changed, Settled, Armed, Halfway
    <3> QED
      BY <3>3, <3>4, <3>7 DEF Sound
  <2> QED
    BY <1>7, <1>p, <2>6, <2>7, OthersAreUp DEF NoCrash
<1>8. ASSUME Shutdown \/ UNCHANGED vars PROVE Goal
  <2>1. UNCHANGED <<ep, sock, co, thr, current, batch, proc>>
    BY <1>p, <1>8, ShutdownEffect DEF vars
  <2>2. ASSUME NEW d \in Conns PROVE InReactor(d)' <=> InReactor(d)
    BY <2>1 DEF InReactor, Active
  <2> QED
    BY <1>p, <2>1, <2>2, SoundKept DEF NoCrash
<1>9. Goal
  <2>1. UNCHANGED vars \/ (Next /\ (EpollWait => Apart))
    BY DEF vars
  <2> QED
    BY <2>1, <1>0, <1>1, <1>2, <1>3, <1>4, <1>5, <1>6, <1>7, <1>8
       DEF Next, PeerActs, WorkerStep, ReactorStep, Threads
<1> QED
  BY <1>m, <1>9 DEF NInv

(* Whatever the switches say: in every behaviour in which epoll_wait never *)
(* returns an event of a connection whose own worker is between the Attach *)
(* and the last epoll_ctl of its registration (event_manager.cpp:77-81),   *)
(* no event finds a null or dangling handle, and an epoll_ctl only fails   *)
(* after another thread has closed a connection.  The other connections    *)
(* may be registering, peers reset, threads close, and the reactor be shut *)
(* down at any moment: a null resume has no other cause than that window.  *)
THEOREM OnlyTheWindowCrashes == Spec /\ [][EpollWait => Apart]_vars => []NoCrash
<1>1. Init => NInv
  BY InitSound
<1>2. NInv => NoCrash
  BY DEF NInv
<1> QED
  BY <1>1, <1>2, SoundStep, PTL DEF Spec

=============================================================================
