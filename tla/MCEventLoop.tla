---------------------------- MODULE MCEventLoop -----------------------------
(* The reactor on small connections: a buffer of two bytes, a send buffer  *)
(* of one, so that reads and writes are partial and both kinds of wait     *)
(* happen, and an events_ of one entry, so that it is filled and grows.    *)
(* A behaviour is one of three instances:                                  *)
(*   race   one connection; anything may happen, also the reactor inside   *)
(*          the registration;                                              *)
(*   apart  the same, but no event of a connection is returned inside its  *)
(*          own registration;                                              *)
(*   two    that for two connections of a byte each, left alone.           *)
EXTENDS EventLoop, TLC

CONSTANTS k1, k2

TwoConns == {k1, k2}

VARIABLE instance

allVars == <<vars, instance>>

ReactorInit ==
  /\ Init
  /\ instance \in {"race", "apart", "two"}
  /\ instance # "two" => current = k1

LeftAlone ==
  /\ ~is_shutdown_'
  /\ \A c \in Conns : net'[c].sent <= 1 /\ net'[c].peer # "rst" /\ ~sock'[c].closed

ReactorNext ==
  /\ Next
  /\ instance # "race" => (EpollWait => Apart)
  /\ IF instance = "two" THEN LeftAlone ELSE net'[k2].peer = "none"
  /\ UNCHANGED instance

(* Nothing is expected of the race, so it needs no fairness; the others    *)
(* have that of EventLoop.  An epoll_wait that is not Apart need not come: *)
(* the worker ends its registration first, by its own fairness.            *)
Awaited == instance # "race" /\ UNCHANGED instance

ReactorSpec ==
  /\ ReactorInit /\ [][ReactorNext]_allVars
  /\ \A c \in Conns : /\ WF_allVars(Awaited /\ WorkerStep(c))
                      /\ WF_allVars(Awaited /\ PeerRecv(c))
  /\ WF_allVars(Awaited /\ ReactorStep)

(* No event finds a null handle and no epoll call fails: see EventLoop.    *)
ApartNoCrash == instance # "race" => NoCrash

(* What a peer sends is echoed: see EventLoop.                             *)
ApartEchoed == instance # "race" => EverythingEchoed

(* A connection its peer has closed is destroyed: see EventLoop.           *)
ApartReleased == instance # "race" => ClosedIsReleased
=============================================================================
