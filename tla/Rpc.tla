-------------------------------- MODULE Rpc ---------------------------------
(***************************************************************************)
(* A BlockingRpcClient (net/rpc/rpc_client.h) calling functions of an      *)
(* RpcServer (net/rpc/rpc_server.h) over one connection.  Both frame their *)
(* messages as packets, a header of HEADER_SIZE bytes with the length and  *)
(* then the body: the server in AsyncReadPacket and AsyncWritePacket of    *)
(* io/io_awaiter.cpp, the client in ReadPacket and WritePacket.  Bodies    *)
(* are what Codec makes of names, arguments and RpcResponses.              *)
(*                                                                         *)
(* The connection is a FIFO of bytes in each direction with a bounded send *)
(* buffer.  A read returns any non-empty part of what was written: that is *)
(* the segmentation of TCP.  Only one thing is asked of it, and recorded   *)
(* in split when it does not hold: that a header arrives in one piece.     *)
(***************************************************************************)
EXTENDS Codec

CONSTANTS Names,       \* function names, as strings of bytes
          Bound,       \* those the server has bound with Bind
          CallLimit,   \* calls the client makes at most
          Retries,     \* retry_times of the constructor, 50 in the code
          SndBuf,      \* bytes each send buffer takes
          Cuts,        \* how many bytes of a header may come alone
          Leftovers    \* lengths an uninitialised head_buffer may stand for

HEADER_SIZE == 4

(* The lengths of packets, and the arguments and values, fit their types.  *)
ASSUME NamesAssumption ==
  Bound \subseteq Names /\ Names \subseteq Seq(Byte) /\ \A x \in Names : Len(x) + 16 < Huge
ASSUME LimitsAssumption ==
  {CallLimit, Retries, SndBuf} \subseteq Nat /\ SndBuf >= HEADER_SIZE /\ CallLimit + 10 \in Byte
ASSUME LeftoverAssumption == Leftovers \subseteq Nat /\ Leftovers # {} /\ Cuts \subseteq Nat

VARIABLES up, down,   \* bytes on their way to the server, to the client
          cli,        \* BlockingRpcClient and the thread in it
          srv,        \* the server's OnRequest coroutine
          calls,      \* names called so far; the argument is the call's number
          results,    \* what the calls have returned
          ran,        \* arguments the bound functions have been run with
          split       \* has a header been read in pieces?

vars == <<up, down, cli, srv, calls, results, ran, split>>

RPC_SUCCECC                == 0
RPC_ERR_FUNCTION_NOT_FOUND == 1
RPC_ERR_RECV_TIMEOUT       == 2

(* The bytes of a call's arguments (a tuple of one number), of a code_type *)
(* and of a returned value.                                                *)
ArgsSize  == 1
CodeSize  == 2
ValueSize == 1

(* err_code_ has no initial value.                                         *)
Init ==
  /\ up = <<>> /\ down = <<>>
  /\ \E e \in {RPC_SUCCECC, RPC_ERR_RECV_TIMEOUT} :
       cli = [pc |-> "connect", tries |-> Retries, out |-> <<>>, head |-> 0, left |-> 0,
              buf |-> <<>>, err_code_ |-> e]
  /\ srv = [pc |-> "none", out |-> <<>>, left |-> 0, buf |-> <<>>]
  /\ calls = <<>> /\ results = <<>> /\ ran = <<>>
  /\ split = FALSE

ClientGone == cli.pc = "gone"
ServerGone == srv.pc \in {"closed", "crashed"}

Least(m, n) == IF m < n THEN m ELSE n
Room(stream, gone) == IF gone THEN Huge ELSE SndBuf - Len(stream)

(* What a stream holds after a write: nothing reaches a peer that is gone. *)
Put(stream, gone, bytes) == IF gone THEN stream ELSE stream \o bytes

(* How much of a header one read may return, and how much of a body.       *)
HeadReads(stream) ==
  LET most == Least(Len(stream), HEADER_SIZE) IN {most} \cup (Cuts \cap 1..most)
BodyReads(stream, left) == 1..Least(Len(stream), left)

Take(s, k) == SubSeq(s, 1, k)
Drop(s, k) == SubSeq(s, k + 1, Len(s))
Header(body) == LittleEndian(Len(body), HEADER_SIZE)

-----------------------------------------------------------------------------
(* The client.                                                             *)

(* connect on a non-blocking socket; anything but success and EINPROGRESS  *)
(* is LOG_FATAL.  After the last try the constructor returns all the same. *)
Connect ==
  /\ cli.pc = "connect"
  /\ \/ /\ cli.tries > 0
        /\ cli' = [cli EXCEPT !.pc = "idle"] /\ srv' = [srv EXCEPT !.pc = "head"]
     \/ /\ cli.tries > 0
        /\ cli' = [cli EXCEPT !.tries = @ - 1] /\ UNCHANGED srv
     \/ /\ cli.tries > 0
        /\ cli' = [cli EXCEPT !.pc = "gone"] /\ UNCHANGED srv
     \/ /\ cli.tries = 0
        /\ cli' = [cli EXCEPT !.pc = "unconnected"] /\ UNCHANGED srv
  /\ UNCHANGED <<up, down, calls, results, ran, split>>

Request(name, arg) == SerializeString(name) \o LittleEndian(arg, ArgsSize)

(* Call, and NetCall up to WritePacket's header: written once, and only    *)
(* checked for not having failed.  After a "timeout" nothing is sent.      *)
Call(name) ==
  LET body == Request(name, Len(calls) + 1)
      k    == Least(Room(up, ServerGone), HEADER_SIZE)
  IN
  /\ cli.pc = "idle" /\ Len(calls) < CallLimit
  /\ calls' = Append(calls, name)
  /\ IF cli.err_code_ = RPC_ERR_RECV_TIMEOUT
     THEN cli' = [cli EXCEPT !.pc = "head", !.head = 0] /\ UNCHANGED up
     ELSE \/ /\ k > 0
             /\ up' = Put(up, ServerGone, Take(Header(body), k))
             /\ cli' = [cli EXCEPT !.pc = "send", !.out = body]
          \/ /\ k = 0 \/ ServerGone
             /\ cli' = [cli EXCEPT !.pc = "gone"]
             /\ UNCHANGED up
  /\ UNCHANGED <<down, srv, results, ran, split>>

CallUnconnected(name) ==
  /\ cli.pc = "unconnected" /\ Len(calls) < CallLimit
  /\ calls' = Append(calls, name)
  /\ cli' = [cli EXCEPT !.pc = "gone"]
  /\ UNCHANGED <<up, down, srv, results, ran, split>>

(* One turn of WritePacket's loop.  A write that fails ends it short, for  *)
(* which NetCall has LOG_FATAL; EAGAIN is tried again.                     *)
ClientWrite ==
  LET k == Least(Room(up, ServerGone), Len(cli.out)) IN
  /\ cli.pc = "send"
  /\ \/ /\ k > 0
        /\ up' = Put(up, ServerGone, Take(cli.out, k))
        /\ cli' = [cli EXCEPT !.out = Drop(@, k),
                              !.pc = IF k = Len(cli.out) THEN "head" ELSE "send", !.head = 0]
     \/ /\ ServerGone
        /\ cli' = [cli EXCEPT !.pc = "gone"]
        /\ UNCHANGED up
  /\ UNCHANGED <<down, srv, calls, results, ran, split>>

(* Two of the values an uninitialised or foreign byte may have.            *)
Junk == {0, 255}

(* RpcResponse::deserialize reads code, message and value, whatever the    *)
(* code is; what lies behind the buffer is junk.                           *)
Response(b) ==
  LET code == DeserializeNumber(b, 0, CodeSize)
      msg  == DeserializeString(b, code.pos)
      val  == DeserializeNumber(b, msg.pos, ValueSize)
      Read(x) == IF x.pos <= Len(b) THEN {x.val} ELSE Junk
  IN  [code : Read(code), val : Read(val)]

(* The rest of NetCall with the reply b, of which missing bytes have not   *)
(* come (results remembers that, the client does not).                     *)
Return(b, missing) ==
  IF b = <<>>
  THEN /\ results' = Append(results, [code |-> RPC_ERR_RECV_TIMEOUT, val |-> 0,
                                      missing |-> missing])
       /\ cli' = [cli EXCEPT !.pc = "idle", !.buf = <<>>, !.left = 0,
                             !.err_code_ = RPC_ERR_RECV_TIMEOUT]
  ELSE /\ \E r \in Response(b) :
            results' = Append(results, [code |-> r.code, val |-> r.val, missing |-> missing])
       /\ cli' = [cli EXCEPT !.pc = "idle", !.buf = <<>>, !.left = 0, !.err_code_ = RPC_SUCCECC]

ReadAfresh(k) ==
  IF k = HEADER_SIZE THEN {FromLittleEndian(Take(down, k))} ELSE Leftovers

(* ReadPacket's header: every read starts at head_buffer and asks for the  *)
(* whole header, and head_recv_size must become exactly HEADER_SIZE.  At   *)
(* the end of the stream the loop goes on.                                 *)
ClientReadHead ==
  /\ cli.pc = "head" /\ down # <<>>
  /\ \E k \in HeadReads(down) :
       /\ down' = Drop(down, k)
       /\ split' = (split \/ k < HEADER_SIZE)
       /\ IF cli.head + k # HEADER_SIZE
          THEN cli' = [cli EXCEPT !.head = Least(@ + k, HEADER_SIZE + 1)]
          ELSE \E n \in ReadAfresh(k) : cli' = [cli EXCEPT !.left = n, !.pc = "body"]
  /\ UNCHANGED <<up, srv, calls, results, ran>>

(* A hard error on the header returns -1, as a size_t: NetCall's check for *)
(* a negative result never holds, and it reads the code from no buffer.    *)
ClientReadError ==
  /\ cli.pc = "head" /\ down = <<>> /\ ServerGone /\ up # <<>>
  /\ cli' = [cli EXCEPT !.pc = "gone"]
  /\ UNCHANGED <<up, down, srv, calls, results, ran, split>>

(* One turn of ReadPacket's loop, and the return.  The end of the stream   *)
(* breaks the loop and the call returns what has come.                     *)
ClientReadBody ==
  /\ cli.pc = "body"
  /\ \/ /\ cli.left > 0 /\ down # <<>>
        /\ \E k \in BodyReads(down, cli.left) :
             /\ down' = Drop(down, k)
             /\ LET b == cli.buf \o Take(down, k) IN
                IF k = cli.left THEN Return(b, 0)
                ELSE cli' = [cli EXCEPT !.buf = b, !.left = @ - k] /\ UNCHANGED results
     \/ /\ cli.left = 0 \/ (down = <<>> /\ ServerGone)
        /\ Return(cli.buf, cli.left)
        /\ UNCHANGED down
  /\ UNCHANGED <<up, srv, calls, ran, split>>

(* The destructor, or the end of the client's process at any time.         *)
ClientLeaves ==
  /\ cli.pc # "gone"
  /\ cli' = [cli EXCEPT !.pc = "gone"]
  /\ UNCHANGED <<up, down, srv, calls, results, ran, split>>

-----------------------------------------------------------------------------
(* The server.                                                             *)

(* AsyncReadPacket's header: one read whose result is ignored.  At the end *)
(* of the stream head_buffer keeps what it held.                           *)
ServerReadHead ==
  /\ srv.pc = "head"
  /\ \/ /\ up # <<>>
        /\ \E k \in HeadReads(up) :
             /\ up' = Drop(up, k)
             /\ split' = (split \/ k < HEADER_SIZE)
             /\ \E n \in IF k = HEADER_SIZE THEN {FromLittleEndian(Take(up, k))} ELSE Leftovers :
                  srv' = [srv EXCEPT !.left = n, !.buf = <<>>, !.pc = "body"]
     \/ /\ up = <<>> /\ ClientGone
        /\ \E n \in Leftovers : srv' = [srv EXCEPT !.left = n, !.buf = <<>>, !.pc = "body"]
        /\ UNCHANGED <<up, split>>
  /\ UNCHANGED <<down, cli, calls, results, ran>>

(* RpcServer::CallImpl for a request that could be read.                   *)
ReplyUnbound(name) ==
  LittleEndian(RPC_ERR_FUNCTION_NOT_FOUND, CodeSize) \o SerializeString(name)

(* The bound function returns its argument plus ten.                       *)
ReplyBound(arg) ==
  LittleEndian(RPC_SUCCECC, CodeSize) \o SerializeString(<<>>)
    \o LittleEndian(arg + 10, ValueSize)

StartReply(body) ==
  srv' = [srv EXCEPT !.pc = "sendhead", !.out = body, !.buf = <<>>, !.left = 0]

CallTwice(b) ==
  LET name == DeserializeString(b, 0)
      args == DeserializeNumber(b, name.pos, ArgsSize)
  IN  /\ args.pos <= Len(b)
      /\ StartReply(ReplyBound(args.val))
      /\ ran' = ran \o <<args.val, args.val>>

(* OnRequest and CallImpl with the packet b.  A packet shorter than what   *)
(* it should hold is read past its end: the process ends, as it must if    *)
(* the packet is empty and has no data(), or some other name is looked up. *)
CallImpl(b) ==
  LET name == DeserializeString(b, 0)
      args == DeserializeNumber(b, name.pos, ArgsSize)
  IN
  \/ /\ name.pos <= Len(b) /\ name.val \in Bound /\ args.pos <= Len(b)
     /\ StartReply(ReplyBound(args.val))
     /\ ran' = Append(ran, args.val)
  \/ /\ b # <<>> /\ (name.pos > Len(b) \/ name.val \notin Bound)
     /\ StartReply(ReplyUnbound(name.val))
     /\ UNCHANGED ran
  \/ /\ name.pos > Len(b) \/ args.pos > Len(b)
     /\ srv' = [srv EXCEPT !.pc = "crashed"]
     /\ UNCHANGED ran

ReadBodyWaits ==
  /\ srv.pc = "body" /\ srv.left > 0 /\ up # <<>>
  /\ \E k \in BodyReads(up, srv.left) :
       /\ up' = Drop(up, k)
       /\ LET b == srv.buf \o Take(up, k) IN
          IF k = srv.left THEN CallImpl(b)
          ELSE srv' = [srv EXCEPT !.buf = b, !.left = @ - k] /\ UNCHANGED ran
  /\ UNCHANGED <<down, cli, calls, results, split>>

ReadBodyOnce ==
  /\ srv.pc = "body" /\ srv.left > 0 /\ up # <<>>
  /\ LET k == Least(Len(up), srv.left) IN
     /\ up' = Drop(up, k)
     /\ IF k = srv.left THEN CallImpl(Take(up, k))
        ELSE srv' = [srv EXCEPT !.buf = @ \o Take(up, k)] /\ UNCHANGED ran
  /\ UNCHANGED <<down, cli, calls, results, split>>

(* One turn of AsyncReadPacket's loop; a packet of length 0 skips it.      *)
ServerReadBody ==
  /\ srv.pc = "body"
  /\ \/ /\ srv.left > 0 /\ up # <<>>
        /\ \E k \in BodyReads(up, srv.left) :
             /\ up' = Drop(up, k)
             /\ LET b == srv.buf \o Take(up, k) IN
                IF k = srv.left THEN CallImpl(b)
                ELSE srv' = [srv EXCEPT !.buf = b, !.left = @ - k] /\ UNCHANGED ran
     \/ /\ srv.left > 0 /\ up = <<>> /\ ClientGone
        /\ srv' = [srv EXCEPT !.pc = "closed"]
        /\ UNCHANGED <<up, ran>>
     \/ /\ srv.left = 0
        /\ CallImpl(srv.buf)
        /\ UNCHANGED up
  /\ UNCHANGED <<down, cli, calls, results, split>>

(* SendResponse: AsyncWritePacket's header, written once, and its loop.    *)
(* With the client gone a write succeeds into nothing, fails, which only   *)
(* ends the packet, or ends the process.                                   *)
ServerWrite ==
  LET data == IF srv.pc = "sendhead" THEN Header(srv.out) ELSE srv.out
      k    == Least(Room(down, ClientGone), Len(data))
  IN
  /\ srv.pc \in {"sendhead", "send"}
  /\ \/ /\ k > 0
        /\ down' = Put(down, ClientGone, Take(data, k))
        /\ srv' = IF srv.pc = "sendhead" THEN [srv EXCEPT !.pc = "send"]
                  ELSE [srv EXCEPT !.out = Drop(@, k),
                                   !.pc = IF k = Len(srv.out) THEN "head" ELSE "send"]
     \/ /\ ClientGone
        /\ \E next \in {"crashed", IF srv.pc = "sendhead" THEN "send" ELSE "head"} :
             srv' = [srv EXCEPT !.pc = next]
        /\ UNCHANGED down
  /\ UNCHANGED <<up, cli, calls, results, ran, split>>

ServerCrash ==
  /\ srv.pc # "none" /\ ~ServerGone
  /\ srv' = [srv EXCEPT !.pc = "crashed"]
  /\ UNCHANGED <<up, down, cli, calls, results, ran, split>>

-----------------------------------------------------------------------------
ClientStep == Connect \/ ClientWrite \/ ClientReadHead \/ ClientReadBody \/ ClientReadError
ServerStep == ServerReadHead \/ ServerReadBody \/ ServerWrite

Next ==
  \/ ClientStep \/ ServerStep
  \/ \E name \in Names : Call(name) \/ CallUnconnected(name)
  \/ ClientLeaves \/ ServerCrash

Spec == Init /\ [][Next]_vars

(* Both programs go on as long as they can; nobody has to call, to leave   *)
(* or to crash.                                                            *)
Fairness == WF_vars(ClientStep) /\ WF_vars(ServerStep)

FairSpec == Spec /\ Fairness

-----------------------------------------------------------------------------
(* However the bodies are cut by TCP and whichever side goes away: as long *)
(* as headers come in one piece, a function is run at most once for a      *)
(* call, in the order of the calls, and a reply that came whole answers    *)
(* the call it is returned for: the value for a bound name, the error code *)
(* for another.                                                            *)
AnswersMatchCalls ==
  ~split =>
    /\ \A i \in 1..Len(ran) : calls[ran[i]] \in Bound /\ (i > 1 => ran[i - 1] < ran[i])
    /\ \A i \in 1..Len(results) :
         results[i].missing = 0 =>
           IF calls[i] \in Bound
           THEN /\ results[i].code = RPC_SUCCECC /\ results[i].val = i + 10
                /\ \E j \in 1..Len(ran) : ran[j] = i
           ELSE results[i].code = RPC_ERR_FUNCTION_NOT_FOUND

(* The header of a reply that cannot come any more: at the end of the      *)
(* stream the client goes on reading.                                      *)
NoReply == ServerGone /\ cli.pc = "head"

(* A call that sends its request returns, also when the server goes away   *)
(* inside the body of its reply; err_code_, which is never initialised,    *)
(* must not hold the code that keeps requests from being sent.             *)
CallReturns ==
  \A i \in 1..CallLimit :
    Len(calls) >= i ~> \/ Len(results) >= i \/ ClientGone \/ NoReply
                       \/ split \/ cli.err_code_ = RPC_ERR_RECV_TIMEOUT

(* The handler of a client that has gone ends, wherever in a packet it     *)
(* was: no coroutine waits for bytes that cannot come.                     *)
HandlerLeaves ==
  ClientGone /\ srv.pc # "none" ~> ServerGone
=============================================================================
