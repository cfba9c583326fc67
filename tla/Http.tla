-------------------------------- MODULE Http --------------------------------
(***************************************************************************)
(* HttpServer::OnRequest (net/http/http_server.cpp) on one connection,     *)
(* with its Router, HttpContext and HttpResponse, the timer of every round *)
(* and the thread on which a timer's task closes the connection.           *)
(*                                                                         *)
(* The client's stream is cut into tokens: a request's line with its       *)
(* headers, the blank line that ends them, and the parameters of its body, *)
(* each of which counts 1 for Content-Length.  They arrive one by one, so  *)
(* that a read may find any part of a request.  What HttpRequest::Parse    *)
(* does with the characters is in StringUtil.                              *)
(***************************************************************************)
EXTENDS StringUtil, FiniteSets

CONSTANTS Routes,        \* the GET, POST, PUT and DELETE calls of the program
          Sessions,      \* what a client may ask for, one request after another
          RequestLimit,  \* bound: requests of a session
          TimerLimit,    \* bound: rounds of OnRequest's loop
          MAX_REQUEST_SIZE

(* The methods hold no "-", which Router puts between method and URL.      *)
Method == {m \in Text : \A j \in DOMAIN m : m[j] # "-"}

ASSUME RoutesAssumption ==
  Routes \in Seq([method : Method, url : Text, handler : {"page", "add", "json"}])
ASSUME RequestsAssumption ==
  \A s \in Sessions :
    /\ DOMAIN s = 1..RequestLimit
    /\ \A i \in DOMAIN s :
         /\ s[i].method \in Method /\ s[i].url \in Text /\ s[i].body \in Nat
         /\ s[i].connection \in {"keep-alive", "close", " close"}
ASSUME HttpLimitsAssumption == {RequestLimit, TimerLimit, MAX_REQUEST_SIZE} \subseteq Nat \ {0}

VARIABLES asked,       \* the requests of the client, in order
          asking,      \* its next token: of which request, and the how-manieth
          up,          \* the tokens that have arrived and are not read
          client,      \* "open", "fin": it sends no more, "gone"
          down,        \* what the client has received
          rough,       \* it did not wait for an answer, or TCP tore a head
          setup,       \* how many of the Routes have been added
          handlers_,   \* Router: key -> handler
          h,           \* the coroutine OnRequest
          pending,     \* timers of this connection in the TimerManager
          closers,     \* threads started for such timers: how many are where in Close
          fdOpen, is_closed_

vars == <<asked, asking, up, client, down, rough, setup, handlers_, h, pending, closers,
          fdOpen, is_closed_>>

Connection == <<setup, handlers_, pending, closers, fdOpen, is_closed_>>

Init ==
  /\ asked \in Sessions
  /\ asking = [req |-> 1, part |-> 1] /\ up = <<>> /\ client = "open" /\ down = <<>> /\ rough = FALSE
  /\ setup = 0 /\ handlers_ = <<>>
  /\ h = [pc |-> "setup", waiting |-> FALSE, timer_id |-> 0,
          req |-> 0, params |-> 0, body |-> <<>>, out |-> <<>>]
  /\ pending = {} /\ closers = [close |-> 0, flag |-> 0]
  /\ fdOpen = TRUE /\ is_closed_ = FALSE

-----------------------------------------------------------------------------
(* Tokens.                                                                 *)
Token(i, part) ==
  [req |-> i, kind |-> IF part = 1 THEN "line" ELSE IF part = 2 THEN "end" ELSE "body"]

TokensOf(i) == 2 + asked[i].body

AtEnd == up = <<>> /\ client # "open"

-----------------------------------------------------------------------------
(* Router.                                                                 *)
Key(method, url) == method \o <<"-">> \o url

(* HttpServer::GET, POST, PUT and DELETE.                                  *)
AddRouter ==
  LET r   == Routes[setup + 1]
      key == Key(r.method, r.url)
  IN
  /\ setup < Len(Routes)
  /\ setup' = setup + 1
  /\ handlers_' = IF r.method = <<"D">> \/ ~EndsWith(r.url, <<"/">>)
                  THEN handlers_
                  ELSE [k \in DOMAIN handlers_ \cup {key} |->
                          IF k = key THEN r.handler ELSE handlers_[k]]
  /\ UNCHANGED <<asked, asking, up, client, down, rough, h, pending, closers, fdOpen, is_closed_>>

(* The server starts and the client connects.                              *)
Start ==
  /\ h.pc = "setup" /\ setup = Len(Routes)
  /\ h' = [h EXCEPT !.pc = "top"]
  /\ UNCHANGED <<asked, asking, up, client, down, rough>> /\ UNCHANGED Connection

HTML(i, status) ==
  << [req |-> i, status |-> status, part |-> "headers"],
     [req |-> i, status |-> status, part |-> "text"] >>

(* A program's handlers: a page, one that adds two parameters as in        *)
(* docs/http.md, and one that answers with HttpContext::JSON, which sets   *)
(* no body, so that nothing is sent.                                       *)
Run(handler, i, params) ==
  CASE handler = "page" -> HTML(i, 200)
    [] handler = "add"  -> HTML(i, IF params = 2 THEN 200 ELSE 404)
    [] handler = "json" -> <<>>

(* i is 0 for a request whose first line could not be understood.          *)
Handle(i, params) ==
  LET key == IF i = 0 THEN <<>> ELSE Key(asked[i].method, asked[i].url) IN
  IF key \in DOMAIN handlers_ THEN Run(handlers_[key], i, params) ELSE HTML(i, 404)

-----------------------------------------------------------------------------
(* OnRequest.                                                              *)
Top ==
  /\ h.pc = "top" /\ h.timer_id < TimerLimit
  /\ h' = [h EXCEPT !.pc = "read", !.timer_id = @ + 1]
  /\ pending' = pending \cup {h.timer_id + 1}
  /\ UNCHANGED <<asked, asking, up, client, down, rough, setup, handlers_, closers,
                 fdOpen, is_closed_>>

Wanted(i) == IF i = 0 THEN 0 ELSE asked[i].body

(* Without Content-Length (no body here) the body is taken as it comes.    *)
Complete(i, body) == Wanted(i) \in {0, Len(body)}

(* Behind the end of an array lies something else: the process ends, or    *)
(* goes on with what it found there.                                       *)
Crash == h' = [h EXCEPT !.pc = "crashed"]

(* ParseBody sees only what has come with the head.                        *)
Parsed(i, body) ==
  h' = [h EXCEPT !.req = i, !.body = body, !.params = Len(body),
                 !.pc = IF Complete(i, body) THEN "remove" ELSE "body"]

ParseAndAnswer(data) ==
  LET i == data[1].req IN
  h' = [h EXCEPT !.req = i, !.body = <<>>, !.params = 0, !.pc = "remove"]

(* Parse.  The body is what lies between the first blank line and the      *)
(* next; without one, head_and_body[1] does not exist.                     *)
ParseRequest(data) ==
  LET ends == {j \in DOMAIN data : data[j].kind = "end"}
      end  == CHOOSE j \in ends : \A k \in ends : j <= k
      last == CHOOSE j \in (ends \ {end}) \cup {Len(data) + 1} :
                \A k \in ends : k = end \/ j <= k
      body == IF ends = {} THEN <<>> ELSE SubSeq(data, end + 1, last - 1)
      i    == IF data[1].kind = "line" THEN data[1].req ELSE 0
  IN
  \/ Parsed(i, body)
  \/ /\ ends = {} \/ i = 0
     /\ Crash

(* The rest of a body is appended until the size is equal to what          *)
(* Content-Length says; a body that is longer is never complete.           *)
ReadMore(data) ==
  LET body == h.body \o data IN
  h' = [h EXCEPT !.body = body, !.pc = IF Complete(h.req, body) THEN "remove" ELSE "body"]

(* AsyncRead with data.  buffer[recv_len] is one past the vector's memory  *)
(* if the read has filled it.                                              *)
Read ==
  /\ h.pc \in {"read", "body"} /\ ~h.waiting /\ fdOpen /\ up # <<>>
  /\ LET len  == IF Len(up) < MAX_REQUEST_SIZE THEN Len(up) ELSE MAX_REQUEST_SIZE
         data == SubSeq(up, 1, len)
     IN
     /\ up' = From(up, len + 1)
     /\ rough' = (rough \/ up[len].kind = "line")
     /\ \/ IF h.pc = "read" THEN ParseRequest(data) ELSE ReadMore(data)
        \/ len = MAX_REQUEST_SIZE /\ Crash
  /\ UNCHANGED <<asked, asking, client, down>> /\ UNCHANGED Connection

(* AsyncRead with 0, at the end of the stream or of the connection: the    *)
(* loop starts again and leaves its timer behind.  (In the body's loop     *)
(* nothing changes, for ever.)                                             *)
ReadNothing ==
  /\ h.pc = "read" /\ ~h.waiting
  /\ AtEnd \/ ~fdOpen
  /\ h' = [h EXCEPT !.pc = "top"]
  /\ UNCHANGED <<asked, asking, up, client, down, rough>> /\ UNCHANGED Connection

(* The read would block, or fails on a descriptor that Close has just      *)
(* closed: the coroutine is left to the reactor.                           *)
ReadSuspend ==
  /\ h.pc \in {"read", "body"} /\ ~h.waiting /\ ~is_closed_
  /\ ~fdOpen \/ (up = <<>> /\ ~AtEnd)
  /\ h' = [h EXCEPT !.waiting = TRUE]
  /\ UNCHANGED <<asked, asking, up, client, down, rough>> /\ UNCHANGED Connection

(* epoll knows of a descriptor until it is closed.                         *)
Wake ==
  /\ h.waiting /\ fdOpen
  /\ h.pc \in {"read", "body"} => up # <<>> \/ AtEnd
  /\ h' = [h EXCEPT !.waiting = FALSE]
  /\ UNCHANGED <<asked, asking, up, client, down, rough>> /\ UNCHANGED Connection

KeepTimer ==
  /\ h.pc = "remove"
  /\ h' = [h EXCEPT !.pc = "send", !.out = Handle(h.req, h.params),
                    !.params = 0, !.body = <<>>]
  /\ UNCHANGED <<asked, asking, up, client, down, rough>> /\ UNCHANGED Connection

(* RemoveTimer, and then the handler of the route.                         *)
RemoveTimerAndHandle ==
  /\ h.pc = "remove"
  /\ pending' = pending \ {h.timer_id}
  /\ h' = [h EXCEPT !.pc = "send", !.out = Handle(h.req, h.params),
                    !.params = 0, !.body = <<>>]
  /\ UNCHANGED <<asked, asking, up, client, down, rough, setup, handlers_, closers,
                 fdOpen, is_closed_>>

(* SendResponse's AsyncWrite: a part of the answer fits, and the rest      *)
(* waits for the reactor.  A closed connection takes nothing and nobody    *)
(* minds; a client that is gone makes the write vanish, fail or kill.      *)
Send ==
  /\ h.pc = "send" /\ h.out # <<>> /\ ~h.waiting
  /\ \/ /\ fdOpen /\ client # "gone"
        /\ \E k \in 1..Len(h.out) :
             /\ down' = down \o SubSeq(h.out, 1, k)
             /\ h' = [h EXCEPT !.out = From(@, k + 1), !.waiting = k < Len(h.out)]
     \/ /\ is_closed_ \/ (client = "gone" /\ fdOpen)
        /\ h' = [h EXCEPT !.out = <<>>]
        /\ UNCHANGED down
     \/ /\ ~fdOpen /\ ~is_closed_
        /\ h' = [h EXCEPT !.waiting = TRUE]
        /\ UNCHANGED down
     \/ /\ client = "gone" /\ fdOpen
        /\ Crash
        /\ UNCHANGED down
  /\ UNCHANGED <<asked, asking, up, client, rough>> /\ UNCHANGED Connection

AlwaysLeave ==
  /\ h.pc = "send" /\ h.out = <<>>
  /\ h' = [h EXCEPT !.pc = "done"]
  /\ UNCHANGED <<asked, asking, up, client, down, rough>> /\ UNCHANGED Connection

(* Only "Connection:close" ends the loop: the blank of "Connection: close" *)
(* stays in the value.                                                     *)
CheckKeepAlive ==
  /\ h.pc = "send" /\ h.out = <<>>
  /\ h' = [h EXCEPT !.pc = IF h.req # 0 /\ asked[h.req].connection = "close"
                           THEN "done" ELSE "top",
                    !.req = 0]
  /\ UNCHANGED <<asked, asking, up, client, down, rough>> /\ UNCHANGED Connection

-----------------------------------------------------------------------------
(* The timers.  pop() may erase a timer and start another one's task: so a *)
(* timer's task may start while it is still pending (here only as the      *)
(* first one: the next ones would find the descriptor closed), and may     *)
(* never start.                                                            *)
TimerFires(id) ==
  /\ id \in pending
  /\ \/ pending' = pending \ {id} /\ closers' = [closers EXCEPT !.close = @ + 1]
     \/ pending' = pending \ {id} /\ UNCHANGED closers
     \/ /\ fdOpen /\ closers = [close |-> 0, flag |-> 0]
        /\ closers' = [closers EXCEPT !.close = 1]
        /\ UNCHANGED pending
  /\ UNCHANGED <<asked, asking, up, client, down, rough, setup, handlers_, h, fdOpen, is_closed_>>

(* TcpConnection::Close: the descriptor first, the flag afterwards.        *)
CloseDescriptor ==
  /\ closers.close > 0
  /\ closers' = [close |-> closers.close - 1,
                 flag |-> closers.flag + IF is_closed_ THEN 0 ELSE 1]
  /\ fdOpen' = FALSE
  /\ UNCHANGED <<asked, asking, up, client, down, rough, setup, handlers_, h, pending, is_closed_>>

CloseFlag ==
  /\ closers.flag > 0
  /\ closers' = [closers EXCEPT !.flag = @ - 1]
  /\ is_closed_' = TRUE
  /\ UNCHANGED <<asked, asking, up, client, down, rough, setup, handlers_, h, pending, fdOpen>>

-----------------------------------------------------------------------------
(* The client.                                                             *)
SentBy(i) == asking.req > i
Answered(i) == \E j \in DOMAIN down : down[j].req = i /\ down[j].part = "text"

ClientSend ==
  /\ h.pc # "setup" /\ client = "open" /\ asking.req <= RequestLimit
  /\ up' = Append(up, Token(asking.req, asking.part))
  /\ asking' = IF asking.part < TokensOf(asking.req) THEN [asking EXCEPT !.part = @ + 1]
               ELSE [req |-> asking.req + 1, part |-> 1]
  /\ rough' = (rough \/ (asking.part = 1 /\ asking.req > 1 /\ ~Answered(asking.req - 1)))
  /\ UNCHANGED <<asked, client, down, h>> /\ UNCHANGED Connection

ClientEnds ==
  /\ h.pc # "setup"
  /\ \E next \in {"fin", "gone"} : client' = next /\ client # next /\ client # "gone"
  /\ UNCHANGED <<asked, asking, up, down, rough, h>> /\ UNCHANGED Connection

-----------------------------------------------------------------------------
HandlerStep ==
  \/ Top \/ Read \/ ReadNothing \/ ReadSuspend \/ Wake
  \/ RemoveTimerAndHandle \/ Send \/ CheckKeepAlive

CloserStep == CloseDescriptor \/ CloseFlag

Alive == h.pc # "crashed"

Next ==
  \/ AddRouter \/ Start
  \/ Alive /\ HandlerStep
  \/ \E id \in 1..TimerLimit : Alive /\ TimerFires(id)
  \/ Alive /\ CloserStep
  \/ ClientSend \/ ClientEnds

Spec == Init /\ [][Next]_vars

(* Workers, the reactor and the closing threads run; the client owes       *)
(* nothing, and a timer may take as long as it likes.                      *)
Fairness ==
  /\ WF_vars(AddRouter \/ Start)
  /\ WF_vars(Alive /\ HandlerStep)
  /\ WF_vars(Alive /\ CloserStep)

FairSpec == Spec /\ Fairness

-----------------------------------------------------------------------------
HandlerOf(i) ==
  LET at == {j \in DOMAIN Routes :
               /\ Routes[j].method = asked[i].method /\ Routes[j].url = asked[i].url
               /\ Routes[j].method # <<"D">> /\ EndsWith(Routes[j].url, <<"/">>)}
  IN  IF at = {} THEN "none"
      ELSE Routes[CHOOSE j \in at : \A k \in at : k <= j].handler

(* The statuses by which an answer shows which route it is of.  The        *)
(* handler that adds answers 200 or, since ParseBody sees only what came   *)
(* with the head, 404 to both parameters: not the sum that docs/http.md:12 *)
(* promises.  The order of the answers does not depend on which it is.     *)
StatusesOf(i) ==
  CASE HandlerOf(i) = "page" -> {200}
    [] HandlerOf(i) = "none" -> {404}
    [] HandlerOf(i) = "add"  -> {200, 404}
    [] HandlerOf(i) = "json" -> {}

(* What a client receives are the answers to its requests: the headers and *)
(* the text of one after the other, in the order of the requests and none  *)
(* of these passed over, each from the route of its request, however TCP   *)
(* cuts the bodies and whenever a timer closes the connection.  The client *)
(* waits for its answers and its heads come whole.                         *)
AnswersInOrder ==
  ~rough =>
    \A j \in DOMAIN down :
      LET i == (j + 1) \div 2 IN
      /\ i <= RequestLimit
      /\ \E s \in StatusesOf(i) : down[j] = HTML(i, s)[IF j % 2 = 1 THEN 1 ELSE 2]
      /\ j % 2 = 0 => down[j].status = down[j - 1].status

(* While the client keeps its end open, the timer that may close the       *)
(* connection is the one of the request being read: none is left from an   *)
(* earlier request, none is armed while an answer is sent, and none keeps  *)
(* the connection open when the handler has left.                          *)
OneTimer ==
  client = "open" /\ fdOpen =>
    pending \subseteq IF h.pc \in {"read", "body", "remove", "crashed"} THEN {h.timer_id} ELSE {}

(* A request that was sent whole is answered, also if the client ends its  *)
(* side after it, unless a timer closes the connection, the client leaves, *)
(* the process ends, or an earlier request asked to close.                 *)
RequestAnswered ==
  \A i \in 1..RequestLimit :
    SentBy(i) ~> \/ Answered(i) \/ rough \/ ~fdOpen \/ client = "gone" \/ ~Alive
                 \/ HandlerOf(i) = "json"
                 \/ \E j \in 1..(i - 1) : asked[j].connection = "close"
=============================================================================
