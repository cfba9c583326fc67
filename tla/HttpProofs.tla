----------------------------- MODULE HttpProofs -----------------------------
(***************************************************************************)
(* HttpServer::OnRequest for any routes, sessions and limits: its timers,  *)
(* however TCP cuts the stream, and then its answers, for a client that    *)
(* waits for them and whose heads come whole.                              *)
(***************************************************************************)
EXTENDS Http, SequenceTheorems, TLAPS

(* The handler's state stays a record of its fields.                       *)
Fields == {"pc", "waiting", "timer_id", "req", "params", "body", "out"}

HInv == DOMAIN h = Fields /\ OneTimer

(* The rounds in which a timer may be armed.                               *)
Armed == {"read", "body", "remove", "crashed"}

(* The invariant holds before the client connects: no timer was added.     *)
LEMMA HInvInit == Init => HInv
<1> SUFFICES ASSUME Init PROVE HInv
  OBVIOUS
<1>1. DOMAIN h = Fields
  BY DEF Init, Fields
<1>2. pending = {}
  BY DEF Init
<1> QED
  BY <1>1, <1>2 DEF HInv, OneTimer

(* A step of the handler that touches neither timers nor descriptor, and   *)
(* stays in a round in which a timer may be armed.                         *)
LEMMA SameRound ==
  ASSUME HInv, UNCHANGED <<pending, client, fdOpen>>, DOMAIN h' = Fields,
         h.pc \in Armed => h'.pc \in Armed, h'.timer_id = h.timer_id
  PROVE  HInv'
BY DEF HInv, OneTimer, Armed

(* A read parses a request, adds to its body, or ends the process.        *)
LEMMA ReadKeeps ==
  ASSUME HInv, Read
  PROVE  HInv'
<1>1. UNCHANGED <<pending, client, fdOpen>>
  BY DEF Read, Connection
<1>2. PICK data : \/ IF h.pc = "read" THEN ParseRequest(data) ELSE ReadMore(data)
                  \/ Crash
  BY DEF Read
<1>3. DOMAIN h' = Fields /\ h'.pc \in Armed /\ h'.timer_id = h.timer_id
  <2> USE DEF HInv, Fields, Armed
  <2>1. CASE Crash
    BY <2>1 DEF Crash
  <2>2. CASE ReadMore(data)
    BY <2>2 DEF ReadMore
  <2>3. CASE ParseRequest(data)
    <3>1. (\E i, body : Parsed(i, body)) \/ Crash
      BY <2>3 DEF ParseRequest
    <3> QED
      BY <2>1, <3>1 DEF Parsed
  <2> QED
    BY <1>2, <2>1, <2>2, <2>3
<1> QED
  BY <1>1, <1>3, SameRound

(* The other steps.  Only Top arms a timer, when none is left; at the end  *)
(* of the stream, where ReadNothing leaves one behind, the client's end is *)
(* no longer open.                                                         *)
LEMMA HInvStep == HInv /\ [Next]_vars => HInv'
<1> SUFFICES ASSUME HInv, [Next]_vars PROVE HInv'
  OBVIOUS
<1>0. DOMAIN h = Fields
  BY DEF HInv
<1>1. CASE Top
  BY <1>0, <1>1 DEF Top, HInv, OneTimer, Fields
<1>2. CASE Read
  BY <1>2, ReadKeeps
<1>3. CASE ReadNothing
  <2>1. DOMAIN h' = Fields
    BY <1>0, <1>3 DEF ReadNothing, Fields
  <2>2. ~(client' = "open" /\ fdOpen')
    BY <1>3 DEF ReadNothing, AtEnd, Connection
  <2> QED
    BY <2>1, <2>2 DEF HInv, OneTimer
<1>4. CASE ReadSuspend \/ Wake
  <2>1. UNCHANGED <<pending, client, fdOpen>> /\ DOMAIN h' = Fields
        /\ h'.pc = h.pc /\ h'.timer_id = h.timer_id
    BY <1>0, <1>4 DEF ReadSuspend, Wake, Connection, Fields
  <2> QED
    BY <2>1, SameRound
<1>5. CASE RemoveTimerAndHandle
  <2>1. DOMAIN h' = Fields /\ h.pc = "remove" /\ pending' = pending \ {h.timer_id}
        /\ UNCHANGED <<client, fdOpen>>
    BY <1>0, <1>5 DEF RemoveTimerAndHandle, Fields
  <2> QED
    BY <2>1 DEF HInv, OneTimer
<1>6. CASE Send
  <2>1. UNCHANGED <<pending, client, fdOpen>> /\ h.pc = "send"
    BY <1>6 DEF Send, Connection
  <2>2. DOMAIN h' = Fields
    BY <1>0, <1>6 DEF Send, Crash, Fields
  <2> QED
    BY <2>1, <2>2 DEF HInv, OneTimer
<1>7. CASE CheckKeepAlive
  <2>1. UNCHANGED <<pending, client, fdOpen>> /\ h.pc = "send"
    BY <1>7 DEF CheckKeepAlive, Connection
  <2>2. DOMAIN h' = Fields
    BY <1>0, <1>7 DEF CheckKeepAlive, Fields
  <2> QED
    BY <2>1, <2>2 DEF HInv, OneTimer
<1>8. ASSUME NEW id \in 1..TimerLimit, TimerFires(id)
      PROVE  HInv'
  <2>1. pending' \subseteq pending /\ UNCHANGED <<h, client, fdOpen>>
    BY <1>8 DEF TimerFires
  <2> QED
    BY <2>1 DEF HInv, OneTimer
<1>9. CASE CloseDescriptor
  BY <1>9 DEF CloseDescriptor, HInv, OneTimer
<1>10. CASE CloseFlag \/ AddRouter \/ UNCHANGED vars
  <2>1. UNCHANGED <<h, pending, client, fdOpen>>
    BY <1>10 DEF CloseFlag, AddRouter, vars
  <2> QED
    BY <2>1 DEF HInv, OneTimer
<1>11. CASE Start
  <2>1. UNCHANGED <<pending, client, fdOpen>> /\ h.pc = "setup" /\ DOMAIN h' = Fields
    BY <1>0, <1>11 DEF Start, Connection, Fields
  <2> QED
    BY <2>1 DEF HInv, OneTimer
<1>12. CASE ClientSend
  <2>1. UNCHANGED <<h, pending, client, fdOpen>>
    BY <1>12 DEF ClientSend, Connection
  <2> QED
    BY <2>1 DEF HInv, OneTimer
<1>13. CASE ClientEnds
  <2>1. UNCHANGED h /\ client' # "open"
    BY <1>13 DEF ClientEnds
  <2> QED
    BY <2>1 DEF HInv, OneTimer
<1> QED
  BY <1>1, <1>2, <1>3, <1>4, <1>5, <1>6, <1>7, <1>8, <1>9, <1>10, <1>11, <1>12, <1>13
     DEF Next, HandlerStep, CloserStep

(* While the client keeps its end open, at most the timer of the request   *)
(* being read can close the connection, whatever the timing of the timers' *)
(* threads and however the requests are cut.                               *)
THEOREM AtMostOneTimer == Spec => []OneTimer
<1>1. HInv => OneTimer
  BY DEF HInv
<1> QED
  BY <1>1, HInvInit, HInvStep, PTL DEF Spec

-----------------------------------------------------------------------------
(* The answers.                                                            *)

(* The routes among the first n that AddRouter takes, and their keys.      *)
Accepted(n) ==
  {j \in 1..n : Routes[j].method # <<"D">> /\ EndsWith(Routes[j].url, <<"/">>)}
RouteKey(j) == Key(Routes[j].method, Routes[j].url)

(* Under every key lies the handler of the last route accepted for it.     *)
LastFor(key, j, n) ==
  /\ j \in Accepted(n) /\ RouteKey(j) = key
  /\ \A k \in Accepted(n) : RouteKey(k) = key => k <= j

RouterInv ==
  /\ setup \in 0..Len(Routes)
  /\ h.pc # "setup" => setup = Len(Routes)
  /\ \A j \in Accepted(setup) : RouteKey(j) \in DOMAIN handlers_
  /\ \A key \in DOMAIN handlers_ :
       \E j \in 1..setup : LastFor(key, j, setup) /\ handlers_[key] = Routes[j].handler

Piece == [req : Nat, status : Nat, part : {"headers", "text"}]
Tokens == [req : Nat, kind : {"line", "end", "body"}]

StreamType ==
  /\ asked \in Sessions
  /\ asking \in [req : 1..(RequestLimit + 1), part : Nat \ {0}]
  /\ asking.req <= RequestLimit => asking.part <= TokensOf(asking.req)
  /\ asking.req = RequestLimit + 1 => asking.part = 1
  /\ up \in Seq(Tokens) /\ (rough \/ down \in Seq(Piece))

(* How many tokens of request n have arrived, of which m have been read,   *)
(* and none of the next request.                                           *)
Sent(n) == IF asking.req = n THEN asking.part - 1 ELSE TokensOf(n)
UpTo(n) == asking.req = n \/ (asking.req = n + 1 /\ asking.part = 1)
UpIs(n, m) ==
  /\ UpTo(n) /\ Len(up) + m = Sent(n)
  /\ \A j \in DOMAIN up : up[j] = Token(n, m + j)
AllRead(n) == up = <<>> /\ asking.req = n + 1 /\ asking.part = 1

(* Between two requests: none of the next one is read, or the last one was *)
(* not answered and the client is waiting for it.                          *)
Fresh == \E n \in 1..(RequestLimit + 1) : Len(down) = 2 * n - 2 /\ UpIs(n, 0)
Stuck == \E n \in 1..RequestLimit : AllRead(n) /\ ~Answered(n)

Reading(n) ==
  /\ n \in 1..RequestLimit
  /\ Len(down) = 2 * n - 2 /\ h.params \in 0..asked[n].body

Sending(n) ==
  /\ n \in 1..RequestLimit
  /\ \/ /\ AllRead(n) /\ Len(down) = 2 * n - 2
        /\ h.out = <<>> \/ \E s \in StatusesOf(n) : h.out = HTML(n, s)
     \/ /\ AllRead(n) /\ Len(down) = 2 * n - 1
        /\ h.out = <<HTML(n, down[2 * n - 1].status)[2]>>
     \/ h.out = <<>> /\ Len(down) = 2 * n /\ UpIs(n + 1, 0)

Phase ==
  /\ h.pc \in {"setup", "top", "read"} => Fresh \/ Stuck
  /\ h.pc = "body" => /\ Reading(h.req) /\ h.body \in Seq(Tokens)
                      /\ UpIs(h.req, 2 + Len(h.body))
  /\ h.pc = "remove" => Reading(h.req) /\ AllRead(h.req)
  /\ h.pc = "send" => Sending(h.req)

(* As long as neither the client nor the connection is gone, what has been *)
(* received, read and written is in step.                                  *)
InStep == ~rough /\ fdOpen /\ client # "gone" => Phase

CloseOrder ==
  /\ DOMAIN closers = {"close", "flag"} /\ closers.flag \in Nat
  /\ is_closed_ \/ closers.flag > 0 => ~fdOpen

AInv == DOMAIN h = Fields /\ StreamType /\ RouterInv /\ CloseOrder /\ AnswersInOrder /\ InStep

-----------------------------------------------------------------------------
(* Router: two keys are the same only for the same method and URL.         *)
LEMMA KeyInjective ==
  ASSUME NEW m1 \in Method, NEW u1 \in Text, NEW m2 \in Method, NEW u2 \in Text,
         Key(m1, u1) = Key(m2, u2)
  PROVE  m1 = m2 /\ u1 = u2
<1>1. m1 \in Seq(STRING) /\ u1 \in Seq(STRING) /\ m2 \in Seq(STRING) /\ u2 \in Seq(STRING)
  BY DEF Method, Text
<1> DEFINE a == Key(m1, u1)
           b == Key(m2, u2)
<1>2. ASSUME NEW m \in Method, NEW u \in Text
      PROVE  /\ Len(Key(m, u)) = Len(m) + 1 + Len(u)
             /\ \A j \in 1..Len(m) : Key(m, u)[j] = m[j] /\ m[j] # "-"
             /\ Key(m, u)[Len(m) + 1] = "-"
             /\ \A j \in 1..Len(u) : Key(m, u)[Len(m) + 1 + j] = u[j]
  <2>1. m \in Seq(STRING) /\ u \in Seq(STRING) /\ DOMAIN m = 1..Len(m) /\ Len(m) \in Nat
    BY DEF Method, Text
  <2>2. \A j \in 1..Len(m) : m[j] # "-"
    BY <2>1 DEF Method
  <2> QED
    BY <2>1, <2>2 DEF Key
<1>3. Len(m1) = Len(m2)
  <2>1. Len(m1) \in Nat /\ Len(m2) \in Nat
    BY <1>1
  <2>2. ~(Len(m1) < Len(m2))
    <3> SUFFICES ASSUME Len(m1) < Len(m2) PROVE FALSE
      OBVIOUS
    <3>1. a[Len(m1) + 1] = "-"
      BY <1>2
    <3>2. Len(m1) + 1 \in 1..Len(m2)
      BY <2>1
    <3>3. b[Len(m1) + 1] # "-"
      BY <1>2, <3>2
    <3> QED
      BY <3>1, <3>3
  <2>3. ~(Len(m2) < Len(m1))
    <3> SUFFICES ASSUME Len(m2) < Len(m1) PROVE FALSE
      OBVIOUS
    <3>1. b[Len(m2) + 1] = "-"
      BY <1>2
    <3>2. Len(m2) + 1 \in 1..Len(m1)
      BY <2>1
    <3>3. a[Len(m2) + 1] # "-"
      BY <1>2, <3>2
    <3> QED
      BY <3>1, <3>3
  <2> QED
    BY <2>1, <2>2, <2>3
<1>4. Len(u1) = Len(u2)
  <2>1. Len(a) = Len(m1) + 1 + Len(u1) /\ Len(b) = Len(m2) + 1 + Len(u2)
    BY <1>2
  <2> QED
    BY <1>1, <1>3, <2>1
<1>5. \A j \in 1..Len(m1) : m1[j] = m2[j]
  <2>1. \A j \in 1..Len(m1) : a[j] = m1[j]
    BY <1>2
  <2>2. \A j \in 1..Len(m2) : b[j] = m2[j]
    BY <1>2
  <2> QED
    BY <1>3, <2>1, <2>2
<1>6. \A j \in 1..Len(u1) : u1[j] = u2[j]
  <2>1. \A j \in 1..Len(u1) : a[Len(m1) + 1 + j] = u1[j]
    BY <1>2
  <2>2. \A j \in 1..Len(u2) : b[Len(m2) + 1 + j] = u2[j]
    BY <1>2
  <2> QED
    BY <1>3, <1>4, <2>1, <2>2
<1>7. m1 = m2
  BY <1>1, <1>3, <1>5, SeqEqual
<1>8. u1 = u2
  BY <1>1, <1>4, <1>6, SeqEqual
<1> QED
  BY <1>7, <1>8

(* What AddRouter has taken: the routes known so far are among the next.   *)
LEMMA RouterKeeps ==
  ASSUME RouterInv, AddRouter
  PROVE  RouterInv'
<1> DEFINE r   == Routes[setup + 1]
           key == RouteKey(setup + 1)
<1>1. setup \in Nat /\ setup < Len(Routes) /\ setup' = setup + 1 /\ h' = h /\ Len(Routes) \in Nat
  BY RoutesAssumption DEF RouterInv, AddRouter
<1>2. setup' \in 0..Len(Routes) /\ h.pc = "setup"
  BY <1>1 DEF RouterInv
<1>3. CASE r.method = <<"D">> \/ ~EndsWith(r.url, <<"/">>)
  <2>1. handlers_' = handlers_
    BY <1>3 DEF AddRouter
  <2>2. Accepted(setup') = Accepted(setup)
    BY <1>1, <1>3 DEF Accepted
  <2>3. \A k \in DOMAIN handlers_ :
          \E j \in 1..(setup + 1) : LastFor(k, j, setup + 1) /\ handlers_[k] = Routes[j].handler
    <3> TAKE k \in DOMAIN handlers_
    <3>1. PICK j \in 1..setup : LastFor(k, j, setup) /\ handlers_[k] = Routes[j].handler
      BY DEF RouterInv
    <3>2. LastFor(k, j, setup + 1) /\ j \in 1..(setup + 1)
      BY <1>1, <2>2, <3>1 DEF LastFor
    <3> QED
      BY <3>1, <3>2
  <2>4. \A j \in Accepted(setup + 1) : RouteKey(j) \in DOMAIN handlers_
    BY <1>1, <2>2 DEF RouterInv
  <2> QED
    BY <1>1, <1>2, <2>1, <2>3, <2>4 DEF RouterInv
<1>4. CASE ~(r.method = <<"D">> \/ ~EndsWith(r.url, <<"/">>))
  <2>1. handlers_' = [k \in DOMAIN handlers_ \cup {key} |->
                        IF k = key THEN r.handler ELSE handlers_[k]]
    BY <1>4 DEF AddRouter, RouteKey
  <2>2. Accepted(setup') = Accepted(setup) \cup {setup + 1}
    BY <1>1, <1>4 DEF Accepted
  <2>3. \A j \in Accepted(setup) : j \in Nat /\ j <= setup
    BY <1>1 DEF Accepted
  <2>4. DOMAIN handlers_' = DOMAIN handlers_ \cup {key}
    BY <2>1
  <2>5. \A j \in Accepted(setup + 1) : RouteKey(j) \in DOMAIN handlers_'
    BY <1>1, <2>2, <2>4 DEF RouterInv
  <2>6. \A k \in DOMAIN handlers_' :
          \E j \in 1..(setup + 1) : LastFor(k, j, setup + 1) /\ handlers_'[k] = Routes[j].handler
    <3> TAKE k \in DOMAIN handlers_'
    <3>1. CASE k = key
      <4>1. LastFor(k, setup + 1, setup + 1)
        BY <1>1, <2>2, <2>3, <3>1 DEF LastFor
      <4>2. handlers_'[k] = Routes[setup + 1].handler
        BY <2>1, <3>1
      <4>3. setup + 1 \in 1..(setup + 1)
        BY <1>1
      <4> QED
        BY <4>1, <4>2, <4>3
    <3>2. CASE k # key
      <4>1. k \in DOMAIN handlers_ /\ handlers_'[k] = handlers_[k]
        BY <2>1, <3>2
      <4>2. PICK j \in 1..setup : LastFor(k, j, setup) /\ handlers_[k] = Routes[j].handler
        BY <4>1 DEF RouterInv
      <4>3. LastFor(k, j, setup + 1) /\ j \in 1..(setup + 1)
        BY <1>1, <2>2, <3>2, <4>2 DEF LastFor
      <4> QED
        BY <4>1, <4>2, <4>3
    <3> QED
      BY <3>1, <3>2
  <2> QED
    BY <1>1, <1>2, <2>5, <2>6 DEF RouterInv
<1> QED
  BY <1>3, <1>4

(* A request finds the handler of its route, or none.                      *)
LEMMA HandlerFound ==
  ASSUME RouterInv, StreamType, h.pc # "setup", NEW n \in 1..RequestLimit
  PROVE  LET key == Key(asked[n].method, asked[n].url) IN
         IF key \in DOMAIN handlers_
         THEN HandlerOf(n) = handlers_[key] /\ handlers_[key] \in {"page", "add", "json"}
         ELSE HandlerOf(n) = "none"
<1> DEFINE key == Key(asked[n].method, asked[n].url)
           at  == {j \in DOMAIN Routes :
                     /\ Routes[j].method = asked[n].method /\ Routes[j].url = asked[n].url
                     /\ Routes[j].method # <<"D">> /\ EndsWith(Routes[j].url, <<"/">>)}
           all == Accepted(Len(Routes))
<1>1. setup = Len(Routes)
  BY DEF RouterInv
<1>2. asked[n].method \in Method /\ asked[n].url \in Text
  BY RequestsAssumption DEF StreamType
<1>3. \A j \in 1..Len(Routes) : /\ Routes[j].method \in Method /\ Routes[j].url \in Text
                                /\ Routes[j].handler \in {"page", "add", "json"}
  <2> DEFINE Route == [method : Method, url : Text, handler : {"page", "add", "json"}]
  <2>1. Routes \in Seq(Route)
    BY RoutesAssumption
  <2>2. \A r \in Route : /\ r.method \in Method /\ r.url \in Text
                         /\ r.handler \in {"page", "add", "json"}
    OBVIOUS
  <2> HIDE DEF Route
  <2> QED
    BY <2>1, <2>2
<1>4. DOMAIN Routes = 1..Len(Routes) /\ Len(Routes) \in Nat
  BY RoutesAssumption
<1>5. \A j \in 1..Len(Routes) :
        RouteKey(j) = key <=> (Routes[j].method = asked[n].method /\ Routes[j].url = asked[n].url)
  <2> TAKE j \in 1..Len(Routes)
  <2>1. RouteKey(j) = key => Routes[j].method = asked[n].method /\ Routes[j].url = asked[n].url
    BY <1>2, <1>3, KeyInjective DEF RouteKey
  <2>2. Routes[j].method = asked[n].method /\ Routes[j].url = asked[n].url => RouteKey(j) = key
    BY DEF RouteKey
  <2> QED
    BY <2>1, <2>2
<1> HIDE DEF key
<1>6. \A j : j \in at <=> j \in all /\ RouteKey(j) = key
  BY <1>4, <1>5 DEF Accepted
<1>7. CASE key \in DOMAIN handlers_
  <2>1. PICK j \in 1..setup : LastFor(key, j, setup) /\ handlers_[key] = Routes[j].handler
    BY <1>7 DEF RouterInv
  <2>2. j \in at /\ \A k \in at : k <= j
    BY <1>1, <1>6, <2>1 DEF LastFor
  <2>3. \A k \in at : k \in Nat
    BY <1>4
  <2>4. \A x \in at : (\A k \in at : k <= x) => x = j
    BY <2>2, <2>3
  <2>5. (CHOOSE x \in at : \A k \in at : k <= x) = j
    BY <2>2, <2>4
  <2>6. HandlerOf(n) = Routes[j].handler
    BY <2>2, <2>5 DEF HandlerOf
  <2> QED
    BY <1>1, <1>3, <1>7, <2>1, <2>6 DEF key
<1>8. CASE key \notin DOMAIN handlers_
  <2>1. at = {}
    BY <1>1, <1>6, <1>8 DEF RouterInv
  <2>2. HandlerOf(n) = "none"
    BY <2>1 DEF HandlerOf
  <2> QED
    BY <1>8, <2>2 DEF key
<1> QED
  BY <1>7, <1>8

(* So the handler writes nothing, or an answer with one of the statuses.   *)
LEMMA HandleAnswers ==
  ASSUME RouterInv, StreamType, h.pc # "setup", NEW n \in 1..RequestLimit,
         NEW params \in 0..asked[n].body
  PROVE  Handle(n, params) = <<>> \/ \E s \in StatusesOf(n) : Handle(n, params) = HTML(n, s)
<1> DEFINE key == Key(asked[n].method, asked[n].url)
<1>1. n # 0 /\ asked[n].body \in Nat
  <2>1. RequestLimit \in Nat
    BY HttpLimitsAssumption
  <2>2. asked[n].body \in Nat
    BY RequestsAssumption DEF StreamType
  <2> QED
    BY <2>1, <2>2
<1>2. Handle(n, params) = IF key \in DOMAIN handlers_ THEN Run(handlers_[key], n, params)
                          ELSE HTML(n, 404)
  BY <1>1 DEF Handle
<1>3. IF key \in DOMAIN handlers_
      THEN HandlerOf(n) = handlers_[key] /\ handlers_[key] \in {"page", "add", "json"}
      ELSE HandlerOf(n) = "none"
  BY HandlerFound
<1> HIDE DEF key
<1>4. CASE key \notin DOMAIN handlers_
  <2>1. StatusesOf(n) = {404}
    BY <1>3, <1>4 DEF StatusesOf
  <2> QED
    BY <1>2, <1>4, <2>1
<1>5. CASE key \in DOMAIN handlers_ /\ handlers_[key] = "page"
  <2>1. StatusesOf(n) = {200} /\ Run("page", n, params) = HTML(n, 200)
    BY <1>3, <1>5 DEF StatusesOf, Run
  <2> QED
    BY <1>2, <1>5, <2>1
<1>6. CASE key \in DOMAIN handlers_ /\ handlers_[key] = "json"
  <2>1. Run("json", n, params) = <<>>
    BY DEF Run
  <2> QED
    BY <1>2, <1>6, <2>1
<1>7. CASE key \in DOMAIN handlers_ /\ handlers_[key] = "add"
  <2>1. StatusesOf(n) = {200, 404}
    BY <1>3, <1>7 DEF StatusesOf
  <2>2. Run("add", n, params) = HTML(n, IF params = 2 THEN 200 ELSE 404)
    BY DEF Run
  <2>3. (IF params = 2 THEN 200 ELSE 404) \in StatusesOf(n)
    BY <2>1
  <2> QED
    BY <1>2, <1>7, <2>2, <2>3
<1> QED
  BY <1>3, <1>4, <1>5, <1>6, <1>7

-----------------------------------------------------------------------------
(* A request is not answered before its text has been received.            *)
LEMMA NotAnswered ==
  ASSUME StreamType, AnswersInOrder, ~rough, NEW n \in Nat, Len(down) < 2 * n
  PROVE  ~Answered(n)
<1> SUFFICES ASSUME NEW j \in DOMAIN down, down[j].req = n, down[j].part = "text"
             PROVE  FALSE
  BY DEF Answered
<1>1. j \in 1..Len(down) /\ Len(down) \in Nat
  BY DEF StreamType
<1> DEFINE i == (j + 1) \div 2
<1>2. PICK s : down[j] = HTML(i, s)[IF j % 2 = 1 THEN 1 ELSE 2]
  BY DEF AnswersInOrder
<1> HIDE DEF i
<1>3. down[j].req = i /\ j % 2 # 1
  BY <1>2 DEF HTML
<1> QED
  BY <1>1, <1>3 DEF i

(* Routes and requests stay what they are.                                 *)
LEMMA SameStatuses ==
  ASSUME asked' = asked
  PROVE  \A i : StatusesOf(i)' = StatusesOf(i)
<1>1. ASSUME NEW i PROVE HandlerOf(i)' = HandlerOf(i)
  <2> DEFINE At(r) == {j \in DOMAIN Routes :
                         /\ Routes[j].method = r.method /\ Routes[j].url = r.url
                         /\ Routes[j].method # <<"D">> /\ EndsWith(Routes[j].url, <<"/">>)}
             Pick(r) == IF At(r) = {} THEN "none"
                        ELSE Routes[CHOOSE j \in At(r) : \A k \in At(r) : k <= j].handler
  <2>1. HandlerOf(i) = Pick(asked[i])
    BY DEF HandlerOf
  <2>2. HandlerOf(i)' = Pick(asked'[i])
    BY DEF HandlerOf
  <2> QED
    BY <2>1, <2>2
<1>2. ASSUME NEW i PROVE StatusesOf(i)' = StatusesOf(i)
  <2>1. HandlerOf(i)' = HandlerOf(i)
    BY <1>1
  <2> QED
    BY <2>1 DEF StatusesOf
<1> QED
  BY <1>2

(* AnswersInOrder for any sequence of pieces.                              *)
InOrder(d) ==
  \A j \in DOMAIN d :
    LET i == (j + 1) \div 2 IN
    /\ i <= RequestLimit
    /\ \E s \in StatusesOf(i) : d[j] = HTML(i, s)[IF j % 2 = 1 THEN 1 ELSE 2]
    /\ j % 2 = 0 => d[j].status = d[j - 1].status

LEMMA InOrderSame ==
  ASSUME asked' = asked
  PROVE  AnswersInOrder' <=> (~rough' => InOrder(down'))
<1>1. \A i : StatusesOf(i)' = StatusesOf(i)
  BY SameStatuses
<1> QED
  BY <1>1 DEF AnswersInOrder, InOrder, HTML

(* The headers of the next answer are received, and its text.              *)
LEMMA HeadersReceived ==
  ASSUME NEW d \in Seq(Piece), InOrder(d), NEW n \in 1..RequestLimit, Len(d) = 2 * n - 2,
         NEW s \in StatusesOf(n)
  PROVE  InOrder(Append(d, HTML(n, s)[1]))
<1> DEFINE e == Append(d, HTML(n, s)[1])
<1>1. RequestLimit \in Nat
  BY HttpLimitsAssumption
<1>2. \A j \in DOMAIN d : j \in 1..(2 * n - 2) /\ e[j] = d[j]
  BY <1>1
<1>3. DOMAIN e = DOMAIN d \cup {2 * n - 1} /\ e[2 * n - 1] = HTML(n, s)[1]
  BY <1>1
<1>4. (2 * n - 1 + 1) \div 2 = n /\ (2 * n - 1) % 2 = 1
  BY <1>1
<1> HIDE DEF e
<1> SUFFICES ASSUME NEW j \in DOMAIN e
             PROVE  LET i == (j + 1) \div 2 IN
                    /\ i <= RequestLimit
                    /\ \E t \in StatusesOf(i) : e[j] = HTML(i, t)[IF j % 2 = 1 THEN 1 ELSE 2]
                    /\ j % 2 = 0 => e[j].status = e[j - 1].status
  BY DEF InOrder, e
<1>5. CASE j = 2 * n - 1
  <2>1. (j + 1) \div 2 = n /\ j % 2 = 1 /\ n <= RequestLimit
    BY <1>1, <1>4, <1>5
  <2>2. ~(j % 2 = 0) /\ e[j] = HTML(n, s)[1]
    BY <1>3, <1>5, <2>1
  <2> QED
    BY <2>1, <2>2
<1>6. CASE j \in DOMAIN d
  <2>1. j % 2 = 0 => j - 1 \in DOMAIN d
    BY <1>1, <1>6
  <2> QED
    BY <1>2, <1>6, <2>1 DEF InOrder
<1> QED
  BY <1>3, <1>5, <1>6

LEMMA TextReceived ==
  ASSUME NEW d \in Seq(Piece), InOrder(d), NEW n \in 1..RequestLimit, Len(d) = 2 * n - 1
  PROVE  InOrder(Append(d, HTML(n, d[2 * n - 1].status)[2]))
<1> DEFINE s == d[2 * n - 1].status
           e == Append(d, HTML(n, s)[2])
<1>1. RequestLimit \in Nat
  BY HttpLimitsAssumption
<1>2. \A j \in DOMAIN d : j \in 1..(2 * n - 1) /\ e[j] = d[j]
  BY <1>1
<1>3. DOMAIN e = DOMAIN d \cup {2 * n} /\ e[2 * n] = HTML(n, s)[2]
  BY <1>1
<1>4. (2 * n - 1 + 1) \div 2 = n /\ (2 * n - 1) % 2 = 1 /\ (2 * n + 1) \div 2 = n /\ (2 * n) % 2 = 0
  BY <1>1
<1>5. 2 * n - 1 \in DOMAIN d
  BY <1>1
<1>6. s \in StatusesOf(n)
  <2>1. \E t \in StatusesOf(n) : d[2 * n - 1] = HTML(n, t)[1]
    BY <1>4, <1>5 DEF InOrder
  <2> QED
    BY <2>1 DEF HTML
<1>7. HTML(n, s)[2].status = s
  BY DEF HTML
<1> HIDE DEF e
<1> SUFFICES ASSUME NEW j \in DOMAIN e
             PROVE  LET i == (j + 1) \div 2 IN
                    /\ i <= RequestLimit
                    /\ \E t \in StatusesOf(i) : e[j] = HTML(i, t)[IF j % 2 = 1 THEN 1 ELSE 2]
                    /\ j % 2 = 0 => e[j].status = e[j - 1].status
  BY DEF InOrder, e
<1>8. CASE j = 2 * n
  <2>1. e[j - 1].status = s
    BY <1>2, <1>5, <1>8
  <2> HIDE DEF s
  <2>2. (j + 1) \div 2 = n /\ j % 2 = 0 /\ j % 2 # 1 /\ n <= RequestLimit
    BY <1>1, <1>4, <1>8
  <2>3. e[j] = HTML(n, s)[2]
    BY <1>3, <1>8
  <2> QED
    BY <1>6, <1>7, <2>1, <2>2, <2>3
<1>9. CASE j \in DOMAIN d
  <2>1. j % 2 = 0 => j - 1 \in DOMAIN d
    BY <1>1, <1>9
  <2> QED
    BY <1>2, <1>9, <2>1 DEF InOrder
<1> QED
  BY <1>3, <1>8, <1>9

(* An answer's two pieces, sent together or one by one.                    *)
HalfSent(a, b) ==
  SubSeq(<<a, b>>, 1, 1) = <<a>> /\ SubSeq(<<a, b>>, 2, Len(<<a, b>>)) = <<b>>
WholeSent(a, b) ==
  SubSeq(<<a, b>>, 1, 2) = <<a, b>> /\ SubSeq(<<a, b>>, 3, Len(<<a, b>>)) = <<>>

LEMMA TwoPieces ==
  ASSUME NEW S, NEW a \in S, NEW b \in S
  PROVE  /\ HalfSent(a, b) /\ WholeSent(a, b)
         /\ SubSeq(<<a>>, 1, 1) = <<a>> /\ SubSeq(<<a>>, 2, Len(<<a>>)) = <<>>
         /\ \A s \in Seq(S) : /\ s \o <<a>> = Append(s, a)
                              /\ s \o <<a, b>> = Append(Append(s, a), b)
<1>0. ASSUME NEW s \in Seq(S), NEW i \in 1..Len(s) PROVE SubSeq(s, i, i) = <<s[i]>>
  <2>1. SubSeq(s, i, i) = <<s[i]>> \o SubSeq(s, i + 1, i)
    BY SubSeqRecursiveFirst
  <2>2. SubSeq(s, i + 1, i) = <<>>
    BY SubSeqEmpty
  <2>3. <<s[i]>> \in Seq(S)
    OBVIOUS
  <2> QED
    BY <2>1, <2>2, <2>3, ConcatEmptySeq
<1>1. /\ SubSeq(<<a, b>>, 1, 1) = <<a>> /\ SubSeq(<<a, b>>, 2, Len(<<a, b>>)) = <<b>>
      /\ SubSeq(<<a>>, 1, 1) = <<a>>
  <2> DEFINE s == <<a, b>>
             t == <<a>>
  <2>1. s \in Seq(S) /\ t \in Seq(S) /\ Len(s) = 2 /\ Len(t) = 1 /\ s[1] = a /\ s[2] = b /\ t[1] = a
    OBVIOUS
  <2> HIDE DEF s, t
  <2>2. 1 \in 1..Len(s) /\ 2 \in 1..Len(s) /\ 1 \in 1..Len(t)
    BY <2>1
  <2>3. SubSeq(s, 1, 1) = <<a>>
    BY <1>0, <2>1, <2>2
  <2>4. SubSeq(s, 2, Len(s)) = <<b>>
    BY <1>0, <2>1, <2>2
  <2>5. SubSeq(t, 1, 1) = <<a>>
    BY <1>0, <2>1, <2>2
  <2> QED
    BY <2>3, <2>4, <2>5 DEF s, t
<1>2. SubSeq(<<a, b>>, 1, 2) = <<a, b>>
  <2>1. <<a, b>> \in Seq(S) /\ Len(<<a, b>>) = 2
    OBVIOUS
  <2> QED
    BY <2>1, SubSeqFull
<1>3. SubSeq(<<a, b>>, 3, Len(<<a, b>>)) = <<>> /\ SubSeq(<<a>>, 2, Len(<<a>>)) = <<>>
  <2>1. Len(<<a, b>>) = 2 /\ Len(<<a>>) = 1
    OBVIOUS
  <2> QED
    BY <2>1, SubSeqEmpty
<1>4. ASSUME NEW s \in Seq(S) PROVE s \o <<a>> = Append(s, a)
  OBVIOUS
<1>5. ASSUME NEW s \in Seq(S) PROVE s \o <<a, b>> = Append(Append(s, a), b)
  <2>1. s \o <<a, b>> \in Seq(S) /\ Append(Append(s, a), b) \in Seq(S)
    OBVIOUS
  <2>2. Len(s \o <<a, b>>) = Len(s) + 2 /\ Len(Append(Append(s, a), b)) = Len(s) + 2
    OBVIOUS
  <2>3. \A i \in 1..(Len(s) + 2) : (s \o <<a, b>>)[i] = Append(Append(s, a), b)[i]
    OBVIOUS
  <2> QED
    BY <2>1, <2>2, <2>3, SeqEqual
<1> QED
  BY <1>1, <1>2, <1>3, <1>4, <1>5 DEF HalfSent, WholeSent

-----------------------------------------------------------------------------
(* The stream.                                                             *)

LEMMA RequestType ==
  ASSUME StreamType, NEW n \in 1..RequestLimit
  PROVE  asked[n].body \in Nat /\ TokensOf(n) \in Nat /\ TokensOf(n) >= 2
         /\ TokensOf(n) = 2 + asked[n].body
<1>1. asked[n].body \in Nat
  BY RequestsAssumption DEF StreamType
<1> QED
  BY <1>1 DEF TokensOf

(* No more than a request is sent of it, and then the next one is due.     *)
LEMMA SentBound ==
  ASSUME StreamType, NEW n \in 1..RequestLimit, UpTo(n)
  PROVE  /\ Sent(n) \in Nat /\ Sent(n) <= TokensOf(n)
         /\ Sent(n) = TokensOf(n) => asking.req = n + 1 /\ asking.part = 1
<1>1. TokensOf(n) \in Nat /\ RequestLimit \in Nat
  BY RequestType, HttpLimitsAssumption
<1>2. asking.req \in Nat /\ asking.part \in Nat \ {0} /\ (asking.req = n => asking.part <= TokensOf(n))
  BY <1>1 DEF StreamType
<1> QED
  BY <1>1, <1>2 DEF Sent, UpTo

(* len tokens are read.                                                    *)
LEMMA UpRead ==
  ASSUME StreamType, NEW n \in Nat, NEW m \in Nat, UpIs(n, m), NEW len \in 1..Len(up),
         up' = From(up, len + 1), UNCHANGED <<asked, asking>>
  PROVE  UpIs(n, m + len)'
<1>1. up \in Seq(Tokens) /\ Len(up) \in Nat
  BY DEF StreamType
<1>2. Len(up') = Len(up) - len /\ DOMAIN up' = 1..(Len(up) - len)
      /\ \A j \in 1..(Len(up) - len) : up'[j] = up[len + j]
  BY <1>1 DEF From
<1>3. \A j \in 1..(Len(up) - len) : len + j \in DOMAIN up
  BY <1>1
<1>4. \A j \in 1..(Len(up) - len) : up[len + j] = Token(n, m + (len + j))
  BY <1>3 DEF UpIs
<1>5. \A j \in DOMAIN up' : up'[j] = Token(n, (m + len) + j)
  <2> TAKE j \in DOMAIN up'
  <2>1. m + (len + j) = (m + len) + j
    BY <1>1, <1>2
  <2> QED
    BY <1>2, <1>4, <2>1
<1>6. UpTo(n)' /\ Sent(n)' = Sent(n)
  BY DEF UpIs, UpTo, Sent, TokensOf
<1>7. Len(up') + (m + len) = Len(up) + m
  <2>1. \A a, b, c \in Nat : (a - b) + (c + b) = a + c
    OBVIOUS
  <2>2. len \in Nat /\ Len(up') = Len(up) - len
    BY <1>1, <1>2
  <2> QED
    BY <1>1, <2>1, <2>2
<1> QED
  BY <1>5, <1>6, <1>7 DEF UpIs, Token

(* The client sends, and waits for the answer before the next request.     *)
LEMMA UpSent ==
  ASSUME StreamType, AnswersInOrder, ~rough, ClientSend, ~rough',
         NEW n \in 1..(RequestLimit + 1), NEW m \in Nat, UpIs(n, m), Len(down) = 2 * n - 2
  PROVE  UpIs(n, m)'
<1>1. /\ asking \in [req : 1..(RequestLimit + 1), part : Nat \ {0}] /\ RequestLimit \in Nat
      /\ asking.req \in Nat /\ asking.part \in Nat /\ asking.part >= 1 /\ up \in Seq(Tokens)
  BY HttpLimitsAssumption DEF StreamType
<1>2. asking.req = n
  <2>1. ~Answered(n)
    BY <1>1, NotAnswered
  <2>2. SUFFICES ASSUME asking.req = n + 1, asking.part = 1 PROVE FALSE
    BY DEF UpIs, UpTo
  <2>3. asking.req > 1 /\ asking.req - 1 = n
    BY <1>1, <2>2
  <2> QED
    BY <2>1, <2>2, <2>3 DEF ClientSend
<1>3. n \in 1..RequestLimit
  BY <1>1, <1>2 DEF ClientSend
<1>4. TokensOf(n) \in Nat /\ TokensOf(n)' = TokensOf(n) /\ asking.part <= TokensOf(n)
  BY <1>2, <1>3, RequestType DEF StreamType, ClientSend, TokensOf
<1>5. up' = Append(up, Token(n, asking.part)) /\ Len(up) + m = asking.part - 1
  BY <1>2 DEF ClientSend, UpIs, Sent
<1>6. /\ Len(up') = Len(up) + 1 /\ DOMAIN up' = 1..(Len(up) + 1)
      /\ \A j \in DOMAIN up' : IF j = Len(up) + 1 THEN up'[j] = Token(n, asking.part)
                              ELSE j \in DOMAIN up /\ up'[j] = up[j]
  BY <1>1, <1>5
<1>7. m + (Len(up) + 1) = asking.part
  <2>1. Len(up) \in Nat /\ asking.part \in Nat /\ Len(up) + m = asking.part - 1
    BY <1>1, <1>5
  <2>2. \A a, b, c \in Nat : a + b = c - 1 => b + (a + 1) = c
    OBVIOUS
  <2> QED
    BY <2>1, <2>2
<1>8. \A j \in DOMAIN up' : up'[j] = Token(n, m + j)
  <2> TAKE j \in DOMAIN up'
  <2>1. CASE j = Len(up) + 1
    BY <1>6, <1>7, <2>1
  <2>2. CASE j # Len(up) + 1
    BY <1>6, <2>2 DEF UpIs
  <2> QED
    BY <2>1, <2>2
<1>0. Len(up') + m = asking.part
  BY <1>1, <1>6, <1>7
<1>9. CASE asking.part < TokensOf(n)
  <2>1. asking'.req = n /\ asking'.part = asking.part + 1
    BY <1>1, <1>2, <1>9 DEF ClientSend
  <2>2. Sent(n)' = asking.part /\ UpTo(n)'
    BY <1>1, <2>1 DEF Sent, UpTo
  <2> QED
    BY <1>0, <1>8, <2>2 DEF UpIs, Token
<1>10. CASE ~(asking.part < TokensOf(n))
  <2>1. asking'.req = n + 1 /\ asking'.part = 1 /\ TokensOf(n) = asking.part
    BY <1>1, <1>2, <1>4, <1>10 DEF ClientSend
  <2>2. Sent(n)' = asking.part /\ UpTo(n)'
    BY <1>1, <1>4, <2>1 DEF Sent, UpTo
  <2> QED
    BY <1>0, <1>8, <2>2 DEF UpIs, Token
<1> QED
  BY <1>9, <1>10

(* A client that waits for an answer sends nothing.                        *)
LEMMA Waits ==
  ASSUME StreamType, NEW n \in 1..RequestLimit, AllRead(n), ~Answered(n), ClientSend
  PROVE  rough'
<1>1. asking.req > 1 /\ asking.req - 1 = n /\ asking.part = 1
  BY HttpLimitsAssumption DEF AllRead
<1> QED
  BY <1>1 DEF ClientSend

-----------------------------------------------------------------------------
(* The steps.                                                              *)

LEMMA AInvInit == Init => AInv
<1> SUFFICES ASSUME Init PROVE AInv
  OBVIOUS
<1>0. RequestLimit \in Nat /\ RequestLimit >= 1
  BY HttpLimitsAssumption
<1>1. DOMAIN h = Fields
  BY DEF Init, Fields
<1>2. StreamType
  <2>1. asked \in Sessions /\ up = <<>> /\ down = <<>> /\ asking = [req |-> 1, part |-> 1]
    BY DEF Init
  <2>2. asked[1].body \in Nat
    <3>1. 1 \in 1..RequestLimit
      BY <1>0
    <3>2. DOMAIN asked = 1..RequestLimit /\ \A i \in DOMAIN asked : asked[i].body \in Nat
      BY <2>1, RequestsAssumption
    <3> QED
      BY <3>1, <3>2
  <2>3. asking \in [req : 1..(RequestLimit + 1), part : Nat \ {0}] /\ asking.req = 1 /\ asking.part = 1
    BY <1>0, <2>1
  <2>4. up \in Seq(Tokens) /\ down \in Seq(Piece)
    BY <2>1
  <2>5. 1 <= 2 + asked[1].body
    BY <2>2
  <2> QED
    BY <1>0, <2>1, <2>3, <2>4, <2>5 DEF StreamType, TokensOf
<1>3. RouterInv
  <2>1. setup = 0 /\ handlers_ = <<>> /\ h.pc = "setup"
    BY DEF Init
  <2>2. Accepted(0) = {} /\ DOMAIN handlers_ = {} /\ Len(Routes) \in Nat
    BY <2>1, RoutesAssumption DEF Accepted
  <2> QED
    BY <2>1, <2>2 DEF RouterInv
<1>4. CloseOrder
  BY DEF Init, CloseOrder
<1>5. AnswersInOrder
  BY DEF Init, AnswersInOrder
<1>6. UpIs(1, 0) /\ Len(down) = 0
  BY DEF Init, UpIs, UpTo, Sent
<1>7. InStep
  <2>1. h.pc = "setup" /\ Fresh
    BY <1>0, <1>6 DEF Init, Fresh
  <2> QED
    BY <2>1 DEF InStep, Phase
<1> QED
  BY <1>1, <1>2, <1>3, <1>4, <1>5, <1>7 DEF AInv

(* A step that leaves the stream and what was received alone.              *)
LEMMA SameStream ==
  ASSUME AInv, UNCHANGED <<asked, asking, up, down, rough, setup, handlers_>>,
         DOMAIN h' = Fields, h'.pc # "setup" => setup = Len(Routes), CloseOrder', InStep'
  PROVE  AInv'
<1>1. StreamType'
  BY DEF AInv, StreamType, TokensOf
<1>2. RouterInv'
  BY DEF AInv, RouterInv, Accepted, RouteKey, Key, LastFor
<1>3. AnswersInOrder'
  <2>1. ~rough => InOrder(down)
    BY DEF AInv, AnswersInOrder, InOrder
  <2> QED
    BY <2>1, InOrderSame
<1> QED
  BY <1>1, <1>2, <1>3 DEF AInv

(* The stream is where it was, and so is what the handler knows of it.     *)
LEMMA SameUp ==
  ASSUME UNCHANGED <<asked, asking, up, down>>
  PROVE  /\ Fresh' = Fresh /\ Stuck' = Stuck
         /\ \A n, m : UpIs(n, m)' = UpIs(n, m)
         /\ \A n : AllRead(n)' = AllRead(n)
<1>1. \A n, m : UpIs(n, m)' = UpIs(n, m)
  BY DEF UpIs, UpTo, Sent, TokensOf, Token
<1>2. \A n : AllRead(n)' = AllRead(n)
  BY DEF AllRead
<1>3. Fresh' = Fresh
  BY <1>1 DEF Fresh
<1>4. Stuck' = Stuck
  BY <1>2 DEF Stuck, Answered
<1> QED
  BY <1>1, <1>2, <1>3, <1>4

LEMMA SamePhase ==
  ASSUME UNCHANGED <<asked, asking, up, down>>, Phase,
         h'.pc = h.pc, h'.req = h.req, h'.params = h.params, h'.body = h.body, h'.out = h.out
  PROVE  Phase'
<1>1. /\ Fresh' = Fresh /\ Stuck' = Stuck
      /\ \A n, m : UpIs(n, m)' = UpIs(n, m)
      /\ \A n : AllRead(n)' = AllRead(n)
  BY SameUp
<1>2. h.pc \in {"setup", "top", "read"} => (Fresh \/ Stuck)'
  BY <1>1 DEF Phase
<1>3. \A n : Reading(n)' = Reading(n)
  BY DEF Reading
<1>4. h.pc = "body" => (Reading(h.req) /\ h.body \in Seq(Tokens) /\ UpIs(h.req, 2 + Len(h.body)))'
  BY <1>1, <1>3 DEF Phase, Tokens
<1>5. h.pc = "remove" => (Reading(h.req) /\ AllRead(h.req))'
  BY <1>1, <1>3 DEF Phase
<1>6. h.pc = "send" => Sending(h.req)'
  <2>1. \A n : StatusesOf(n)' = StatusesOf(n)
    BY SameStatuses
  <2> QED
    BY <1>1, <2>1 DEF Phase, Sending, HTML
<1> QED
  BY <1>2, <1>4, <1>5, <1>6 DEF Phase

(* A step that moves the handler between the places before a request.      *)
LEMMA KeepsFresh ==
  ASSUME AInv, UNCHANGED <<asked, asking, up, down, rough, setup, handlers_, closers,
                           fdOpen, is_closed_, client>>,
         h.pc \in {"setup", "top", "read"}, h'.pc \in {"top", "read"},
         DOMAIN h' = Fields, setup = Len(Routes)
  PROVE  AInv'
<1>1. CloseOrder'
  BY DEF AInv, CloseOrder
<1>2. Fresh' = Fresh /\ Stuck' = Stuck
  BY SameUp
<1>3. InStep'
  BY <1>2 DEF AInv, InStep, Phase
<1> QED
  BY <1>1, <1>3, SameStream

(* A step that does not touch what the handler knows of the stream.        *)
LEMMA KeepsPhase ==
  ASSUME AInv, UNCHANGED <<asked, asking, up, down, rough, setup, handlers_>>,
         DOMAIN h' = Fields, CloseOrder',
         fdOpen' => fdOpen, client = "gone" => client' = "gone",
         h'.pc = h.pc, h'.req = h.req, h'.params = h.params, h'.body = h.body, h'.out = h.out
  PROVE  AInv'
<1>1. InStep'
  BY SamePhase DEF AInv, InStep
<1>2. h'.pc # "setup" => setup = Len(Routes)
  BY DEF AInv, RouterInv
<1> QED
  BY <1>1, <1>2, SameStream

(* What Parse makes of the first tokens of a request.                      *)
LEMMA ParsesHead ==
  ASSUME NEW n \in 1..RequestLimit, NEW data \in Seq(Tokens), Len(data) >= 2,
         \A j \in DOMAIN data : data[j] = Token(n, j), ParseRequest(data)
  PROVE  Parsed(n, SubSeq(data, 3, Len(data))) \/ Crash
<1> DEFINE ends == {j \in DOMAIN data : data[j].kind = "end"}
           end  == CHOOSE j \in ends : \A k \in ends : j <= k
           last == CHOOSE j \in (ends \ {end}) \cup {Len(data) + 1} :
                     \A k \in ends : k = end \/ j <= k
           body == IF ends = {} THEN <<>> ELSE SubSeq(data, end + 1, last - 1)
           i    == IF data[1].kind = "line" THEN data[1].req ELSE 0
<1>1. DOMAIN data = 1..Len(data) /\ Len(data) \in Nat
  OBVIOUS
<1>2. \A j \in DOMAIN data : data[j].kind = "end" <=> j = 2
  BY <1>1 DEF Token
<1>3. ends = {2}
  BY <1>1, <1>2
<1> HIDE DEF ends
<1>4. end = 2
  BY <1>3
<1> HIDE DEF end
<1>5. (ends \ {end}) \cup {Len(data) + 1} = {Len(data) + 1}
  BY <1>3, <1>4
<1>6. last = Len(data) + 1
  BY <1>3, <1>4, <1>5
<1> HIDE DEF last
<1>7. body = SubSeq(data, 3, Len(data))
  BY <1>1, <1>3, <1>4, <1>6
<1>8. i = n
  <2>1. data[1] = Token(n, 1)
    BY <1>1
  <2> QED
    BY <2>1 DEF Token
<1>9. Parsed(i, body) \/ Crash
  <2> HIDE DEF body, i
  <2> QED
    BY DEF ParseRequest, ends, end, last, body, i
<1> QED
  BY <1>7, <1>8, <1>9

(* A step of the handler after which the connection and what was received  *)
(* are what they were.                                                     *)
LEMMA Frame ==
  ASSUME AInv, UNCHANGED <<asked, asking, down, client, setup, handlers_, closers, fdOpen, is_closed_>>,
         up' \in Seq(Tokens), rough => rough', DOMAIN h' = Fields, setup = Len(Routes), InStep'
  PROVE  AInv'
<1>1. StreamType'
  BY DEF AInv, StreamType, TokensOf, Tokens, Piece
<1>2. RouterInv'
  BY DEF AInv, RouterInv, Accepted, RouteKey, Key, LastFor
<1>3. AnswersInOrder'
  <2>1. ~rough => InOrder(down)
    BY DEF AInv, AnswersInOrder, InOrder
  <2> QED
    BY <2>1, InOrderSame
<1>4. CloseOrder'
  BY DEF AInv, CloseOrder
<1> QED
  BY <1>1, <1>2, <1>3, <1>4 DEF AInv

(* The part of a request that has been read is complete, or more follows.  *)
LEMMA ReadOn ==
  ASSUME AInv, NEW n \in 1..RequestLimit, NEW len \in 1..Len(up), up' = From(up, len + 1),
         UNCHANGED <<asked, asking, down>>, Len(down) = 2 * n - 2,
         NEW m \in Nat, UpIs(n, m), NEW body \in Seq(Tokens), 2 + Len(body) = m + len,
         h'.req = n, h'.body = body, h'.params \in 0..asked[n].body,
         h'.pc = IF Complete(n, body) THEN "remove" ELSE "body"
  PROVE  Phase'
<1>1. StreamType /\ up \in Seq(Tokens)
  BY DEF AInv, StreamType
<1>2. UpIs(n, m + len)'
  BY <1>1, UpRead
<1>3. Reading(n)'
  BY DEF Reading
<1>4. up' \in Seq(Tokens)
  BY <1>1 DEF From
<1>5. CASE ~Complete(n, body)
  <2>1. h'.pc = "body" /\ m + len = 2 + Len(h'.body)
    BY <1>5
  <2>2. UpIs(n, 2 + Len(h.body))'
    BY <1>2, <2>1
  <2> QED
    BY <1>3, <2>1, <2>2 DEF Phase, Tokens
<1>6. CASE Complete(n, body)
  <2>1. h'.pc = "remove"
    BY <1>6
  <2>2. n # 0 /\ asked[n].body \in Nat /\ TokensOf(n) = 2 + asked[n].body /\ Len(body) \in Nat
    <3>1. n # 0 /\ Len(body) \in Nat
      BY HttpLimitsAssumption
    <3> QED
      BY <1>1, <3>1, RequestType
  <2>3. asked[n].body = 0 \/ asked[n].body = Len(body)
    BY <1>6, <2>2 DEF Complete, Wanted
  <2>4. TokensOf(n) <= m + len /\ m + len \in Nat
    <3>1. TokensOf(n) <= 2 + Len(body)
      <4>1. \A a, b \in Nat : a = 0 \/ a = b => 2 + a <= 2 + b
        OBVIOUS
      <4> QED
        BY <2>2, <2>3, <4>1
    <3> QED
      BY <1>1, <3>1
  <2>5. Len(up') + (m + len) = Sent(n) /\ Len(up') \in Nat
    <3>1. Sent(n)' = Sent(n)
      BY DEF Sent, TokensOf
    <3> QED
      BY <1>2, <1>4, <3>1 DEF UpIs
  <2>6. /\ Sent(n) \in Nat /\ Sent(n) <= TokensOf(n)
        /\ Sent(n) = TokensOf(n) => asking.req = n + 1 /\ asking.part = 1
    BY <1>1, SentBound DEF UpIs
  <2>7. Len(up') = 0 /\ asking.req = n + 1 /\ asking.part = 1
    <3>1. TokensOf(n) \in Nat
      BY <1>1, RequestType
    <3>2. \A a, b, c, t \in Nat : a + b = c /\ c <= t /\ t <= b => a = 0 /\ c = t
      OBVIOUS
    <3>3. Len(up') = 0 /\ Sent(n) = TokensOf(n)
      BY <2>4, <2>5, <2>6, <3>1, <3>2
    <3> QED
      BY <2>6, <3>3
  <2>8. AllRead(n)'
    BY <1>4, <2>7 DEF AllRead
  <2> QED
    BY <1>3, <2>1, <2>8 DEF Phase
<1> QED
  BY <1>5, <1>6

LEMMA AnswersRead ==
  ASSUME AInv, Read
  PROVE  AInv'
<1> DEFINE len  == IF Len(up) < MAX_REQUEST_SIZE THEN Len(up) ELSE MAX_REQUEST_SIZE
           data == SubSeq(up, 1, len)
<1>1. /\ h.pc \in {"read", "body"} /\ fdOpen /\ up # <<>>
      /\ up' = From(up, len + 1) /\ rough' = (rough \/ up[len].kind = "line")
      /\ \/ IF h.pc = "read" THEN ParseRequest(data) ELSE ReadMore(data)
         \/ Crash
      /\ UNCHANGED <<asked, asking, client, down, setup, handlers_, closers, fdOpen, is_closed_>>
  BY DEF Read, Connection
<1>2. up \in Seq(Tokens) /\ DOMAIN h = Fields /\ StreamType /\ MAX_REQUEST_SIZE \in Nat \ {0}
  BY HttpLimitsAssumption DEF AInv, StreamType
<1>3. len \in 1..Len(up)
  BY <1>1, <1>2
<1> HIDE DEF len
<1>4. /\ data \in Seq(Tokens) /\ Len(data) = len
      /\ \A j \in 1..len : data[j] = up[j]
  BY <1>2, <1>3
<1> HIDE DEF data
<1>5. up' \in Seq(Tokens)
  BY <1>1, <1>2, <1>3 DEF From
<1>6. setup = Len(Routes)
  BY <1>1 DEF AInv, RouterInv
<1>7. CASE Crash
  <2>1. DOMAIN h' = Fields /\ h'.pc = "crashed"
    BY <1>2, <1>7 DEF Crash, Fields
  <2>2. InStep'
    BY <2>1 DEF InStep, Phase
  <2> QED
    BY <1>1, <1>5, <1>6, <2>1, <2>2, Frame
<1>8. CASE h.pc = "read" /\ ParseRequest(data)
  <2>1. (\E i, body : Parsed(i, body)) \/ Crash
    BY <1>8 DEF ParseRequest
  <2>2. DOMAIN h' = Fields
    BY <1>2, <2>1 DEF Parsed, Crash, Fields
  <2>3. ASSUME ~rough', fdOpen', client' # "gone" PROVE Phase'
    <3>1. Phase /\ ~rough /\ up[len].kind # "line"
      BY <1>1, <2>3 DEF AInv, InStep
    <3>2. PICK n \in 1..(RequestLimit + 1) : Len(down) = 2 * n - 2 /\ UpIs(n, 0)
      BY <1>1, <1>8, <3>1 DEF Phase, Fresh, Stuck, AllRead
    <3>3. n \in 1..RequestLimit
      <4>1. RequestLimit \in Nat /\ asking.req \in 1..(RequestLimit + 1)
            /\ (asking.req = RequestLimit + 1 => asking.part = 1)
        BY <1>2, HttpLimitsAssumption DEF StreamType
      <4>2. Len(up) = Sent(n) /\ UpTo(n) /\ Len(up) >= 1 /\ Len(up) \in Nat
        BY <1>2, <1>3, <3>2 DEF UpIs
      <4> QED
        BY <4>1, <4>2 DEF Sent, UpTo
    <3>4. \A j \in 1..len : up[j] = Token(n, j)
      BY <1>2, <1>3, <3>2 DEF UpIs
    <3>5. len >= 2
      <4>1. Token(n, 1).kind = "line"
        BY DEF Token
      <4>2. len # 1
        BY <3>1, <3>4, <1>3, <4>1
      <4> QED
        BY <1>2, <1>3, <4>2
    <3>6. \A j \in DOMAIN data : data[j] = Token(n, j)
      BY <1>4, <3>4
    <3> DEFINE body == SubSeq(data, 3, Len(data))
    <3>7. Parsed(n, body) \/ Crash
      BY <1>4, <1>8, <3>3, <3>5, <3>6, ParsesHead
    <3>8. CASE Crash
      <4>1. h'.pc = "crashed"
        BY <1>2, <3>8 DEF Crash, Fields
      <4> QED
        BY <4>1 DEF Phase
    <3>9. CASE Parsed(n, body)
      <4>1. body \in Seq(Tokens) /\ Len(body) = len - 2
        BY <1>3, <1>4, <3>5
      <4> HIDE DEF body
      <4>2. h'.req = n /\ h'.body = body /\ h'.params = Len(body)
            /\ h'.pc = IF Complete(n, body) THEN "remove" ELSE "body"
        BY <1>2, <3>9 DEF Parsed, Fields
      <4>3. Len(body) \in 0..asked[n].body
        <5>1. TokensOf(n) = 2 + asked[n].body /\ asked[n].body \in Nat
          BY <1>2, <3>3, RequestType
        <5>2. Len(up) = Sent(n)
          BY <1>2, <3>2 DEF UpIs
        <5>3. Sent(n) <= TokensOf(n)
          BY <1>2, <3>2, <3>3, SentBound DEF UpIs
        <5> QED
          BY <1>2, <1>3, <3>5, <4>1, <5>1, <5>2, <5>3
      <4> QED
        BY <1>1, <1>3, <3>2, <3>3, <4>1, <4>2, <4>3, ReadOn
    <3> QED
      BY <3>7, <3>8, <3>9
  <2> QED
    BY <1>1, <1>5, <1>6, <2>2, <2>3, Frame DEF InStep
<1>9. CASE h.pc = "body" /\ ReadMore(data)
  <2>1. DOMAIN h' = Fields
    BY <1>2, <1>9 DEF ReadMore, Fields
  <2>2. ASSUME ~rough', fdOpen', client' # "gone" PROVE Phase'
    <3> DEFINE n    == h.req
               body == h.body \o data
    <3>1. Phase
      BY <1>1, <2>2 DEF AInv, InStep
    <3>2. Reading(n) /\ h.body \in Seq(Tokens) /\ UpIs(n, 2 + Len(h.body))
      BY <1>9, <3>1 DEF Phase
    <3>3. body \in Seq(Tokens) /\ Len(body) = Len(h.body) + len /\ Len(h.body) \in Nat
      BY <1>4, <3>2
    <3>4. h'.req = n /\ h'.body = body /\ h'.params = h.params
          /\ h'.pc = IF Complete(n, body) THEN "remove" ELSE "body"
      BY <1>2, <1>9 DEF ReadMore, Fields
    <3> HIDE DEF body, n
    <3>5. 2 + Len(body) = (2 + Len(h.body)) + len /\ 2 + Len(h.body) \in Nat
      BY <1>2, <1>3, <3>3
    <3>6. n \in 1..RequestLimit /\ Len(down) = 2 * n - 2 /\ h'.params \in 0..asked[n].body
      BY <3>2, <3>4 DEF Reading
    <3> QED
      BY <1>1, <1>3, <3>2, <3>3, <3>4, <3>5, <3>6, ReadOn
  <2> QED
    BY <1>1, <1>5, <1>6, <2>1, <2>2, Frame DEF InStep
<1> QED
  BY <1>1, <1>7, <1>8, <1>9

(* The handler of the route writes the answer.                             *)
LEMMA AnswersHandled ==
  ASSUME AInv, RemoveTimerAndHandle
  PROVE  AInv'
<1>1. /\ h.pc = "remove" /\ UNCHANGED <<asked, asking, up, client, down, rough, setup, handlers_,
                                        closers, fdOpen, is_closed_>>
      /\ h' = [h EXCEPT !.pc = "send", !.out = Handle(h.req, h.params), !.params = 0, !.body = <<>>]
  BY DEF RemoveTimerAndHandle
<1>2. DOMAIN h = Fields /\ up \in Seq(Tokens) /\ setup = Len(Routes)
  BY <1>1 DEF AInv, StreamType, RouterInv
<1>3. DOMAIN h' = Fields /\ h'.pc = "send" /\ h'.req = h.req /\ h'.out = Handle(h.req, h.params)
  BY <1>1, <1>2 DEF Fields
<1>4. ASSUME ~rough', fdOpen', client' # "gone" PROVE Phase'
  <2>0. PICK n \in 1..RequestLimit : n = h.req
    BY <1>1, <1>4 DEF AInv, InStep, Phase, Reading
  <2>1. Reading(n) /\ AllRead(n)
    BY <1>1, <1>4, <2>0 DEF AInv, InStep, Phase
  <2>2. h'.out = <<>> \/ \E s \in StatusesOf(n) : h'.out = HTML(n, s)
    <3>1. h.params \in 0..asked[n].body
      BY <2>1 DEF Reading
    <3>2. Handle(n, h.params) = <<>> \/ \E s \in StatusesOf(n) : Handle(n, h.params) = HTML(n, s)
      BY <1>1, <3>1, HandleAnswers DEF AInv
    <3> QED
      BY <1>3, <2>0, <3>2
  <2>3. AllRead(n)' /\ \A i : StatusesOf(i)' = StatusesOf(i)
    BY <1>1, <2>1, SameUp, SameStatuses
  <2>4. Sending(n)'
    BY <1>1, <2>1, <2>2, <2>3 DEF Sending, Reading, HTML
  <2> QED
    BY <1>3, <2>0, <2>4 DEF Phase
<1> QED
  BY <1>1, <1>2, <1>3, <1>4, Frame DEF InStep

(* After an answer comes the next request; without one the client waits.   *)
LEMMA AnswersKept ==
  ASSUME AInv, CheckKeepAlive
  PROVE  AInv'
<1>1. /\ h.pc = "send" /\ h.out = <<>>
      /\ UNCHANGED <<asked, asking, up, client, down, rough, setup, handlers_,
                     closers, fdOpen, is_closed_>>
  BY DEF CheckKeepAlive, Connection
<1>2. DOMAIN h = Fields /\ up \in Seq(Tokens) /\ setup = Len(Routes) /\ RequestLimit \in Nat
  BY <1>1, HttpLimitsAssumption DEF AInv, StreamType, RouterInv
<1>3. DOMAIN h' = Fields /\ h'.pc \in {"done", "top"}
  BY <1>2 DEF CheckKeepAlive, Fields
<1>4. ASSUME ~rough', fdOpen', client' # "gone" PROVE Phase'
  <2> DEFINE n == h.req
  <2>1. Sending(n) /\ n \in 1..RequestLimit
    BY <1>1, <1>4 DEF AInv, InStep, Phase, Sending
  <2>2. Fresh' = Fresh /\ Stuck' = Stuck
    BY <1>1, SameUp
  <2> HIDE DEF n
  <2>3. CASE AllRead(n) /\ Len(down) = 2 * n - 2
    <3>1. ~Answered(n)
      BY <1>1, <1>2, <1>4, <2>1, <2>3, NotAnswered DEF AInv
    <3>2. Stuck
      BY <2>1, <2>3, <3>1 DEF Stuck
    <3> QED
      BY <1>3, <2>2, <3>2 DEF Phase
  <2>4. CASE Len(down) = 2 * n /\ UpIs(n + 1, 0)
    <3>1. Fresh
      <4>1. n + 1 \in 1..(RequestLimit + 1) /\ 2 * n = 2 * (n + 1) - 2
        BY <1>2, <2>1
      <4> QED
        BY <2>4, <4>1 DEF Fresh
    <3> QED
      BY <1>3, <2>2, <3>1 DEF Phase
  <2>5. ~(h.out = <<HTML(n, down[2 * n - 1].status)[2]>>)
    BY <1>1
  <2> QED
    BY <2>1, <2>3, <2>4, <2>5 DEF Sending
<1> QED
  BY <1>1, <1>2, <1>3, <1>4, Frame DEF InStep

(* A client that sends.                                                    *)
LEMMA AnswersAsked ==
  ASSUME AInv, ClientSend
  PROVE  AInv'
<1>1. /\ UNCHANGED <<asked, client, down, h, setup, handlers_, closers, fdOpen, is_closed_>>
      /\ up' = Append(up, Token(asking.req, asking.part)) /\ asking.req <= RequestLimit
      /\ h.pc # "setup" /\ (rough => rough')
  BY DEF ClientSend, Connection
<1>2. /\ StreamType /\ up \in Seq(Tokens) /\ RequestLimit \in Nat /\ asking.req \in 1..RequestLimit
      /\ asking.part \in Nat \ {0} /\ asking.part <= TokensOf(asking.req)
      /\ asking \in [req : 1..(RequestLimit + 1), part : Nat \ {0}]
  BY <1>1, HttpLimitsAssumption DEF AInv, StreamType
<1>3. StreamType'
  <2>1. up' \in Seq(Tokens)
    <3>1. Token(asking.req, asking.part) \in Tokens
      BY <1>2 DEF Token, Tokens
    <3> QED
      BY <1>1, <1>2, <3>1
  <2>2. \A i : TokensOf(i)' = TokensOf(i)
    BY <1>1 DEF TokensOf
  <2>3. \A i \in 1..RequestLimit : TokensOf(i) \in Nat /\ TokensOf(i) >= 2
    BY <1>2, RequestType
  <2>4. CASE asking.part < TokensOf(asking.req)
    <3>1. asking' = [asking EXCEPT !.part = @ + 1]
      BY <2>4 DEF ClientSend
    <3>2. asking' \in [req : 1..(RequestLimit + 1), part : Nat \ {0}]
          /\ asking'.req = asking.req /\ asking'.part = asking.part + 1
      BY <1>2, <3>1
    <3> QED
      BY <1>1, <1>2, <2>1, <2>2, <2>3, <2>4, <3>2 DEF StreamType, Tokens, Piece
  <2>5. CASE ~(asking.part < TokensOf(asking.req))
    <3>1. asking' = [req |-> asking.req + 1, part |-> 1]
      BY <2>5 DEF ClientSend
    <3>2. asking' \in [req : 1..(RequestLimit + 1), part : Nat \ {0}] /\ asking'.part = 1
      BY <1>2, <3>1
    <3>3. asking'.req <= RequestLimit => asking'.req \in 1..RequestLimit
      BY <1>2, <3>2
    <3>4. asking'.req <= RequestLimit => 1 <= TokensOf(asking'.req)
      BY <2>3, <3>3
    <3>5. (asking.req <= RequestLimit => asking.part <= TokensOf(asking.req))'
      BY <1>1, <3>2, <3>4 DEF TokensOf
    <3> QED
      BY <1>1, <1>2, <2>1, <3>2, <3>5 DEF StreamType, Tokens, Piece
  <2> QED
    BY <2>4, <2>5
<1>4. RouterInv'
  BY <1>1 DEF AInv, RouterInv, Accepted, RouteKey, Key, LastFor
<1>5. CloseOrder'
  BY <1>1 DEF AInv, CloseOrder
<1>6. AnswersInOrder'
  <2>1. ~rough => InOrder(down)
    BY DEF AInv, AnswersInOrder, InOrder
  <2> QED
    BY <1>1, <2>1, InOrderSame
<1>7. ASSUME ~rough', fdOpen', client' # "gone" PROVE Phase'
  <2>1. Phase /\ ~rough /\ AnswersInOrder
    BY <1>1, <1>7 DEF AInv, InStep
  <2>2. \A n \in 1..(RequestLimit + 1), m \in Nat : UpIs(n, m) /\ Len(down) = 2 * n - 2 => UpIs(n, m)'
    BY <1>2, <1>7, <2>1, UpSent
  <2>3. \A n \in 1..RequestLimit : AllRead(n) => Len(down) >= 2 * n
    <3> SUFFICES ASSUME NEW n \in 1..RequestLimit, AllRead(n), Len(down) < 2 * n PROVE FALSE
      BY <1>2 DEF StreamType
    <3>1. ~Answered(n)
      BY <1>2, <2>1, NotAnswered
    <3> QED
      BY <1>2, <1>7, <3>1, Waits
  <2>4. h.pc \in {"top", "read"} => Fresh'
    <3> SUFFICES ASSUME h.pc \in {"top", "read"} PROVE Fresh'
      OBVIOUS
    <3>1. ~Stuck
      BY <1>2, <1>7, Waits DEF Stuck
    <3>2. PICK n \in 1..(RequestLimit + 1) : Len(down) = 2 * n - 2 /\ UpIs(n, 0)
      BY <2>1, <3>1 DEF Phase, Fresh
    <3>3. UpIs(n, 0)'
      BY <2>2, <3>2
    <3> QED
      BY <1>1, <3>2, <3>3 DEF Fresh
  <2>5. h.pc = "body" => Reading(h.req)' /\ h.body \in Seq(Tokens) /\ UpIs(h.req, 2 + Len(h.body))'
    <3> SUFFICES ASSUME h.pc = "body"
                 PROVE  Reading(h.req)' /\ h.body \in Seq(Tokens) /\ UpIs(h.req, 2 + Len(h.body))'
      OBVIOUS
    <3>1. Reading(h.req) /\ h.body \in Seq(Tokens) /\ UpIs(h.req, 2 + Len(h.body))
      BY <2>1 DEF Phase
    <3>2. PICK n \in 1..(RequestLimit + 1), m \in Nat : n = h.req /\ m = 2 + Len(h.body)
      <4>1. h.req \in 1..(RequestLimit + 1)
        BY <1>2, <3>1 DEF Reading
      <4>2. 2 + Len(h.body) \in Nat
        BY <3>1
      <4> QED
        BY <4>1, <4>2
    <3>3. UpIs(n, m)'
      BY <2>2, <3>1, <3>2 DEF Reading
    <3>4. UpIs(h.req, 2 + Len(h.body))'
      BY <1>1, <3>2, <3>3
    <3> QED
      BY <1>1, <3>1, <3>4 DEF Reading
  <2>6. h.pc # "remove"
    BY <1>2, <2>1, <2>3 DEF Phase, Reading
  <2>7. h.pc = "send" => Sending(h.req)'
    <3> SUFFICES ASSUME h.pc = "send" PROVE Sending(h.req)'
      OBVIOUS
    <3>0. PICK n \in 1..RequestLimit : n = h.req
      BY <2>1 DEF Phase, Sending
    <3>1. Sending(n)
      BY <2>1, <3>0 DEF Phase
    <3>2. n \in 1..RequestLimit /\ h.out = <<>> /\ Len(down) = 2 * n /\ UpIs(n + 1, 0)
      BY <1>2, <2>3, <3>1 DEF Sending
    <3>3. n + 1 \in 1..(RequestLimit + 1) /\ Len(down) = 2 * (n + 1) - 2
      BY <1>2, <3>2
    <3>4. UpIs(n + 1, 0)'
      BY <2>2, <3>2, <3>3
    <3>5. Sending(n)'
      BY <1>1, <3>2, <3>4 DEF Sending
    <3> QED
      BY <1>1, <3>0, <3>5
  <2>8. (h.pc \in {"setup", "top", "read"} => Fresh \/ Stuck)'
    BY <1>1, <2>4
  <2>9. (h.pc = "body" => Reading(h.req) /\ h.body \in Seq(Tokens) /\ UpIs(h.req, 2 + Len(h.body)))'
    BY <1>1, <2>5 DEF Tokens
  <2>10. (h.pc = "remove" => Reading(h.req) /\ AllRead(h.req))'
    BY <1>1, <2>6
  <2>11. (h.pc = "send" => Sending(h.req))'
    BY <1>1, <2>7
  <2> QED
    BY <2>8, <2>9, <2>10, <2>11 DEF Phase
<1> QED
  BY <1>1, <1>3, <1>4, <1>5, <1>6, <1>7 DEF AInv, InStep

(* A part of the answer reaches the client.                                *)
LEMMA AnswersSent ==
  ASSUME AInv, Send
  PROVE  AInv'
<1>1. /\ h.pc = "send" /\ h.out # <<>>
      /\ UNCHANGED <<asked, asking, up, client, rough, setup, handlers_, closers, fdOpen, is_closed_>>
  BY DEF Send, Connection
<1>2. /\ DOMAIN h = Fields /\ StreamType /\ up \in Seq(Tokens) /\ (rough \/ down \in Seq(Piece))
      /\ setup = Len(Routes) /\ RequestLimit \in Nat
  BY <1>1, HttpLimitsAssumption DEF AInv, StreamType, RouterInv
<1>3. CASE ~fdOpen \/ client = "gone"
  <2>1. down' = down
    BY <1>3 DEF Send
  <2>2. DOMAIN h' = Fields
    BY <1>2 DEF Send, Crash, Fields
  <2>3. InStep'
    BY <1>1, <1>3 DEF InStep
  <2> QED
    BY <1>1, <1>2, <2>1, <2>2, <2>3, Frame
<1>4. CASE fdOpen /\ client # "gone"
  <2>1. ~is_closed_
    BY <1>4 DEF AInv, CloseOrder
  <2>2. PICK k \in 1..Len(h.out) :
          /\ down' = down \o SubSeq(h.out, 1, k)
          /\ h' = [h EXCEPT !.out = From(@, k + 1), !.waiting = k < Len(h.out)]
    BY <1>4, <2>1 DEF Send
  <2>3. /\ DOMAIN h' = Fields /\ h'.pc = h.pc /\ h'.req = h.req
        /\ h'.out = From(h.out, k + 1)
    BY <1>2, <2>2 DEF Fields
  <2>4. RouterInv' /\ CloseOrder'
    BY <1>1, <1>2, <2>3 DEF AInv, RouterInv, Accepted, RouteKey, Key, LastFor, CloseOrder
  <2>5. ASSUME ~rough
        PROVE  InOrder(down') /\ down' \in Seq(Piece) /\ Phase'
    <3>0. down \in Seq(Piece)
      BY <1>2, <2>5
    <3>1. Phase /\ InOrder(down)
      BY <1>4, <2>5 DEF AInv, InStep, AnswersInOrder, InOrder
    <3>2. PICK n \in 1..RequestLimit : n = h.req
      BY <1>1, <3>1 DEF Phase, Sending
    <3>3. Sending(n) /\ n \in Nat
      BY <1>1, <1>2, <3>1, <3>2 DEF Phase
    <3>4. ASSUME Len(down') = 2 * n, h'.out = <<>>, AllRead(n) PROVE Phase'
      <4>1. UpIs(n + 1, 0)'
        BY <1>1, <1>2, <3>4 DEF UpIs, UpTo, Sent, AllRead
      <4>2. Sending(n)'
        BY <3>4, <4>1 DEF Sending
      <4> QED
        BY <1>1, <2>3, <3>2, <4>2 DEF Phase
    <3>5. \A s \in StatusesOf(n) : s \in Nat
      <4>1. HandlerOf(n) \in {"page", "add", "json", "none"}
        BY <1>1, <1>2, HandlerFound DEF AInv
      <4> QED
        BY <4>1 DEF StatusesOf
    <3>6. \A s \in Nat : HTML(n, s)[1] \in Piece /\ HTML(n, s)[2] \in Piece
      BY <3>3 DEF HTML, Piece
    <3>7. ASSUME AllRead(n), Len(down) = 2 * n - 2, NEW s \in StatusesOf(n), h.out = HTML(n, s)
          PROVE  InOrder(down') /\ down' \in Seq(Piece) /\ Phase'
      <4>1. PICK a \in Piece, b \in Piece :
              /\ a = HTML(n, s)[1] /\ b = HTML(n, s)[2] /\ a.status = s /\ h.out = <<a, b>>
        BY <3>5, <3>6, <3>7 DEF HTML
      <4>0. a \in Piece /\ b \in Piece
        OBVIOUS
      <4> DEFINE d == Append(down, a)
      <4>2. InOrder(d) /\ d \in Seq(Piece) /\ Len(d) = 2 * n - 1 /\ d[2 * n - 1].status = s
        <5>1. InOrder(d)
          BY <3>0, <3>1, <3>7, <4>1, HeadersReceived
        <5>2. d \in Seq(Piece) /\ Len(d) = 2 * n - 1 /\ d[2 * n - 1] = a
          BY <3>0, <3>3, <3>7
        <5> QED
          BY <4>1, <5>1, <5>2
      <4>3. CASE k = 1
        <5>1. SubSeq(h.out, 1, k) = <<a>> /\ From(h.out, k + 1) = <<b>>
          <6>1. HalfSent(a, b)
            BY ONLY <4>0, TwoPieces
          <6>2. h.out = <<a, b>> /\ Len(h.out) = Len(<<a, b>>) /\ k + 1 = 2
            BY <4>1, <4>3
          <6> QED
            BY <4>3, <6>1, <6>2 DEF From, HalfSent
        <5>2. down' = d
          BY <2>2, <3>0, <5>1, TwoPieces
        <5>3. h'.out = <<HTML(n, down'[2 * n - 1].status)[2]>>
          BY <2>3, <4>1, <4>2, <5>1, <5>2
        <5> HIDE DEF d
        <5>4. AllRead(n)'
          BY <1>1, <3>7 DEF AllRead
        <5>5. Sending(n)'
          BY <4>2, <5>2, <5>3, <5>4 DEF Sending, HTML
        <5>6. Phase'
          BY <1>1, <2>3, <3>2, <5>5 DEF Phase
        <5> QED
          BY <4>2, <5>2, <5>6
      <4>4. CASE k = 2
        <5>1. SubSeq(h.out, 1, k) = <<a, b>> /\ From(h.out, k + 1) = <<>>
          <6>1. WholeSent(a, b)
            BY ONLY <4>0, TwoPieces
          <6>2. h.out = <<a, b>> /\ Len(h.out) = Len(<<a, b>>)
            BY <4>1
          <6> QED
            BY <4>4, <6>1, <6>2 DEF From, WholeSent
        <5>2. down' = Append(d, b)
          <6>1. down \o <<a, b>> = Append(Append(down, a), b)
            BY <3>0, TwoPieces
          <6> QED
            BY <2>2, <5>1, <6>1
        <5> HIDE DEF d
        <5>3. InOrder(down')
          <6>1. InOrder(Append(d, HTML(n, d[2 * n - 1].status)[2]))
            BY <4>2, TextReceived
          <6> QED
            BY <4>1, <4>2, <5>2, <6>1
        <5>4. down' \in Seq(Piece) /\ Len(down') = 2 * n
          BY <3>3, <4>2, <5>2
        <5> QED
          BY <2>3, <3>4, <3>7, <5>1, <5>3, <5>4
      <4>5. k = 1 \/ k = 2
        BY <3>7 DEF HTML
      <4> QED
        BY <4>3, <4>4, <4>5
    <3>8. ASSUME AllRead(n), Len(down) = 2 * n - 1,
                 h.out = <<HTML(n, down[2 * n - 1].status)[2]>>
          PROVE  InOrder(down') /\ down' \in Seq(Piece) /\ Phase'
      <4> DEFINE e == HTML(n, down[2 * n - 1].status)[2]
      <4>1. InOrder(Append(down, e))
        BY <3>0, <3>1, <3>8, TextReceived
      <4>2. e \in Piece
        <5>1. 2 * n - 1 \in 1..Len(down)
          BY <3>3, <3>8
        <5>2. down[2 * n - 1] \in Piece
          BY <3>0, <5>1
        <5>3. down[2 * n - 1].status \in Nat
          BY <5>2 DEF Piece
        <5> QED
          BY <3>6, <5>3
      <4> HIDE DEF e
      <4>3. h.out = <<e>>
        BY <3>8 DEF e
      <4>4. k = 1 /\ SubSeq(h.out, 1, k) = <<e>> /\ From(h.out, k + 1) = <<>>
        <5>1. k = 1
          BY <4>3
        <5>2. SubSeq(<<e>>, 1, 1) = <<e>> /\ SubSeq(<<e>>, 2, Len(<<e>>)) = <<>>
          BY <4>2, TwoPieces
        <5> QED
          BY <4>3, <5>1, <5>2 DEF From
      <4>5. down' = Append(down, e)
        BY <2>2, <3>0, <4>2, <4>4, TwoPieces
      <4>6. down' \in Seq(Piece) /\ Len(down') = 2 * n
        BY <3>0, <3>3, <3>8, <4>2, <4>5
      <4> QED
        BY <2>3, <3>4, <3>8, <4>1, <4>4, <4>5, <4>6
    <3> QED
      BY <1>1, <3>3, <3>7, <3>8 DEF Sending
  <2>6. StreamType'
    <3>1. rough' \/ down' \in Seq(Piece)
      BY <1>1, <2>5
    <3> QED
      BY <1>1, <1>2, <3>1 DEF StreamType, TokensOf, Tokens, Piece
  <2>7. AnswersInOrder'
    BY <1>1, <2>5, InOrderSame
  <2> QED
    BY <1>1, <2>3, <2>4, <2>5, <2>6, <2>7 DEF AInv, InStep
<1> QED
  BY <1>3, <1>4

LEMMA AInvStep == AInv /\ [Next]_vars => AInv'
<1> SUFFICES ASSUME AInv, [Next]_vars PROVE AInv'
  OBVIOUS
<1>0. DOMAIN h = Fields /\ CloseOrder /\ (h.pc # "setup" => setup = Len(Routes))
  BY DEF AInv, RouterInv
<1>1. CASE Top
  <2>1. /\ UNCHANGED <<asked, asking, up, down, rough, setup, handlers_, closers,
                       fdOpen, is_closed_, client>>
        /\ h.pc = "top" /\ h'.pc = "read" /\ DOMAIN h' = Fields
    BY <1>0, <1>1 DEF Top, Fields
  <2> QED
    BY <1>0, <2>1, KeepsFresh
<1>2. CASE Read
  BY <1>2, AnswersRead
<1>3. CASE ReadNothing
  <2>1. /\ UNCHANGED <<asked, asking, up, down, rough, setup, handlers_, closers,
                       fdOpen, is_closed_, client>>
        /\ h.pc = "read" /\ h'.pc = "top" /\ DOMAIN h' = Fields
    BY <1>0, <1>3 DEF ReadNothing, Connection, Fields
  <2> QED
    BY <1>0, <2>1, KeepsFresh
<1>4. CASE ReadSuspend \/ Wake
  <2>1. /\ UNCHANGED <<asked, asking, up, down, rough, setup, handlers_, closers,
                       fdOpen, is_closed_, client>>
        /\ \E w : h' = [h EXCEPT !.waiting = w]
    BY <1>4 DEF ReadSuspend, Wake, Connection
  <2>2. /\ DOMAIN h' = Fields /\ h'.pc = h.pc /\ h'.req = h.req /\ h'.params = h.params
        /\ h'.body = h.body /\ h'.out = h.out
    BY <1>0, <2>1 DEF Fields
  <2>3. CloseOrder'
    BY <1>0, <2>1 DEF CloseOrder
  <2> QED
    BY <2>1, <2>2, <2>3, KeepsPhase
<1>5. CASE RemoveTimerAndHandle
  BY <1>5, AnswersHandled
<1>6. CASE Send
  BY <1>6, AnswersSent
<1>7. CASE CheckKeepAlive
  BY <1>7, AnswersKept
<1>8. ASSUME NEW id \in 1..TimerLimit, TimerFires(id)
      PROVE  AInv'
  <2>1. UNCHANGED <<asked, asking, up, down, rough, setup, handlers_, h, fdOpen, is_closed_, client>>
    BY <1>8 DEF TimerFires
  <2>2. DOMAIN closers' = {"close", "flag"} /\ closers'.flag = closers.flag
    BY <1>0, <1>8 DEF TimerFires, CloseOrder
  <2>3. CloseOrder'
    BY <1>0, <2>1, <2>2 DEF CloseOrder
  <2> QED
    BY <1>0, <2>1, <2>3, KeepsPhase
<1>9. CASE CloseDescriptor
  <2>1. UNCHANGED <<asked, asking, up, down, rough, setup, handlers_, h, is_closed_, client>> /\ ~fdOpen'
    BY <1>9 DEF CloseDescriptor
  <2>2. CloseOrder'
    BY <1>0, <1>9 DEF CloseOrder, CloseDescriptor
  <2> QED
    BY <1>0, <2>1, <2>2, KeepsPhase
<1>10. CASE CloseFlag
  <2>1. /\ UNCHANGED <<asked, asking, up, down, rough, setup, handlers_, h, fdOpen, client>>
        /\ closers.flag > 0 /\ closers' = [closers EXCEPT !.flag = @ - 1]
    BY <1>10 DEF CloseFlag
  <2>2. CloseOrder'
    BY <1>0, <2>1 DEF CloseOrder
  <2> QED
    BY <1>0, <2>1, <2>2, KeepsPhase
<1>11. CASE AddRouter
  <2>1. /\ UNCHANGED <<asked, asking, up, down, rough, h, closers, fdOpen, is_closed_, client>>
        /\ RouterInv'
    BY <1>11, RouterKeeps DEF AInv, AddRouter
  <2>2. StreamType' /\ CloseOrder'
    BY <2>1 DEF AInv, StreamType, TokensOf, Tokens, Piece, CloseOrder
  <2>3. AnswersInOrder'
    <3>1. ~rough => InOrder(down)
      BY DEF AInv, AnswersInOrder, InOrder
    <3> QED
      BY <2>1, <3>1, InOrderSame
  <2>4. InStep'
    BY <2>1, SamePhase DEF AInv, InStep
  <2> QED
    BY <1>0, <2>1, <2>2, <2>3, <2>4 DEF AInv
<1>12. CASE Start
  <2>1. /\ UNCHANGED <<asked, asking, up, down, rough, setup, handlers_, closers,
                       fdOpen, is_closed_, client>>
        /\ h.pc = "setup" /\ setup = Len(Routes) /\ h'.pc = "top" /\ DOMAIN h' = Fields
    BY <1>0, <1>12 DEF Start, Connection, Fields
  <2> QED
    BY <2>1, KeepsFresh
<1>13. CASE ClientSend
  BY <1>13, AnswersAsked
<1>14. CASE ClientEnds
  <2>1. /\ UNCHANGED <<asked, asking, up, down, rough, setup, handlers_, h, closers, fdOpen, is_closed_>>
        /\ client # "gone"
    BY <1>14 DEF ClientEnds, Connection
  <2>2. CloseOrder'
    BY <1>0, <2>1 DEF CloseOrder
  <2> QED
    BY <1>0, <2>1, <2>2, KeepsPhase
<1>15. CASE UNCHANGED vars
  <2>1. UNCHANGED <<asked, asking, up, down, rough, setup, handlers_, h, closers,
                    fdOpen, is_closed_, client>>
    BY <1>15 DEF vars
  <2>2. CloseOrder'
    BY <1>0, <2>1 DEF CloseOrder
  <2> QED
    BY <1>0, <2>1, <2>2, KeepsPhase
<1> QED
  BY <1>1, <1>2, <1>3, <1>4, <1>5, <1>6, <1>7, <1>8, <1>9, <1>10, <1>11, <1>12, <1>13,
     <1>14, <1>15
     DEF Next, HandlerStep, CloserStep

(* The answers of a connection come in the order of its requests, each     *)
(* with a status its route stands for, for any routes, sessions and size   *)
(* of the buffer, however TCP cuts bodies and answers and whenever timers' *)
(* threads close the connection.                                           *)
THEOREM AnswersCorrect == Spec => []AnswersInOrder
<1>1. AInv => AnswersInOrder
  BY DEF AInv
<1> QED
  BY <1>1, AInvInit, AInvStep, PTL DEF Spec
=============================================================================
