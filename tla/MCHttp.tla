------------------------------- MODULE MCHttp -------------------------------
(* Sessions of two requests, of five kinds.  The program's first two       *)
(* routes are refused.  A behaviour is one of a connection, or one sample   *)
(* of the text functions.                                                  *)
EXTENDS Http, JsonText

get  == <<"G">>
post == <<"P">>
del  == <<"D">>
ping == <<"/", "p", "/">>
add  == <<"/", "a", "/">>
data == <<"/", "d", "/">>
bare == <<"/", "p">>

ProgramRoutes ==
  << [method |-> del,  url |-> add,  handler |-> "page"],
     [method |-> get,  url |-> bare, handler |-> "page"],
     [method |-> get,  url |-> ping, handler |-> "page"],
     [method |-> post, url |-> add,  handler |-> "add"],
     [method |-> get,  url |-> data, handler |-> "json"] >>

Asks(m, u, n, c) == [method |-> m, url |-> u, body |-> n, connection |-> c]

Ping  == Asks(get, ping, 0, "keep-alive")
Bye   == Asks(get, ping, 0, "close")
Bare  == Asks(get, bare, 0, " close")
Add   == Asks(post, add, 2, "keep-alive")
Json  == Asks(get, data, 0, "keep-alive")

ClientSessions == {<<Ping, Add>>, <<Add, Bye>>, <<Bye, Ping>>, <<Bare, Json>>}

VARIABLE sample

NoSample == [kind |-> "none"]

HttpInit ==
  /\ Init
  /\ \/ sample = NoSample
     \/ \E s \in Texts : sample = [kind |-> "text", s |-> s]
     \/ \E k, v, l, w \in Word : sample = [kind |-> "request", of |-> <<k, v, l, w>>]
     \/ \E v \in Values : sample = [kind |-> "json", v |-> v]
     \/ \E v \in Negatives : sample = [kind |-> "negative", v |-> v]

HttpNext == sample = NoSample /\ Next /\ UNCHANGED sample

HttpSpec ==
  /\ HttpInit /\ [][HttpNext]_<<vars, sample>>
  /\ sample = NoSample => Fairness

(* string_util.cpp: splitting at a delimiter and joining again gives the   *)
(* text back, no part holds the delimiter, and without keep_empty the      *)
(* non-empty parts remain; trimming cuts blanks off both ends and nothing  *)
(* else; replacing does not look into what it has put in, even when that   *)
(* holds what is replaced.  With it HttpRequest finds the parameters of a  *)
(* body, a header without blanks, and a line whose URL has no parameters.  *)
StringsMeetReference ==
  /\ sample.kind = "text" => MeetsReference(sample.s)
  /\ sample.kind = "request" =>
       Understood(sample.of[1], sample.of[2], sample.of[3], sample.of[4])

(* A head is read as its comments say: the value of a header comes without *)
(* the blank behind the colon (http_request.cpp:36), and the parameters of *)
(* a URL begin behind its '?', where uri_ ends (http_request.h:23, 24).    *)
HeadAsCommented ==
  sample.kind = "request" =>
    /\ Trimmed(sample.of[1], sample.of[2])
    /\ UrlUnderstood(sample.of[3], sample.of[1], sample.of[2], sample.of[3], sample.of[4])

(* tinyjson: what ToString writes of a value without negative numbers      *)
(* FromString reads back, up to its end, also behind blanks and comments,  *)
(* and a cut text is refused: brackets, commas and quotes inside strings   *)
(* mislead neither.  A value with a negative number is not read back, for  *)
(* ParseNumber wants a digit first, but refused and never misread.         *)
JsonRoundTrip ==
  /\ sample.kind = "json" => RoundTrips(sample.v)
  /\ sample.kind = "negative" => Refused(sample.v)
=============================================================================
