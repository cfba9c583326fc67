------------------------------- MODULE MCRpc --------------------------------
(* Two calls, of a bound and of an unbound name in any combination, over   *)
(* send buffers smaller than a packet; an uninitialised header may stand   *)
(* for no bytes or for some.  A behaviour is one of client and server, or  *)
(* the coding of one sample.                                               *)
EXTENDS Rpc, Serializer, TinyPB

add == <<97>>
sub == <<115>>

BothNames   == {add, sub}
BoundNames  == {add}
SomeLengths == {0, 3}
Half        == {2}

VARIABLE sample

NoSample == [kind |-> "none"]

RpcInit ==
  /\ Init
  /\ \/ sample = NoSample
     \/ \E x, y \in Samples : sample = [kind |-> "objects", x |-> x, y |-> y]
     \/ \E m \in Messages : sample = [kind |-> "message", m |-> m]

RpcNext == sample = NoSample /\ Next /\ UNCHANGED sample

RpcSpec ==
  /\ RpcInit /\ [][RpcNext]_<<vars, sample>>
  /\ sample = NoSample => Fairness

(* Serializer: two objects written one behind the other are read back,     *)
(* each with its own type, and the reader stops exactly where the writer   *)
(* did: no size field is read with another width than it was written with. *)
SerializerRoundTrip == sample.kind = "objects" => ReadsBack(sample.x, sample.y)

(* TinyPBCoder: what Encode writes Decode reads, the payload and the code  *)
(* as they were, the other strings up to a NUL; and it reads nothing from  *)
(* a packet that is cut anywhere behind its length or is followed by       *)
(* another byte, so a stream cannot be decoded out of step.                *)
TinyPBRoundTrip == sample.kind = "message" => Decodes(sample.m)
=============================================================================
