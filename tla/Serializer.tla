----------------------------- MODULE Serializer -----------------------------
(***************************************************************************)
(* codec::Serializer (codec/serializer.h): the overloads of serialize and  *)
(* deserialize, chosen by the static type.  A type is a record here and    *)
(* Serialize and Deserialize recurse over it as the overload resolution of *)
(* the templates does.                                                     *)
(*                                                                         *)
(* An object with serialize and deserialize methods decides itself what it *)
(* writes; its kind stands for classes like Student in the RPC test, whose *)
(* methods take their members in turn.  The overloads for std::map are not *)
(* part of the model: nothing reads back what serialize writes, since      *)
(* deserialize passes key and val by value, for which there is no overload,*)
(* and cannot be instantiated.                                             *)
(***************************************************************************)
EXTENDS Codec

Arith(bytes)  == [kind |-> "arith", bytes |-> bytes]
StringType    == [kind |-> "string"]
ListOf(t)     == [kind |-> "seq", of |-> t]
TupleType(ts) == [kind |-> "tuple", of |-> ts]
ObjectOf(ts)  == [kind |-> "object", of |-> ts]

(* A sequence container is preceded by a uint32_t.                         *)
UINT32_T == 4

RECURSIVE Serialize(_, _)
RECURSIVE SerializeAll(_, _)
RECURSIVE Deserialize(_, _, _)
RECURSIVE DeserializeAll(_, _, _)

SerializeAll(ts, vs) ==
  IF vs = <<>> THEN <<>>
  ELSE Serialize(Head(ts), Head(vs)) \o SerializeAll(Tail(ts), Tail(vs))

Serialize(t, v) ==
  CASE t.kind = "arith"  -> LittleEndian(v, t.bytes)
    [] t.kind = "string" -> SerializeString(v)
    [] t.kind = "seq"    -> LittleEndian(Len(v), UINT32_T)
                              \o SerializeAll([i \in 1..Len(v) |-> t.of], v)
    [] t.kind \in {"tuple", "object"} -> SerializeAll(t.of, v)

DeserializeAll(ts, b, pos) ==
  IF ts = <<>> THEN [val |-> <<>>, pos |-> pos]
  ELSE LET first == Deserialize(Head(ts), b, pos)
           rest  == DeserializeAll(Tail(ts), b, first.pos)
       IN  [val |-> <<first.val>> \o rest.val, pos |-> rest.pos]

Deserialize(t, b, pos) ==
  CASE t.kind = "arith"  -> DeserializeNumber(b, pos, t.bytes)
    [] t.kind = "string" -> DeserializeString(b, pos)
    [] t.kind = "seq"    ->
         LET size == DeserializeNumber(b, pos, UINT32_T)
         IN  IF size.pos + size.val > Len(b)
             THEN [val |-> <<>>, pos |-> size.pos + size.val]
             ELSE DeserializeAll([i \in 1..size.val |-> t.of], b, size.pos)
    [] t.kind \in {"tuple", "object"} -> DeserializeAll(t.of, b, pos)

-----------------------------------------------------------------------------
(* Bounded inputs: nested types, with empty and two-element containers and *)
(* numbers on both sides of a byte boundary.                               *)
Numbers(bytes) == {0, 1, 255} \cup (IF bytes > 1 THEN {256, 511} ELSE {})

Samples ==
  LET word  == Arith(2)
      short == {<<>>, <<0>>, <<7, 255>>}
  IN  {<<Arith(n), v>> : n \in {1, 4, 8}, v \in Numbers(1)}
      \cup {<<word, v>> : v \in Numbers(2)}
      \cup {<<StringType, s>> : s \in short}
      \cup {<<ListOf(word), s>> : s \in {<<>>, <<256>>, <<1, 511>>}}
      \cup {<<ListOf(StringType), s>> : s \in {<<>>, <<<<>>>>, <<<<9>>, <<>>>>}}
      \cup {<<ListOf(ListOf(Arith(1))), s>> : s \in {<<>>, <<<<1>>>>, <<<<>>, <<2, 3>>>>}}
      \cup {<<TupleType(<<StringType, word>>), <<s, n>>>> : s \in short, n \in {0, 256}}
      \cup {<<TupleType(<<>>), <<>>>>}
      \cup {<<ListOf(ObjectOf(<<StringType, Arith(4)>>)), <<<<s, 256>>>>>> : s \in short}

(* x and y are read back when one is written behind the other.             *)
ReadsBack(x, y) ==
  LET b      == Serialize(x[1], x[2]) \o Serialize(y[1], y[2])
      first  == Deserialize(x[1], b, 0)
      second == Deserialize(y[1], b, first.pos)
  IN  first.val = x[2] /\ second.val = y[2] /\ second.pos = Len(b)
=============================================================================
