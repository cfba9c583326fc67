------------------------------ MODULE RpcProofs ------------------------------
(***************************************************************************)
(* What TLAPS proves about RPC, for all names, send buffers and numbers of *)
(* calls: as long as headers come in one piece, a function is run at most  *)
(* once for a call, and a whole reply answers the call it is returned for. *)
(*                                                                         *)
(* The invariant says what each program knows of the bytes on their way:   *)
(* the server, that what it has read, what is on its way and what the      *)
(* client has still to write are together the request of the last call;    *)
(* the client, the same of the reply.  Each holds whether or not the other *)
(* program is still there; Turns says whose turn it is while both are.     *)
(*                                                                         *)
(* The last section is about TinyPBCoder: every message that fits is read  *)
(* from its packet, and from no shorter part of it that has its length.    *)
(***************************************************************************)
EXTENDS Rpc, TinyPB, SequenceTheorems, TLAPS

ClientState ==
  [pc : {"connect", "idle", "unconnected", "send", "head", "body", "gone"}, tries : Nat,
   out : Seq(Byte), head : Nat, left : Nat, buf : Seq(Byte), err_code_ : Nat]

ServerState ==
  [pc : {"none", "head", "body", "sendhead", "send", "closed", "crashed"},
   out : Seq(Byte), left : Nat, buf : Seq(Byte)]

Result == [code : Nat, val : Nat, missing : Nat]

TypeOK ==
  /\ up \in Seq(Byte) /\ down \in Seq(Byte)
  /\ cli \in ClientState /\ srv \in ServerState
  /\ calls \in Seq(Names) /\ results \in Seq(Result) /\ ran \in Seq(Nat)
  /\ Len(calls) <= CallLimit
  /\ split \in BOOLEAN

-----------------------------------------------------------------------------
Packet(body) == Header(body) \o body

(* The request and the reply of the n-th call.                             *)
Asked(n)   == Request(calls[n], n)
Replied(n) == IF calls[n] \in Bound THEN ReplyBound(n) ELSE ReplyUnbound(calls[n])

(* The function of the last call has not been run, or has if it is bound.  *)
Fresh    == \A i \in 1..Len(ran) : ran[i] < Len(calls)
Executed == calls[Len(calls)] \in Bound => \E i \in 1..Len(ran) : ran[i] = Len(calls)

Runs ==
  \A i \in 1..Len(ran) : /\ ran[i] \in 1..Len(calls) /\ calls[ran[i]] \in Bound
                         /\ i > 1 => ran[i - 1] < ran[i]

Answered(i) ==
  results[i].missing = 0 =>
    IF calls[i] \in Bound
    THEN /\ results[i].code = RPC_SUCCECC /\ results[i].val = i + 10
         /\ \E j \in 1..Len(ran) : ran[j] = i
    ELSE results[i].code = RPC_ERR_FUNCTION_NOT_FOUND

Answers == Len(results) <= Len(calls) /\ \A i \in 1..Len(results) : Answered(i)

(* Without a connection nothing has been sent.                             *)
Nothing == srv.pc = "none" => cli.pc \in {"connect", "unconnected", "gone"}

(* What the client knows of the reply.                                     *)
InCall == calls # <<>> /\ Len(results) + 1 = Len(calls) /\ cli.buf = <<>>

ClientView ==
  /\ cli.pc \in {"connect", "unconnected"} =>
       /\ srv.pc = "none" /\ calls = <<>> /\ results = <<>>
       /\ up = <<>> /\ down = <<>> /\ cli.buf = <<>>
  /\ cli.pc = "idle" => Len(results) = Len(calls) /\ down = <<>> /\ cli.buf = <<>>
  /\ cli.pc = "send" => InCall /\ down = <<>> /\ cli.out # <<>>
  /\ cli.pc = "head" =>
       /\ InCall /\ cli.head = 0
       /\ down # <<>> => /\ Executed /\ Len(down) >= HEADER_SIZE
                         /\ down \o srv.out = Packet(Replied(Len(calls)))
  /\ cli.pc = "body" =>
       /\ calls # <<>> /\ Len(results) + 1 = Len(calls) /\ Executed
       /\ cli.left > 0 /\ cli.left = Len(down) + Len(srv.out)
       /\ cli.buf \o (down \o srv.out) = Replied(Len(calls))

(* What the server knows of the request.                                   *)
ServerView ==
  /\ srv.pc = "head" /\ up # <<>> =>
       /\ calls # <<>> /\ Fresh /\ Len(up) >= HEADER_SIZE
       /\ up \o cli.out = Packet(Asked(Len(calls)))
  /\ srv.pc = "body" =>
       \/ /\ calls # <<>> /\ Fresh
          /\ srv.left > 0 /\ srv.left = Len(up) + Len(cli.out)
          /\ srv.buf \o (up \o cli.out) = Asked(Len(calls))
       \/ ClientGone /\ up = <<>> /\ srv.buf = <<>>
  /\ srv.pc = "sendhead" =>
       up = <<>> /\ calls # <<>> /\ Executed /\ srv.out = Replied(Len(calls))
  /\ srv.pc = "send" => up = <<>>

(* Whose turn it is, while both programs are there.                        *)
Turns ==
  ~ServerGone /\ srv.pc # "none" =>
    /\ cli.pc = "idle" => srv.pc = "head" /\ up = <<>>
    /\ cli.pc = "send" => srv.pc = "body" \/ (srv.pc = "head" /\ up # <<>>)
    /\ cli.pc = "head" =>
         /\ up # <<>> \/ srv.pc \in {"body", "sendhead"} => down = <<>>
         /\ srv.pc = "send" => down # <<>> /\ srv.out # <<>>
    /\ cli.pc = "body" =>
         /\ up = <<>> /\ srv.pc \in {"head", "send"}
         /\ srv.pc = "send" => srv.out # <<>>

Good == Runs /\ Answers /\ Nothing /\ ClientView /\ ServerView /\ Turns

Inv == TypeOK /\ (~split => Good)

-----------------------------------------------------------------------------
(* Numbers as bytes.                                                       *)

LEMMA WeightFact == Weight[1] = 1 /\ Weight[2] = 256 /\ Weight[3] = 65536
  BY DEF Weight

LEMMA HugeType == Huge \in Nat /\ Huge > 16
  BY SMT DEF Huge

LEMMA DigitsFact ==
  ASSUME NEW n \in Nat, n < Huge
  PROVE  (n % 256) + 256 * ((n \div 256) % 256) + 65536 * ((n \div 65536) % 256) = n
  BY SMT DEF Huge

LEMMA DigitType ==
  ASSUME NEW n \in Nat
  PROVE  /\ (n \div 1) % 256 \in Byte /\ (n \div 256) % 256 \in Byte
         /\ (n \div 65536) % 256 \in Byte /\ n \div 1 = n
  BY DEF Byte

LEMMA LittleEndianType ==
  ASSUME NEW n \in Nat, NEW k \in Nat
  PROVE  LittleEndian(n, k) \in Seq(Byte) /\ Len(LittleEndian(n, k)) = k
<1> DEFINE d(i) == IF i <= 3 THEN (n \div Weight[i]) % 256 ELSE 0
<1>1. ASSUME NEW i \in 1..k PROVE d(i) \in Byte
  <2>1. CASE i = 1 BY <2>1, WeightFact, DigitType DEF Byte
  <2>2. CASE i = 2 BY <2>2, WeightFact, DigitType DEF Byte
  <2>3. CASE i = 3 BY <2>3, WeightFact, DigitType DEF Byte
  <2>4. CASE i > 3 BY <2>4 DEF Byte
  <2> QED BY <2>1, <2>2, <2>3, <2>4
<1>2. LittleEndian(n, k) = [i \in 1..k |-> d(i)] BY DEF LittleEndian
<1> HIDE DEF d
<1> QED BY <1>1, <1>2

LEMMA FromLittleEndianType ==
  ASSUME NEW b \in Seq(Byte) PROVE FromLittleEndian(b) \in Nat
<1> DEFINE d(i) == IF i <= Len(b) THEN b[i] ELSE 0
<1>0. Byte \subseteq Nat BY DEF Byte
<1>1. ASSUME NEW i \in 1..3 PROVE d(i) \in Nat
  <2>1. CASE i <= Len(b)
    <3>1. b[i] \in Byte BY <2>1
    <3> QED BY <1>0, <2>1, <3>1
  <2>2. CASE ~(i <= Len(b)) BY <2>2
  <2> QED BY <2>1, <2>2
<1>2. FromLittleEndian(b) = Huge \/ FromLittleEndian(b) = d(1) + 256 * d(2) + 65536 * d(3)
  BY DEF FromLittleEndian
<1> HIDE DEF d
<1> QED BY <1>1, <1>2, HugeType

LEMMA OneByte ==
  ASSUME NEW n \in Byte PROVE FromLittleEndian(LittleEndian(n, 1)) = n
<1> DEFINE b == LittleEndian(n, 1)
<1>1. Len(b) = 1 /\ b[1] = (n \div 1) % 256
  BY LittleEndianType, WeightFact DEF LittleEndian, Byte
<1>2. \A m \in Byte : (m \div 1) % 256 = m BY DEF Byte
<1>2a. b[1] = n BY <1>1, <1>2
<1> HIDE DEF b
<1>3. FromLittleEndian(b) = n + 256 * 0 + 65536 * 0 BY <1>1, <1>2a DEF FromLittleEndian
<1> QED BY <1>3 DEF Byte, b

LEMMA TwoBytes ==
  ASSUME NEW n \in Nat, n < 65536 PROVE FromLittleEndian(LittleEndian(n, 2)) = n
<1> DEFINE b == LittleEndian(n, 2)
<1>1. Len(b) = 2 /\ b[1] = (n \div 1) % 256 /\ b[2] = (n \div 256) % 256
  BY LittleEndianType, WeightFact DEF LittleEndian
<1>2. b[1] = n % 256 BY <1>1, DigitType
<1>3. (n \div 65536) % 256 = 0 OBVIOUS
<1> HIDE DEF b
<1>4. FromLittleEndian(b) = b[1] + 256 * b[2] + 65536 * 0 BY <1>1 DEF FromLittleEndian
<1>5. n < Huge BY SMT DEF Huge
<1> QED BY <1>1, <1>2, <1>3, <1>4, <1>5, DigitsFact DEF b

LEMMA ManyBytes ==
  ASSUME NEW n \in Nat, n < Huge, NEW k \in Nat, k > 3
  PROVE  FromLittleEndian(LittleEndian(n, k)) = n
<1> DEFINE b == LittleEndian(n, k)
<1>1. Len(b) = k BY LittleEndianType
<1>2. b[1] = (n \div 1) % 256 /\ b[2] = (n \div 256) % 256 /\ b[3] = (n \div 65536) % 256
  BY WeightFact DEF LittleEndian
<1>3. \A i \in 4..k : b[i] = 0 BY DEF LittleEndian
<1>4. b[1] = n % 256 BY <1>2, DigitType
<1> HIDE DEF b
<1>5. FromLittleEndian(b) = b[1] + 256 * b[2] + 65536 * b[3] BY <1>1, <1>3 DEF FromLittleEndian
<1> QED BY <1>2, <1>4, <1>5, DigitsFact DEF b

-----------------------------------------------------------------------------
(* Parts of buffers.                                                       *)

LEMMA Length == ASSUME NEW s \in Seq(Byte) PROVE Len(s) \in Nat
  OBVIOUS

LEMMA Join ==
  ASSUME NEW s \in Seq(Byte), NEW t \in Seq(Byte)
  PROVE  s \o t \in Seq(Byte) /\ Len(s \o t) = Len(s) + Len(t)
  BY ConcatProperties

Associates(s, t, u) == (s \o t) \o u = s \o (t \o u)

LEMMA Assoc ==
  ASSUME NEW s \in Seq(Byte), NEW t \in Seq(Byte), NEW u \in Seq(Byte)
  PROVE  Associates(s, t, u)
  BY ConcatAssociative DEF Associates

LEMMA CopyType ==
  ASSUME NEW b \in Seq(Byte), NEW pos \in Nat, NEW n \in Nat
  PROVE  Copy(b, pos, n) \in Seq(Byte) /\ Len(Copy(b, pos, n)) = n
<1> DEFINE d(i) == IF pos + i <= Len(b) THEN b[pos + i] ELSE 0
<1>1. ASSUME NEW i \in 1..n PROVE d(i) \in Byte
  <2>1. CASE pos + i <= Len(b)
    <3>1. pos + i \in 1..Len(b) BY <2>1
    <3> QED BY <2>1, <3>1
  <2>2. CASE ~(pos + i <= Len(b)) BY <2>2 DEF Byte
  <2> QED BY <2>1, <2>2
<1>2. Copy(b, pos, n) = [i \in 1..n |-> d(i)] BY DEF Copy
<1> HIDE DEF d
<1> QED BY <1>1, <1>2

LEMMA CopyPart ==
  ASSUME NEW s \in Seq(Byte), NEW t \in Seq(Byte), NEW u \in Seq(Byte)
  PROVE  Copy(s \o (t \o u), Len(s), Len(t)) = t
<1> DEFINE b == s \o (t \o u)
<1>1. b \in Seq(Byte) /\ Len(b) = Len(s) + (Len(t) + Len(u))
  BY ConcatProperties
<1>2. ASSUME NEW i \in 1..Len(t) PROVE Len(s) + i <= Len(b) /\ b[Len(s) + i] = t[i]
  <2>1. (t \o u)[i] = t[i] BY ConcatProperties
  <2>2. b[Len(s) + i] = (t \o u)[i] BY ConcatProperties
  <2> QED BY <1>1, <2>1, <2>2
<1>3. Copy(b, Len(s), Len(t)) \in Seq(Byte) /\ Len(Copy(b, Len(s), Len(t))) = Len(t)
  BY <1>1, CopyType, Length
<1>4. ASSUME NEW i \in 1..Len(t) PROVE Copy(b, Len(s), Len(t))[i] = t[i]
  <2> HIDE DEF b
  <2> QED BY <1>2 DEF Copy
<1> HIDE DEF b
<1>5. Copy(b, Len(s), Len(t)) = t BY <1>3, <1>4, SeqEqual
<1> QED BY <1>5 DEF b

(* A number, and a string, is read back wherever it stands.                *)
LEMMA NumberRead ==
  ASSUME NEW s \in Seq(Byte), NEW u \in Seq(Byte), NEW n \in Nat, NEW k \in Nat,
         FromLittleEndian(LittleEndian(n, k)) = n
  PROVE  DeserializeNumber(s \o (LittleEndian(n, k) \o u), Len(s), k)
           = [val |-> n, pos |-> Len(s) + k]
<1>1. LittleEndian(n, k) \in Seq(Byte) /\ Len(LittleEndian(n, k)) = k BY LittleEndianType
<1>2. Copy(s \o (LittleEndian(n, k) \o u), Len(s), k) = LittleEndian(n, k) BY <1>1, CopyPart
<1> QED BY <1>2 DEF DeserializeNumber

LEMMA StringBytes ==
  ASSUME NEW x \in Seq(Byte)
  PROVE  SerializeString(x) \in Seq(Byte) /\ Len(SerializeString(x)) = 8 + Len(x)
<1>1. LittleEndian(Len(x), 8) \in Seq(Byte) /\ Len(LittleEndian(Len(x), 8)) = 8
  BY Length, LittleEndianType
<1> QED BY <1>1, Join DEF SerializeString, SIZE_T

LEMMA StringRead ==
  ASSUME NEW s \in Seq(Byte), NEW u \in Seq(Byte), NEW x \in Seq(Byte), Len(x) < Huge
  PROVE  DeserializeString(s \o (SerializeString(x) \o u), Len(s))
           = [val |-> x, pos |-> Len(s) + 8 + Len(x)]
<1> DEFINE l == LittleEndian(Len(x), 8)
           b == s \o (SerializeString(x) \o u)
           v == x \o u
<1>0. Len(x) \in Nat /\ Len(s) \in Nat /\ Len(u) \in Nat BY Length
<1>1. l \in Seq(Byte) /\ Len(l) = 8 BY <1>0, LittleEndianType
<1>2. SerializeString(x) = l \o x BY DEF SerializeString, SIZE_T
<1>3. FromLittleEndian(l) = Len(x) BY <1>0, ManyBytes
<1>4. (l \o x) \o u = l \o v
  <2> HIDE DEF l
  <2>1. Associates(l, x, u) BY <1>1, Assoc
  <2> QED BY <2>1 DEF Associates
<1>5. b = s \o (l \o v) BY <1>2, <1>4
<1>6. v \in Seq(Byte) /\ Len(v) = Len(x) + Len(u) BY Join
<1>7. s \o l \in Seq(Byte) /\ Len(s \o l) = Len(s) + 8
  <2> HIDE DEF l, b, v
  <2>1. s \o l \in Seq(Byte) /\ Len(s \o l) = Len(s) + Len(l) BY <1>1, Join
  <2> QED BY <1>1, <2>1
<1>8. b = (s \o l) \o v
  <2> HIDE DEF l, b, v
  <2>1. l \in Seq(Byte) /\ v \in Seq(Byte) BY <1>1, <1>6
  <2>2. Associates(s, l, v) BY <2>1, Assoc
  <2> QED BY <1>5, <2>2 DEF Associates
<1>9. Len(b) = Len(s) + 8 + (Len(x) + Len(u))
  <2> HIDE DEF l, b, v
  <2>1. Len(b) = Len(s \o l) + Len(v) BY <1>6, <1>7, <1>8, Join
  <2> QED BY <1>6, <1>7, <2>1
<1>10. DeserializeNumber(b, Len(s), 8) = [val |-> Len(x), pos |-> Len(s) + 8]
  <2> HIDE DEF v, b
  <2> QED BY <1>0, <1>3, <1>5, <1>6, NumberRead
<1>11. Copy(b, Len(s) + 8, Len(x)) = x
  <2> HIDE DEF l, b, v
  <2>1. Copy((s \o l) \o (x \o u), Len(s \o l), Len(x)) = x BY <1>7, CopyPart
  <2> QED BY <1>7, <1>8, <2>1 DEF v
<1>12. DeserializeString(b, Len(s)) = [val |-> x, pos |-> Len(s) + 8 + Len(x)]
  <2> HIDE DEF l, b, v
  <2>1. (Len(s) + 8) + Len(x) <= Len(b) BY <1>0, <1>9
  <2> DEFINE z == DeserializeNumber(b, Len(s), 8)
  <2>2. z.val = Len(x) /\ z.pos = Len(s) + 8 BY <1>10
  <2>3. DeserializeString(b, Len(s))
          = [val |-> IF z.pos + z.val <= Len(b) THEN Copy(b, z.pos, z.val) ELSE <<>>,
             pos |-> z.pos + z.val]
    BY DEF DeserializeString, SIZE_T
  <2> HIDE DEF z
  <2> QED BY <1>11, <2>1, <2>2, <2>3
<1> QED BY <1>12

(* The same at the beginning and at the end of a buffer.                   *)
LEMMA Empty ==
  /\ <<>> \in Seq(Byte) /\ Len(<<>>) = 0
  /\ \A s \in Seq(Byte) : s \o <<>> = s /\ <<>> \o s = s /\ (Len(s) = 0 <=> s = <<>>)
  BY ConcatEmptySeq

LEMMA FirstNumber ==
  ASSUME NEW u \in Seq(Byte), NEW n \in Nat, NEW k \in Nat,
         FromLittleEndian(LittleEndian(n, k)) = n
  PROVE  DeserializeNumber(LittleEndian(n, k) \o u, 0, k) = [val |-> n, pos |-> k]
<1>1. LittleEndian(n, k) \in Seq(Byte) BY LittleEndianType
<1>2. LittleEndian(n, k) \o u \in Seq(Byte) BY <1>1, Join
<1>3. <<>> \o (LittleEndian(n, k) \o u) = LittleEndian(n, k) \o u BY <1>2, Empty
<1>4. DeserializeNumber(<<>> \o (LittleEndian(n, k) \o u), Len(<<>>), k)
        = [val |-> n, pos |-> Len(<<>>) + k]
  BY NumberRead, Empty
<1>5. Len(<<>>) = 0 /\ 0 + k = k BY Empty
<1> QED BY <1>3, <1>4, <1>5

LEMMA LastNumber ==
  ASSUME NEW s \in Seq(Byte), NEW n \in Nat, NEW k \in Nat,
         FromLittleEndian(LittleEndian(n, k)) = n
  PROVE  DeserializeNumber(s \o LittleEndian(n, k), Len(s), k) = [val |-> n, pos |-> Len(s) + k]
<1> DEFINE l == LittleEndian(n, k)
<1>1. l \in Seq(Byte) BY LittleEndianType
<1>2. DeserializeNumber(s \o (l \o <<>>), Len(s), k) = [val |-> n, pos |-> Len(s) + k]
  BY NumberRead, Empty
<1> HIDE DEF l
<1>3. l \o <<>> = l BY <1>1, Empty
<1>4. DeserializeNumber(s \o l, Len(s), k) = [val |-> n, pos |-> Len(s) + k]
  BY <1>2, <1>3, Zenon
<1> QED BY <1>4 DEF l

LEMMA FirstString ==
  ASSUME NEW u \in Seq(Byte), NEW x \in Seq(Byte), Len(x) < Huge
  PROVE  DeserializeString(SerializeString(x) \o u, 0) = [val |-> x, pos |-> 8 + Len(x)]
<1>1. SerializeString(x) \in Seq(Byte) BY StringBytes
<1>2. SerializeString(x) \o u \in Seq(Byte) BY <1>1, Join
<1>3. <<>> \o (SerializeString(x) \o u) = SerializeString(x) \o u BY <1>2, Empty
<1>4. DeserializeString(<<>> \o (SerializeString(x) \o u), Len(<<>>))
        = [val |-> x, pos |-> Len(<<>>) + 8 + Len(x)]
  BY StringRead, Empty
<1>5. Len(<<>>) = 0 /\ 0 + 8 + Len(x) = 8 + Len(x) BY Empty, Length
<1> QED BY <1>3, <1>4, <1>5

-----------------------------------------------------------------------------
(* Requests and replies are read as they were meant.                       *)

RequestMeans(x, n) ==
  LET b == Request(x, n) IN
  /\ b \in Seq(Byte) /\ Len(b) = 9 + Len(x)
  /\ DeserializeString(b, 0) = [val |-> x, pos |-> 8 + Len(x)]
  /\ DeserializeNumber(b, 8 + Len(x), ArgsSize) = [val |-> n, pos |-> 9 + Len(x)]

LEMMA RequestRead ==
  ASSUME NEW x \in Seq(Byte), Len(x) < Huge, NEW n \in Byte
  PROVE  RequestMeans(x, n)
<1> DEFINE s == SerializeString(x)
           l == LittleEndian(n, 1)
<1>1. n \in Nat /\ Len(x) \in Nat BY Length DEF Byte
<1>2. s \in Seq(Byte) /\ Len(s) = 8 + Len(x) BY StringBytes
<1>3. l \in Seq(Byte) /\ Len(l) = 1 BY <1>1, LittleEndianType
<1>4. FromLittleEndian(l) = n BY OneByte
<1>5. DeserializeString(s \o l, 0) = [val |-> x, pos |-> 8 + Len(x)] BY <1>3, FirstString
<1>6. DeserializeNumber(s \o l, Len(s), 1) = [val |-> n, pos |-> Len(s) + 1]
  <2> HIDE DEF s
  <2> QED BY <1>1, <1>2, <1>4, LastNumber
<1>7. s \o l \in Seq(Byte) /\ Len(s \o l) = Len(s) + Len(l)
  <2> HIDE DEF s, l
  <2> QED BY <1>2, <1>3, Join
<1>8. Request(x, n) = s \o l BY DEF Request, ArgsSize
<1> HIDE DEF s, l
<1>9. (8 + Len(x)) + 1 = 9 + Len(x) BY <1>1
<1> QED BY <1>2, <1>3, <1>5, <1>6, <1>7, <1>8, <1>9 DEF RequestMeans, ArgsSize

LEMMA UnboundRead ==
  ASSUME NEW x \in Seq(Byte), Len(x) < Huge, NEW r \in Response(ReplyUnbound(x))
  PROVE  r.code = RPC_ERR_FUNCTION_NOT_FOUND
<1> DEFINE s == SerializeString(x)
           l == LittleEndian(1, 2)
           b == ReplyUnbound(x)
           code == DeserializeNumber(b, 0, CodeSize)
<1>1. s \in Seq(Byte) /\ Len(s) = 8 + Len(x) BY StringBytes
<1>2. l \in Seq(Byte) /\ Len(l) = 2 BY LittleEndianType
<1>3. FromLittleEndian(l) = 1 BY TwoBytes
<1>4. b = l \o s BY DEF ReplyUnbound, RPC_ERR_FUNCTION_NOT_FOUND, CodeSize
<1>5. Len(b) = 10 + Len(x)
  <2> HIDE DEF s, l, b
  <2>1. Len(l \o s) = Len(l) + Len(s) BY <1>1, <1>2, Join
  <2> QED BY <1>1, <1>2, <1>4, <2>1, Length
<1>6. code = [val |-> 1, pos |-> 2]
  <2> HIDE DEF s, b
  <2> QED BY <1>1, <1>3, <1>4, FirstNumber DEF CodeSize
<1>7. r.code \in (IF code.pos <= Len(b) THEN {code.val} ELSE Junk) BY DEF Response
<1> HIDE DEF s, l, b, code
<1>8. 2 <= Len(b) BY <1>5, Length
<1> QED BY <1>6, <1>7, <1>8 DEF RPC_ERR_FUNCTION_NOT_FOUND

LEMMA BoundRead ==
  ASSUME NEW n \in Nat, n + 10 \in Byte, NEW r \in Response(ReplyBound(n))
  PROVE  r.code = RPC_SUCCECC /\ r.val = n + 10
<1> DEFINE s == SerializeString(<<>>)
           l == LittleEndian(0, 2)
           v == LittleEndian(n + 10, 1)
           b == ReplyBound(n)
           code == DeserializeNumber(b, 0, CodeSize)
           msg == DeserializeString(b, code.pos)
           val == DeserializeNumber(b, msg.pos, ValueSize)
<1>1. s \in Seq(Byte) /\ Len(s) = 8
  <2>1. SerializeString(<<>>) \in Seq(Byte) /\ Len(SerializeString(<<>>)) = 8 + Len(<<>>)
    BY StringBytes, Empty
  <2> QED BY <2>1
<1>2. l \in Seq(Byte) /\ Len(l) = 2 BY LittleEndianType
<1>3. v \in Seq(Byte) /\ Len(v) = 1
  <2>1. n + 10 \in Nat OBVIOUS
  <2>2. ASSUME NEW m \in Nat
        PROVE  LittleEndian(m, 1) \in Seq(Byte) /\ Len(LittleEndian(m, 1)) = 1
    BY LittleEndianType
  <2> QED BY <2>1, <2>2
<1>4. FromLittleEndian(l) = 0 /\ FromLittleEndian(v) = n + 10 BY TwoBytes, OneByte
<1>5. b = (l \o s) \o v BY DEF ReplyBound, RPC_SUCCECC, CodeSize, ValueSize
<1>6. /\ s \o v \in Seq(Byte)
      /\ l \o s \in Seq(Byte) /\ Len(l \o s) = 10
      /\ Len((l \o s) \o v) = 11
  <2> HIDE DEF s, l, v
  <2>1. s \o v \in Seq(Byte) BY <1>1, <1>3, Join
  <2>2. l \o s \in Seq(Byte) /\ Len(l \o s) = Len(l) + Len(s) BY <1>1, <1>2, Join
  <2>3. Len((l \o s) \o v) = Len(l \o s) + Len(v) BY <1>3, <2>2, Join
  <2> QED BY <1>1, <1>2, <1>3, <2>1, <2>2, <2>3
<1>7. b = l \o (s \o v)
  <2> HIDE DEF s, l, v, b
  <2>1. Associates(l, s, v) BY <1>1, <1>2, <1>3, Assoc
  <2> QED BY <1>5, <2>1 DEF Associates
<1>8. code = [val |-> 0, pos |-> 2]
  <2> HIDE DEF s, v, b
  <2> QED BY <1>4, <1>6, <1>7, FirstNumber DEF CodeSize
<1>9. msg.pos = 10
  <2> HIDE DEF l, v, b
  <2>1. DeserializeString(l \o (SerializeString(<<>>) \o v), Len(l))
          = [val |-> <<>>, pos |-> Len(l) + 8 + Len(<<>>)]
    <3>1. Len(<<>>) < Huge BY Empty, HugeType
    <3> QED BY <1>2, <1>3, <3>1, StringRead, Empty
  <2>2. code.pos = Len(l) /\ Len(l) + 8 + Len(<<>>) = 10 BY <1>2, <1>8, Empty
  <2> HIDE DEF code
  <2> QED BY <1>7, <2>1, <2>2
<1>10. val = [val |-> n + 10, pos |-> 11]
  <2>1. DeserializeNumber((l \o s) \o v, Len(l \o s), 1)
          = [val |-> n + 10, pos |-> Len(l \o s) + 1]
    <3> DEFINE t == l \o s
    <3> HIDE DEF t
    <3>1. t \in Seq(Byte) BY <1>6 DEF t
    <3>2. DeserializeNumber(t \o v, Len(t), 1) = [val |-> n + 10, pos |-> Len(t) + 1]
      BY <1>4, <3>1, LastNumber
    <3> QED BY <3>2 DEF t
  <2> HIDE DEF l, s, v, b, code, msg
  <2> QED BY <1>5, <1>6, <1>9, <2>1 DEF ValueSize
<1>11. /\ r.code \in (IF code.pos <= Len(b) THEN {code.val} ELSE Junk)
       /\ r.val \in (IF val.pos <= Len(b) THEN {val.val} ELSE Junk)
  BY DEF Response
<1> HIDE DEF s, l, v, b, code, msg, val
<1> QED BY <1>5, <1>6, <1>8, <1>10, <1>11 DEF RPC_SUCCECC

(* The lengths of requests and replies, and their headers.                 *)
LEMMA ReplyType ==
  ASSUME NEW x \in Seq(Byte), NEW n \in Nat
  PROVE  /\ ReplyUnbound(x) \in Seq(Byte) /\ Len(ReplyUnbound(x)) = 10 + Len(x)
         /\ ReplyBound(n) \in Seq(Byte) /\ Len(ReplyBound(n)) = 11
<1> DEFINE l(m) == LittleEndian(m, 2)
           e == SerializeString(<<>>)
           s == SerializeString(x)
           v == LittleEndian(n + 10, 1)
<1>1. \A m \in Nat : l(m) \in Seq(Byte) /\ Len(l(m)) = 2 BY LittleEndianType
<1>2. v \in Seq(Byte) /\ Len(v) = 1
  <2>1. n + 10 \in Nat OBVIOUS
  <2>2. ASSUME NEW m \in Nat
        PROVE  LittleEndian(m, 1) \in Seq(Byte) /\ Len(LittleEndian(m, 1)) = 1
    BY LittleEndianType
  <2> QED BY <2>1, <2>2
<1>3. s \in Seq(Byte) /\ Len(s) = 8 + Len(x) BY StringBytes
<1>4. e \in Seq(Byte) /\ Len(e) = 8
  <2>1. SerializeString(<<>>) \in Seq(Byte) /\ Len(SerializeString(<<>>)) = 8 + Len(<<>>)
    BY StringBytes, Empty
  <2> QED BY <2>1
<1>5. ReplyUnbound(x) = l(1) \o s BY DEF ReplyUnbound, RPC_ERR_FUNCTION_NOT_FOUND, CodeSize
<1>6. ReplyBound(n) = (l(0) \o e) \o v BY DEF ReplyBound, RPC_SUCCECC, CodeSize, ValueSize
<1> HIDE DEF l, e, s, v
<1>7. l(1) \o s \in Seq(Byte) /\ Len(l(1) \o s) = Len(l(1)) + Len(s) BY <1>1, <1>3, Join
<1>8. l(0) \o e \in Seq(Byte) /\ Len(l(0) \o e) = Len(l(0)) + Len(e) BY <1>1, <1>4, Join
<1>9. (l(0) \o e) \o v \in Seq(Byte) /\ Len((l(0) \o e) \o v) = Len(l(0) \o e) + Len(v)
  BY <1>2, <1>8, Join
<1>10. Len(l(0)) = 2 /\ Len(l(1)) = 2 BY <1>1
<1>11. Len(x) \in Nat BY Length
<1>12. Len(ReplyUnbound(x)) = 10 + Len(x)
  <2>1. Len(ReplyUnbound(x)) = 2 + (8 + Len(x)) BY <1>3, <1>5, <1>7, <1>10, Zenon
  <2> QED BY <1>11, <2>1
<1>13. Len(ReplyBound(n)) = 11
  <2>1. Len(ReplyBound(n)) = (2 + 8) + 1 BY <1>2, <1>4, <1>6, <1>8, <1>9, <1>10, Zenon
  <2> QED BY <2>1
<1> QED BY <1>5, <1>6, <1>7, <1>9, <1>12, <1>13

LEMMA HeaderRead ==
  ASSUME NEW b \in Seq(Byte), Len(b) < Huge
  PROVE  /\ Header(b) \in Seq(Byte) /\ Len(Header(b)) = 4
         /\ FromLittleEndian(Header(b)) = Len(b)
<1> DEFINE m == Len(b)
<1>1. m \in Nat /\ m < Huge BY Length
<1>2. Header(b) = LittleEndian(m, 4) BY DEF Header, HEADER_SIZE
<1> HIDE DEF m
<1>3. LittleEndian(m, 4) \in Seq(Byte) /\ Len(LittleEndian(m, 4)) = 4
  BY <1>1, LittleEndianType
<1>4. FromLittleEndian(LittleEndian(m, 4)) = m BY <1>1, ManyBytes
<1> QED BY <1>2, <1>3, <1>4 DEF m

-----------------------------------------------------------------------------
(* What reading and writing a part of a stream does.                       *)

LEMMA Parts ==
  ASSUME NEW s \in Seq(Byte), NEW k \in 0..Len(s)
  PROVE  /\ Take(s, k) \in Seq(Byte) /\ Len(Take(s, k)) = k
         /\ Drop(s, k) \in Seq(Byte) /\ Len(Drop(s, k)) = Len(s) - k
         /\ Take(s, k) \o Drop(s, k) = s
<1>1. Take(s, k) \in Seq(Byte) /\ Len(Take(s, k)) = k BY SubSeqProperties DEF Take
<1>2. Drop(s, k) \in Seq(Byte) /\ Len(Drop(s, k)) = Len(s) - k BY SubSeqProperties DEF Drop
<1>3. /\ Take(s, k) \o Drop(s, k) \in Seq(Byte)
      /\ Len(Take(s, k) \o Drop(s, k)) = Len(s)
  BY <1>1, <1>2, Join, Length
<1>4. ASSUME NEW i \in 1..Len(s) PROVE (Take(s, k) \o Drop(s, k))[i] = s[i]
  <2>1. (Take(s, k) \o Drop(s, k))[i] = IF i <= k THEN Take(s, k)[i] ELSE Drop(s, k)[i - k]
    BY <1>1, <1>2, ConcatProperties
  <2>2. CASE i <= k
    <3>1. Take(s, k)[i] = s[i] BY <2>2 DEF Take
    <3> QED BY <2>1, <2>2, <3>1
  <2>3. CASE ~(i <= k)
    <3>1. Drop(s, k)[i - k] = s[i] BY <2>3 DEF Drop
    <3> QED BY <2>1, <2>3, <3>1
  <2> QED BY <2>2, <2>3
<1>5. Take(s, k) \o Drop(s, k) = s BY <1>3, <1>4, SeqEqual
<1> QED BY <1>1, <1>2, <1>5

Regroups(s, t, u, v) == (s \o t) \o (u \o v) = s \o ((t \o u) \o v)

LEMMA Regroup ==
  ASSUME NEW s \in Seq(Byte), NEW t \in Seq(Byte), NEW u \in Seq(Byte), NEW v \in Seq(Byte)
  PROVE  Regroups(s, t, u, v)
<1> DEFINE w == u \o v
<1>1. w \in Seq(Byte) BY Join
<1>2. Associates(t, u, v) BY Assoc
<1> HIDE DEF w
<1>3. Associates(s, t, w) BY <1>1, Assoc
<1> QED BY <1>2, <1>3 DEF w, Associates, Regroups

(* What has been read, is on its way and is still to be written stays the  *)
(* same; the last read returns the rest.                                   *)
PartRead(s, t, u, k) ==
  /\ s \o Take(t, k) \in Seq(Byte) /\ Drop(t, k) \in Seq(Byte)
  /\ (s \o Take(t, k)) \o (Drop(t, k) \o u) = s \o (t \o u)
  /\ (Len(t) + Len(u)) - k = Len(Drop(t, k)) + Len(u)
  /\ k = Len(t) + Len(u) =>
       s \o Take(t, k) = s \o (t \o u) /\ Drop(t, k) = <<>> /\ u = <<>>

LEMMA ReadPart ==
  ASSUME NEW s \in Seq(Byte), NEW t \in Seq(Byte), NEW u \in Seq(Byte), NEW k \in 0..Len(t)
  PROVE  PartRead(s, t, u, k)
<1> DEFINE x == Take(t, k)
           y == Drop(t, k)
<1>1. /\ x \in Seq(Byte) /\ Len(x) = k /\ y \in Seq(Byte) /\ Len(y) = Len(t) - k
      /\ x \o y = t
  BY Parts
<1>2. Len(s) \in Nat /\ Len(t) \in Nat /\ Len(u) \in Nat BY Length
<1> HIDE DEF x, y
<1>3. s \o x \in Seq(Byte) /\ y \o u \in Seq(Byte) BY <1>1, Join
<1>4. (s \o x) \o (y \o u) = s \o (t \o u)
  <2>0. x \in Seq(Byte) /\ y \in Seq(Byte) BY <1>1
  <2>1. Regroups(s, x, y, u) BY <2>0, Regroup
  <2> QED BY <1>1, <2>1 DEF Regroups
<1>5. (Len(t) + Len(u)) - k = Len(y) + Len(u) BY <1>1, <1>2
<1>6. ASSUME k = Len(t) + Len(u) PROVE s \o x = s \o (t \o u) /\ y = <<>> /\ u = <<>>
  <2>1. Len(u) = 0 /\ Len(y) = 0 BY <1>1, <1>2, <1>6
  <2>2. u = <<>> /\ y = <<>> BY <1>1, <2>1, Empty
  <2>3. x = t /\ t \o u = t BY <1>1, <2>2, Empty
  <2> QED BY <2>2, <2>3
<1> QED BY <1>1, <1>3, <1>4, <1>5, <1>6 DEF x, y, PartRead

LEMMA WritePart ==
  ASSUME NEW t \in Seq(Byte), NEW u \in Seq(Byte), NEW k \in 0..Len(u)
  PROVE  /\ t \o Take(u, k) \in Seq(Byte) /\ Drop(u, k) \in Seq(Byte)
         /\ (t \o Take(u, k)) \o Drop(u, k) = t \o u
         /\ Len(t \o Take(u, k)) + Len(Drop(u, k)) = Len(t) + Len(u)
         /\ Len(t \o Take(u, k)) = Len(t) + k
         /\ Drop(u, k) = <<>> <=> k = Len(u)
<1> DEFINE x == Take(u, k)
           y == Drop(u, k)
<1>1. /\ x \in Seq(Byte) /\ Len(x) = k /\ y \in Seq(Byte) /\ Len(y) = Len(u) - k
      /\ x \o y = u
  BY Parts
<1>2. Len(t) \in Nat /\ Len(u) \in Nat BY Length
<1> HIDE DEF x, y
<1>3. t \o x \in Seq(Byte) /\ Len(t \o x) = Len(t) + Len(x) BY <1>1, Join
<1>4. (t \o x) \o y = t \o u
  <2>1. x \in Seq(Byte) /\ y \in Seq(Byte) BY <1>1
  <2>2. Associates(t, x, y) BY <2>1, Assoc
  <2> QED BY <1>1, <2>2 DEF Associates
<1>5. Len(t \o x) = Len(t) + k BY <1>1, <1>3, Zenon
<1>6. Len(t \o x) + Len(y) = Len(t) + Len(u)
  <2> DEFINE a == Len(t \o x)
             c == Len(y)
             d == Len(t)
             e == Len(u)
  <2>1. a = d + k /\ c = e - k /\ d \in Nat /\ e \in Nat /\ k \in Nat BY <1>1, <1>2, <1>5
  <2> HIDE DEF a, c, d, e
  <2>2. a + c = d + e BY <2>1
  <2> QED BY <2>2 DEF a, c, d, e
<1>7. y = <<>> <=> k = Len(u)
  <2>1. Len(y) = 0 <=> k = Len(u) BY <1>1, <1>2
  <2> QED BY <1>1, <2>1, Empty
<1> QED BY <1>1, <1>3, <1>4, <1>5, <1>6, <1>7 DEF x, y

LEMMA SplitUnique ==
  ASSUME NEW s \in Seq(Byte), NEW t \in Seq(Byte), NEW u \in Seq(Byte), NEW v \in Seq(Byte),
         Len(s) = Len(u), s \o t = u \o v
  PROVE  s = u /\ t = v
<1>1. Len(s) \in Nat /\ Len(t) \in Nat /\ Len(v) \in Nat BY Length
<1>2. Len(t) = Len(v)
  <2>1. Len(s \o t) = Len(s) + Len(t) /\ Len(u \o v) = Len(u) + Len(v) BY Join
  <2>2. Len(s) + Len(t) = Len(s) + Len(v) BY <2>1, Zenon
  <2> QED BY <1>1, <2>2
<1>3. ASSUME NEW i \in 1..Len(s) PROVE s[i] = u[i]
  <2>1. (s \o t)[i] = s[i] BY ConcatProperties
  <2>2. (u \o v)[i] = u[i] BY ConcatProperties
  <2> QED BY <2>1, <2>2
<1>4. ASSUME NEW i \in 1..Len(t) PROVE t[i] = v[i]
  <2> DEFINE j == Len(s) + i
  <2>0. j \in 1..Len(s) + Len(t) /\ ~(j <= Len(s)) /\ j - Len(s) = i BY <1>1
  <2> HIDE DEF j
  <2>1. (s \o t)[j] = IF j <= Len(s) THEN s[j] ELSE t[j - Len(s)]
    BY <2>0, ConcatProperties
  <2>2. (u \o v)[j] = IF j <= Len(u) THEN u[j] ELSE v[j - Len(u)]
    BY <1>2, <2>0, ConcatProperties
  <2> QED BY <2>0, <2>1, <2>2
<1>5. s = u BY <1>3, SeqEqual
<1>6. t = v BY <1>2, <1>4, SeqEqual
<1> QED BY <1>5, <1>6

LEMMA ReadHeader ==
  ASSUME NEW t \in Seq(Byte), NEW u \in Seq(Byte), NEW b \in Seq(Byte), Len(b) < Huge,
         Len(t) >= HEADER_SIZE, t \o u = Packet(b)
  PROVE  /\ FromLittleEndian(Take(t, HEADER_SIZE)) = Len(b)
         /\ Drop(t, HEADER_SIZE) \in Seq(Byte) /\ Drop(t, HEADER_SIZE) \o u = b
         /\ Len(b) = Len(Drop(t, HEADER_SIZE)) + Len(u)
<1> DEFINE x == Take(t, HEADER_SIZE)
           y == Drop(t, HEADER_SIZE)
           h == Header(b)
<1>1. /\ x \in Seq(Byte) /\ Len(x) = HEADER_SIZE /\ y \in Seq(Byte) /\ x \o y = t
  <2>1. HEADER_SIZE \in 0..Len(t) BY Length DEF HEADER_SIZE
  <2> QED BY <2>1, Parts
<1>2. h \in Seq(Byte) /\ Len(h) = HEADER_SIZE /\ FromLittleEndian(h) = Len(b)
  BY HeaderRead DEF HEADER_SIZE
<1>3. t \o u = h \o b BY DEF Packet
<1> HIDE DEF x, y, h
<1>4. y \o u \in Seq(Byte) /\ Len(y \o u) = Len(y) + Len(u) BY <1>1, Join
<1>5. x \o (y \o u) = h \o b
  <2>1. x \in Seq(Byte) /\ y \in Seq(Byte) BY <1>1
  <2>2. Associates(x, y, u) BY <2>1, Assoc
  <2> QED BY <1>1, <1>3, <2>2 DEF Associates
<1>6. x = h /\ y \o u = b BY <1>1, <1>2, <1>4, <1>5, SplitUnique
<1> QED BY <1>1, <1>2, <1>4, <1>6 DEF x, y

-----------------------------------------------------------------------------
(* Types.                                                                  *)

LEMMA ReadType ==
  ASSUME NEW b \in Seq(Byte), NEW pos \in Nat, NEW k \in Nat
  PROVE  /\ DeserializeNumber(b, pos, k).val \in Nat
         /\ DeserializeNumber(b, pos, k).pos = pos + k
         /\ DeserializeNumber(b, pos, k).pos \in Nat
         /\ DeserializeString(b, pos).val \in Seq(Byte) /\ DeserializeString(b, pos).pos \in Nat
<1>1. ASSUME NEW m \in Nat
      PROVE  /\ DeserializeNumber(b, pos, m).val \in Nat
             /\ DeserializeNumber(b, pos, m).pos = pos + m
             /\ DeserializeNumber(b, pos, m).pos \in Nat
  <2>1. FromLittleEndian(Copy(b, pos, m)) \in Nat BY CopyType, FromLittleEndianType
  <2>2. pos + m \in Nat OBVIOUS
  <2> QED BY <2>1, <2>2 DEF DeserializeNumber
<1> DEFINE z == DeserializeNumber(b, pos, 8)
<1>2. z.val \in Nat /\ z.pos \in Nat BY <1>1
<1>3. DeserializeString(b, pos)
        = [val |-> IF z.pos + z.val <= Len(b) THEN Copy(b, z.pos, z.val) ELSE <<>>,
           pos |-> z.pos + z.val]
  BY DEF DeserializeString, SIZE_T
<1> HIDE DEF z
<1>4. DeserializeString(b, pos).pos \in Nat BY <1>2, <1>3
<1>5. Copy(b, z.pos, z.val) \in Seq(Byte) BY <1>2, CopyType
<1>6. DeserializeString(b, pos).val \in Seq(Byte) BY <1>3, <1>5, Empty
<1> QED BY <1>1, <1>4, <1>6

LEMMA ResponseType ==
  ASSUME NEW b \in Seq(Byte), NEW r \in Response(b)
  PROVE  r.code \in Nat /\ r.val \in Nat
<1> DEFINE code == DeserializeNumber(b, 0, CodeSize)
           msg == DeserializeString(b, code.pos)
           val == DeserializeNumber(b, msg.pos, ValueSize)
<1>1. code.val \in Nat /\ code.pos \in Nat BY ReadType DEF CodeSize
<1>2. msg.pos \in Nat
  <2> HIDE DEF code
  <2> QED BY <1>1, ReadType DEF CodeSize
<1>3. val.val \in Nat
  <2> HIDE DEF msg
  <2> QED BY <1>2, ReadType DEF ValueSize
<1>4. /\ r.code \in (IF code.pos <= Len(b) THEN {code.val} ELSE Junk)
      /\ r.val \in (IF val.pos <= Len(b) THEN {val.val} ELSE Junk)
  BY DEF Response
<1> HIDE DEF code, msg, val
<1> QED BY <1>1, <1>3, <1>4 DEF Junk

LEMMA LeastFact ==
  ASSUME NEW m \in Nat, NEW n \in Nat
  PROVE  Least(m, n) \in Nat /\ Least(m, n) <= m /\ Least(m, n) <= n
  BY DEF Least

LEMMA RoomFact ==
  ASSUME TypeOK
  PROVE  /\ Room(up, ServerGone) \in Int /\ Room(down, ClientGone) \in Int
         /\ \A n \in Nat : Least(Room(up, ServerGone), n) > 0
              => Least(Room(up, ServerGone), n) \in 1..n
         /\ \A n \in Nat : Least(Room(down, ClientGone), n) > 0
              => Least(Room(down, ClientGone), n) \in 1..n
<1>1. Room(up, ServerGone) \in Int /\ Room(down, ClientGone) \in Int
  BY LimitsAssumption, HugeType DEF TypeOK, Room
<1>2. ASSUME NEW m \in Int, NEW n \in Nat, Least(m, n) > 0 PROVE Least(m, n) \in 1..n
  BY <1>2 DEF Least
<1> QED BY <1>1, <1>2

LEMMA NameType ==
  ASSUME NEW x \in Names
  PROVE  x \in Seq(Byte) /\ Len(x) \in Nat /\ Len(x) + 16 < Huge /\ Len(x) < Huge
<1>1. x \in Seq(Byte) BY NamesAssumption
<1>2. Len(x) \in Nat BY <1>1, Length
<1> QED BY <1>1, <1>2, NamesAssumption, HugeType

LEMMA CallImplType ==
  ASSUME TypeOK, NEW b \in Seq(Byte), CallImpl(b)
  PROVE  srv' \in ServerState /\ ran' \in Seq(Nat)
<1> DEFINE name == DeserializeString(b, 0)
           args == DeserializeNumber(b, name.pos, ArgsSize)
<1>1. name.val \in Seq(Byte) /\ name.pos \in Nat BY ReadType DEF ArgsSize
<1>2. args.val \in Nat
  <2> HIDE DEF name
  <2> QED BY <1>1, ReadType DEF ArgsSize
<1>3. \/ StartReply(ReplyBound(args.val)) /\ ran' = Append(ran, args.val)
      \/ StartReply(ReplyUnbound(name.val)) /\ ran' = ran
      \/ srv' = [srv EXCEPT !.pc = "crashed"] /\ ran' = ran
  BY DEF CallImpl
<1> HIDE DEF name, args
<1>4. ReplyBound(args.val) \in Seq(Byte) /\ ReplyUnbound(name.val) \in Seq(Byte)
  BY <1>1, <1>2, ReplyType
<1>5. ASSUME NEW body \in Seq(Byte), StartReply(body) PROVE srv' \in ServerState
  BY <1>5, Empty DEF StartReply, ServerState, TypeOK
<1>6. CASE StartReply(ReplyBound(args.val)) /\ ran' = Append(ran, args.val)
  BY <1>2, <1>4, <1>5, <1>6 DEF TypeOK
<1>7. CASE StartReply(ReplyUnbound(name.val)) /\ ran' = ran
  BY <1>4, <1>5, <1>7 DEF TypeOK
<1>8. CASE srv' = [srv EXCEPT !.pc = "crashed"] /\ ran' = ran
  BY <1>8 DEF TypeOK, ServerState
<1> QED BY <1>3, <1>6, <1>7, <1>8

LEMMA ReturnType ==
  ASSUME TypeOK, NEW b \in Seq(Byte), NEW m \in Nat, Return(b, m)
  PROVE  cli' \in ClientState /\ results' \in Seq(Result)
<1>1. results \in Seq(Result) /\ cli \in ClientState BY DEF TypeOK
<1>2. ASSUME NEW e \in Nat,
             cli' = [cli EXCEPT !.pc = "idle", !.buf = <<>>, !.left = 0, !.err_code_ = e]
      PROVE  cli' \in ClientState
  BY <1>1, <1>2, Empty DEF ClientState
<1>3. ASSUME NEW r \in Result, results' = Append(results, r) PROVE results' \in Seq(Result)
  BY <1>1, <1>3
<1>4. CASE b = <<>>
  <2>1. [code |-> RPC_ERR_RECV_TIMEOUT, val |-> 0, missing |-> m] \in Result
    BY DEF Result, RPC_ERR_RECV_TIMEOUT
  <2> QED BY <1>2, <1>3, <1>4, <2>1 DEF Return, RPC_ERR_RECV_TIMEOUT
<1>5. CASE b # <<>>
  <2>1. PICK r \in Response(b) :
          results' = Append(results, [code |-> r.code, val |-> r.val, missing |-> m])
    BY <1>5 DEF Return
  <2>2. r.code \in Nat /\ r.val \in Nat BY ResponseType
  <2>3. [code |-> r.code, val |-> r.val, missing |-> m] \in Result BY <2>2 DEF Result
  <2>4. cli' \in ClientState BY <1>2, <1>5 DEF Return, RPC_SUCCECC
  <2> QED BY <1>3, <2>1, <2>3, <2>4
<1> QED BY <1>4, <1>5

LEMMA HeadReadsFact ==
  ASSUME NEW s \in Seq(Byte), s # <<>>, NEW k \in HeadReads(s)
  PROVE  k \in 1..4 /\ k \in 0..Len(s)
<1>1. Len(s) \in Nat /\ Len(s) # 0 BY Length, Empty
<1>2. \A n \in Nat : n # 0 => Least(n, 4) \in 1..4 /\ Least(n, 4) <= n BY DEF Least
<1>2a. Least(Len(s), 4) \in 1..4 /\ Least(Len(s), 4) <= Len(s) BY <1>1, <1>2
<1>3. k = Least(Len(s), 4) \/ k \in 1..Least(Len(s), 4) BY DEF HeadReads, HEADER_SIZE
<1> QED BY <1>1, <1>2a, <1>3

LEMMA BodyReadsFact ==
  ASSUME NEW s \in Seq(Byte), NEW m \in Nat, NEW k \in BodyReads(s, m)
  PROVE  k \in 0..Len(s) /\ k \in 1..m
<1>1. Len(s) \in Nat BY Length
<1>2. Least(Len(s), m) \in Nat /\ Least(Len(s), m) <= m /\ Least(Len(s), m) <= Len(s)
  BY <1>1 DEF Least
<1> QED BY <1>1, <1>2 DEF BodyReads

LEMMA TypeClient ==
  ASSUME TypeOK, ClientStep PROVE TypeOK'
<1> USE DEF TypeOK, ClientState
<1>1. CASE Connect
  <2>1. cli' \in ClientState
    <3>1. CASE cli' = [cli EXCEPT !.tries = @ - 1] /\ cli.tries > 0
      <4>1. cli.tries - 1 \in Nat BY <3>1
      <4> QED BY <3>1, <4>1
    <3>2. ASSUME NEW p \in {"idle", "gone", "unconnected"}, cli' = [cli EXCEPT !.pc = p]
          PROVE  cli' \in ClientState
      BY <3>2
    <3> QED BY <1>1, <3>1, <3>2 DEF Connect
  <2>2. srv' \in ServerState BY <1>1 DEF Connect, ServerState
  <2> QED BY <1>1, <2>1, <2>2 DEF Connect
<1>2. CASE ClientWrite
  <2> DEFINE k == Least(Room(up, ServerGone), Len(cli.out))
  <2>0. UNCHANGED <<down, srv, calls, results, ran, split>> BY <1>2 DEF ClientWrite
  <2>1. CASE /\ k > 0 /\ up' = Put(up, ServerGone, Take(cli.out, k))
             /\ cli' = [cli EXCEPT !.out = Drop(@, k),
                              !.pc = IF k = Len(cli.out) THEN "head" ELSE "send", !.head = 0]
    <3>0. cli.out \in Seq(Byte) /\ Len(cli.out) \in Nat BY Length
    <3>1. k \in 0..Len(cli.out) BY <2>1, <3>0, RoomFact
    <3>2. up \o Take(cli.out, k) \in Seq(Byte) /\ Drop(cli.out, k) \in Seq(Byte)
      <4> HIDE DEF k
      <4> QED BY <3>0, <3>1, WritePart
    <3> HIDE DEF k
    <3>3. up' \in Seq(Byte) BY <2>1, <3>2 DEF Put
    <3>4. cli' \in ClientState BY <2>1, <3>2
    <3> QED BY <2>0, <3>3, <3>4
  <2>2. CASE cli' = [cli EXCEPT !.pc = "gone"] /\ up' = up BY <2>0, <2>2
  <2> QED BY <1>2, <2>1, <2>2 DEF ClientWrite
<1>3. CASE ClientReadHead
  <2>0. UNCHANGED <<up, srv, calls, results, ran>> BY <1>3 DEF ClientReadHead
  <2>1. PICK k \in HeadReads(down) :
          /\ down' = Drop(down, k)
          /\ split' = (split \/ k < HEADER_SIZE)
          /\ IF cli.head + k # HEADER_SIZE
             THEN cli' = [cli EXCEPT !.head = Least(@ + k, HEADER_SIZE + 1)]
             ELSE \E n \in ReadAfresh(k) : cli' = [cli EXCEPT !.left = n, !.pc = "body"]
    BY <1>3 DEF ClientReadHead
  <2>2. k \in 1..4 /\ k \in 0..Len(down) BY <1>3, HeadReadsFact DEF ClientReadHead
  <2>3. Take(down, k) \in Seq(Byte) /\ Drop(down, k) \in Seq(Byte) BY <2>2, Parts
  <2>4. cli' \in ClientState
    <3>1. CASE cli.head + k # HEADER_SIZE
      <4>1. Least(cli.head + k, HEADER_SIZE + 1) \in Nat
        BY <2>2 DEF Least, HEADER_SIZE
      <4> QED BY <2>1, <3>1, <4>1
    <3>2. CASE cli.head + k = HEADER_SIZE
      <4>1. PICK n \in ReadAfresh(k) : cli' = [cli EXCEPT !.left = n, !.pc = "body"]
        BY <2>1, <3>2
      <4>2. n \in Nat BY <2>3, FromLittleEndianType, LeftoverAssumption DEF ReadAfresh
      <4> QED BY <4>1, <4>2
    <3> QED BY <3>1, <3>2
  <2>5. split' \in BOOLEAN BY <2>1
  <2> QED BY <2>0, <2>1, <2>3, <2>4, <2>5
<1>4. CASE ClientReadBody
  <2>0. UNCHANGED <<up, srv, calls, ran, split>> BY <1>4 DEF ClientReadBody
  <2>1. CASE /\ cli.left > 0 /\ down # <<>>
             /\ \E k \in BodyReads(down, cli.left) :
                  /\ down' = Drop(down, k)
                  /\ LET b == cli.buf \o Take(down, k) IN
                     IF k = cli.left THEN Return(b, 0)
                     ELSE cli' = [cli EXCEPT !.buf = b, !.left = @ - k] /\ UNCHANGED results
    <3>1. PICK k \in BodyReads(down, cli.left) :
            /\ down' = Drop(down, k)
            /\ IF k = cli.left THEN Return(cli.buf \o Take(down, k), 0)
               ELSE /\ cli' = [cli EXCEPT !.buf = cli.buf \o Take(down, k), !.left = @ - k]
                    /\ UNCHANGED results
      BY <2>1
    <3>2. k \in 0..Len(down) /\ k \in 1..cli.left BY BodyReadsFact
    <3>3. Take(down, k) \in Seq(Byte) /\ Drop(down, k) \in Seq(Byte) BY <3>2, Parts
    <3>4. cli.buf \o Take(down, k) \in Seq(Byte) BY <3>3, Join
    <3>5. CASE k = cli.left
      <4>1. cli' \in ClientState /\ results' \in Seq(Result) BY <3>1, <3>4, <3>5, ReturnType
      <4> QED BY <2>0, <3>1, <3>3, <4>1
    <3>6. CASE k # cli.left
      <4>1. cli.left - k \in Nat BY <3>2
      <4>2. cli' \in ClientState BY <3>1, <3>4, <3>6, <4>1
      <4> QED BY <2>0, <3>1, <3>3, <3>6, <4>2
    <3> QED BY <3>5, <3>6
  <2>2. CASE Return(cli.buf, cli.left) /\ down' = down
    <3>1. cli' \in ClientState /\ results' \in Seq(Result) BY <2>2, ReturnType
    <3> QED BY <2>0, <2>2, <3>1
  <2> QED BY <1>4, <2>1, <2>2 DEF ClientReadBody
<1>5. CASE ClientReadError BY <1>5 DEF ClientReadError
<1> QED BY <1>1, <1>2, <1>3, <1>4, <1>5 DEF ClientStep

LEMMA TypeServer ==
  ASSUME TypeOK, ServerStep PROVE TypeOK'
<1> USE DEF TypeOK
<1>1. CASE ServerReadHead
  <2>0. UNCHANGED <<down, cli, calls, results, ran>> BY <1>1 DEF ServerReadHead
  <2>1. ASSUME NEW n \in Nat, srv' = [srv EXCEPT !.left = n, !.buf = <<>>, !.pc = "body"]
        PROVE  srv' \in ServerState
    BY <2>1, Empty DEF ServerState
  <2>2. CASE up # <<>>
    <3>1. PICK k \in HeadReads(up) :
            /\ up' = Drop(up, k)
            /\ split' = (split \/ k < HEADER_SIZE)
            /\ \E n \in IF k = HEADER_SIZE THEN {FromLittleEndian(Take(up, k))} ELSE Leftovers :
                 srv' = [srv EXCEPT !.left = n, !.buf = <<>>, !.pc = "body"]
      BY <1>1, <2>2 DEF ServerReadHead
    <3>2. k \in 1..4 /\ k \in 0..Len(up) BY <2>2, HeadReadsFact
    <3>3. Take(up, k) \in Seq(Byte) /\ Drop(up, k) \in Seq(Byte) BY <3>2, Parts
    <3>4. PICK n \in IF k = HEADER_SIZE THEN {FromLittleEndian(Take(up, k))} ELSE Leftovers :
            srv' = [srv EXCEPT !.left = n, !.buf = <<>>, !.pc = "body"]
      BY <3>1
    <3>5. n \in Nat BY <3>3, FromLittleEndianType, LeftoverAssumption
    <3>6. srv' \in ServerState BY <2>1, <3>4, <3>5
    <3>7. split' \in BOOLEAN BY <3>1
    <3> QED BY <2>0, <3>1, <3>3, <3>6, <3>7
  <2>3. CASE up = <<>>
    <3>1. UNCHANGED <<up, split>> BY <1>1, <2>3 DEF ServerReadHead
    <3>2. PICK n \in Leftovers : srv' = [srv EXCEPT !.left = n, !.buf = <<>>, !.pc = "body"]
      BY <1>1, <2>3 DEF ServerReadHead
    <3>3. srv' \in ServerState BY <2>1, <3>2, LeftoverAssumption
    <3> QED BY <2>0, <3>1, <3>3
  <2> QED BY <2>2, <2>3
<1>2. CASE ServerReadBody
  <2>0. UNCHANGED <<down, cli, calls, results, split>> BY <1>2 DEF ServerReadBody
  <2>1. CASE /\ srv.left > 0 /\ up # <<>>
             /\ \E k \in BodyReads(up, srv.left) :
                  /\ up' = Drop(up, k)
                  /\ LET b == srv.buf \o Take(up, k) IN
                     IF k = srv.left THEN CallImpl(b)
                     ELSE srv' = [srv EXCEPT !.buf = b, !.left = @ - k] /\ UNCHANGED ran
    <3>0. srv.buf \in Seq(Byte) /\ srv.left \in Nat BY DEF ServerState
    <3>1. PICK k \in BodyReads(up, srv.left) :
            /\ up' = Drop(up, k)
            /\ IF k = srv.left THEN CallImpl(srv.buf \o Take(up, k))
               ELSE /\ srv' = [srv EXCEPT !.buf = srv.buf \o Take(up, k), !.left = @ - k]
                    /\ UNCHANGED ran
      BY <2>1
    <3>2. k \in 0..Len(up) /\ k \in 1..srv.left BY <3>0, BodyReadsFact
    <3>3. Take(up, k) \in Seq(Byte) /\ Drop(up, k) \in Seq(Byte) BY <3>2, Parts
    <3>4. srv.buf \o Take(up, k) \in Seq(Byte) BY <3>0, <3>3, Join
    <3>5. CASE k = srv.left
      <4>1. srv' \in ServerState /\ ran' \in Seq(Nat) BY <3>1, <3>4, <3>5, CallImplType
      <4> QED BY <2>0, <3>1, <3>3, <4>1
    <3>6. CASE k # srv.left
      <4>1. srv.left - k \in Nat BY <3>0, <3>2
      <4>2. srv' \in ServerState BY <3>1, <3>4, <3>6, <4>1 DEF ServerState
      <4> QED BY <2>0, <3>1, <3>3, <3>6, <4>2
    <3> QED BY <3>5, <3>6
  <2>2. CASE srv' = [srv EXCEPT !.pc = "closed"] /\ UNCHANGED <<up, ran>>
    BY <2>0, <2>2 DEF ServerState
  <2>3. CASE CallImpl(srv.buf) /\ up' = up
    <3>1. srv.buf \in Seq(Byte) BY DEF ServerState
    <3>2. srv' \in ServerState /\ ran' \in Seq(Nat) BY <2>3, <3>1, CallImplType
    <3> QED BY <2>0, <2>3, <3>2
  <2> QED BY <1>2, <2>1, <2>2, <2>3 DEF ServerReadBody
<1>3. CASE ServerWrite
  <2> DEFINE data == IF srv.pc = "sendhead" THEN Header(srv.out) ELSE srv.out
             k    == Least(Room(down, ClientGone), Len(data))
  <2>0. UNCHANGED <<up, cli, calls, results, ran, split>> BY <1>3 DEF ServerWrite
  <2>1. srv.out \in Seq(Byte) BY DEF ServerState
  <2>2. data \in Seq(Byte)
    <3>1. Len(srv.out) \in Nat BY <2>1, Length
    <3>2. Header(srv.out) \in Seq(Byte) BY <3>1, LittleEndianType DEF Header, HEADER_SIZE
    <3> QED BY <2>1, <3>2
  <2>3. CASE /\ k > 0
             /\ down' = Put(down, ClientGone, Take(data, k))
             /\ srv' = IF srv.pc = "sendhead" THEN [srv EXCEPT !.pc = "send"]
                       ELSE [srv EXCEPT !.out = Drop(@, k),
                                        !.pc = IF k = Len(srv.out) THEN "head" ELSE "send"]
    <3>1. k \in 0..Len(data)
      <4> HIDE DEF data
      <4>1. Len(data) \in Nat BY <2>2, Length
      <4> QED BY <2>3, <4>1, RoomFact
    <3>2. down \o Take(data, k) \in Seq(Byte) /\ Drop(data, k) \in Seq(Byte)
      <4> HIDE DEF k, data
      <4> QED BY <2>2, <3>1, WritePart
    <3>3. down' \in Seq(Byte) BY <2>3, <3>2 DEF Put
    <3>4. srv' \in ServerState
      <4> HIDE DEF k
      <4>1. CASE srv.pc = "sendhead" BY <2>3, <4>1 DEF ServerState
      <4>2. CASE srv.pc # "sendhead"
        <5>1. Drop(srv.out, k) \in Seq(Byte) BY <3>2, <4>2
        <5> QED BY <2>3, <4>2, <5>1 DEF ServerState
      <4> QED BY <4>1, <4>2
    <3> QED BY <2>0, <3>3, <3>4
  <2>4. CASE /\ \E next \in {"crashed", IF srv.pc = "sendhead" THEN "send" ELSE "head"} :
                  srv' = [srv EXCEPT !.pc = next]
             /\ UNCHANGED down
    BY <2>0, <2>4 DEF ServerState
  <2> QED BY <1>3, <2>3, <2>4 DEF ServerWrite
<1> QED BY <1>1, <1>2, <1>3 DEF ServerStep

LEMMA CallsType ==
  ASSUME TypeOK, NEW name \in Names, Len(calls) < CallLimit, calls' = Append(calls, name)
  PROVE  calls' \in Seq(Names) /\ Len(calls') = Len(calls) + 1 /\ Len(calls') <= CallLimit
<1>1. calls \in Seq(Names) /\ Len(calls) \in Nat BY DEF TypeOK
<1> QED BY <1>1, LimitsAssumption

LEMMA ByteNumber ==
  ASSUME TypeOK, Len(calls) < CallLimit
  PROVE  Len(calls) + 1 \in Byte
<1>1. \A m, n \in Nat : m < n /\ n + 10 \in 0..255 => m + 1 \in 0..255
  OBVIOUS
<1>2. Len(calls) \in Nat BY DEF TypeOK
<1>3. CallLimit \in Nat /\ CallLimit + 10 \in 0..255 BY LimitsAssumption DEF Byte
<1> QED BY <1>1, <1>2, <1>3 DEF Byte

LEMMA TypeStep ==
  ASSUME TypeOK, [Next]_vars PROVE TypeOK'
<1>1. CASE ClientStep BY <1>1, TypeClient
<1>2. CASE ServerStep BY <1>2, TypeServer
<1>3. ASSUME NEW name \in Names, Call(name) PROVE TypeOK'
  <2> USE DEF TypeOK
  <2> DEFINE body == Request(name, Len(calls) + 1)
             k    == Least(Room(up, ServerGone), HEADER_SIZE)
  <2>0. UNCHANGED <<down, srv, results, ran, split>> BY <1>3 DEF Call
  <2>1. calls' \in Seq(Names) /\ Len(calls') <= CallLimit BY <1>3, CallsType DEF Call
  <2>2. body \in Seq(Byte)
    <3>1. Len(calls) + 1 \in Byte BY <1>3, ByteNumber DEF Call
    <3>2. RequestMeans(name, Len(calls) + 1)
      <4> DEFINE n == Len(calls) + 1
      <4> HIDE DEF n
      <4>1. n \in Byte BY <3>1 DEF n
      <4>2. RequestMeans(name, n) BY <4>1, NameType, RequestRead
      <4> QED BY <4>2 DEF n
    <3> QED BY <3>2 DEF RequestMeans
  <2>3. CASE cli' = [cli EXCEPT !.pc = "head", !.head = 0] /\ up' = up
    BY <2>0, <2>1, <2>3 DEF ClientState
  <2>4. CASE /\ k > 0 /\ up' = Put(up, ServerGone, Take(Header(body), k))
             /\ cli' = [cli EXCEPT !.pc = "send", !.out = body]
    <3>1. Header(body) \in Seq(Byte) /\ Len(Header(body)) = 4
      <4>1. Len(body) \in Nat
        <5> HIDE DEF body
        <5> QED BY <2>2, Length
      <4> HIDE DEF body
      <4> QED BY <4>1, LittleEndianType DEF Header, HEADER_SIZE
    <3> HIDE DEF body
    <3>2. k \in 0..4
      <4>1. Least(Room(up, ServerGone), 4) > 0 BY <2>4 DEF HEADER_SIZE
      <4>2. Least(Room(up, ServerGone), 4) \in 1..4 BY <4>1, RoomFact
      <4> QED BY <4>2 DEF HEADER_SIZE
    <3> HIDE DEF k
    <3>3. up \o Take(Header(body), k) \in Seq(Byte) BY <3>1, <3>2, WritePart
    <3>4. up' \in Seq(Byte) BY <2>4, <3>3 DEF Put
    <3>5. cli' \in ClientState BY <2>2, <2>4 DEF ClientState
    <3> QED BY <2>0, <2>1, <3>4, <3>5
  <2>5. CASE cli' = [cli EXCEPT !.pc = "gone"] /\ up' = up
    BY <2>0, <2>1, <2>5 DEF ClientState
  <2> QED BY <1>3, <2>3, <2>4, <2>5 DEF Call
<1>4. ASSUME NEW name \in Names, CallUnconnected(name) PROVE TypeOK'
  <2>1. calls' \in Seq(Names) /\ Len(calls') <= CallLimit
    BY <1>4, CallsType DEF CallUnconnected
  <2> QED BY <1>4, <2>1 DEF CallUnconnected, TypeOK, ClientState
<1>5. CASE ClientLeaves BY <1>5 DEF ClientLeaves, TypeOK, ClientState
<1>6. CASE ServerCrash BY <1>6 DEF ServerCrash, TypeOK, ServerState
<1>7. CASE UNCHANGED vars BY <1>7 DEF vars, TypeOK
<1> QED BY <1>1, <1>2, <1>3, <1>4, <1>5, <1>6, <1>7 DEF Next

-----------------------------------------------------------------------------
(* What the last call's request and reply say.                             *)

LEMMA LastCall ==
  ASSUME TypeOK, calls # <<>>
  PROVE  /\ Len(calls) \in Nat /\ Len(calls) >= 1 /\ calls[Len(calls)] \in Names
         /\ Len(calls) \in Byte /\ Len(calls) + 10 \in Byte
<1>1. calls \in Seq(Names) /\ Len(calls) \in Nat /\ Len(calls) <= CallLimit BY DEF TypeOK
<1>2. Len(calls) >= 1 BY <1>1
<1>3. \A m, n \in Nat : m <= n /\ n + 10 \in 0..255 => m \in 0..255 /\ m + 10 \in 0..255
  OBVIOUS
<1>4. CallLimit \in Nat /\ CallLimit + 10 \in 0..255 BY LimitsAssumption DEF Byte
<1>5. Len(calls) \in Byte /\ Len(calls) + 10 \in Byte BY <1>1, <1>3, <1>4 DEF Byte
<1>6. calls[Len(calls)] \in Names BY <1>1, <1>2
<1> QED BY <1>1, <1>2, <1>5, <1>6

LEMMA AskedType ==
  ASSUME TypeOK, calls # <<>>
  PROVE  /\ Asked(Len(calls)) \in Seq(Byte) /\ Asked(Len(calls)) # <<>>
         /\ Len(Asked(Len(calls))) > 0 /\ Len(Asked(Len(calls))) < Huge
<1> DEFINE n == Len(calls)
           x == calls[n]
           b == Asked(n)
<1>1. n \in Byte /\ x \in Names BY LastCall
<1>2. b = Request(x, n) BY DEF Asked
<1> HIDE DEF n, x, b
<1>3. x \in Seq(Byte) /\ Len(x) \in Nat /\ Len(x) + 16 < Huge /\ Len(x) < Huge BY <1>1, NameType
<1>4. RequestMeans(x, n) BY <1>1, <1>3, RequestRead
<1>5. b \in Seq(Byte) /\ Len(b) = 9 + Len(x) BY <1>2, <1>4 DEF RequestMeans
<1>6. Len(b) > 0 /\ Len(b) < Huge BY <1>3, <1>5, HugeType
<1>7. b # <<>> BY <1>6, Empty
<1> QED BY <1>5, <1>6, <1>7 DEF n, b

LEMMA RepliedType ==
  ASSUME TypeOK, calls # <<>>
  PROVE  /\ Replied(Len(calls)) \in Seq(Byte) /\ Replied(Len(calls)) # <<>>
         /\ Len(Replied(Len(calls))) > 0 /\ Len(Replied(Len(calls))) < Huge
<1> DEFINE n == Len(calls)
           x == calls[n]
           b == Replied(n)
<1>1. n \in Nat /\ x \in Names BY LastCall
<1>2. b = IF x \in Bound THEN ReplyBound(n) ELSE ReplyUnbound(x) BY DEF Replied
<1> HIDE DEF n, x, b
<1>3. x \in Seq(Byte) /\ Len(x) \in Nat /\ Len(x) + 16 < Huge BY <1>1, NameType
<1>4. /\ ReplyUnbound(x) \in Seq(Byte) /\ Len(ReplyUnbound(x)) = 10 + Len(x)
      /\ ReplyBound(n) \in Seq(Byte) /\ Len(ReplyBound(n)) = 11
  BY <1>1, <1>3, ReplyType
<1>5. b \in Seq(Byte) /\ (Len(b) = 11 \/ Len(b) = 10 + Len(x)) BY <1>2, <1>4
<1>5a. \A m, n1, h \in Nat : n1 + 16 < h /\ (m = 11 \/ m = 10 + n1) => m > 0 /\ m < h
  OBVIOUS
<1>5b. Len(b) \in Nat BY <1>5, Length
<1>6. Len(b) > 0 /\ Len(b) < Huge BY <1>3, <1>5, <1>5a, <1>5b, HugeType
<1>7. b # <<>> BY <1>6, Empty
<1> QED BY <1>5, <1>6, <1>7 DEF n, b

LEMMA CallServes ==
  ASSUME TypeOK, calls # <<>>, CallImpl(Asked(Len(calls)))
  PROVE  /\ StartReply(Replied(Len(calls)))
         /\ ran' = IF calls[Len(calls)] \in Bound THEN Append(ran, Len(calls)) ELSE ran
<1> DEFINE n == Len(calls)
           x == calls[n]
           b == Asked(n)
<1>1. n \in Byte /\ x \in Names BY LastCall
<1>2. b = Request(x, n) /\ b # <<>> BY AskedType DEF Asked
<1>3. Replied(n) = IF x \in Bound THEN ReplyBound(n) ELSE ReplyUnbound(x) BY DEF Replied
<1>4. CallImpl(b) OBVIOUS
<1> HIDE DEF n, x, b
<1>5. x \in Seq(Byte) /\ Len(x) \in Nat /\ Len(x) < Huge BY <1>1, NameType
<1>6. RequestMeans(x, n) BY <1>1, <1>5, RequestRead
<1> DEFINE name == DeserializeString(b, 0)
           args == DeserializeNumber(b, name.pos, ArgsSize)
<1>7. name.val = x /\ name.pos = 8 + Len(x) /\ Len(b) = 9 + Len(x)
  BY <1>2, <1>6 DEF RequestMeans
<1>8. args.val = n /\ args.pos = 9 + Len(x)
  <2>1. DeserializeNumber(b, 8 + Len(x), ArgsSize) = [val |-> n, pos |-> 9 + Len(x)]
    BY <1>2, <1>6 DEF RequestMeans
  <2> HIDE DEF name
  <2> QED BY <1>7, <2>1
<1>9. \/ /\ name.pos <= Len(b) /\ name.val \in Bound /\ args.pos <= Len(b)
         /\ StartReply(ReplyBound(args.val))
         /\ ran' = Append(ran, args.val)
      \/ /\ b # <<>> /\ (name.pos > Len(b) \/ name.val \notin Bound)
         /\ StartReply(ReplyUnbound(name.val))
         /\ UNCHANGED ran
      \/ /\ name.pos > Len(b) \/ args.pos > Len(b)
         /\ srv' = [srv EXCEPT !.pc = "crashed"]
         /\ UNCHANGED ran
  BY <1>4 DEF CallImpl
<1> HIDE DEF name, args
<1>10. name.pos <= Len(b) /\ ~(name.pos > Len(b)) /\ ~(args.pos > Len(b))
  BY <1>5, <1>7, <1>8
<1>11. CASE x \in Bound BY <1>3, <1>7, <1>8, <1>9, <1>10, <1>11 DEF n, x
<1>12. CASE x \notin Bound BY <1>3, <1>7, <1>8, <1>9, <1>10, <1>12 DEF n, x
<1> QED BY <1>11, <1>12

LEMMA CallNothing ==
  ASSUME TypeOK, CallImpl(<<>>)
  PROVE  srv' = [srv EXCEPT !.pc = "crashed"] /\ ran' = ran
<1> DEFINE z == DeserializeNumber(<<>>, 0, 8)
           name == DeserializeString(<<>>, 0)
<1>0. ASSUME NEW b \in Seq(Byte)
      PROVE  DeserializeNumber(b, 0, 8).val \in Nat /\ DeserializeNumber(b, 0, 8).pos = 0 + 8
  <2>1. \A pos, k \in Nat : /\ DeserializeNumber(b, pos, k).val \in Nat
                             /\ DeserializeNumber(b, pos, k).pos = pos + k
    BY ReadType
  <2> QED BY <2>1
<1>1. z.val \in Nat /\ z.pos = 0 + 8 BY <1>0, Empty
<1>2. name.pos = z.pos + z.val BY DEF DeserializeString, SIZE_T
<1>3. ~(name.pos <= Len(<<>>))
  <2> HIDE DEF z, name
  <2> QED BY <1>1, <1>2, Empty
<1>4. ~(name.pos <= Len(<<>>)) /\ CallImpl(<<>>)
        => srv' = [srv EXCEPT !.pc = "crashed"] /\ ran' = ran
  BY DEF CallImpl
<1> HIDE DEF name
<1> QED BY <1>3, <1>4

LEMMA ResponseServes ==
  ASSUME TypeOK, calls # <<>>, NEW r \in Response(Replied(Len(calls)))
  PROVE  IF calls[Len(calls)] \in Bound
         THEN r.code = RPC_SUCCECC /\ r.val = Len(calls) + 10
         ELSE r.code = RPC_ERR_FUNCTION_NOT_FOUND
<1> DEFINE n == Len(calls)
           x == calls[n]
<1>1. n \in Nat /\ n + 10 \in Byte /\ x \in Names BY LastCall
<1>2. Replied(n) = IF x \in Bound THEN ReplyBound(n) ELSE ReplyUnbound(x) BY DEF Replied
<1>3. r \in Response(Replied(n)) OBVIOUS
<1> HIDE DEF n, x
<1>4. x \in Seq(Byte) /\ Len(x) < Huge BY <1>1, NameType
<1>5. CASE x \in Bound
  <2>1. r.code = RPC_SUCCECC /\ r.val = n + 10 BY <1>1, <1>2, <1>3, <1>5, BoundRead
  <2> QED BY <1>5, <2>1 DEF n, x
<1>6. CASE x \notin Bound
  <2>1. r.code = RPC_ERR_FUNCTION_NOT_FOUND BY <1>2, <1>3, <1>4, <1>6, UnboundRead
  <2> QED BY <1>6, <2>1 DEF n, x
<1> QED BY <1>5, <1>6

-----------------------------------------------------------------------------
(* A program that goes leaves the other one's view true.                   *)

LEMMA ClientGoes ==
  ASSUME TypeOK, Good, cli' = [cli EXCEPT !.pc = "gone"],
         UNCHANGED <<up, down, srv, calls, results, ran>>
  PROVE  Good'
<1>0. cli \in ClientState BY DEF TypeOK
<1>1. cli'.pc = "gone" /\ cli'.out = cli.out BY <1>0 DEF ClientState
<1>2. Runs' BY DEF Good, Runs
<1>3. Answers' BY DEF Good, Answers, Answered
<1>4. Nothing' BY <1>1 DEF Nothing
<1>5. ClientView' BY <1>1 DEF ClientView
<1>6. ServerView' BY <1>1 DEF Good, ServerView, ClientGone, Fresh, Executed, Asked, Replied
<1>7. Turns' BY <1>1 DEF Turns
<1> QED BY <1>2, <1>3, <1>4, <1>5, <1>6, <1>7 DEF Good

LEMMA ServerGoes ==
  ASSUME TypeOK, Good, srv.pc # "none", NEW p \in {"closed", "crashed"},
         srv' = [srv EXCEPT !.pc = p], UNCHANGED <<down, cli, calls, results, ran>>
  PROVE  Good'
<1>0. srv \in ServerState BY DEF TypeOK
<1>1. srv'.pc = p /\ srv'.out = srv.out BY <1>0 DEF ServerState
<1>2. Runs' BY DEF Good, Runs
<1>3. Answers' BY DEF Good, Answers, Answered
<1>4. Nothing' BY <1>1 DEF Nothing
<1>5. ClientView' BY <1>1 DEF Good, ClientView, InCall, Executed, Replied
<1>6. ServerView' BY <1>1 DEF ServerView
<1>7. Turns' BY <1>1 DEF Turns, ServerGone
<1> QED BY <1>2, <1>3, <1>4, <1>5, <1>6, <1>7 DEF Good

-----------------------------------------------------------------------------
(* The client's steps.                                                     *)

LEMMA ConnectKeeps ==
  ASSUME TypeOK, Good, Connect PROVE Good'
<1>0. cli \in ClientState /\ srv \in ServerState BY DEF TypeOK
<1>1. UNCHANGED <<up, down, calls, results, ran>> BY DEF Connect
<1>2. /\ srv.pc = "none" /\ calls = <<>> /\ results = <<>>
      /\ up = <<>> /\ down = <<>> /\ cli.buf = <<>>
  BY DEF Connect, Good, ClientView
<1>3. /\ cli'.buf = cli.buf
      /\ \/ cli'.pc = "idle" /\ srv'.pc = "head"
         \/ cli'.pc \in {"connect", "gone", "unconnected"} /\ srv' = srv
  BY <1>0 DEF Connect, ClientState, ServerState
<1>4. Runs' BY <1>1 DEF Good, Runs
<1>5. Answers' BY <1>1 DEF Good, Answers, Answered
<1>6. Nothing' BY <1>2, <1>3 DEF Nothing
<1>7. ClientView' BY <1>1, <1>2, <1>3 DEF ClientView
<1>8. ServerView' BY <1>1, <1>2, <1>3 DEF ServerView
<1>9. Turns' BY <1>1, <1>2, <1>3 DEF Turns
<1> QED BY <1>4, <1>5, <1>6, <1>7, <1>8, <1>9 DEF Good

(* A new call changes nothing of the earlier ones.                         *)
LEMMA CallExtends ==
  ASSUME TypeOK, Good, NEW name \in Names, calls' = Append(calls, name),
         UNCHANGED <<results, ran>>
  PROVE  /\ Runs' /\ Answers' /\ Fresh' /\ calls' # <<>>
         /\ Len(calls') = Len(calls) + 1 /\ calls'[Len(calls) + 1] = name
<1>0. calls \in Seq(Names) /\ Len(calls) \in Nat /\ ran \in Seq(Nat) /\ results \in Seq(Result)
  BY DEF TypeOK
<1>1. Len(calls') = Len(calls) + 1 /\ calls'[Len(calls) + 1] = name BY <1>0
<1>2. calls' # <<>> BY <1>0
<1>3. \A i \in 1..Len(calls) : calls'[i] = calls[i] BY <1>0
<1>4. Runs'
  <2>1. ASSUME NEW i \in 1..Len(ran)
        PROVE  /\ ran[i] \in 1..Len(calls') /\ calls'[ran[i]] \in Bound
               /\ i > 1 => ran[i - 1] < ran[i]
    <3>1. /\ ran[i] \in 1..Len(calls) /\ calls[ran[i]] \in Bound
          /\ i > 1 => ran[i - 1] < ran[i]
      BY DEF Good, Runs
    <3> QED BY <1>0, <1>1, <1>3, <3>1
  <2> QED BY <2>1 DEF Runs
<1>5. Answers'
  <2>1. Len(results) <= Len(calls) /\ \A i \in 1..Len(results) : Answered(i)
    BY DEF Good, Answers
  <2>2. ASSUME NEW i \in 1..Len(results) PROVE Answered(i)'
    <3>1. Answered(i) BY <2>1
    <3>2. i \in 1..Len(calls) BY <1>0, <2>1
    <3>3. calls'[i] = calls[i] BY <1>3, <3>2
    <3> QED BY <3>1, <3>3 DEF Answered
  <2>3. Len(results) <= Len(calls') BY <1>0, <1>1, <2>1
  <2> QED BY <2>2, <2>3 DEF Answers
<1>6. Fresh'
  <2>1. ASSUME NEW i \in 1..Len(ran) PROVE ran[i] < Len(calls')
    <3>1. ran[i] \in 1..Len(calls) BY DEF Good, Runs
    <3> QED BY <1>0, <1>1, <3>1
  <2> QED BY <2>1 DEF Fresh
<1> QED BY <1>1, <1>2, <1>4, <1>5, <1>6

LEMMA CallKeeps ==
  ASSUME TypeOK, Good, TypeOK', NEW name \in Names, Call(name) PROVE Good'
<1> DEFINE n    == Len(calls) + 1
           body == Request(name, n)
           k    == Least(Room(up, ServerGone), HEADER_SIZE)
<1>0. /\ cli \in ClientState /\ up \in Seq(Byte)
      /\ Len(calls) \in Nat /\ Len(results) \in Nat BY DEF TypeOK
<1>1. calls' = Append(calls, name) /\ UNCHANGED <<down, srv, results, ran>> BY DEF Call
<1>2. /\ Runs' /\ Answers' /\ Fresh' /\ calls' # <<>>
      /\ Len(calls') = n /\ calls'[n] = name
  BY <1>1, CallExtends
<1>3. cli.pc = "idle" BY DEF Call
<1>4. Len(results) = Len(calls) /\ down = <<>> /\ cli.buf = <<>>
  BY <1>3 DEF Good, ClientView
<1>5. srv.pc # "none" BY <1>3 DEF Good, Nothing
<1>6. ServerGone \/ (srv.pc = "head" /\ up = <<>>) BY <1>3, <1>5 DEF Good, Turns
<1>7. Asked(Len(calls))' = body
  <2>1. Asked(Len(calls))' = Request(calls'[Len(calls')], Len(calls')) BY DEF Asked
  <2> HIDE DEF n
  <2> QED BY <1>2, <2>1
<1>8. Len(results') + 1 = Len(calls') BY <1>0, <1>1, <1>2, <1>4
<1>9. Nothing' BY <1>1, <1>5 DEF Nothing
<1>10. CASE cli' = [cli EXCEPT !.pc = "head", !.head = 0] /\ up' = up
  <2>1. cli'.pc = "head" /\ cli'.head = 0 /\ cli'.buf = <<>> /\ cli'.out = cli.out
    BY <1>0, <1>4, <1>10 DEF ClientState
  <2>2. ClientView' BY <1>1, <1>2, <1>4, <1>8, <2>1 DEF ClientView, InCall
  <2>3. ServerView' BY <1>1, <1>6, <1>10 DEF ServerView, ServerGone
  <2>4. Turns' BY <1>1, <1>4, <1>6, <1>10, <2>1 DEF Turns, ServerGone
  <2> QED BY <1>2, <1>9, <2>2, <2>3, <2>4 DEF Good
<1>11. CASE /\ k > 0 /\ up' = Put(up, ServerGone, Take(Header(body), k))
            /\ cli' = [cli EXCEPT !.pc = "send", !.out = body]
  <2>1. cli'.pc = "send" /\ cli'.out = body /\ cli'.buf = <<>>
    BY <1>0, <1>4, <1>11 DEF ClientState
  <2>2. body \in Seq(Byte) /\ body # <<>> /\ Len(body) < Huge
    <3>1. n \in Byte BY ByteNumber DEF Call
    <3> HIDE DEF n
    <3>2. /\ name \in Seq(Byte) /\ Len(name) \in Nat /\ Len(name) + 16 < Huge
          /\ Len(name) < Huge
      BY NameType
    <3>3. RequestMeans(name, n) BY <3>1, <3>2, RequestRead
    <3>4. body \in Seq(Byte) /\ Len(body) = 9 + Len(name) BY <3>3 DEF RequestMeans
    <3> HIDE DEF body
    <3>5. Len(body) # 0 /\ Len(body) < Huge BY <3>2, <3>4, HugeType
    <3> QED BY <3>4, <3>5, Empty
  <2> HIDE DEF n, body
  <2>3. ClientView' BY <1>1, <1>2, <1>4, <1>8, <2>1, <2>2 DEF ClientView, InCall
  <2>4. CASE ServerGone
    <3>1. ServerView' BY <1>1, <2>4 DEF ServerView, ServerGone
    <3>2. Turns' BY <1>1, <2>4 DEF Turns, ServerGone
    <3> QED BY <1>2, <1>9, <2>3, <3>1, <3>2 DEF Good
  <2>5. CASE ~ServerGone /\ srv.pc = "head" /\ up = <<>>
    <3>1. k = 4
      <4>1. Room(up, ServerGone) = SndBuf
        BY <2>5, Empty, LimitsAssumption DEF Room
      <4> QED BY <4>1, LimitsAssumption DEF Least, HEADER_SIZE
    <3>2. Header(body) \in Seq(Byte) /\ Len(Header(body)) = 4 BY <2>2, HeaderRead
    <3>3. Take(Header(body), 4) = Header(body) BY <3>2, SubSeqFull DEF Take
    <3>4. up' = Header(body)
      <4> HIDE DEF k
      <4>1. up' = <<>> \o Header(body) BY <1>11, <2>5, <3>1, <3>3 DEF Put
      <4> QED BY <3>2, <4>1, Empty
    <3>5. up' # <<>> /\ Len(up') >= HEADER_SIZE
      <4>1. up' \in Seq(Byte) /\ Len(up') = 4 BY <3>2, <3>4
      <4> QED BY <4>1, Empty DEF HEADER_SIZE
    <3>6. up' \o cli'.out = Packet(Asked(Len(calls)))'
      <4>1. up' \o cli'.out = Packet(body) BY <2>1, <3>4 DEF Packet
      <4>2. Packet(Asked(Len(calls)))' = Packet(body) BY <1>7 DEF Packet, Header
      <4> QED BY <4>1, <4>2
    <3>7. ServerView' BY <1>1, <1>2, <2>5, <3>5, <3>6 DEF ServerView
    <3>8. Turns' BY <1>1, <2>1, <2>5, <3>5 DEF Turns
    <3> QED BY <1>2, <1>9, <2>3, <3>7, <3>8 DEF Good
  <2> QED BY <1>6, <2>4, <2>5
<1>12. CASE (k = 0 \/ ServerGone) /\ cli' = [cli EXCEPT !.pc = "gone"] /\ up' = up
  <2>1. cli'.pc = "gone" BY <1>0, <1>12 DEF ClientState
  <2>2. ServerGone
    <3>1. SUFFICES ASSUME ~ServerGone PROVE FALSE OBVIOUS
    <3>2. Room(up, ServerGone) = SndBuf BY <1>6, <3>1, Empty, LimitsAssumption DEF Room
    <3>3. k = 4 BY <3>2, LimitsAssumption DEF Least, HEADER_SIZE
    <3> QED BY <1>12, <3>1, <3>3
  <2>3. ClientView' BY <2>1 DEF ClientView
  <2>4. ServerView' BY <1>1, <2>2 DEF ServerView, ServerGone
  <2>5. Turns' BY <2>1 DEF Turns
  <2> QED BY <1>2, <1>9, <2>3, <2>4, <2>5 DEF Good
<1> QED BY <1>10, <1>11, <1>12 DEF Call

LEMMA CallUnconnectedKeeps ==
  ASSUME TypeOK, Good, NEW name \in Names, CallUnconnected(name) PROVE Good'
<1>0. cli \in ClientState BY DEF TypeOK
<1>1. calls' = Append(calls, name) /\ UNCHANGED <<up, down, srv, results, ran>>
  BY DEF CallUnconnected
<1>2. Runs' /\ Answers' BY <1>1, CallExtends
<1>3. cli'.pc = "gone" BY <1>0 DEF CallUnconnected, ClientState
<1>4. srv.pc = "none" BY DEF CallUnconnected, Good, ClientView
<1>5. Nothing' BY <1>3 DEF Nothing
<1>6. ClientView' BY <1>3 DEF ClientView
<1>7. ServerView' BY <1>1, <1>4 DEF ServerView
<1>8. Turns' BY <1>3 DEF Turns
<1> QED BY <1>2, <1>5, <1>6, <1>7, <1>8 DEF Good

LEMMA ClientWriteKeeps ==
  ASSUME TypeOK, Good, ClientWrite PROVE Good'
<1> DEFINE k == Least(Room(up, ServerGone), Len(cli.out))
<1>0. UNCHANGED <<down, srv, calls, results, ran>> BY DEF ClientWrite
<1>1. CASE cli' = [cli EXCEPT !.pc = "gone"] /\ up' = up BY <1>0, <1>1, ClientGoes
<1>2. CASE /\ k > 0 /\ up' = Put(up, ServerGone, Take(cli.out, k))
           /\ cli' = [cli EXCEPT !.out = Drop(@, k),
                            !.pc = IF k = Len(cli.out) THEN "head" ELSE "send", !.head = 0]
  <2>0. /\ cli \in ClientState /\ cli.out \in Seq(Byte) /\ Len(cli.out) \in Nat
        /\ up \in Seq(Byte) /\ Len(up) \in Nat
    BY Length DEF TypeOK, ClientState
  <2>1. cli.pc = "send" BY DEF ClientWrite
  <2>2. k \in 0..Len(cli.out) BY <1>2, <2>0, RoomFact
  <2> HIDE DEF k
  <2> DEFINE x == up \o Take(cli.out, k)
             y == Drop(cli.out, k)
  <2>3. /\ x \in Seq(Byte) /\ y \in Seq(Byte) /\ x \o y = up \o cli.out
        /\ Len(x) + Len(y) = Len(up) + Len(cli.out) /\ Len(x) = Len(up) + k
        /\ (y = <<>> <=> k = Len(cli.out))
    <3> DEFINE o == cli.out
    <3>1. o \in Seq(Byte) /\ k \in 0..Len(o) BY <2>0, <2>2
    <3> HIDE DEF o
    <3>2. /\ up \o Take(o, k) \in Seq(Byte) /\ Drop(o, k) \in Seq(Byte)
          /\ (up \o Take(o, k)) \o Drop(o, k) = up \o o
          /\ Len(up \o Take(o, k)) + Len(Drop(o, k)) = Len(up) + Len(o)
          /\ Len(up \o Take(o, k)) = Len(up) + k
          /\ (Drop(o, k) = <<>> <=> k = Len(o))
      BY <2>0, <3>1, WritePart
    <3> QED BY <3>2 DEF o
  <2>4. /\ cli'.out = y /\ cli'.buf = cli.buf /\ cli'.head = 0
        /\ cli'.pc = IF k = Len(cli.out) THEN "head" ELSE "send"
    BY <1>2, <2>0 DEF ClientState
  <2>4a. ~ServerGone => up' = x BY <1>2 DEF Put
  <2> HIDE DEF x, y
  <2>5. InCall /\ down = <<>> BY <2>1 DEF Good, ClientView
  <2>6. srv.pc # "none" BY <2>1 DEF Good, Nothing
  <2>7. Runs' BY <1>0 DEF Good, Runs
  <2>8. Answers' BY <1>0 DEF Good, Answers, Answered
  <2>9. Nothing' BY <1>0, <2>6 DEF Nothing
  <2>10. ClientView' BY <1>0, <2>3, <2>4, <2>5 DEF ClientView, InCall
  <2>11. CASE ServerGone
    <3>1. ServerView' BY <1>0, <2>11 DEF ServerView, ServerGone
    <3>2. Turns' BY <1>0, <2>11 DEF Turns, ServerGone
    <3> QED BY <2>7, <2>8, <2>9, <2>10, <3>1, <3>2 DEF Good
  <2>12. CASE ~ServerGone
    <3>1. srv.pc = "body" \/ (srv.pc = "head" /\ up # <<>>)
      BY <2>1, <2>6, <2>12 DEF Good, Turns
    <3>2. up' = x /\ cli'.out = y BY <2>4, <2>4a, <2>12
    <3>3. CASE srv.pc = "head" /\ up # <<>>
      <4>1. /\ calls # <<>> /\ Fresh /\ Len(up) >= HEADER_SIZE
            /\ up \o cli.out = Packet(Asked(Len(calls)))
        BY <3>3 DEF Good, ServerView
      <4>2. Len(x) >= HEADER_SIZE /\ Len(x) # 0
        BY <2>0, <2>2, <2>3, <4>1 DEF HEADER_SIZE
      <4>3. x # <<>> BY <2>3, <4>2, Empty
      <4>4. /\ calls' # <<>> /\ Fresh' /\ Len(up') >= HEADER_SIZE
            /\ up' \o cli'.out = Packet(Asked(Len(calls)))'
        BY <1>0, <2>3, <3>2, <4>1, <4>2 DEF Fresh, Packet, Header, Asked
      <4>5. ServerView' BY <1>0, <3>3, <4>4 DEF ServerView
      <4>6. Turns' BY <1>0, <2>4, <2>5, <3>2, <3>3, <4>3 DEF Turns
      <4> QED BY <2>7, <2>8, <2>9, <2>10, <4>5, <4>6 DEF Good
    <3>4. CASE srv.pc = "body"
      <4>1. /\ calls # <<>> /\ Fresh /\ srv.left > 0 /\ srv.left = Len(up) + Len(cli.out)
            /\ srv.buf \o (up \o cli.out) = Asked(Len(calls))
        BY <2>1, <3>4 DEF Good, ServerView, ClientGone
      <4>2. /\ calls' # <<>> /\ Fresh' /\ srv'.left > 0
            /\ srv'.left = Len(up') + Len(cli'.out)
            /\ srv'.buf \o (up' \o cli'.out) = Asked(Len(calls))'
        BY <1>0, <2>3, <3>2, <4>1 DEF Fresh, Asked
      <4>3. ServerView' BY <1>0, <3>4, <4>2 DEF ServerView
      <4>4. Turns' BY <1>0, <2>4, <2>5, <3>4 DEF Turns
      <4> QED BY <2>7, <2>8, <2>9, <2>10, <4>3, <4>4 DEF Good
    <3> QED BY <3>1, <3>3, <3>4
  <2> QED BY <2>11, <2>12
<1> QED BY <1>1, <1>2 DEF ClientWrite

(* A step of the client that leaves the request alone.                     *)
LEMMA ServerViewKept ==
  ASSUME TypeOK, Good, ~ClientGone, cli'.pc # "gone", cli'.out = cli.out,
         UNCHANGED <<up, srv, calls, ran>>
  PROVE  ServerView'
  BY DEF Good, ServerView, ClientGone, Fresh, Executed, Asked, Replied

LEMMA ClientReadHeadKeeps ==
  ASSUME TypeOK, Good, ClientReadHead, ~split' PROVE Good'
<1>0. /\ cli \in ClientState /\ down \in Seq(Byte) /\ srv.out \in Seq(Byte)
      /\ Len(down) \in Nat /\ Len(srv.out) \in Nat
  BY Length DEF TypeOK, ServerState
<1>1. UNCHANGED <<up, srv, calls, results, ran>> /\ cli.pc = "head" /\ down # <<>>
  BY DEF ClientReadHead
<1>2. PICK k \in HeadReads(down) :
        /\ down' = Drop(down, k)
        /\ split' = (split \/ k < HEADER_SIZE)
        /\ IF cli.head + k # HEADER_SIZE
           THEN cli' = [cli EXCEPT !.head = Least(@ + k, HEADER_SIZE + 1)]
           ELSE \E n \in ReadAfresh(k) : cli' = [cli EXCEPT !.left = n, !.pc = "body"]
  BY DEF ClientReadHead
<1>3. k \in 1..4 BY <1>0, <1>1, HeadReadsFact
<1>3a. ~(k < HEADER_SIZE) BY <1>2
<1>4. k = HEADER_SIZE BY <1>3, <1>3a DEF HEADER_SIZE
<1>5. /\ InCall /\ cli.head = 0 /\ Executed /\ Len(down) >= HEADER_SIZE
      /\ down \o srv.out = Packet(Replied(Len(calls)))
  BY <1>1 DEF Good, ClientView
<1>6. cli.head + k = HEADER_SIZE BY <1>4, <1>5 DEF HEADER_SIZE
<1>7. cli' = [cli EXCEPT !.left = FromLittleEndian(Take(down, HEADER_SIZE)), !.pc = "body"]
  BY <1>2, <1>4, <1>6 DEF ReadAfresh
<1> DEFINE b == Replied(Len(calls))
<1>8. b \in Seq(Byte) /\ Len(b) > 0 /\ Len(b) < Huge BY <1>5, RepliedType DEF InCall
<1>9. down \o srv.out = Packet(b) BY <1>5
<1> HIDE DEF b
<1> DEFINE y == Drop(down, HEADER_SIZE)
<1>10. /\ FromLittleEndian(Take(down, HEADER_SIZE)) = Len(b)
       /\ y \in Seq(Byte) /\ y \o srv.out = b /\ Len(b) = Len(y) + Len(srv.out)
  BY <1>0, <1>5, <1>8, <1>9, ReadHeader
<1>11. down' = y BY <1>2, <1>4
<1> HIDE DEF y
<1>12. /\ cli'.pc = "body" /\ cli'.left = Len(b) /\ cli'.buf = <<>> /\ cli'.out = cli.out
  BY <1>0, <1>5, <1>7, <1>10 DEF ClientState, InCall
<1>13. <<>> \o (y \o srv.out) = b BY <1>8, <1>10, Empty
<1>14. ClientView'
  <2>1. b = Replied(Len(calls))' BY <1>1 DEF b, Replied
  <2>2. calls' # <<>> /\ Len(results') + 1 = Len(calls') /\ Executed'
    BY <1>1, <1>5 DEF InCall, Executed
  <2>3. cli'.left > 0 /\ cli'.left = Len(down') + Len(srv'.out)
    BY <1>1, <1>8, <1>10, <1>11, <1>12
  <2>4. cli'.buf \o (down' \o srv'.out) = Replied(Len(calls))'
    BY <1>1, <1>11, <1>12, <1>13, <2>1
  <2> QED BY <1>12, <2>2, <2>3, <2>4 DEF ClientView
<1>15. Runs' BY <1>1 DEF Good, Runs
<1>16. Answers' BY <1>1 DEF Good, Answers, Answered
<1>17. Nothing' BY <1>1 DEF Good, Nothing
<1>18. ServerView' BY <1>1, <1>12, ServerViewKept DEF ClientGone
<1>19. Turns'
  <2>1. ~ServerGone /\ srv.pc # "none" =>
          /\ up = <<>> /\ srv.pc \in {"head", "send"} /\ (srv.pc = "send" => srv.out # <<>>)
    BY <1>1 DEF Good, Turns, ServerGone, TypeOK, ServerState
  <2> QED BY <1>1, <1>12, <2>1 DEF Turns, ServerGone
<1> QED BY <1>14, <1>15, <1>16, <1>17, <1>18, <1>19 DEF Good

(* A result is appended that answers the last call.                        *)
AnsweredBy(r) ==
  r.missing = 0 =>
    IF calls[Len(calls)] \in Bound
    THEN r.code = RPC_SUCCECC /\ r.val = Len(calls) + 10 /\ Executed
    ELSE r.code = RPC_ERR_FUNCTION_NOT_FOUND

LEMMA ResultAppended ==
  ASSUME TypeOK, Good, calls # <<>>, Len(results) + 1 = Len(calls),
         NEW r \in Result, AnsweredBy(r), results' = Append(results, r),
         UNCHANGED <<calls, ran>>
  PROVE  Answers' /\ Len(results') = Len(calls')
<1>0. results \in Seq(Result) /\ Len(results) \in Nat BY DEF TypeOK
<1>1. Len(results') = Len(results) + 1 /\ results'[Len(results) + 1] = r BY <1>0
<1>2. \A i \in 1..Len(results) : results'[i] = results[i] BY <1>0
<1>3. ASSUME NEW i \in 1..Len(results') PROVE Answered(i)'
  <2>1. CASE i \in 1..Len(results)
    <3>1. Answered(i) BY <2>1 DEF Good, Answers
    <3>2. results'[i] = results[i] BY <1>2, <2>1
    <3> QED BY <3>1, <3>2 DEF Answered
  <2>2. CASE i = Len(calls)
    <3>1. results'[i] = r BY <1>1, <2>2
    <3>2. AnsweredBy(r) OBVIOUS
    <3> QED BY <2>2, <3>1, <3>2 DEF Answered, AnsweredBy, Executed
  <2> QED BY <1>0, <1>1, <2>1, <2>2
<1>4. Len(results') = Len(calls') BY <1>1
<1>5. Len(results') <= Len(calls')
  <2>1. Len(calls) \in Nat BY DEF TypeOK
  <2> QED BY <1>4, <2>1
<1> QED BY <1>3, <1>4, <1>5 DEF Answers

(* NetCall returns: with the whole reply, or with less of it.              *)
LEMMA ReturnKeeps ==
  ASSUME TypeOK, Good, cli.pc = "body", NEW b \in Seq(Byte), NEW m \in Nat, Return(b, m),
         m = 0 => b = Replied(Len(calls)),
         UNCHANGED <<up, srv, calls, ran>>, down' = <<>>,
         ServerGone \/ srv.pc = "head"
  PROVE  Good'
<1>0. cli \in ClientState BY DEF TypeOK
<1>1. calls # <<>> /\ Len(results) + 1 = Len(calls) /\ Executed BY DEF Good, ClientView
<1>2. PICK r \in Result : results' = Append(results, r) /\ AnsweredBy(r)
  <2>1. CASE b = <<>>
    <3> DEFINE r == [code |-> RPC_ERR_RECV_TIMEOUT, val |-> 0, missing |-> m]
    <3>1. r \in Result BY DEF Result, RPC_ERR_RECV_TIMEOUT
    <3>2. results' = Append(results, r) BY <2>1 DEF Return
    <3>3. m # 0
      <4>1. Replied(Len(calls)) # <<>> BY <1>1, RepliedType
      <4> QED BY <2>1, <4>1
    <3>4. AnsweredBy(r) BY <3>3 DEF AnsweredBy
    <3> HIDE DEF r
    <3> QED BY <3>1, <3>2, <3>4
  <2>2. CASE b # <<>>
    <3>1. PICK a \in Response(b) :
            results' = Append(results, [code |-> a.code, val |-> a.val, missing |-> m])
      BY <2>2 DEF Return
    <3> DEFINE r == [code |-> a.code, val |-> a.val, missing |-> m]
    <3>2. a.code \in Nat /\ a.val \in Nat BY ResponseType
    <3>3. r \in Result BY <3>2 DEF Result
    <3>4. AnsweredBy(r)
      <4>1. SUFFICES ASSUME m = 0
                     PROVE  IF calls[Len(calls)] \in Bound
                            THEN a.code = RPC_SUCCECC /\ a.val = Len(calls) + 10
                            ELSE a.code = RPC_ERR_FUNCTION_NOT_FOUND
        BY <1>1 DEF AnsweredBy
      <4>2. a \in Response(Replied(Len(calls))) BY <4>1
      <4> QED BY <1>1, <4>2, ResponseServes
    <3>5. results' = Append(results, r) BY <3>1
    <3> HIDE DEF r
    <3> QED BY <3>3, <3>4, <3>5
  <2> QED BY <2>1, <2>2
<1>3. Answers' /\ Len(results') = Len(calls') BY <1>1, <1>2, ResultAppended
<1>4. cli'.pc = "idle" /\ cli'.buf = <<>> /\ cli'.out = cli.out
  BY <1>0 DEF Return, ClientState
<1>5. srv.pc # "none" BY DEF Good, Nothing
<1>6. Runs' BY DEF Good, Runs
<1>7. Nothing' BY <1>5 DEF Nothing
<1>8. ClientView' BY <1>3, <1>4 DEF ClientView
<1>9. ServerView' BY <1>4, ServerViewKept DEF ClientGone
<1>10. Turns'
  <2>1. ServerGone \/ up = <<>> BY <1>5 DEF Good, Turns
  <2> QED BY <1>4, <2>1 DEF Turns, ServerGone
<1> QED BY <1>3, <1>6, <1>7, <1>8, <1>9, <1>10 DEF Good

LEMMA ClientReadBodyKeeps ==
  ASSUME TypeOK, Good, ClientReadBody PROVE Good'
<1>0. /\ cli \in ClientState /\ cli.buf \in Seq(Byte) /\ cli.left \in Nat
      /\ down \in Seq(Byte) /\ srv.out \in Seq(Byte)
      /\ Len(down) \in Nat /\ Len(srv.out) \in Nat
  BY Length DEF TypeOK, ClientState, ServerState
<1>1. UNCHANGED <<up, srv, calls, ran>> /\ cli.pc = "body" BY DEF ClientReadBody
<1>2. /\ calls # <<>> /\ Len(results) + 1 = Len(calls) /\ Executed
      /\ cli.left > 0 /\ cli.left = Len(down) + Len(srv.out)
      /\ cli.buf \o (down \o srv.out) = Replied(Len(calls))
  BY <1>1 DEF Good, ClientView
<1>3. srv.pc # "none" BY <1>1 DEF Good, Nothing
<1>4. CASE /\ cli.left > 0 /\ down # <<>>
           /\ \E k \in BodyReads(down, cli.left) :
                /\ down' = Drop(down, k)
                /\ LET b == cli.buf \o Take(down, k) IN
                   IF k = cli.left THEN Return(b, 0)
                   ELSE cli' = [cli EXCEPT !.buf = b, !.left = @ - k] /\ UNCHANGED results
  <2>1. PICK k \in BodyReads(down, cli.left) :
          /\ down' = Drop(down, k)
          /\ IF k = cli.left THEN Return(cli.buf \o Take(down, k), 0)
             ELSE /\ cli' = [cli EXCEPT !.buf = cli.buf \o Take(down, k), !.left = @ - k]
                  /\ UNCHANGED results
    BY <1>4
  <2>2. k \in 0..Len(down) /\ k \in 1..cli.left BY <1>0, BodyReadsFact
  <2> DEFINE s == cli.buf
             u == srv.out
  <2>3. s \in Seq(Byte) /\ u \in Seq(Byte) /\ cli.left = Len(down) + Len(u) BY <1>0, <1>2
  <2> HIDE DEF s, u
  <2> DEFINE x == s \o Take(down, k)
             y == Drop(down, k)
  <2>4. /\ x \in Seq(Byte) /\ y \in Seq(Byte)
        /\ x \o (y \o u) = s \o (down \o u)
        /\ (Len(down) + Len(u)) - k = Len(y) + Len(u)
        /\ k = Len(down) + Len(u) =>
             x = s \o (down \o u) /\ y = <<>> /\ u = <<>>
    <3>1. /\ s \in Seq(Byte) /\ down \in Seq(Byte) /\ u \in Seq(Byte)
          /\ k \in 0..Len(down)
      BY <1>0, <2>2, <2>3
    <3>2. PartRead(s, down, u, k) BY <3>1, ReadPart
    <3> QED BY <3>2 DEF PartRead
  <2>5. x = cli.buf \o Take(down, k) /\ down' = y BY <2>1 DEF s
  <2> HIDE DEF x, y
  <2>6. CASE k = cli.left
    <3>1. Return(x, 0) BY <2>1, <2>5, <2>6
    <3>2. x = Replied(Len(calls)) /\ y = <<>> /\ srv.out = <<>>
      BY <1>2, <2>3, <2>4, <2>6 DEF s, u
    <3>3. ServerGone \/ srv.pc = "head" BY <1>1, <1>3, <3>2 DEF Good, Turns
    <3> QED BY <1>1, <2>4, <2>5, <3>1, <3>2, <3>3, ReturnKeeps
  <2>7. CASE k # cli.left
    <3>1. cli' = [cli EXCEPT !.buf = x, !.left = @ - k] /\ UNCHANGED results
      BY <2>1, <2>5, <2>7
    <3>2. /\ cli'.pc = "body" /\ cli'.buf = x /\ cli'.left = cli.left - k
          /\ cli'.out = cli.out
      BY <1>0, <1>1, <3>1 DEF ClientState
    <3>3. cli.left - k > 0 /\ cli.left - k = Len(y) + Len(u)
      <4>1. cli.left - k > 0 BY <1>0, <2>2, <2>7
      <4> QED BY <2>3, <2>4, <4>1
    <3>4. ClientView'
      <4>1. /\ calls' # <<>> /\ Len(results') + 1 = Len(calls') /\ Executed'
        BY <1>1, <1>2, <3>1 DEF Executed
      <4>2. cli'.left > 0 /\ cli'.left = Len(down') + Len(srv'.out)
        BY <1>1, <2>5, <3>2, <3>3 DEF u
      <4>3. cli'.buf \o (down' \o srv'.out) = Replied(Len(calls))'
        <5>1. x \o (y \o srv.out) = Replied(Len(calls)) BY <1>2, <2>4 DEF s, u
        <5>2. Replied(Len(calls))' = Replied(Len(calls)) BY <1>1 DEF Replied
        <5> QED BY <1>1, <2>5, <3>2, <5>1, <5>2
      <4> QED BY <3>2, <4>1, <4>2, <4>3 DEF ClientView
    <3>5. Runs' BY <1>1 DEF Good, Runs
    <3>6. Answers' BY <1>1, <3>1 DEF Good, Answers, Answered
    <3>7. Nothing' BY <1>1, <1>3 DEF Nothing
    <3>8. ServerView' BY <1>1, <3>2, ServerViewKept DEF ClientGone
    <3>9. Turns' BY <1>1, <3>2 DEF Good, Turns, ServerGone
    <3> QED BY <3>4, <3>5, <3>6, <3>7, <3>8, <3>9 DEF Good
  <2> QED BY <2>6, <2>7
<1>5. CASE /\ cli.left = 0 \/ (down = <<>> /\ ServerGone)
           /\ Return(cli.buf, cli.left) /\ down' = down
  <2>1. down = <<>> /\ ServerGone /\ cli.left # 0 BY <1>0, <1>2, <1>5
  <2> QED BY <1>0, <1>1, <1>5, <2>1, ReturnKeeps
<1> QED BY <1>4, <1>5 DEF ClientReadBody

-----------------------------------------------------------------------------
(* The server's steps.                                                     *)

(* A step of the server that leaves the reply alone.                       *)
LEMMA ClientViewKept ==
  ASSUME TypeOK, Good, srv.pc # "none", srv'.out = srv.out,
         UNCHANGED <<down, cli, calls, results, ran>>
  PROVE  ClientView'
  BY DEF Good, ClientView, InCall, Executed, Replied

LEMMA ServerReadHeadKeeps ==
  ASSUME TypeOK, Good, ServerReadHead, ~split' PROVE Good'
<1>0. /\ srv \in ServerState /\ up \in Seq(Byte) /\ cli.out \in Seq(Byte)
      /\ Len(up) \in Nat /\ Len(cli.out) \in Nat
  BY Length DEF TypeOK, ClientState
<1>1. UNCHANGED <<down, cli, calls, results, ran>> /\ srv.pc = "head" BY DEF ServerReadHead
<1>2. Runs' BY <1>1 DEF Good, Runs
<1>3. Answers' BY <1>1 DEF Good, Answers, Answered
<1>4. CASE up # <<>>
  <2>1. PICK k \in HeadReads(up) :
          /\ up' = Drop(up, k)
          /\ split' = (split \/ k < HEADER_SIZE)
          /\ \E n \in IF k = HEADER_SIZE THEN {FromLittleEndian(Take(up, k))} ELSE Leftovers :
               srv' = [srv EXCEPT !.left = n, !.buf = <<>>, !.pc = "body"]
    BY <1>4 DEF ServerReadHead
  <2>2. k \in 1..4 BY <1>0, <1>4, HeadReadsFact
  <2>3. ~(k < HEADER_SIZE) BY <2>1
  <2>4. k = HEADER_SIZE BY <2>2, <2>3 DEF HEADER_SIZE
  <2>5. srv' = [srv EXCEPT !.left = FromLittleEndian(Take(up, HEADER_SIZE)), !.buf = <<>>,
                           !.pc = "body"]
    BY <2>1, <2>4
  <2>6. /\ calls # <<>> /\ Fresh /\ Len(up) >= HEADER_SIZE
        /\ up \o cli.out = Packet(Asked(Len(calls)))
    BY <1>1, <1>4 DEF Good, ServerView
  <2> DEFINE b == Asked(Len(calls))
             o == cli.out
  <2>7. b \in Seq(Byte) /\ Len(b) > 0 /\ Len(b) < Huge BY <2>6, AskedType
  <2>8. up \o o = Packet(b) /\ o \in Seq(Byte) BY <1>0, <2>6
  <2> HIDE DEF b, o
  <2> DEFINE y == Drop(up, HEADER_SIZE)
  <2>9. /\ FromLittleEndian(Take(up, HEADER_SIZE)) = Len(b)
        /\ y \in Seq(Byte) /\ y \o o = b /\ Len(b) = Len(y) + Len(o)
    BY <1>0, <2>6, <2>7, <2>8, ReadHeader
  <2>10. up' = y BY <2>1, <2>4
  <2> HIDE DEF y
  <2>11. srv'.pc = "body" /\ srv'.left = Len(b) /\ srv'.buf = <<>> /\ srv'.out = srv.out
    BY <1>0, <2>5, <2>9 DEF ServerState
  <2>12. <<>> \o (y \o o) = b BY <2>7, <2>9, Empty
  <2>13. ServerView'
    <3>1. b = Asked(Len(calls))' BY <1>1 DEF b, Asked
    <3>2. calls' # <<>> /\ Fresh' BY <1>1, <2>6 DEF Fresh
    <3>3. srv'.left > 0 /\ srv'.left = Len(up') + Len(cli'.out)
      BY <1>1, <2>7, <2>9, <2>10, <2>11 DEF o
    <3>4. srv'.buf \o (up' \o cli'.out) = Asked(Len(calls))'
      BY <1>1, <2>10, <2>11, <2>12, <3>1 DEF o
    <3> QED BY <2>11, <3>2, <3>3, <3>4 DEF ServerView
  <2>14. ClientView' BY <1>1, <2>11, ClientViewKept
  <2>15. Nothing' BY <2>11 DEF Nothing
  <2>16. Turns'
    <3>1. /\ cli.pc # "idle" /\ cli.pc # "body" /\ (cli.pc = "head" => down = <<>>)
      BY <1>1, <1>4 DEF Good, Turns, ServerGone
    <3> QED BY <1>1, <2>11, <3>1 DEF Turns
  <2> QED BY <1>2, <1>3, <2>13, <2>14, <2>15, <2>16 DEF Good
<1>5. CASE up = <<>>
  <2>1. ClientGone /\ up' = up BY <1>5 DEF ServerReadHead
  <2>2. srv'.pc = "body" /\ srv'.buf = <<>>
    BY <1>0, <1>5 DEF ServerReadHead, ServerState
  <2>3. ServerView' BY <1>1, <1>5, <2>1, <2>2 DEF ServerView, ClientGone
  <2>4. ClientView' BY <1>1, <2>1 DEF ClientView, ClientGone
  <2>5. Nothing' BY <2>2 DEF Nothing
  <2>6. Turns' BY <1>1, <2>1 DEF Turns, ClientGone
  <2> QED BY <1>2, <1>3, <2>3, <2>4, <2>5, <2>6 DEF Good
<1> QED BY <1>4, <1>5

(* The whole request has been read: CallImpl and the start of the reply.   *)
LEMMA ServeKeeps ==
  ASSUME TypeOK, Good, srv.pc = "body", calls # <<>>, Fresh, CallImpl(Asked(Len(calls))),
         cli.out = <<>>, up' = <<>>, UNCHANGED <<down, cli, calls, results>>
  PROVE  Good'
<1> DEFINE n == Len(calls)
<1>0. srv \in ServerState /\ ran \in Seq(Nat) /\ Len(ran) \in Nat BY DEF TypeOK
<1>1. /\ StartReply(Replied(n))
      /\ ran' = IF calls[n] \in Bound THEN Append(ran, n) ELSE ran
  BY CallServes
<1>2. n \in Nat /\ n >= 1 BY LastCall
<1>3. srv'.pc = "sendhead" /\ srv'.out = Replied(n) BY <1>0, <1>1 DEF StartReply, ServerState
<1>4. Runs' /\ Executed' /\ \A i \in 1..Len(ran) : i \in 1..Len(ran') /\ ran'[i] = ran[i]
  <2>1. CASE calls[n] \in Bound
    <3>0. ran' = Append(ran, n) BY <1>1, <2>1
    <3>1. Len(ran') = Len(ran) + 1 /\ ran'[Len(ran) + 1] = n BY <1>0, <1>2, <3>0
    <3>2. \A i \in 1..Len(ran) : i \in 1..Len(ran') /\ ran'[i] = ran[i] BY <1>0, <3>0, <3>1
    <3>3. ASSUME NEW i \in 1..Len(ran')
          PROVE  /\ ran'[i] \in 1..Len(calls) /\ calls[ran'[i]] \in Bound
                 /\ i > 1 => ran'[i - 1] < ran'[i]
      <4>1. CASE i \in 1..Len(ran)
        <5>1. /\ ran[i] \in 1..Len(calls) /\ calls[ran[i]] \in Bound
              /\ i > 1 => ran[i - 1] < ran[i]
          BY <4>1 DEF Good, Runs
        <5>2. i > 1 => i - 1 \in 1..Len(ran) BY <1>0, <4>1
        <5> QED BY <3>2, <4>1, <5>1, <5>2
      <4>2. CASE i = Len(ran) + 1
        <5>1. i > 1 => i - 1 \in 1..Len(ran) BY <1>0, <4>2
        <5>2. i > 1 => ran'[i - 1] < n BY <3>2, <5>1 DEF Fresh
        <5> QED BY <1>2, <2>1, <3>1, <4>2, <5>2
      <4> QED BY <1>0, <3>1, <4>1, <4>2
    <3>4. Runs' BY <3>3 DEF Runs
    <3>5. Executed'
      <4>1. Len(ran) + 1 \in 1..Len(ran') BY <1>0, <3>1
      <4> QED BY <3>1, <4>1 DEF Executed
    <3> QED BY <3>2, <3>4, <3>5
  <2>2. CASE calls[n] \notin Bound
    <3>1. ran' = ran BY <1>1, <2>2
    <3>2. Runs' BY <3>1 DEF Good, Runs
    <3>3. Executed' BY <2>2 DEF Executed
    <3> QED BY <3>1, <3>2, <3>3
  <2> QED BY <2>1, <2>2
<1>5. Answers'
  <2>1. ASSUME NEW i \in 1..Len(results) PROVE Answered(i)'
    <3>1. Answered(i) BY DEF Good, Answers
    <3> QED BY <1>4, <3>1 DEF Answered
  <2> QED BY <2>1 DEF Good, Answers
<1>6. Nothing' BY <1>3 DEF Nothing
<1>7. cli.pc = "gone" \/ (cli.pc = "head" /\ down = <<>> /\ InCall /\ cli.head = 0)
  BY DEF Good, ClientView, Turns, ServerGone, TypeOK, ClientState
<1>8. ClientView' BY <1>7 DEF ClientView, InCall
<1>9. ServerView'
  <2>1. Replied(Len(calls))' = Replied(n) BY DEF Replied
  <2> QED BY <1>3, <1>4, <2>1 DEF ServerView
<1>10. Turns' BY <1>3, <1>7 DEF Turns
<1> QED BY <1>4, <1>5, <1>6, <1>8, <1>9, <1>10 DEF Good

LEMMA ServerReadBodyKeeps ==
  ASSUME TypeOK, Good, ServerReadBody PROVE Good'
<1>0. /\ srv \in ServerState /\ srv.buf \in Seq(Byte) /\ srv.left \in Nat
      /\ up \in Seq(Byte) /\ cli.out \in Seq(Byte)
      /\ Len(up) \in Nat /\ Len(cli.out) \in Nat
  BY Length DEF TypeOK, ClientState, ServerState
<1>1. UNCHANGED <<down, cli, calls, results>> /\ srv.pc = "body" BY DEF ServerReadBody
<1>2. CASE /\ srv.left > 0 /\ up # <<>>
           /\ \E k \in BodyReads(up, srv.left) :
                /\ up' = Drop(up, k)
                /\ LET b == srv.buf \o Take(up, k) IN
                   IF k = srv.left THEN CallImpl(b)
                   ELSE srv' = [srv EXCEPT !.buf = b, !.left = @ - k] /\ UNCHANGED ran
  <2>1. PICK k \in BodyReads(up, srv.left) :
          /\ up' = Drop(up, k)
          /\ IF k = srv.left THEN CallImpl(srv.buf \o Take(up, k))
             ELSE /\ srv' = [srv EXCEPT !.buf = srv.buf \o Take(up, k), !.left = @ - k]
                  /\ UNCHANGED ran
    BY <1>2
  <2>2. k \in 0..Len(up) /\ k \in 1..srv.left BY <1>0, BodyReadsFact
  <2>3. /\ calls # <<>> /\ Fresh /\ srv.left = Len(up) + Len(cli.out)
        /\ srv.buf \o (up \o cli.out) = Asked(Len(calls))
    BY <1>1, <1>2 DEF Good, ServerView
  <2> DEFINE s == srv.buf
             u == cli.out
  <2>4. s \in Seq(Byte) /\ u \in Seq(Byte) /\ srv.left = Len(up) + Len(u) BY <1>0, <2>3
  <2> HIDE DEF s, u
  <2> DEFINE x == s \o Take(up, k)
             y == Drop(up, k)
  <2>5. /\ x \in Seq(Byte) /\ y \in Seq(Byte)
        /\ x \o (y \o u) = s \o (up \o u)
        /\ (Len(up) + Len(u)) - k = Len(y) + Len(u)
        /\ k = Len(up) + Len(u) =>
             x = s \o (up \o u) /\ y = <<>> /\ u = <<>>
    <3>1. PartRead(s, up, u, k) BY <1>0, <2>2, <2>4, ReadPart
    <3> QED BY <3>1 DEF PartRead
  <2>6. x = srv.buf \o Take(up, k) /\ up' = y BY <2>1 DEF s
  <2> HIDE DEF x, y
  <2>7. CASE k = srv.left
    <3>1. x = Asked(Len(calls)) /\ y = <<>> /\ cli.out = <<>>
      BY <2>3, <2>4, <2>5, <2>7 DEF s, u
    <3>2. CallImpl(Asked(Len(calls))) BY <2>1, <2>6, <2>7, <3>1
    <3> QED BY <1>1, <2>3, <2>6, <3>1, <3>2, ServeKeeps
  <2>8. CASE k # srv.left
    <3>1. srv' = [srv EXCEPT !.buf = x, !.left = @ - k] /\ UNCHANGED ran
      BY <2>1, <2>6, <2>8
    <3>2. /\ srv'.pc = "body" /\ srv'.buf = x /\ srv'.left = srv.left - k
          /\ srv'.out = srv.out
      BY <1>0, <1>1, <3>1 DEF ServerState
    <3>3. srv.left - k > 0 /\ srv.left - k = Len(y) + Len(u)
      <4>1. srv.left - k > 0 BY <1>0, <2>2, <2>8
      <4> QED BY <2>4, <2>5, <4>1
    <3>4. ServerView'
      <4>1. calls' # <<>> /\ Fresh' BY <1>1, <2>3, <3>1 DEF Fresh
      <4>2. srv'.left > 0 /\ srv'.left = Len(up') + Len(cli'.out)
        BY <1>1, <2>6, <3>2, <3>3 DEF u
      <4>3. srv'.buf \o (up' \o cli'.out) = Asked(Len(calls))'
        <5>1. x \o (y \o cli.out) = Asked(Len(calls)) BY <2>3, <2>5 DEF s, u
        <5>2. Asked(Len(calls))' = Asked(Len(calls)) BY <1>1 DEF Asked
        <5> QED BY <1>1, <2>6, <3>2, <5>1, <5>2
      <4> QED BY <3>2, <4>1, <4>2, <4>3 DEF ServerView
    <3>5. Runs' BY <1>1, <3>1 DEF Good, Runs
    <3>6. Answers' BY <1>1, <3>1 DEF Good, Answers, Answered
    <3>7. Nothing' BY <3>2 DEF Nothing
    <3>8. ClientView' BY <1>1, <3>1, <3>2, ClientViewKept
    <3>9. Turns'
      <4>1. /\ cli.pc # "idle" /\ cli.pc # "body" /\ (cli.pc = "head" => down = <<>>)
        BY <1>1 DEF Good, Turns, ServerGone
      <4> QED BY <1>1, <3>2, <4>1 DEF Turns
    <3> QED BY <3>4, <3>5, <3>6, <3>7, <3>8, <3>9 DEF Good
  <2> QED BY <2>7, <2>8
<1>3. CASE srv' = [srv EXCEPT !.pc = "closed"] /\ UNCHANGED <<up, ran>>
  BY <1>1, <1>3, ServerGoes
<1>4. CASE srv.left = 0 /\ CallImpl(srv.buf) /\ up' = up
  <2>1. srv.buf = <<>> BY <1>1, <1>4 DEF Good, ServerView
  <2>2. srv' = [srv EXCEPT !.pc = "crashed"] /\ ran' = ran BY <1>4, <2>1, CallNothing
  <2> QED BY <1>1, <2>2, ServerGoes
<1> QED BY <1>2, <1>3, <1>4 DEF ServerReadBody

LEMMA ServerWriteKeeps ==
  ASSUME TypeOK, Good, ServerWrite PROVE Good'
<1> DEFINE data == IF srv.pc = "sendhead" THEN Header(srv.out) ELSE srv.out
           k    == Least(Room(down, ClientGone), Len(data))
<1>0. /\ srv \in ServerState /\ srv.out \in Seq(Byte) /\ Len(srv.out) \in Nat
      /\ down \in Seq(Byte) /\ Len(down) \in Nat
  BY Length DEF TypeOK, ServerState
<1>1. UNCHANGED <<up, cli, calls, results, ran>> /\ srv.pc \in {"sendhead", "send"}
  BY DEF ServerWrite
<1>2. up = <<>> BY <1>1 DEF Good, ServerView
<1>3. Runs' BY <1>1 DEF Good, Runs
<1>4. Answers' BY <1>1 DEF Good, Answers, Answered
<1>5. srv'.pc \in {"send", "head", "crashed"}
  BY <1>0 DEF ServerWrite, ServerState
<1>6. Nothing' BY <1>5 DEF Nothing
<1>7. ServerView' BY <1>1, <1>2, <1>5 DEF ServerView
<1>8. CASE ClientGone
  <2>1. ClientView' BY <1>1, <1>8 DEF ClientView, ClientGone
  <2>2. Turns' BY <1>1, <1>8 DEF Turns, ClientGone
  <2> QED BY <1>3, <1>4, <1>6, <1>7, <2>1, <2>2 DEF Good
<1>9. CASE ~ClientGone /\ srv.pc = "sendhead"
  <2>1. k > 0 /\ down' = down \o Take(Header(srv.out), k) /\ srv' = [srv EXCEPT !.pc = "send"]
    BY <1>9 DEF ServerWrite, Put
  <2>2. calls # <<>> /\ Executed /\ srv.out = Replied(Len(calls))
    BY <1>9 DEF Good, ServerView
  <2>3. cli.pc = "head" /\ down = <<>> /\ InCall /\ cli.head = 0
    BY <1>9 DEF Good, ClientView, Turns, ServerGone, ClientGone, TypeOK, ClientState
  <2>4. Len(srv.out) < Huge /\ srv.out # <<>> BY <2>2, RepliedType
  <2> DEFINE h == Header(srv.out)
  <2>5. h \in Seq(Byte) /\ Len(h) = 4
    <3> DEFINE o == srv.out
    <3>1. o \in Seq(Byte) /\ Len(o) < Huge BY <1>0, <2>4
    <3> HIDE DEF o
    <3>2. Header(o) \in Seq(Byte) /\ Len(Header(o)) = 4 BY <3>1, HeaderRead
    <3> QED BY <3>2 DEF o
  <2>6. k = 4
    <3>1. Len(data) = 4 BY <1>9, <2>5
    <3>2. Room(down, ClientGone) = SndBuf BY <1>9, <2>3, Empty, LimitsAssumption DEF Room
    <3> HIDE DEF data
    <3> QED BY <3>1, <3>2, LimitsAssumption DEF Least, HEADER_SIZE
  <2> HIDE DEF k, data
  <2>7. down' = h
    <3>1. Take(h, 4) = h BY <2>5, SubSeqFull DEF Take
    <3>2. down' = <<>> \o h BY <2>1, <2>3, <2>6, <3>1
    <3> QED BY <2>5, <3>2, Empty
  <2> HIDE DEF h
  <2>8. Len(down') >= HEADER_SIZE /\ down' # <<>>
    <3>1. down' \in Seq(Byte) /\ Len(down') = 4 BY <2>5, <2>7
    <3> QED BY <3>1, Empty DEF HEADER_SIZE
  <2>9. srv'.pc = "send" /\ srv'.out = srv.out BY <1>0, <2>1 DEF ServerState
  <2>10. down' \o srv'.out = Packet(Replied(Len(calls)))'
    <3>1. h \o srv.out = Packet(Replied(Len(calls))) BY <2>2 DEF h, Packet
    <3>2. Packet(Replied(Len(calls)))' = Packet(Replied(Len(calls)))
      BY <1>1 DEF Packet, Header, Replied
    <3> QED BY <2>7, <2>9, <3>1, <3>2
  <2>11. ClientView' BY <1>1, <2>2, <2>3, <2>8, <2>10 DEF ClientView, InCall, Executed
  <2>12. Turns' BY <1>1, <1>2, <2>3, <2>4, <2>8, <2>9 DEF Turns
  <2> QED BY <1>3, <1>4, <1>6, <1>7, <2>11, <2>12 DEF Good
<1>10. CASE ~ClientGone /\ srv.pc = "send"
  <2>1. data = srv.out BY <1>10
  <2>2. /\ k > 0 /\ down' = down \o Take(srv.out, k)
        /\ srv' = [srv EXCEPT !.out = Drop(@, k),
                              !.pc = IF k = Len(srv.out) THEN "head" ELSE "send"]
    BY <1>10 DEF ServerWrite, Put
  <2>3. k \in 0..Len(srv.out)
    <3>1. k = Least(Room(down, ClientGone), Len(srv.out)) BY <2>1
    <3> HIDE DEF k
    <3> QED BY <1>0, <2>2, <3>1, RoomFact
  <2> HIDE DEF k, data
  <2> DEFINE o == srv.out
  <2>4. o \in Seq(Byte) /\ k \in 0..Len(o) BY <1>0, <2>3
  <2> HIDE DEF o
  <2> DEFINE x == down \o Take(o, k)
             y == Drop(o, k)
  <2>5. /\ x \in Seq(Byte) /\ y \in Seq(Byte) /\ x \o y = down \o o
        /\ Len(x) + Len(y) = Len(down) + Len(o) /\ Len(x) = Len(down) + k
        /\ (y = <<>> <=> k = Len(o))
    <3>1. down \in Seq(Byte) BY <1>0
    <3> HIDE DEF x, y
    <3>2. /\ down \o Take(o, k) \in Seq(Byte) /\ Drop(o, k) \in Seq(Byte)
          /\ (down \o Take(o, k)) \o Drop(o, k) = down \o o
          /\ Len(down \o Take(o, k)) + Len(Drop(o, k)) = Len(down) + Len(o)
          /\ Len(down \o Take(o, k)) = Len(down) + k
          /\ (Drop(o, k) = <<>> <=> k = Len(o))
      BY <2>4, <3>1, WritePart
    <3> QED BY <3>2 DEF x, y
  <2>6. /\ down' = x /\ srv'.out = y
        /\ srv'.pc = IF k = Len(o) THEN "head" ELSE "send"
    BY <1>0, <2>2 DEF ServerState, o
  <2> HIDE DEF x, y
  <2>7. cli.pc \in {"head", "body"}
    BY <1>10 DEF Good, ClientView, Turns, ServerGone, ClientGone, TypeOK, ClientState
  <2>8. CASE cli.pc = "head"
    <3>1. down # <<>> BY <1>10, <2>8 DEF Good, Turns, ServerGone
    <3>2. /\ InCall /\ cli.head = 0 /\ Executed /\ Len(down) >= HEADER_SIZE
          /\ down \o o = Packet(Replied(Len(calls)))
      BY <2>8, <3>1 DEF Good, ClientView, o
    <3>3. Len(x) >= HEADER_SIZE /\ Len(x) # 0 BY <1>0, <2>3, <2>5, <3>2 DEF HEADER_SIZE
    <3>4. x # <<>> BY <2>5, <3>3, Empty
    <3>5. down' \o srv'.out = Packet(Replied(Len(calls)))'
      <4>1. Packet(Replied(Len(calls)))' = Packet(Replied(Len(calls)))
        BY <1>1 DEF Packet, Header, Replied
      <4> QED BY <2>5, <2>6, <3>2, <4>1
    <3>6. ClientView' BY <1>1, <2>6, <2>8, <3>2, <3>3, <3>5 DEF ClientView, InCall, Executed
    <3>7. Turns' BY <1>1, <1>2, <2>5, <2>6, <2>8, <3>4 DEF Turns
    <3> QED BY <1>3, <1>4, <1>6, <1>7, <3>6, <3>7 DEF Good
  <2>9. CASE cli.pc = "body"
    <3>1. /\ calls # <<>> /\ Len(results) + 1 = Len(calls) /\ Executed
          /\ cli.left > 0 /\ cli.left = Len(down) + Len(o)
          /\ cli.buf \o (down \o o) = Replied(Len(calls))
      BY <2>9 DEF Good, ClientView, o
    <3>2. cli'.left > 0 /\ cli'.left = Len(down') + Len(srv'.out)
      BY <1>1, <2>5, <2>6, <3>1
    <3>3. cli'.buf \o (down' \o srv'.out) = Replied(Len(calls))'
      <4>1. Replied(Len(calls))' = Replied(Len(calls)) BY <1>1 DEF Replied
      <4> QED BY <1>1, <2>5, <2>6, <3>1, <4>1
    <3>4. calls' # <<>> /\ Len(results') + 1 = Len(calls') /\ Executed'
      BY <1>1, <3>1 DEF Executed
    <3>5. ClientView' BY <1>1, <2>9, <3>2, <3>3, <3>4 DEF ClientView
    <3>6. Turns' BY <1>1, <1>2, <2>5, <2>6, <2>9 DEF Turns
    <3> QED BY <1>3, <1>4, <1>6, <1>7, <3>5, <3>6 DEF Good
  <2> QED BY <2>7, <2>8, <2>9
<1> QED BY <1>1, <1>8, <1>9, <1>10

-----------------------------------------------------------------------------
LEMMA GoodStep ==
  ASSUME TypeOK, TypeOK', ~split => Good, [Next]_vars, ~split' PROVE Good'
<1>0. ~split
  BY DEF Next, ClientStep, ServerStep, vars, Connect, ClientWrite, ClientReadHead, ClientReadBody,
         ClientReadError, ServerReadHead, ServerReadBody, ServerWrite, Call, CallUnconnected,
         ClientLeaves, ServerCrash
<1>1. Good BY <1>0
<1>2. CASE Connect BY <1>1, <1>2, ConnectKeeps
<1>3. CASE ClientWrite BY <1>1, <1>3, ClientWriteKeeps
<1>4. CASE ClientReadHead BY <1>1, <1>4, ClientReadHeadKeeps
<1>5. CASE ClientReadBody BY <1>1, <1>5, ClientReadBodyKeeps
<1>6. CASE ClientReadError BY <1>1, <1>6, ClientGoes DEF ClientReadError
<1>7. CASE ServerReadHead BY <1>1, <1>7, ServerReadHeadKeeps
<1>8. CASE ServerReadBody BY <1>1, <1>8, ServerReadBodyKeeps
<1>9. CASE ServerWrite BY <1>1, <1>9, ServerWriteKeeps
<1>10. ASSUME NEW name \in Names, Call(name) PROVE Good' BY <1>1, <1>10, CallKeeps
<1>11. ASSUME NEW name \in Names, CallUnconnected(name) PROVE Good'
  BY <1>1, <1>11, CallUnconnectedKeeps
<1>12. CASE ClientLeaves BY <1>1, <1>12, ClientGoes DEF ClientLeaves
<1>13. CASE ServerCrash BY <1>1, <1>13, ServerGoes DEF ServerCrash
<1>14. CASE UNCHANGED vars
  <2>0. UNCHANGED <<up, down, cli, srv, calls, results, ran>> BY <1>14 DEF vars
  <2>1. Runs' BY <1>1, <2>0 DEF Good, Runs
  <2>2. Answers' BY <1>1, <2>0 DEF Good, Answers, Answered
  <2>3. Nothing' BY <1>1, <2>0 DEF Good, Nothing
  <2>4. ClientView'
    BY <1>1, <2>0 DEF Good, ClientView, InCall, Executed, Packet, Header, Replied
  <2>5. ServerView'
    BY <1>1, <2>0 DEF Good, ServerView, ClientGone, Fresh, Executed, Packet, Header, Asked, Replied
  <2>6. Turns' BY <1>1, <2>0 DEF Good, Turns, ServerGone
  <2> QED BY <2>1, <2>2, <2>3, <2>4, <2>5, <2>6 DEF Good
<1> QED
  BY <1>2, <1>3, <1>4, <1>5, <1>6, <1>7, <1>8, <1>9, <1>10, <1>11, <1>12, <1>13, <1>14
  DEF Next, ClientStep, ServerStep

LEMMA InitGood == Init => Inv
<1> SUFFICES ASSUME Init PROVE Inv OBVIOUS
<1>1. TypeOK
  <2>1. cli \in ClientState
    BY LimitsAssumption, Empty DEF Init, ClientState, RPC_SUCCECC, RPC_ERR_RECV_TIMEOUT
  <2>2. srv \in ServerState BY Empty DEF Init, ServerState
  <2>3. up \in Seq(Byte) /\ down \in Seq(Byte) /\ split \in BOOLEAN BY Empty DEF Init
  <2>4. calls \in Seq(Names) /\ results \in Seq(Result) /\ ran \in Seq(Nat) /\ Len(calls) = 0
    BY DEF Init
  <2>5. Len(calls) <= CallLimit BY <2>4, LimitsAssumption
  <2> QED BY <2>1, <2>2, <2>3, <2>4, <2>5 DEF TypeOK
<1>2. /\ up = <<>> /\ down = <<>> /\ calls = <<>> /\ results = <<>> /\ ran = <<>>
      /\ cli.pc = "connect" /\ cli.buf = <<>> /\ srv.pc = "none"
  BY DEF Init
<1>3. Runs /\ Answers BY <1>2 DEF Runs, Answers
<1>4. Nothing /\ ClientView BY <1>2 DEF Nothing, ClientView
<1>5. ServerView /\ Turns BY <1>2 DEF ServerView, Turns
<1> QED BY <1>1, <1>3, <1>4, <1>5 DEF Inv, Good

LEMMA InvAnswers == Inv => AnswersMatchCalls
  BY DEF Inv, Good, Runs, Answers, Answered, AnswersMatchCalls

(* However the bodies are cut, and whichever program goes away: as long as *)
(* headers come in one piece, a bound function is run at most once for a   *)
(* call and in the order of the calls, and a reply that came whole answers *)
(* the call it is returned for (NetCall, CallImpl and the packet framing). *)
THEOREM RpcCorrect == Spec => []AnswersMatchCalls
<1>1. Inv /\ [Next]_vars => Inv'
  <2> SUFFICES ASSUME Inv, [Next]_vars PROVE Inv' OBVIOUS
  <2>1. TypeOK /\ (~split => Good) BY DEF Inv
  <2>2. TypeOK' BY <2>1, TypeStep
  <2>3. ASSUME ~split' PROVE Good' BY <2>1, <2>2, <2>3, GoodStep
  <2> QED BY <2>2, <2>3 DEF Inv
<1> QED BY <1>1, InitGood, InvAnswers, PTL DEF Spec

-----------------------------------------------------------------------------
(* TinyPBCoder: a message is a record of strings and a number.  Fits says  *)
(* that ParseTinyPB's arrays hold its strings and the NULs behind them,    *)
(* and that its packet is not longer than the length field can say.        *)
Message ==
  [msg_id : Seq(Byte), method_name : Seq(Byte), err_code : 0..Huge - 1,
   err_info : Seq(Byte), pb_data : Seq(Byte)]

Fits(m) ==
  /\ Len(MsgId(m)) < 100 /\ Len(m.method_name) < 512 /\ Len(m.err_info) < 512
  /\ PkLen(m) < Huge

LEMMA ReverseType ==
  ASSUME NEW s \in Seq(Byte)
  PROVE  /\ Reverse(s) \in Seq(Byte) /\ Len(Reverse(s)) = Len(s)
         /\ \A i \in 1..Len(s) : Reverse(s)[i] = s[(Len(s) - i) + 1]
<1>1. \A i \in 1..Len(s) : s[(Len(s) - i) + 1] \in Byte OBVIOUS
<1> QED BY <1>1 DEF Reverse

LEMMA ReverseTwice ==
  ASSUME NEW s \in Seq(Byte) PROVE Reverse(Reverse(s)) = s
<1> DEFINE r == Reverse(s)
<1>1. /\ r \in Seq(Byte) /\ Len(r) = Len(s)
      /\ \A i \in 1..Len(s) : r[i] = s[(Len(s) - i) + 1]
  BY ReverseType
<1> HIDE DEF r
<1>2. /\ Reverse(r) \in Seq(Byte) /\ Len(Reverse(r)) = Len(s)
      /\ \A i \in 1..Len(s) : Reverse(r)[i] = r[(Len(s) - i) + 1]
  BY <1>1, ReverseType
<1>3. ASSUME NEW i \in 1..Len(s) PROVE Reverse(r)[i] = s[i]
  <2> DEFINE j == (Len(s) - i) + 1
  <2>1. j \in 1..Len(s) /\ (Len(s) - j) + 1 = i BY Length
  <2>2. Reverse(r)[i] = r[j] BY <1>2
  <2> HIDE DEF j
  <2>3. r[j] = s[(Len(s) - j) + 1] BY <1>1, <2>1
  <2> QED BY <2>1, <2>2, <2>3
<1>4. Reverse(r) = s BY <1>2, <1>3, SeqEqual
<1> QED BY <1>4 DEF r

LEMMA NetType ==
  ASSUME NEW n \in Nat
  PROVE  GetNetInt32(n) \in Seq(Byte) /\ Len(GetNetInt32(n)) = 4
<1>1. LittleEndian(n, 4) \in Seq(Byte) /\ Len(LittleEndian(n, 4)) = 4 BY LittleEndianType
<1> QED BY <1>1, ReverseType DEF GetNetInt32

NetReads(s, n, u) == GetInt32ForNetByte(s \o (GetNetInt32(n) \o u), Len(s)) = n

LEMMA NetRead ==
  ASSUME NEW s \in Seq(Byte), NEW u \in Seq(Byte), NEW n \in Nat, n < Huge
  PROVE  NetReads(s, n, u)
<1> DEFINE l == LittleEndian(n, 4)
           g == GetNetInt32(n)
<1>1. l \in Seq(Byte) /\ FromLittleEndian(l) = n BY LittleEndianType, ManyBytes
<1>2. g \in Seq(Byte) /\ Len(g) = 4 BY NetType
<1>3. g = Reverse(l) BY DEF GetNetInt32
<1> HIDE DEF l, g
<1>4. Copy(s \o (g \o u), Len(s), 4) = g BY <1>2, CopyPart
<1>5. Reverse(g) = l BY <1>1, <1>3, ReverseTwice
<1>6. GetInt32ForNetByte(s \o (g \o u), Len(s)) = n BY <1>1, <1>4, <1>5 DEF GetInt32ForNetByte
<1> QED BY <1>6 DEF g, NetReads

(* A part of the buffer p \o (t \o q) is t, and the rest of it begins      *)
(* behind p \o t.                                                          *)
Piece(p, t, q, b) ==
  /\ p \o t \in Seq(Byte) /\ Len(p \o t) = Len(p) + Len(t)
  /\ t \o q \in Seq(Byte) /\ b = p \o (t \o q)

LEMMA PieceOf ==
  ASSUME NEW p \in Seq(Byte), NEW t \in Seq(Byte), NEW q \in Seq(Byte), NEW b,
         b = (p \o t) \o q
  PROVE  Piece(p, t, q, b)
<1>1. p \o t \in Seq(Byte) /\ Len(p \o t) = Len(p) + Len(t) BY Join
<1>2. t \o q \in Seq(Byte) BY Join
<1>3. Associates(p, t, q) BY Assoc
<1> QED BY <1>1, <1>2, <1>3 DEF Piece, Associates

(* The length that a buffer claims depends on its first five bytes only.   *)
LEMMA LengthField ==
  ASSUME NEW b \in Seq(Byte), NEW c \in Seq(Byte), Len(b) >= 5, Len(c) >= 5,
         \A i \in 1..5 : c[i] = b[i]
  PROVE  GetInt32ForNetByte(c, 1) = GetInt32ForNetByte(b, 1)
<1>1. Len(b) \in Nat /\ Len(c) \in Nat BY Length
<1>2. ASSUME NEW i \in 1..4
      PROVE  1 + i <= Len(b) /\ 1 + i <= Len(c) /\ c[1 + i] = b[1 + i]
  BY <1>1
<1>3. Copy(c, 1, 4) = Copy(b, 1, 4) BY <1>2 DEF Copy
<1> QED BY <1>3 DEF GetInt32ForNetByte

LEMMA RefusedLength ==
  ASSUME NEW c, Len(c) # GetInt32ForNetByte(c, 1) PROVE Decode(c) = Refused
  BY DEF Decode

(* Where Encode puts the fields id, name, info and data, their lengths, k, *)
(* the length of the whole, and e, the code.                               *)
Reads(b, id, name, e, info, data, k) ==
  /\ b \in Seq(Byte)
  /\ Len(b) = 26 + Len(id) + Len(name) + Len(info) + Len(data)
  /\ GetInt32ForNetByte(b, 1) = k
  /\ GetInt32ForNetByte(b, 5) = Len(id)
  /\ Copy(b, 9, Len(id)) = id
  /\ GetInt32ForNetByte(b, 9 + Len(id)) = Len(name)
  /\ Copy(b, 13 + Len(id), Len(name)) = name
  /\ GetInt32ForNetByte(b, 13 + Len(id) + Len(name)) = e
  /\ GetInt32ForNetByte(b, 17 + Len(id) + Len(name)) = Len(info)
  /\ Copy(b, 21 + Len(id) + Len(name), Len(info)) = info
  /\ Copy(b, 21 + Len(id) + Len(name) + Len(info), Len(data)) = data
  /\ b[1] = PB_START /\ b[Len(b)] = PB_END

Laid(id, name, e, info, data, k) ==
  <<PB_START>> \o GetNetInt32(k) \o GetNetInt32(Len(id)) \o id
    \o GetNetInt32(Len(name)) \o name \o GetNetInt32(e)
    \o GetNetInt32(Len(info)) \o info \o data \o GetNetInt32(1) \o <<PB_END>>

LEMMA Frame == <<PB_START>> \in Seq(Byte) /\ <<PB_END>> \in Seq(Byte)
  BY DEF PB_START, PB_END, Byte

LEMMA CopyPiece ==
  ASSUME NEW p \in Seq(Byte), NEW t \in Seq(Byte), NEW q \in Seq(Byte), NEW b,
         Piece(p, t, q, b)
  PROVE  Copy(b, Len(p), Len(t)) = t
  BY CopyPart DEF Piece

LEMMA NetPiece ==
  ASSUME NEW p \in Seq(Byte), NEW n \in Nat, n < Huge, NEW q \in Seq(Byte), NEW b,
         Piece(p, GetNetInt32(n), q, b)
  PROVE  GetInt32ForNetByte(b, Len(p)) = n
<1>1. NetReads(p, n, q) BY NetRead
<1> QED BY <1>1 DEF Piece, NetReads

LEMMA Layout ==
  ASSUME NEW id \in Seq(Byte), NEW name \in Seq(Byte), NEW info \in Seq(Byte),
         NEW data \in Seq(Byte), NEW e \in Nat, NEW k \in Nat,
         Len(id) < Huge, Len(name) < Huge, Len(info) < Huge, e < Huge, k < Huge
  PROVE  Reads(Laid(id, name, e, info, data, k), id, name, e, info, data, k)
<1> DEFINE N(n) == GetNetInt32(n)
           b  == Laid(id, name, e, info, data, k)
           p0 == <<PB_START>>
           p1 == p0 \o N(k)
           p2 == p1 \o N(Len(id))
           p3 == p2 \o id
           p4 == p3 \o N(Len(name))
           p5 == p4 \o name
           p6 == p5 \o N(e)
           p7 == p6 \o N(Len(info))
           p8 == p7 \o info
           p9 == p8 \o data
           p10 == p9 \o N(1)
           q10 == <<PB_END>>
           q9 == N(1) \o q10
           q8 == data \o q9
           q7 == info \o q8
           q6 == N(Len(info)) \o q7
           q5 == N(e) \o q6
           q4 == name \o q5
           q3 == N(Len(name)) \o q4
           q2 == id \o q3
           q1 == N(Len(id)) \o q2
<1>0. /\ Len(id) \in Nat /\ Len(name) \in Nat /\ Len(info) \in Nat /\ Len(data) \in Nat
      /\ 1 \in Nat
  BY Length
<1>1. \A n \in Nat : N(n) \in Seq(Byte) /\ Len(N(n)) = 4 BY NetType
<1>2. p0 \in Seq(Byte) /\ q10 \in Seq(Byte) /\ Len(p0) = 1 /\ Len(q10) = 1 BY Frame
<1>3. b = p10 \o q10 BY DEF Laid
<1> HIDE DEF N, b
<1>4. p1 \in Seq(Byte) /\ Len(p1) = 5
  <2> HIDE DEF p0
  <2>1. p1 \in Seq(Byte) /\ Len(p1) = Len(p0) + Len(N(k)) BY <1>1, <1>2, Join
  <2> HIDE DEF p1
  <2>2. Len(N(k)) = 4 BY <1>0, <1>1
  <2> QED BY <1>0, <1>2, <2>1, <2>2
<1>5. p2 \in Seq(Byte) /\ Len(p2) = 9
  <2> HIDE DEF p1
  <2>1. p2 \in Seq(Byte) /\ Len(p2) = Len(p1) + Len(N(Len(id))) BY <1>0, <1>1, <1>4, Join
  <2> HIDE DEF p2
  <2>2. Len(N(Len(id))) = 4 BY <1>0, <1>1
  <2> QED BY <1>0, <1>4, <2>1, <2>2
<1>6. p3 \in Seq(Byte) /\ Len(p3) = 9 + Len(id)
  <2> HIDE DEF p2
  <2>1. p3 \in Seq(Byte) /\ Len(p3) = Len(p2) + Len(id) BY <1>5, Join
  <2> HIDE DEF p3
  <2> QED BY <1>5, <2>1
<1>7. p4 \in Seq(Byte) /\ Len(p4) = 13 + Len(id)
  <2> HIDE DEF p3
  <2>1. p4 \in Seq(Byte) /\ Len(p4) = Len(p3) + Len(N(Len(name))) BY <1>0, <1>1, <1>6, Join
  <2> HIDE DEF p4
  <2>2. Len(N(Len(name))) = 4 BY <1>0, <1>1
  <2> QED BY <1>0, <1>6, <2>1, <2>2
<1>8. p5 \in Seq(Byte) /\ Len(p5) = 13 + Len(id) + Len(name)
  <2> HIDE DEF p4
  <2>1. p5 \in Seq(Byte) /\ Len(p5) = Len(p4) + Len(name) BY <1>7, Join
  <2> HIDE DEF p5
  <2> QED BY <1>7, <2>1
<1>9. p6 \in Seq(Byte) /\ Len(p6) = 17 + Len(id) + Len(name)
  <2> HIDE DEF p5
  <2>1. p6 \in Seq(Byte) /\ Len(p6) = Len(p5) + Len(N(e)) BY <1>1, <1>8, Join
  <2> HIDE DEF p6
  <2>2. Len(N(e)) = 4 BY <1>0, <1>1
  <2> QED BY <1>0, <1>8, <2>1, <2>2
<1>10. p7 \in Seq(Byte) /\ Len(p7) = 21 + Len(id) + Len(name)
  <2> HIDE DEF p6
  <2>1. p7 \in Seq(Byte) /\ Len(p7) = Len(p6) + Len(N(Len(info))) BY <1>0, <1>1, <1>9, Join
  <2> HIDE DEF p7
  <2>2. Len(N(Len(info))) = 4 BY <1>0, <1>1
  <2> QED BY <1>0, <1>9, <2>1, <2>2
<1>11. p8 \in Seq(Byte) /\ Len(p8) = 21 + Len(id) + Len(name) + Len(info)
  <2> HIDE DEF p7
  <2>1. p8 \in Seq(Byte) /\ Len(p8) = Len(p7) + Len(info) BY <1>10, Join
  <2> HIDE DEF p8
  <2> QED BY <1>10, <2>1
<1>12. p9 \in Seq(Byte) /\ Len(p9) = 21 + Len(id) + Len(name) + Len(info) + Len(data)
  <2> HIDE DEF p8
  <2>1. p9 \in Seq(Byte) /\ Len(p9) = Len(p8) + Len(data) BY <1>11, Join
  <2> HIDE DEF p9
  <2> QED BY <1>11, <2>1
<1>13. p10 \in Seq(Byte) /\ Len(p10) = 25 + Len(id) + Len(name) + Len(info) + Len(data)
  <2> HIDE DEF p9
  <2>1. p10 \in Seq(Byte) /\ Len(p10) = Len(p9) + Len(N(1)) BY <1>0, <1>1, <1>12, Join
  <2> HIDE DEF p10
  <2>2. Len(N(1)) = 4 BY <1>0, <1>1
  <2>3. Len(p9) \in Nat /\ Len(p10) = Len(p9) + 4 BY <1>12, <2>1, <2>2, Length
  <2> DEFINE a == Len(id)
             c == Len(name)
             d == Len(info)
             f == Len(data)
             s == Len(p9)
  <2>4. /\ a \in Nat /\ c \in Nat /\ d \in Nat /\ f \in Nat /\ s \in Nat
        /\ s = 21 + a + c + d + f
    BY <1>0, <1>12, <2>3
  <2> HIDE DEF a, c, d, f, s
  <2>5. s + 4 = 25 + a + c + d + f BY <2>4
  <2>6. Len(p10) = s + 4 BY <2>3 DEF s
  <2>7. Len(p10) = 25 + a + c + d + f BY <2>5, <2>6
  <2> QED BY <2>1, <2>7 DEF a, c, d, f
<1> HIDE DEF p0, p1, p2, p3, p4, p5, p6, p7, p8, p9, p10
<1> HIDE DEF q1, q2, q3, q4, q5, q6, q7, q8, q9, q10
<1>14. b \in Seq(Byte) /\ Len(b) = 26 + Len(id) + Len(name) + Len(info) + Len(data)
  <2>1. b \in Seq(Byte) /\ Len(b) = Len(p10) + Len(q10) BY <1>2, <1>3, <1>13, Join
  <2> QED BY <1>0, <1>2, <1>13, <2>1
<1>15. Piece(p9, N(1), q10, b) BY <1>0, <1>1, <1>2, <1>3, <1>12, PieceOf DEF p10
<1>16. q9 \in Seq(Byte) /\ b = p9 \o q9 BY <1>15 DEF Piece, q9
<1>17. Piece(p8, data, q9, b) BY <1>11, <1>16, PieceOf DEF p9
<1>18. q8 \in Seq(Byte) /\ b = p8 \o q8 BY <1>17 DEF Piece, q8
<1>19. Piece(p7, info, q8, b) BY <1>10, <1>18, PieceOf DEF p8
<1>20. q7 \in Seq(Byte) /\ b = p7 \o q7 BY <1>19 DEF Piece, q7
<1>21. Piece(p6, N(Len(info)), q7, b) BY <1>0, <1>1, <1>9, <1>20, PieceOf DEF p7
<1>22. q6 \in Seq(Byte) /\ b = p6 \o q6 BY <1>21 DEF Piece, q6
<1>23. Piece(p5, N(e), q6, b) BY <1>1, <1>8, <1>22, PieceOf DEF p6
<1>24. q5 \in Seq(Byte) /\ b = p5 \o q5 BY <1>23 DEF Piece, q5
<1>25. Piece(p4, name, q5, b) BY <1>7, <1>24, PieceOf DEF p5
<1>26. q4 \in Seq(Byte) /\ b = p4 \o q4 BY <1>25 DEF Piece, q4
<1>27. Piece(p3, N(Len(name)), q4, b) BY <1>0, <1>1, <1>6, <1>26, PieceOf DEF p4
<1>28. q3 \in Seq(Byte) /\ b = p3 \o q3 BY <1>27 DEF Piece, q3
<1>29. Piece(p2, id, q3, b) BY <1>5, <1>28, PieceOf DEF p3
<1>30. q2 \in Seq(Byte) /\ b = p2 \o q2 BY <1>29 DEF Piece, q2
<1>31. Piece(p1, N(Len(id)), q2, b) BY <1>0, <1>1, <1>4, <1>30, PieceOf DEF p2
<1>32. q1 \in Seq(Byte) /\ b = p1 \o q1 BY <1>31 DEF Piece, q1
<1>33. Piece(p0, N(k), q1, b) BY <1>1, <1>2, <1>32, PieceOf DEF p1
<1>34. GetInt32ForNetByte(b, 1) = k BY <1>2, <1>32, <1>33, NetPiece DEF N
<1>35. GetInt32ForNetByte(b, 5) = Len(id) BY <1>0, <1>4, <1>30, <1>31, NetPiece DEF N
<1>36. Copy(b, 9, Len(id)) = id BY <1>5, <1>28, <1>29, CopyPiece
<1>37. GetInt32ForNetByte(b, 9 + Len(id)) = Len(name)
  BY <1>0, <1>6, <1>26, <1>27, NetPiece DEF N
<1>38. Copy(b, 13 + Len(id), Len(name)) = name BY <1>7, <1>24, <1>25, CopyPiece
<1>39. GetInt32ForNetByte(b, 13 + Len(id) + Len(name)) = e
  BY <1>8, <1>22, <1>23, NetPiece DEF N
<1>40. GetInt32ForNetByte(b, 17 + Len(id) + Len(name)) = Len(info)
  BY <1>0, <1>9, <1>20, <1>21, NetPiece DEF N
<1>41. Copy(b, 21 + Len(id) + Len(name), Len(info)) = info BY <1>10, <1>18, <1>19, CopyPiece
<1>42. Copy(b, 21 + Len(id) + Len(name) + Len(info), Len(data)) = data
  BY <1>11, <1>16, <1>17, CopyPiece
<1>43. b[1] = PB_START
  <2>1. Piece(p0, N(k), q1, b) BY <1>33
  <2>2. N(k) \o q1 \in Seq(Byte) /\ b = p0 \o (N(k) \o q1) BY <2>1 DEF Piece
  <2>3. b[1] = p0[1] BY <1>2, <2>2, ConcatProperties
  <2> QED BY <2>3 DEF p0
<1>44. b[Len(b)] = PB_END
  <2>0. /\ Len(b) \in 1..Len(p10) + Len(q10) /\ ~(Len(b) <= Len(p10)) /\ Len(b) - Len(p10) = 1
    BY <1>0, <1>2, <1>13, <1>14
  <2>1. b[Len(b)] = IF Len(b) <= Len(p10) THEN p10[Len(b)] ELSE q10[Len(b) - Len(p10)]
    BY <1>2, <1>3, <1>13, <2>0, ConcatProperties
  <2>2. q10[1] = PB_END BY DEF q10
  <2> QED BY <2>0, <2>1, <2>2
<1>45. Reads(b, id, name, e, info, data, k)
  BY <1>14, <1>34, <1>35, <1>36, <1>37, <1>38, <1>39, <1>40, <1>41, <1>42, <1>43, <1>44 DEF Reads
<1> QED BY <1>45 DEF b

LEMMA MsgIdType ==
  ASSUME NEW m \in Message PROVE MsgId(m) \in Seq(Byte)
<1>1. DefaultMsgId \in Seq(Byte) BY DEF DefaultMsgId, Byte
<1> QED BY <1>1 DEF MsgId, Message

LEMMA EncodeReads ==
  ASSUME NEW m \in Message, PkLen(m) < Huge
  PROVE  /\ Reads(Encode(m), MsgId(m), m.method_name, m.err_code, m.err_info, m.pb_data,
                  PkLen(m))
         /\ PkLen(m) = Len(Encode(m))
<1> DEFINE id == MsgId(m)
           name == m.method_name
           info == m.err_info
           data == m.pb_data
           e == m.err_code
           k == PkLen(m)
<1>1. id \in Seq(Byte) BY MsgIdType
<1>2. /\ name \in Seq(Byte) /\ info \in Seq(Byte) /\ data \in Seq(Byte)
      /\ e \in Nat /\ e < Huge
  BY HugeType DEF Message
<1>3. k = 2 + 24 + Len(id) + Len(name) + Len(info) + Len(data) BY DEF PkLen
<1>4. Encode(m) = Laid(id, name, e, info, data, k) BY DEF Encode, Laid
<1>5. k < Huge OBVIOUS
<1> HIDE DEF id, name, info, data, e, k
<1>6. Len(id) \in Nat /\ Len(name) \in Nat /\ Len(info) \in Nat /\ Len(data) \in Nat
  BY <1>1, <1>2, Length
<1>7. k \in Nat /\ Len(id) < Huge /\ Len(name) < Huge /\ Len(info) < Huge
  BY <1>3, <1>5, <1>6, HugeType
<1>8. Reads(Laid(id, name, e, info, data, k), id, name, e, info, data, k)
  BY <1>1, <1>2, <1>5, <1>7, Layout
<1>9. k = Len(Laid(id, name, e, info, data, k)) BY <1>3, <1>6, <1>8 DEF Reads
<1> QED BY <1>4, <1>8, <1>9 DEF id, name, info, data, e, k

Yields(b, id, name, e, info, data) ==
  Decode(b) = {[msg_id |-> CString(id), method_name |-> CString(name), err_code |-> e,
                err_info |-> CString(info), pb_data |-> data]}

LEMMA DecodeReads ==
  ASSUME NEW id \in Seq(Byte), NEW name \in Seq(Byte), NEW info \in Seq(Byte),
         NEW data \in Seq(Byte), NEW e \in Nat, NEW k \in Nat, NEW b,
         Reads(b, id, name, e, info, data, k), k = Len(b)
  PROVE  Yields(b, id, name, e, info, data)
<1> DEFINE i == Len(id)
           n == Len(name)
           f == Len(info)
           d == Len(data)
<1>1. i \in Nat /\ n \in Nat /\ f \in Nat /\ d \in Nat BY Length
<1>2. b \in Seq(Byte) /\ Len(b) = 26 + i + n + f + d BY DEF Reads
<1>3. /\ GetInt32ForNetByte(b, 1) = k /\ GetInt32ForNetByte(b, 5) = i
      /\ GetInt32ForNetByte(b, 9 + i) = n
      /\ GetInt32ForNetByte(b, 13 + i + n) = e
      /\ GetInt32ForNetByte(b, 17 + i + n) = f
  BY DEF Reads
<1>4. /\ Copy(b, 9, i) = id /\ Copy(b, 13 + i, n) = name
      /\ Copy(b, 21 + i + n, f) = info /\ Copy(b, 21 + i + n + f, d) = data
  BY DEF Reads
<1>5. b[1] = PB_START /\ b[Len(b)] = PB_END BY DEF Reads
<1> HIDE DEF i, n, f, d
<1> DEFINE pk_len    == GetInt32ForNetByte(b, 1)
           end       == pk_len - 1
           idLen     == GetInt32ForNetByte(b, 5)
           nameAt    == 9 + idLen
           nameLen   == GetInt32ForNetByte(b, nameAt)
           codeAt    == nameAt + 4 + nameLen
           infoAt    == codeAt + 4
           infoLen   == GetInt32ForNetByte(b, infoAt)
           dataAt    == infoAt + 4 + infoLen
           dataLen   == pk_len - nameLen - idLen - infoLen - 2 - 24
           refuse    == \/ b = <<>> \/ b[1] # PB_START
                        \/ Len(b) # pk_len \/ b[Len(b)] # PB_END
                        \/ 5 >= end \/ nameAt >= end \/ codeAt >= end \/ infoAt >= end
<1>6. Decode(b) =
        IF refuse THEN Refused
        ELSE {[msg_id      |-> CString(Copy(b, 9, idLen)),
               method_name |-> CString(Copy(b, nameAt + 4, nameLen)),
               err_code    |-> GetInt32ForNetByte(b, codeAt),
               err_info    |-> CString(Copy(b, infoAt + 4, infoLen)),
               pb_data     |-> Copy(b, dataAt, dataLen)]}
  BY DEF Decode
<1>7. pk_len = 26 + i + n + f + d /\ idLen = i BY <1>2, <1>3
<1> HIDE DEF pk_len, idLen
<1>8. nameAt = 9 + i BY <1>7
<1>9. nameLen = n BY <1>3, <1>8
<1> HIDE DEF nameLen
<1>10. nameAt + 4 = 13 + i /\ codeAt = 13 + i + n
  <2>1. codeAt = nameAt + 4 + n BY <1>9
  <2> HIDE DEF codeAt, nameAt
  <2>2. nameAt + 4 = 13 + i BY <1>1, <1>8
  <2>3. codeAt = 13 + i + n BY <1>1, <1>8, <2>1
  <2> QED BY <2>2, <2>3
<1> HIDE DEF nameAt
<1>11. infoAt = 17 + i + n BY <1>1, <1>10
<1> HIDE DEF codeAt
<1>12. infoLen = f BY <1>3, <1>11
<1> HIDE DEF infoLen
<1>13. infoAt + 4 = 21 + i + n /\ dataAt = 21 + i + n + f BY <1>1, <1>11, <1>12
<1>14. dataLen = d
  <2>1. \A a, b1, c1, d1 \in Nat : (26 + a + b1 + c1 + d1) - b1 - a - c1 - 2 - 24 = d1 OBVIOUS
  <2> QED BY <1>1, <1>7, <1>9, <1>12, <2>1
<1> HIDE DEF infoAt, dataAt, dataLen
<1>15. ~refuse
  <2>1. end = 25 + i + n + f + d BY <1>1, <1>7
  <2>2. ~(5 >= end) /\ ~(nameAt >= end) /\ ~(codeAt >= end) /\ ~(infoAt >= end)
    <3> HIDE DEF end
    <3> QED BY <1>1, <1>8, <1>10, <1>11, <2>1
  <2>3. Len(b) = pk_len BY <1>2, <1>7
  <2>4. b # <<>> BY <1>1, <1>2, Empty
  <2> HIDE DEF end
  <2> QED BY <1>5, <2>2, <2>3, <2>4
<1> HIDE DEF refuse
<1> QED BY <1>3, <1>4, <1>6, <1>7, <1>9, <1>10, <1>12, <1>13, <1>14, <1>15 DEF Yields, i, n, f, d

(* TinyPBCoder: for every message that fits, what Encode writes Decode     *)
(* reads, the payload and the code as they were, the other strings up to a *)
(* NUL; and it reads nothing from a packet that is cut anywhere behind its *)
(* length, or is followed by another byte.                                 *)
THEOREM TinyPBCorrect ==
  ASSUME NEW m \in Message, Fits(m)
  PROVE  /\ Decodes(m)
         /\ \A n \in 5..(Len(Encode(m)) - 1) : Decode(SubSeq(Encode(m), 1, n)) = Refused
<1> DEFINE b == Encode(m)
<1>1. /\ Reads(b, MsgId(m), m.method_name, m.err_code, m.err_info, m.pb_data, PkLen(m))
      /\ PkLen(m) = Len(b)
  BY EncodeReads DEF Fits
<1>2. /\ MsgId(m) \in Seq(Byte) /\ m.method_name \in Seq(Byte) /\ m.err_info \in Seq(Byte)
      /\ m.pb_data \in Seq(Byte) /\ m.err_code \in Nat
  BY MsgIdType, HugeType DEF Message
<1> HIDE DEF b
<1>3. b \in Seq(Byte) /\ GetInt32ForNetByte(b, 1) = Len(b) BY <1>1 DEF Reads
<1>4. Len(b) \in Nat /\ Len(b) >= 26
  <2>1. /\ Len(MsgId(m)) \in Nat /\ Len(m.method_name) \in Nat /\ Len(m.err_info) \in Nat
        /\ Len(m.pb_data) \in Nat
    BY <1>2, Length
  <2>2. Len(b) = 26 + Len(MsgId(m)) + Len(m.method_name) + Len(m.err_info) + Len(m.pb_data)
    BY <1>1 DEF Reads
  <2>3. \A x, y, z, w \in Nat : 26 + x + y + z + w >= 26 OBVIOUS
  <2> DEFINE x == Len(MsgId(m))
             y == Len(m.method_name)
             z == Len(m.err_info)
             w == Len(m.pb_data)
  <2>4. x \in Nat /\ y \in Nat /\ z \in Nat /\ w \in Nat /\ Len(b) = 26 + x + y + z + w
    BY <2>1, <2>2
  <2> HIDE DEF x, y, z, w
  <2> QED BY <1>3, <2>3, <2>4, Length
<1>5. Decode(b) = {[msg_id |-> CString(MsgId(m)), method_name |-> CString(m.method_name),
                    err_code |-> m.err_code, err_info |-> CString(m.err_info),
                    pb_data |-> m.pb_data]}
  <2> DEFINE id == MsgId(m)
             name == m.method_name
             info == m.err_info
             data == m.pb_data
             e == m.err_code
             k == PkLen(m)
  <2>1. /\ id \in Seq(Byte) /\ name \in Seq(Byte) /\ info \in Seq(Byte)
        /\ data \in Seq(Byte) /\ e \in Nat
    BY <1>2
  <2>2. Reads(b, id, name, e, info, data, k) /\ k = Len(b) BY <1>1
  <2> HIDE DEF id, name, info, data, e, k
  <2>3. k \in Nat BY <1>4, <2>2
  <2>4. Yields(b, id, name, e, info, data) BY <2>1, <2>2, <2>3, DecodeReads
  <2> QED BY <2>4 DEF Yields, id, name, info, data, e
<1>6. [m EXCEPT !.msg_id = CString(MsgId(m)), !.method_name = CString(@),
                !.err_info = CString(@)]
        = [msg_id |-> CString(MsgId(m)), method_name |-> CString(m.method_name),
           err_code |-> m.err_code, err_info |-> CString(m.err_info), pb_data |-> m.pb_data]
  <2> DEFINE x == CString(MsgId(m))
             y == CString(m.method_name)
             z == CString(m.err_info)
  <2>1. [m EXCEPT !.msg_id = x, !.method_name = CString(@), !.err_info = CString(@)]
          = [m EXCEPT !.msg_id = x, !.method_name = y, !.err_info = z]
    BY DEF Message
  <2> HIDE DEF x, y, z
  <2>2. [m EXCEPT !.msg_id = x, !.method_name = y, !.err_info = z]
          = [msg_id |-> x, method_name |-> y, err_code |-> m.err_code, err_info |-> z,
             pb_data |-> m.pb_data]
    <3> DEFINE n == [m EXCEPT !.msg_id = x, !.method_name = y, !.err_info = z]
    <3>1. n \in [msg_id : {x}, method_name : {y}, err_code : 0..Huge - 1, err_info : {z},
                 pb_data : Seq(Byte)]
      BY DEF Message
    <3>2. /\ n.msg_id = x /\ n.method_name = y /\ n.err_info = z
          /\ n.err_code = m.err_code /\ n.pb_data = m.pb_data
      BY DEF Message
    <3> HIDE DEF n
    <3>3. n = [msg_id |-> n.msg_id, method_name |-> n.method_name, err_code |-> n.err_code,
               err_info |-> n.err_info, pb_data |-> n.pb_data]
      BY <3>1
    <3>4. n = [msg_id |-> x, method_name |-> y, err_code |-> m.err_code, err_info |-> z,
               pb_data |-> m.pb_data]
      BY <3>2, <3>3, Zenon
    <3> QED BY <3>4 DEF n
  <2> QED BY <2>1, <2>2 DEF x, y, z
<1>7. ASSUME NEW c \in Seq(Byte), Len(c) >= 5, Len(c) # Len(b), \A i \in 1..5 : c[i] = b[i]
      PROVE  Decode(c) = Refused
  <2>1. GetInt32ForNetByte(c, 1) = GetInt32ForNetByte(b, 1) BY <1>3, <1>4, <1>7, LengthField
  <2> QED BY <1>3, <1>7, <2>1, RefusedLength
<1>8. ASSUME NEW n \in 5..(Len(b) - 1) PROVE Decode(SubSeq(b, 1, n)) = Refused
  <2>1. n \in Nat /\ n >= 5 /\ n < Len(b) BY <1>4
  <2> DEFINE c == SubSeq(b, 1, n)
  <2>2. c \in Seq(Byte) /\ Len(c) = n /\ \A i \in 1..n : c[i] = b[i] BY <1>3, <2>1
  <2> HIDE DEF c
  <2>3. \A i \in 1..5 : c[i] = b[i] BY <2>1, <2>2
  <2>4. Decode(c) = Refused BY <1>4, <1>7, <2>1, <2>2, <2>3
  <2> QED BY <2>4 DEF c
<1>9. Decode(b \o <<PB_END>>) = Refused
  <2> DEFINE z == <<PB_END>>
             c == b \o z
  <2>1. z \in Seq(Byte) /\ Len(z) = 1 BY Frame
  <2> HIDE DEF z
  <2>2. c \in Seq(Byte) /\ Len(c) = Len(b) + 1
    <3>1. c \in Seq(Byte) /\ Len(c) = Len(b) + Len(z) BY <1>3, <2>1, Join
    <3> QED BY <2>1, <3>1
  <2>3. ASSUME NEW i \in 1..5 PROVE c[i] = b[i]
    <3>1. i \in 1..Len(b) + Len(z) /\ i <= Len(b) BY <1>4, <2>1
    <3> QED BY <1>3, <2>1, <3>1, ConcatProperties
  <2> HIDE DEF c
  <2>4. Decode(c) = Refused BY <1>4, <1>7, <2>2, <2>3
  <2> QED BY <2>4 DEF c, z
<1>10. {5, Len(b) \div 2, Len(b) - 1} \subseteq 5..(Len(b) - 1)
  <2>1. \A l \in Nat : l >= 26 => {5, l \div 2, l - 1} \subseteq 5..(l - 1) OBVIOUS
  <2> QED BY <1>4, <2>1
<1>11. Decodes(m)
  <2>1. \A n \in {5, Len(b) \div 2, Len(b) - 1} : Decode(SubSeq(b, 1, n)) = Refused
    BY <1>8, <1>10
  <2> QED BY <1>5, <1>6, <1>9, <2>1 DEF Decodes, b
<1> QED BY <1>8, <1>11 DEF b
=============================================================================
