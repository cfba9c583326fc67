-------------------------------- MODULE Codec --------------------------------
(***************************************************************************)
(* codec::Serializer (codec/serializer.h): the overloads for numbers and   *)
(* strings.  A byte is a number below 256 and the buffer is the sequence   *)
(* of them; an object that cannot be read back because the buffer ends too *)
(* early leaves pos behind the end of the buffer (the code reads on there, *)
(* which is undefined).                                                    *)
(***************************************************************************)
EXTENDS Naturals, Sequences

Byte == 0..255

(* Numbers from 2^24 on, which a size field may hold but no buffer can:    *)
(* all taken to be the same one.                                           *)
Huge == 16777216

Weight == <<1, 256, 65536>>

(* The representation of a number below Huge in memory, least significant  *)
(* byte first.                                                             *)
LittleEndian(n, bytes) ==
  [i \in 1..bytes |-> IF i <= 3 THEN (n \div Weight[i]) % 256 ELSE 0]

FromLittleEndian(b) ==
  LET Digit(i) == IF i <= Len(b) THEN b[i] ELSE 0
  IN  IF \E i \in 4..Len(b) : b[i] # 0 THEN Huge
      ELSE Digit(1) + 256 * Digit(2) + 65536 * Digit(3)

(* std::copy of n bytes from buffer_.data() + deserialize_pos_.            *)
Copy(b, pos, n) == [i \in 1..n |-> IF pos + i <= Len(b) THEN b[pos + i] ELSE 0]

(* What deserialize writes and deserialize_pos_ after it.                  *)
DeserializeNumber(b, pos, bytes) ==
  [val |-> FromLittleEndian(Copy(b, pos, bytes)), pos |-> pos + bytes]

(* A string is preceded by a size_t.                                       *)
SIZE_T == 8

SerializeString(s) == LittleEndian(Len(s), SIZE_T) \o s

DeserializeStaying(b, pos) ==
  LET size == DeserializeNumber(b, pos, SIZE_T)
  IN  [val |-> IF size.pos + size.val <= Len(b) THEN Copy(b, size.pos, size.val) ELSE <<>>,
       pos |-> size.pos]

DeserializeString(b, pos) ==
  LET size == DeserializeNumber(b, pos, SIZE_T)
  IN  [val |-> IF size.pos + size.val <= Len(b) THEN Copy(b, size.pos, size.val) ELSE <<>>,
       pos |-> size.pos + size.val]
=============================================================================
