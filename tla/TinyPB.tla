------------------------------- MODULE TinyPB -------------------------------
(***************************************************************************)
(* TinyPBCoder (codec/tinypb_coder.cpp): a message is framed by PB_START   *)
(* and PB_END and consists of numbers in network byte order and of strings *)
(* preceded by their lengths.                                              *)
(***************************************************************************)
EXTENDS Codec, SequencesExt

PB_START == 2
PB_END   == 3

(* GetNetInt32 and GetInt32ForNetByte (net/util.h).                        *)
GetNetInt32(n) == Reverse(LittleEndian(n, 4))
GetInt32ForNetByte(b, index) == FromLittleEndian(Reverse(Copy(b, index, 4)))

DefaultMsgId == <<49, 50, 51, 52, 53, 54, 55, 56, 57>>

MsgId(m) == IF m.msg_id = <<>> THEN DefaultMsgId ELSE m.msg_id

PkLenWithoutSum(m) ==
  2 + 20 + Len(MsgId(m)) + Len(m.method_name) + Len(m.err_info) + Len(m.pb_data)

(* Two frame bytes and six numbers.                                        *)
PkLen(m) ==
  2 + 24 + Len(MsgId(m)) + Len(m.method_name) + Len(m.err_info) + Len(m.pb_data)

Encode(m) ==
  <<PB_START>> \o GetNetInt32(PkLen(m))
    \o GetNetInt32(Len(MsgId(m))) \o MsgId(m)
    \o GetNetInt32(Len(m.method_name)) \o m.method_name
    \o GetNetInt32(m.err_code)
    \o GetNetInt32(Len(m.err_info)) \o m.err_info
    \o m.pb_data \o GetNetInt32(1) \o <<PB_END>>

(* std::string(msg_id) of a zero-initialised array: up to the first NUL.   *)
CString(s) == LET nul == SelectInSeq(s, LAMBDA c : c = 0)
              IN  IF nul = 0 THEN s ELSE SubSeq(s, 1, nul - 1)

Refused == {}

(* Indices count from 0, as in the code.  The fixed arrays for the strings *)
(* (100 and 512 bytes) are taken to be large enough.                       *)
Decode(b) ==
  LET pk_len    == GetInt32ForNetByte(b, 1)
      end       == pk_len - 1
      idLen     == GetInt32ForNetByte(b, 5)
      nameAt    == 9 + idLen
      nameLen   == GetInt32ForNetByte(b, nameAt)
      codeAt    == nameAt + 4 + nameLen
      infoAt    == codeAt + 4
      infoLen   == GetInt32ForNetByte(b, infoAt)
      dataAt    == infoAt + 4 + infoLen
      dataLen   == pk_len - nameLen - idLen - infoLen - 2 - 24
  IN
  IF \/ b = <<>> \/ b[1] # PB_START
     \/ Len(b) # pk_len \/ b[Len(b)] # PB_END
     \/ 5 >= end \/ nameAt >= end \/ codeAt >= end \/ infoAt >= end
  THEN Refused
  ELSE {[msg_id      |-> CString(Copy(b, 9, idLen)),
         method_name |-> CString(Copy(b, nameAt + 4, nameLen)),
         err_code    |-> GetInt32ForNetByte(b, codeAt),
         err_info    |-> CString(Copy(b, infoAt + 4, infoLen)),
         pb_data     |-> Copy(b, dataAt, dataLen)]}

(* Messages with empty and non-empty fields, and with the bytes that could *)
(* be mistaken for the frame or for the end of a string.                   *)
Messages ==
  LET texts == {<<>>, <<PB_END>>, <<65, PB_START>>, <<66, 0, 67>>}
  IN  [msg_id : texts, method_name : texts, err_code : {0, 300},
       err_info : texts, pb_data : texts]

(* m is decoded from its packet, and nothing from a part of it or more.    *)
Decodes(m) ==
  LET b == Encode(m) IN
  /\ Decode(b) = {[m EXCEPT !.msg_id = CString(MsgId(m)), !.method_name = CString(@),
                            !.err_info = CString(@)]}
  /\ \A n \in {5, Len(b) \div 2, Len(b) - 1} : Decode(SubSeq(b, 1, n)) = Refused
  /\ Decode(b \o <<PB_END>>) = Refused
=============================================================================
