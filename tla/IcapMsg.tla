------------------------------- MODULE IcapMsg -------------------------------
(***************************************************************************)
(* The vocabulary of ICAP (icap.h, icap_transport.h) and the pure part of  *)
(* icap.c: which response the device side builds for a command and the     *)
(* return value of its callback, and what the application function that    *)
(* sent the command returns for that response.                             *)
(*                                                                         *)
(* A payload is its length in bytes and one number: the word it carries    *)
(* (u32 or s32), or 0 when the content (a features struct) is not looked   *)
(* at by icap.c.                                                           *)
(***************************************************************************)
EXTENDS Integers

CONSTANT Implemented   \* commands for which the device registered a callback

\* Error codes of icap.h, and ERESTARTSYS of the kernel's interruptible waits.
ICAP_ERROR_INIT       == 6
ICAP_ERROR_NOMEM      == 12
ICAP_ERROR_BROKEN_CON == 32
ICAP_ERROR_PROTOCOL   == 71
ICAP_ERROR_MSG_ID     == 74
ICAP_ERROR_MSG_LEN    == 90
ICAP_ERROR_TIMEOUT    == 110
ERESTARTSYS           == 512

\* Commands an application may send to a device (enum icap_msg_cmd).
DeviceCmd == {"GET_DEV_NUM", "GET_DEV_FEATURES", "DEV_INIT", "DEV_DEINIT",
              "ADD_SRC", "ADD_DST", "REMOVE_SRC", "REMOVE_DST", "START",
              "STOP", "PAUSE", "RESUME", "BUF_OFFSETS"}

\* Commands whose positive response carries one word: a number of subdevices
\* or the id of a buffer.
WordCmd == {"GET_DEV_NUM", "ADD_SRC", "ADD_DST"}

\* Commands whose positive response carries a payload at all.
ValueCmd == WordCmd \cup {"GET_DEV_FEATURES"}

\* What a device may tell its application.
NoteCmd == {"FRAG_READY", "XRUN", "ERROR"}

WordLen     == 4    \* sizeof(uint32_t), sizeof(int32_t)
FeaturesLen == 28   \* sizeof(struct icap_subdevice_features)

-----------------------------------------------------------------------------

\* icap_send_ack and icap_send_nak: a response as the other side reads it.
Ack(len, val) == [type |-> "ACK", len |-> len, val |-> val]
Nak(error)    == [type |-> "NAK", len |-> WordLen, val |-> error]

\* `ret` as the switch of icap_device_parse_msg leaves it: the callback's
\* return value, 0 where no callback is registered, an error for a command the
\* device does not know.
DeviceRet(cmd, cbRet) ==
  IF cmd \notin DeviceCmd THEN -ICAP_ERROR_MSG_ID
  ELSE IF cmd \in Implemented THEN cbRet ELSE 0

\* Mutant: a value of 0 is taken for a callback without a value.
DeviceReplyPositive(cmd, cbRet) ==
  LET ret == DeviceRet(cmd, cbRet)
  IN  IF cmd \in ValueCmd \cap Implemented /\ ret > 0
      THEN IF cmd \in WordCmd THEN Ack(WordLen, ret) ELSE Ack(FeaturesLen, 0)
      ELSE IF ret # 0 THEN Nak(ret) ELSE Ack(0, 0)

\* The response icap_device_parse_msg sends: the specific ACK of a value
\* command, otherwise the generic NAK or ACK.
DeviceReply(cmd, cbRet) ==
  LET ret == DeviceRet(cmd, cbRet)
  IN  IF cmd \in ValueCmd \cap Implemented /\ ret >= 0
      THEN IF cmd \in WordCmd THEN Ack(WordLen, ret) ELSE Ack(FeaturesLen, 0)
      ELSE IF ret # 0 THEN Nak(ret) ELSE Ack(0, 0)

\* The response icap_application_parse_msg sends: an ACK with the id of the
\* buffer the message is about, or the generic NAK or ACK.  A missing callback
\* acts as one that returns 0.
AppReply(cmd, buf, cbRet) ==
  IF cmd \notin NoteCmd THEN Nak(-ICAP_ERROR_MSG_ID)
  ELSE IF cbRet # 0 THEN Nak(cbRet)
  ELSE IF cmd = "ERROR" THEN Ack(0, 0) ELSE Ack(WordLen, buf)

\* Mutant: the application does not tell an ACK from a NAK.
CallResultUntyped(cmd, reply) ==
  IF cmd \in WordCmd \cup {"GET_DEV_FEATURES"} /\ reply.len # WordLen
  THEN -ICAP_ERROR_MSG_LEN ELSE IF cmd \in WordCmd THEN reply.val ELSE 0

\* What an application function (icap_get_subdevices ... icap_frags) returns
\* once the transport has handed it the response `reply`.
CallResult(cmd, reply) ==
  IF reply.type = "NAK" THEN reply.val
  ELSE IF cmd \in WordCmd
       THEN IF reply.len = WordLen THEN reply.val ELSE -ICAP_ERROR_MSG_LEN
  ELSE IF cmd = "GET_DEV_FEATURES" /\ reply.len # FeaturesLen
       THEN -ICAP_ERROR_MSG_LEN ELSE 0

\* Mutant: of an ACK no payload is read.
HeardNoPayload(cmd, reply) == IF reply.type = "NAK" THEN reply.val ELSE 0

\* What icap_device_parse_response hands to the response callback of `cmd`: the
\* error of a NAK, the buffer id of an ACK, or 0.
Heard(cmd, reply) ==
  IF reply.type = "NAK" \/ cmd \in {"FRAG_READY", "XRUN"} THEN reply.val ELSE 0

\* Return values the callback of `cmd` may have according to icap_device.h:
\* negative on failure, 0 on success, and a number or an id from the callbacks
\* that have one to give.
LegalRet(cmd, Ret) == IF cmd \in ValueCmd THEN Ret ELSE {r \in Ret : r <= 0}
=============================================================================
