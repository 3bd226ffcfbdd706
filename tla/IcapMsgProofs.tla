---------------------------- MODULE IcapMsgProofs ----------------------------
(***************************************************************************)
(* Proofs about IcapMsg: that what one side puts into a response is what   *)
(* the other takes out of it, for every command and every return value.    *)
(***************************************************************************)
EXTENDS IcapMsg, TLAPS

ResponseForm == [type : {"ACK", "NAK"}, len : Nat, val : Int]

LEMMA DeviceRetType ==
  ASSUME NEW cmd, NEW ret \in Int
  PROVE  DeviceRet(cmd, ret) \in Int
BY DEF DeviceRet, ICAP_ERROR_MSG_ID

LEMMA DeviceReplyType ==
  ASSUME NEW cmd, NEW ret \in Int
  PROVE  DeviceReply(cmd, ret) \in ResponseForm
BY DeviceRetType DEF DeviceReply, Ack, Nak, WordLen, FeaturesLen, ResponseForm

LEMMA AppReplyType ==
  ASSUME NEW cmd, NEW buf \in Int, NEW ret \in Int
  PROVE  AppReply(cmd, buf, ret) \in ResponseForm
BY DEF AppReply, Ack, Nak, WordLen, ICAP_ERROR_MSG_ID, ResponseForm

LEMMA CallResultType ==
  ASSUME NEW cmd, NEW reply, reply.val \in Int
  PROVE  CallResult(cmd, reply) \in Int
BY DEF CallResult, ICAP_ERROR_MSG_LEN

\* A response of icap_device_parse_msg and the application function that reads it
\* agree: the function returns what the callback did, but 0 where a positive value of
\* GET_DEV_FEATURES comes as a structure, 0 where an optional callback is missing, and
\* -ICAP_ERROR_MSG_LEN where a missing callback should have given a value.
THEOREM CallRoundTrip ==
  ASSUME NEW cmd \in DeviceCmd, NEW ret \in Int, NEW reply,
         reply.type = DeviceReply(cmd, ret).type, reply.len = DeviceReply(cmd, ret).len,
         reply.val = DeviceReply(cmd, ret).val
  PROVE  CallResult(cmd, reply) =
           IF cmd \notin Implemented
           THEN IF cmd \in ValueCmd THEN -ICAP_ERROR_MSG_LEN ELSE 0
           ELSE IF cmd = "GET_DEV_FEATURES" /\ ret > 0 THEN 0 ELSE ret
<1> USE DEF WordCmd, ValueCmd, WordLen, FeaturesLen, ICAP_ERROR_MSG_LEN
<1>1. DeviceRet(cmd, ret) = IF cmd \in Implemented THEN ret ELSE 0
  BY DEF DeviceRet
<1>2. CASE cmd \notin Implemented
  <2>1. DeviceReply(cmd, ret) = Ack(0, 0)
    BY <1>1, <1>2 DEF DeviceReply
  <2>2. QED
    BY <1>2, <2>1 DEF Ack, CallResult
<1>3. CASE cmd \in Implemented /\ cmd \in ValueCmd /\ ret >= 0
  <2>1. DeviceReply(cmd, ret) = IF cmd \in WordCmd THEN Ack(4, ret) ELSE Ack(28, 0)
    BY <1>1, <1>3 DEF DeviceReply
  <2>2. CASE cmd \in WordCmd
    BY <1>3, <2>1, <2>2 DEF Ack, CallResult
  <2>3. CASE cmd = "GET_DEV_FEATURES"
    BY <1>3, <2>1, <2>3 DEF Ack, CallResult
  <2>4. QED
    BY <1>3, <2>2, <2>3
<1>4. CASE cmd \in Implemented /\ ~(cmd \in ValueCmd /\ ret >= 0)
  <2>1. DeviceReply(cmd, ret) = IF ret # 0 THEN Nak(ret) ELSE Ack(0, 0)
    BY <1>1, <1>4 DEF DeviceReply
  <2>2. CASE ret # 0
    <3>1. reply.type = "NAK" /\ reply.val = ret
      BY <2>1, <2>2 DEF Nak
    <3>2. CallResult(cmd, reply) = ret
      BY <3>1 DEF CallResult
    <3>3. QED
      BY <1>4, <3>2
  <2>3. CASE ret = 0
    BY <1>4, <2>1, <2>3 DEF Ack, CallResult
  <2>4. QED
    BY <2>2, <2>3
<1>5. QED
  BY <1>2, <1>3, <1>4

\* A response of icap_application_parse_msg and icap_device_parse_response agree: the
\* device's callback gets the error, or the id of the buffer the message was about.
THEOREM NoteRoundTrip ==
  ASSUME NEW cmd \in NoteCmd, NEW buf \in Int, NEW ret \in Int, NEW reply,
         reply.type = AppReply(cmd, buf, ret).type, reply.val = AppReply(cmd, buf, ret).val
  PROVE  Heard(cmd, reply) = IF ret # 0 THEN ret ELSE IF cmd = "ERROR" THEN 0 ELSE buf
<1>1. cmd \in {"FRAG_READY", "XRUN", "ERROR"}
  BY DEF NoteCmd
<1>2. CASE ret # 0
  BY <1>2 DEF AppReply, Nak, Heard
<1>3. CASE ret = 0 /\ cmd = "ERROR"
  BY <1>3 DEF AppReply, Ack, Heard, NoteCmd
<1>4. CASE ret = 0 /\ cmd # "ERROR"
  BY <1>1, <1>4 DEF AppReply, Ack, Heard, NoteCmd
<1>5. QED
  BY <1>2, <1>3, <1>4
=============================================================================
