---------------------------- MODULE IcapBmRefines ----------------------------
(***************************************************************************)
(* Proof that IcapBm implements IcapCall: synchronous calls on bare metal, *)
(* while callbacks make none, for every ring size, clock, timeout and      *)
(* number of calls.                                                        *)
(***************************************************************************)
EXTENDS IcapBmProofs

IsRequest(b) == b.type = "MSG"

Requests == {m.body : m \in {l \in toDev : IsRequest(l.body)}}

\* Responses of the device, wherever they are; unused slots and last_response
\* before the first response look like requests.
Answers == {b \in {m.body : m \in toApp} \cup {slot[i].body : i \in Index} \cup {last.body} :
              ~IsRequest(b)}

\* The calls on the stack.
CallOf(f) == [id |-> f.id, cmd |-> f.cmd]
Open == {CallOf(stack[i]) : i \in {j \in 1..Len(stack) : IsCall(stack[j])}}

\* A response fits what the callback of its call returned.
Answered(b) == \E r \in ran : /\ r.id = b.id
                              /\ CallResult(b.cmd, b) \in {-ICAP_ERROR_MSG_LEN, Abs!Promised(b.cmd, r.ret)}

\* Everything belongs to a call made before.
GivenInv == /\ \A f \in Open : f.id \in 1..calls
            /\ \A q \in Requests : q.id \in 1..calls /\ q.cmd \in Cmd
            /\ \A b \in Answers : b.id \in 1..calls
            /\ \A r \in ran : r.id \in 1..calls

\* The callback of a call runs at most once: while its request is on its way it has
\* not run.
OnceInv == /\ \A m, n \in toDev : IsRequest(m.body) /\ IsRequest(n.body) /\ m.body.id = n.body.id
                                    => m = n
           /\ \A q \in Requests, r \in ran : r.id # q.id

\* Requests and responses are about the command of their call.
CmdInv == \A f \in Open : \A b \in Requests \cup Answers : b.id = f.id => b.cmd = f.cmd

AnswerInv == \A b \in Answers : Answered(b)

\* last_response is a response or cleared memory.
LastInv == IsRequest(last.body) => last.body.id = 0

\* Calls are made from the first MaxDepth frames.
DepthInv == \A i \in 1..Len(stack) : IsCall(stack[i]) => i <= MaxDepth

RefInv == GivenInv /\ OnceInv /\ CmdInv /\ AnswerInv /\ LastInv /\ DepthInv
-----------------------------------------------------------------------------
(* What the steps do to the calls on the stack. *)

LEMMA KeepsCall ==
  ASSUME NEW f \in Frame, NEW D, NEW g, Keeps(f, g, D)
  PROVE  (IsCall(g) <=> IsCall(f)) /\ (IsCall(f) => CallOf(g) = CallOf(f))
BY CallKept DEF CallOf

\* The call at depth t of the stack, as IcapCall sees it.
Line(t) == IF t <= Len(stack) /\ IsCall(stack[t]) THEN CallOf(stack[t]) ELSE NoCall

LEMMA LineKept ==
  ASSUME StackOK, StackOK', NEW D, Kept(D), NEW t \in Nat \ {0}
  PROVE  Line(t)' = IF t <= Len(stack') THEN Line(t) ELSE NoCall
<1>1. Len(stack) \in Nat /\ Len(stack') \in Nat /\ Len(stack') <= Len(stack)
  BY LenProperties DEF StackOK, Kept
<1>2. CASE t <= Len(stack')
  <2>1. t \in 1..Len(stack) /\ t \in 1..Len(stack')
    BY <1>1, <1>2
  <2>2. stack[t] \in Frame /\ Keeps(stack[t], stack'[t], D)
    BY <2>1, ElementOfSeq DEF StackOK, Kept
  <2>3. (IsCall(stack'[t]) <=> IsCall(stack[t])) /\ (IsCall(stack[t]) => CallOf(stack'[t]) = CallOf(stack[t]))
    BY <2>2, KeepsCall
  <2>4. QED
    BY <1>2, <2>1, <2>3 DEF Line, IsCall, CallOf
<1>3. CASE ~(t <= Len(stack'))
  BY <1>3 DEF Line
<1>4. QED
  BY <1>2, <1>3

LEMMA LinePushed ==
  ASSUME StackOK, NEW f, Pushed(f), NEW t \in Nat \ {0}
  PROVE  Line(t)' = IF t = Len(stack) + 1 /\ IsCall(f) THEN CallOf(f) ELSE Line(t)
<1>1. /\ Len(stack) \in Nat /\ Len(stack') = Len(stack) + 1
      /\ stack'[Len(stack) + 1] = f
      /\ \A i \in 1..Len(stack) : stack'[i] = stack[i]
  BY LenProperties DEF StackOK, Pushed
<1>2. CASE t = Len(stack) + 1
  BY <1>1, <1>2 DEF Line, IsCall, CallOf
<1>3. CASE t \in 1..Len(stack)
  BY <1>1, <1>3 DEF Line, IsCall, CallOf
<1>4. CASE t > Len(stack) + 1
  BY <1>1, <1>4 DEF Line
<1>5. QED
  BY <1>1, <1>2, <1>3, <1>4

LEMMA OpenKept ==
  ASSUME StackOK, StackOK', NEW D, Kept(D)
  PROVE  Open' \subseteq Open /\ (DepthInv => DepthInv')
<1>1. SUFFICES ASSUME NEW i \in 1..Len(stack'), IsCall(stack'[i])
               PROVE  i \in 1..Len(stack) /\ IsCall(stack[i]) /\ CallOf(stack'[i]) = CallOf(stack[i])
  BY DEF Open, DepthInv, IsCall, CallOf
<1>2. i \in 1..Len(stack) /\ Keeps(stack[i], stack'[i], D)
  BY <1>1, LenProperties DEF StackOK, Kept
<1>3. stack[i] \in Frame
  BY <1>2, ElementOfSeq DEF StackOK
<1>4. QED
  BY <1>1, <1>2, <1>3, KeepsCall

LEMMA OpenPushed ==
  ASSUME StackOK, NEW f, Pushed(f)
  PROVE  /\ Open' \subseteq Open \cup (IF IsCall(f) THEN {CallOf(f)} ELSE {})
         /\ DepthInv /\ (IsCall(f) => Len(stack) < MaxDepth) => DepthInv'
<1>1. Len(stack) \in Nat /\ Len(stack') = Len(stack) + 1 /\ MaxDepth \in Nat
  BY LenProperties, BmAssumption DEF StackOK, Pushed
<1>2. \A i \in 1..Len(stack') : \/ i = Len(stack) + 1 /\ stack'[i] = f
                                \/ i \in 1..Len(stack) /\ stack'[i] = stack[i]
  BY <1>1 DEF Pushed
<1>3. Open' \subseteq Open \cup (IF IsCall(f) THEN {CallOf(f)} ELSE {})
  <2>1. SUFFICES ASSUME NEW i \in 1..Len(stack'), IsCall(stack'[i])
                 PROVE  CallOf(stack'[i]) \in Open \cup (IF IsCall(f) THEN {CallOf(f)} ELSE {})
    BY DEF Open, IsCall, CallOf
  <2>2. QED
    BY <1>2, <2>1 DEF Open
<1>4. ASSUME DepthInv, IsCall(f) => Len(stack) < MaxDepth, NEW i \in 1..Len(stack'), IsCall(stack'[i])
      PROVE  i <= MaxDepth
  BY <1>1, <1>2, <1>4 DEF DepthInv
<1>5. DepthInv /\ (IsCall(f) => Len(stack) < MaxDepth) => DepthInv'
  BY <1>4 DEF DepthInv, IsCall
<1>6. QED
  BY <1>3, <1>5

-----------------------------------------------------------------------------
(* The invariant. *)

LEMMA InitRef == Init => RefInv
<1> SUFFICES ASSUME Init PROVE RefInv
  OBVIOUS
<1>1. Len(stack) = 0 /\ toDev = {} /\ toApp = {} /\ ran = {}
  BY EmptySeq DEF Init
<1>2. IsRequest(Zeroes.body) /\ Zeroes.body.id = 0
  BY DEF Zeroes, Received, IsRequest
<1>3. \A i \in Index : slot[i].body = Zeroes.body
  BY DEF Init
<1>4. Open = {} /\ Requests = {} /\ Answers = {}
  BY <1>1, <1>2, <1>3 DEF Init, Open, Requests, Answers
<1>5. GivenInv /\ OnceInv /\ CmdInv /\ AnswerInv
  BY <1>1, <1>4 DEF GivenInv, OnceInv, CmdInv, AnswerInv
<1>6. LastInv /\ DepthInv
  BY <1>1, <1>2 DEF Init, LastInv, DepthInv
<1>7. QED
  BY <1>5, <1>6 DEF RefInv

\* A step that issues no call and runs no callback of the device.
LEMMA FewerRef ==
  ASSUME TypeInv, RefInv, UNCHANGED <<calls, ran>>,
         Open' \subseteq Open, DepthInv', LastInv',
         \A m \in toDev' : IsRequest(m.body) => m \in toDev,
         Answers' \subseteq Answers
  PROVE  RefInv'
<1>1. Requests' \subseteq Requests
  BY DEF Requests, IsRequest
<1>2. GivenInv'
  BY <1>1 DEF RefInv, GivenInv
<1>3. OnceInv'
  BY <1>1 DEF RefInv, OnceInv, IsRequest
<1>4. CmdInv'
  BY <1>1 DEF RefInv, CmdInv
<1>5. AnswerInv'
  BY DEF RefInv, AnswerInv, Answered, Abs!Promised
<1>6. QED
  BY <1>2, <1>3, <1>4, <1>5 DEF RefInv

LEMMA AnswersSame ==
  ASSUME UNCHANGED <<toApp, slot, last>>
  PROVE  Answers' \subseteq Answers
BY DEF Answers, IsRequest

LEMMA CallRef ==
  ASSUME TypeInv, RefInv, NEW c \in Cmd, Call(c)
  PROVE  RefInv'
<1> DEFINE f == [kind |-> "call", at |-> "poll", id |-> calls', cmd |-> c,
                 seq |-> seqNum', start |-> clock, waited |-> 0]
<1> DEFINE q == [type |-> "MSG", seq |-> seqNum', id |-> calls', cmd |-> c, len |-> 0, val |-> 0]
<1>1. /\ Pushed(f) /\ IsCall(f) /\ CallOf(f) = [id |-> calls', cmd |-> c]
      /\ IsRequest(q) /\ q.id = calls' /\ q.cmd = c
  BY CallType DEF IsCall, CallOf, IsRequest
<1>2. /\ toDev' \subseteq toDev \cup {Sent(remote, q)} /\ Sent(remote, q).body = q
      /\ calls \in Nat /\ calls' = calls + 1 /\ ran' = ran /\ Len(stack) < MaxDepth
      /\ UNCHANGED <<toApp, slot, last>>
  BY DEF Call, CanCall, Sent, ring, TypeInv, TypeOK
<1> HIDE DEF f, q
<1>3. Open' \subseteq Open \cup {CallOf(f)} /\ DepthInv'
  BY <1>1, <1>2, StackIsOK, OpenPushed DEF RefInv
<1>4. Requests' \subseteq Requests \cup {q}
  BY <1>2 DEF Requests, IsRequest
<1>5. Answers' \subseteq Answers
  BY <1>2, AnswersSame
<1>6. \A i \in 1..calls : i \in 1..calls' /\ i # calls'
  BY <1>2
<1>7. calls' \in 1..calls'
  BY <1>2
<1>8. GivenInv'
  <2>1. \A o \in Open' : o.id \in 1..calls'
    BY <1>1, <1>3, <1>6, <1>7 DEF RefInv, GivenInv
  <2>2. \A r \in Requests' : r.id \in 1..calls' /\ r.cmd \in Cmd
    BY <1>1, <1>4, <1>6, <1>7 DEF RefInv, GivenInv
  <2>3. QED
    BY <1>2, <1>5, <1>6, <2>1, <2>2 DEF RefInv, GivenInv
<1>9. OnceInv'
  <2>1. \A m \in toDev' : IsRequest(m.body) => \/ m \in toDev /\ m.body \in Requests /\ m.body.id # calls'
                                               \/ m = Sent(remote, q) /\ m.body.id = calls'
    BY <1>1, <1>2, <1>6 DEF Requests, RefInv, GivenInv
  <2>2. \A m, n \in toDev' : IsRequest(m.body) /\ IsRequest(n.body) /\ m.body.id = n.body.id => m = n
    BY <2>1 DEF RefInv, OnceInv
  <2>3. \A b \in Requests', r \in ran : r.id # b.id
    BY <1>1, <1>4, <1>6 DEF RefInv, OnceInv, GivenInv
  <2>4. QED
    BY <1>2, <2>2, <2>3 DEF OnceInv, IsRequest
<1>10. CmdInv'
  <2>1. SUFFICES ASSUME NEW o \in Open', NEW b \in Requests' \cup Answers', b.id = o.id
                 PROVE  b.cmd = o.cmd
    BY DEF CmdInv
  <2>2. \/ o \in Open /\ o.id # calls'
        \/ o.id = calls' /\ o.cmd = c
    BY <1>1, <1>3, <1>6 DEF RefInv, GivenInv
  <2>3. \/ b \in Requests \cup Answers /\ b.id # calls'
        \/ b.id = calls' /\ b.cmd = c
    BY <1>1, <1>4, <1>5, <1>6 DEF RefInv, GivenInv
  <2>4. QED
    BY <2>1, <2>2, <2>3 DEF RefInv, CmdInv
<1>11. AnswerInv'
  BY <1>2, <1>5 DEF RefInv, AnswerInv, Answered, Abs!Promised
<1>12. LastInv'
  BY <1>2 DEF RefInv, LastInv, IsRequest
<1>13. QED
  BY <1>3, <1>8, <1>9, <1>10, <1>11, <1>12 DEF RefInv
\* What the caller makes of the response to the callback it asked for.
LEMMA ReplyIsRead ==
  ASSUME NEW cmd \in DeviceCmd, NEW ret \in Int, NEW reply,
         reply.type = DeviceReply(cmd, ret).type, reply.len = DeviceReply(cmd, ret).len,
         reply.val = DeviceReply(cmd, ret).val
  PROVE  CallResult(cmd, reply) \in {-ICAP_ERROR_MSG_LEN, Abs!Promised(cmd, DeviceRet(cmd, ret))}
<1>1. CallResult(cmd, reply) =
        IF cmd \notin Implemented
        THEN IF cmd \in ValueCmd THEN -ICAP_ERROR_MSG_LEN ELSE 0
        ELSE IF cmd = "GET_DEV_FEATURES" /\ ret > 0 THEN 0 ELSE ret
  BY CallRoundTrip
<1>2. QED
  BY <1>1 DEF DeviceRet, Abs!Promised

LEMMA DeviceParseRef ==
  ASSUME TypeInv, RefInv, NEW m \in toDev, NEW ret \in Int, DeviceParse(m, ret)
  PROVE  RefInv'
<1> DEFINE b == m.body
           reply == DeviceReply(b.cmd, ret)
           a == Response(b, reply)
           r == [id |-> b.id, ret |-> DeviceRet(b.cmd, ret)]
<1>1. /\ b \in Requests /\ IsRequest(m.body) /\ toDev' = toDev \ {m}
      /\ ran' = ran \cup {r} /\ r.id = b.id
      /\ toApp' \subseteq toApp \cup {Received(m.to, a)} /\ Received(m.to, a).body = a
      /\ UNCHANGED <<calls, slot, last, stack>>
  BY DEF DeviceParse, Requests, IsRequest, Received, ring
<1>2. b.id \in 1..calls /\ b.cmd \in Cmd /\ b.cmd \in DeviceCmd
  BY <1>1, BmAssumption DEF RefInv, GivenInv
<1>4. /\ a.id = b.id /\ a.cmd = b.cmd
      /\ a.type = reply.type /\ a.len = reply.len /\ a.val = reply.val
  BY DEF Response
<1>5. CallResult(a.cmd, a) \in {-ICAP_ERROR_MSG_LEN, Abs!Promised(a.cmd, r.ret)}
  BY <1>2, <1>4, ReplyIsRead
<1> HIDE DEF b, reply, a, r
<1>6. Open' = Open /\ DepthInv'
  BY <1>1 DEF Open, IsCall, CallOf, RefInv, DepthInv
<1>7. Requests' \subseteq Requests
  BY <1>1 DEF Requests, IsRequest
<1>8. Answers' \subseteq Answers \cup {a}
  BY <1>1 DEF Answers, IsRequest
<1>9. GivenInv'
  BY <1>1, <1>2, <1>4, <1>6, <1>7, <1>8 DEF RefInv, GivenInv
<1>10. OnceInv'
  <2>1. ASSUME NEW q \in Requests', NEW s \in ran' PROVE s.id # q.id
    <3>1. PICK n \in toDev : n # m /\ IsRequest(n.body) /\ n.body = q
      BY <1>1 DEF Requests, IsRequest
    <3>2. q.id # b.id
      BY <1>1, <3>1 DEF RefInv, OnceInv, b
    <3>3. q \in Requests
      BY <1>7
    <3>4. QED
      BY <1>1, <3>2, <3>3 DEF RefInv, OnceInv
  <2>2. \A k, n \in toDev' : IsRequest(k.body) /\ IsRequest(n.body) /\ k.body.id = n.body.id => k = n
    BY <1>1 DEF RefInv, OnceInv
  <2>3. QED
    BY <2>1, <2>2 DEF OnceInv, IsRequest
<1>11. CmdInv'
  BY <1>1, <1>4, <1>6, <1>7, <1>8 DEF RefInv, CmdInv
<1>12. AnswerInv'
  <2>1. SUFFICES ASSUME NEW c \in Answers' PROVE Answered(c)'
    BY DEF AnswerInv
  <2>2. CASE c \in Answers
    BY <1>1, <2>2 DEF RefInv, AnswerInv, Answered, Abs!Promised
  <2>3. CASE c = a
    BY <1>1, <1>4, <1>5, <2>3 DEF Answered, Abs!Promised
  <2>4. QED
    BY <1>8, <2>1, <2>2, <2>3
<1>13. LastInv'
  BY <1>1 DEF RefInv, LastInv, IsRequest
<1>14. QED
  BY <1>6, <1>9, <1>10, <1>11, <1>12, <1>13 DEF RefInv

\* What is read from the ring or put into it has been a message before.
LEMMA OldestAnswer ==
  ASSUME TypeInv
  PROVE  ~IsRequest(Oldest.body) => Oldest.body \in Answers
<1>1. Following(tail) \in Index /\ Oldest = slot[Following(tail)]
  BY OldestType DEF Oldest
<1>2. QED
  BY <1>1 DEF Answers

LEMMA NextRef ==
  ASSUME TypeInv, ReleasedOnce, RefInv, [Next]_vars
  PROVE  RefInv'
<1>1. StackOK /\ StackOK'
  BY NextType, StackIsOK DEF TypeInv, TypeOK, StackOK, StackInv, Frame
<1>2. ASSUME NEW c \in Cmd, Call(c) PROVE RefInv'
  BY <1>2, CallRef
<1>3. ASSUME NEW d \in 0..MaxLapse, Test(d) PROVE RefInv'
  BY <1>1, <1>3, TestType, OpenKept, AnswersSame, FewerRef
  DEF Test, RefInv, LastInv, IsRequest, ring, channel
<1>4. CASE PollEmpty
  BY <1>1, <1>4, PollEmptyType, OpenKept, AnswersSame, FewerRef
  DEF PollEmpty, RefInv, LastInv, IsRequest, ring, channel, history
<1>5. CASE PollRefuse
  BY <1>1, <1>5, PollRefuseType, OpenKept, AnswersSame, FewerRef
  DEF PollRefuse, RefInv, LastInv, IsRequest, channel, history
<1>6. ASSUME NEW m \in Readings, PollResponse(m) PROVE RefInv'
  <2>1. /\ ~IsRequest(Oldest.body) /\ last' = Oldest
        /\ UNCHANGED <<slot, toDev, toApp, calls, ran>>
    BY <1>6, ReadIntact DEF PollResponse, IsRequest, channel, history
  <2>2. Answers' \subseteq Answers
    BY <2>1, OldestAnswer DEF Answers, IsRequest
  <2>3. LastInv'
    BY <2>1 DEF LastInv, IsRequest
  <2>4. Open' \subseteq Open /\ DepthInv'
    BY <1>1, <1>6, PollResponseType, OpenKept DEF RefInv
  <2>5. QED
    BY <2>1, <2>2, <2>3, <2>4, FewerRef
<1>7. ASSUME NEW m \in Readings, PollMessage(m) PROVE RefInv'
  <2> DEFINE f == [kind |-> "loop", next |-> Following(tail), msg |-> m]
  <2>1. Open' \subseteq Open /\ DepthInv'
    <3>1. Pushed(f) /\ ~IsCall(f)
      BY <1>7, PollMessageType DEF IsCall
    <3> HIDE DEF f
    <3>2. QED
      BY <1>1, <3>1, OpenPushed DEF RefInv
  <2>2. QED
    BY <1>7, <2>1, AnswersSame, FewerRef DEF PollMessage, RefInv, LastInv, IsRequest, ring, channel
<1>8. ASSUME NEW ret \in Ret, CallbackReturn(ret) PROVE RefInv'
  <2>1. Top.msg.body \in Body /\ Top.msg.body.val \in Int /\ ret \in Int
    BY <1>1, <1>8, TopType, BmAssumption DEF CallbackReturn, InCallback, LoopFrame, Message, Body
  <2>2. \A h : Response(h, AppReply(Top.msg.body.cmd, Top.msg.body.val, ret)).type # "MSG"
    BY <2>1, AppReplyType DEF Response, ResponseForm
  <2>3. \A m \in toDev' : IsRequest(m.body) => m \in toDev
    BY <1>8, <2>2 DEF CallbackReturn, Sent, IsRequest
  <2>4. QED
    BY <1>1, <1>8, <2>3, CallbackReturnType, OpenKept, AnswersSame, FewerRef
    DEF CallbackReturn, RefInv, LastInv, IsRequest, history
<1>9. ASSUME NEW m \in toApp, Put(m) PROVE RefInv'
  <2>1. Following(head) \in Index /\ slot \in [Index -> Message]
    BY FollowingType DEF TypeInv, TypeOK
  <2>2. \A i \in Index : slot'[i] = slot[i] \/ slot'[i] = m
    BY <1>9, <2>1 DEF Put
  <2>3. Answers' \subseteq Answers
    BY <1>9, <2>2 DEF Put, Answers, IsRequest
  <2>4. QED
    BY <1>1, <1>9, <2>3, PutType, OpenKept, FewerRef DEF Put, RefInv, LastInv, IsRequest, history
<1>10. ASSUME NEW m \in toDev, NEW ret \in Int, DeviceParse(m, ret) PROVE RefInv'
  BY <1>10, DeviceParseRef
<1>11. ASSUME NEW a \in Addr, NEW c \in Note, DeviceNote(a, c) PROVE RefInv'
  <2>1. \A n \in toApp' : ~IsRequest(n.body) => n \in toApp
    BY <1>11 DEF DeviceNote, Received, IsRequest
  <2>2. Answers' \subseteq Answers
    BY <1>11, <2>1 DEF DeviceNote, Answers, IsRequest, ring
  <2>3. QED
    BY <1>1, <1>11, <2>2, DeviceNoteType, OpenKept, FewerRef
    DEF DeviceNote, RefInv, LastInv, IsRequest
<1>12. CASE Quiet
  <2>1. Open' \subseteq Open /\ DepthInv'
    BY <1>1, <1>12, QuietType, OpenKept DEF RefInv
  <2>2. UNCHANGED <<calls, ran, last, toApp>> /\ toDev' \subseteq toDev
    BY <1>12 DEF Quiet, Gone, Deinit, AppInit, vars, ring, channel, history
  <2>3. \A i \in Index : slot'[i] = slot[i] \/ IsRequest(slot'[i].body)
    BY <1>12 DEF Quiet, Gone, Deinit, AppInit, vars, ring, Zeroes, Received, IsRequest
  <2>4. Answers' \subseteq Answers
    BY <2>2, <2>3 DEF Answers, IsRequest
  <2>5. QED
    BY <2>1, <2>2, <2>4, FewerRef DEF RefInv, LastInv, IsRequest
<1>13. QED
  BY <1>2, <1>3, <1>4, <1>5, <1>6, <1>7, <1>8, <1>9, <1>10, <1>11, <1>12, NextSteps DEF Steps

LEMMA RefInvariant ==
  ASSUME ~Reentrant
  PROVE  Spec => []RefInv
BY InitRef, NextRef, BuffersReleasedOnce, TypeInvariant, PTL DEF Spec
-----------------------------------------------------------------------------
(* The steps of IcapBm as steps of IcapCall. *)

Lines == [t \in 1..MaxDepth |-> Line(t)]

LEMMA LinesAreCalls == Lines = [t \in 1..MaxDepth |->
                                  IF t <= Len(stack) /\ IsCall(stack[t])
                                  THEN [id |-> stack[t].id, cmd |-> stack[t].cmd] ELSE NoCall]
BY DEF Lines, Line, CallOf

LEMMA DepthsPositive == \A t \in 1..MaxDepth : t \in Nat \ {0}
BY BmAssumption

\* icap_loop and its callbacks come and go without a call of this side.
LEMMA LinesSame ==
  ASSUME StackOK, StackOK', NEW D, Kept(D),
         Len(stack') # Len(stack) => Len(stack') = Len(stack) - 1 /\ ~IsCall(Top)
  PROVE  Lines' = Lines
<1>1. SUFFICES ASSUME NEW t \in 1..MaxDepth PROVE Line(t)' = Line(t)
  BY DEF Lines, Line, IsCall, CallOf
<1>2. Line(t)' = IF t <= Len(stack') THEN Line(t) ELSE NoCall
  BY <1>1, LineKept, DepthsPositive
<1>3. Len(stack) \in Nat /\ t \in Nat
  BY <1>1, LenProperties, DepthsPositive DEF StackOK
<1>4. t <= Len(stack') \/ t > Len(stack) \/ (t = Len(stack) /\ ~IsCall(stack[t]))
  BY <1>3 DEF Top
<1>5. CASE t <= Len(stack')
  BY <1>2, <1>5
<1>6. CASE ~(t <= Len(stack'))
  <2>1. Line(t) = NoCall
    BY <1>3, <1>4, <1>6 DEF Line
  <2>2. QED
    BY <1>2, <1>6, <2>1
<1>7. QED
  BY <1>5, <1>6

LEMMA LinesCallback ==
  ASSUME StackOK, NEW f, Pushed(f), ~IsCall(f)
  PROVE  Lines' = Lines
<1>1. \A t \in 1..MaxDepth : Line(t)' = Line(t)
  BY LinePushed, DepthsPositive
<1>2. QED
  BY <1>1 DEF Lines, Line, IsCall, CallOf

\* The call at the top of the stack is at its own depth.
LEMMA TopLine ==
  ASSUME TypeInv, RefInv, stack # <<>>, IsCall(Top)
  PROVE  /\ Len(stack) \in 1..MaxDepth
         /\ Lines[Len(stack)] = [id |-> Top.id, cmd |-> Top.cmd]
         /\ Lines[Len(stack)] # NoCall
         /\ Top.id \in Nat /\ Top.cmd \in Cmd /\ [id |-> Top.id, cmd |-> Top.cmd] \in Open
<1>1. Len(stack) \in Nat \ {0} /\ Top = stack[Len(stack)] /\ Top \in CallFrame
  BY StackIsOK, TopType
<1>2. Len(stack) \in 1..Len(stack) /\ Len(stack) <= MaxDepth
  BY <1>1 DEF RefInv, DepthInv
<1>3. Len(stack) \in 1..MaxDepth
  BY <1>1, <1>2, BmAssumption
<1>4. Line(Len(stack)) = [id |-> Top.id, cmd |-> Top.cmd]
  BY <1>1, <1>2 DEF Line, CallOf
<1>5. Top.id \in Nat /\ Top.cmd \in Cmd
  BY <1>1, BmAssumption DEF CallFrame
<1>6. [id |-> Top.id, cmd |-> Top.cmd] # NoCall
  BY <1>5, BmAssumption
<1>7. [id |-> Top.id, cmd |-> Top.cmd] \in Open
  BY <1>1, <1>2 DEF Open, CallOf
<1>8. QED
  BY <1>3, <1>4, <1>5, <1>6, <1>7 DEF Lines

LEMMA CallIsIssued ==
  ASSUME TypeInv, RefInv, NEW c \in Cmd, Call(c)
  PROVE  \E t \in 1..MaxDepth : Abs!Issue(t, c)
<1> DEFINE f == [kind |-> "call", at |-> "poll", id |-> calls', cmd |-> c,
                 seq |-> seqNum', start |-> clock, waited |-> 0]
           n == Len(stack) + 1
<1>1. StackOK /\ Pushed(f) /\ IsCall(f) /\ CallOf(f) = [id |-> calls', cmd |-> c]
  BY StackIsOK, CallType DEF IsCall, CallOf
<1>2. calls' = calls + 1 /\ UNCHANGED <<ran, result>>
  BY DEF Call
<1>3. n \in 1..MaxDepth /\ ~(n <= Len(stack))
  BY <1>1, LenProperties, BmAssumption DEF Call, CanCall, StackOK
<1> HIDE DEF f
<1>4. \A t \in 1..MaxDepth : Line(t)' = IF t = n THEN [id |-> calls', cmd |-> c] ELSE Line(t)
  BY <1>1, LinePushed, DepthsPositive
<1>5. Lines[n] = NoCall
  BY <1>3 DEF Lines, Line
<1>6. Lines' = [t \in 1..MaxDepth |-> Line(t)']
  BY DEF Lines, Line, IsCall, CallOf
<1> HIDE DEF n
<1>7. Lines' = [Lines EXCEPT ![n] = [id |-> calls', cmd |-> c]]
  BY <1>3, <1>4, <1>6 DEF Lines
<1>8. Abs!Issue(n, c)
  BY <1>2, <1>5, <1>7, LinesAreCalls DEF Abs!Issue, Lines, Line, IsCall, CallOf
<1>9. QED
  BY <1>3, <1>8

\* A call returns v, which is its own to return.
LEMMA ReturnIsComplete ==
  ASSUME TypeInv, RefInv, stack # <<>>, IsCall(Top),
         NEW v, v \in LocalError \/ \E r \in ran : r.id = Top.id /\ v = Abs!Promised(Top.cmd, r.ret),
         Return(v), UNCHANGED <<calls, ran>>
  PROVE  \E t \in 1..MaxDepth : Abs!Complete(t)
<1> PICK n \in 1..MaxDepth : n = Len(stack)
  BY TopLine
<1>1. /\ n \in 1..MaxDepth /\ n \in Nat /\ Lines[n] # NoCall
      /\ Lines[n].id = Top.id /\ Lines[n].cmd = Top.cmd
  BY TopLine, DepthsPositive
<1>2. StackOK /\ StackOK' /\ Kept({0}) /\ Len(stack') = n - 1
  BY StackIsOK, StackPop DEF Return
<1>3. result' = [result EXCEPT ![n] = v]
  BY DEF Return
<1>4. \A t \in 1..MaxDepth : Line(t)' = IF t <= n - 1 THEN Line(t) ELSE NoCall
  BY <1>2, LineKept, DepthsPositive
<1>5. \A t \in 1..MaxDepth : t <= n - 1 \/ t = n \/ Line(t) = NoCall
  BY <1>1, DepthsPositive DEF Line
<1>6. Lines' = [t \in 1..MaxDepth |-> Line(t)']
  BY DEF Lines, Line, IsCall, CallOf
<1>7. Lines' = [Lines EXCEPT ![n] = NoCall]
  <2>1. \A t \in 1..MaxDepth : Line(t)' = IF t = n THEN NoCall ELSE Line(t)
    BY <1>1, <1>4, <1>5, DepthsPositive
  <2>2. QED
    BY <1>1, <1>6, <2>1 DEF Lines
<1>8. v \in LocalError \cup
            {Abs!Promised(Lines[n].cmd, r.ret) : r \in {s \in ran : s.id = Lines[n].id}}
  BY <1>1
<1>9. Abs!Complete(n)
  BY <1>1, <1>3, <1>7, <1>8, LinesAreCalls DEF Abs!Complete, Lines, Line, IsCall, CallOf
<1>10. QED
  BY <1>1, <1>9

\* The response a call takes is its own, and so is the value it returns.
LEMMA TestIsComplete ==
  ASSUME TypeInv, RefInv, OwnReply, NEW d \in 0..MaxLapse, Test(d)
  PROVE  (\E t \in 1..MaxDepth : Abs!Complete(t)) \/ UNCHANGED <<calls, ran, result, Lines>>
<1>1. stack # <<>> /\ IsCall(Top) /\ UNCHANGED <<calls, ran>>
  BY DEF Test, Calling
<1>2. /\ Top.id \in Nat
      /\ [id |-> Top.id, cmd |-> Top.cmd] \in Open
  BY <1>1, TopLine
<1>3. CASE Matches /\ Return(CallResult(Top.cmd, last.body))
  <2>1. last.body.id = Top.id /\ Top.id \in 1..calls /\ calls \in Nat
    BY <1>2, <1>3 DEF OwnReply, Test, RefInv, GivenInv, TypeInv, TypeOK
  <2>2. last.body \in Answers
    BY <2>1 DEF Answers, RefInv, LastInv
  <2>3. last.body.cmd = Top.cmd
    BY <1>2, <2>1, <2>2 DEF RefInv, CmdInv
  <2>4. PICK r \in ran : /\ r.id = Top.id
                         /\ CallResult(Top.cmd, last.body)
                              \in {-ICAP_ERROR_MSG_LEN, Abs!Promised(Top.cmd, r.ret)}
    BY <2>1, <2>2, <2>3 DEF RefInv, AnswerInv, Answered
  <2> DEFINE v == CallResult(Top.cmd, last.body)
  <2>5. v \in LocalError \/ \E s \in ran : s.id = Top.id /\ v = Abs!Promised(Top.cmd, s.ret)
    BY <2>4 DEF LocalError
  <2>6. Return(v)
    BY <1>3
  <2> HIDE DEF v
  <2>7. QED
    BY <1>1, <2>5, <2>6, ReturnIsComplete
<1>4. CASE Return(-ICAP_ERROR_TIMEOUT)
  <2>1. -ICAP_ERROR_TIMEOUT \in LocalError
    BY DEF LocalError
  <2>2. QED
    BY <1>1, <1>4, <2>1, ReturnIsComplete
<1>5. CASE /\ stack' = Append(Below, [Top EXCEPT !.at = "poll", !.waited = @ + d])
           /\ UNCHANGED result
  <2>1. StackOK /\ StackOK' /\ Kept(0..MaxLapse)
    BY StackIsOK, TestType DEF TypeInv, TypeOK, StackOK, StackInv, Frame
  <2>2. Len(Below) = Len(stack) - 1 /\ Below \in Seq(Frame) /\ Len(stack) \in Nat
    BY <1>1, <2>1, SubType DEF StackOK, Below
  <2>3. Len(stack') = Len(stack)
    BY <1>5, <2>2
  <2>4. Lines' = Lines
    BY <2>1, <2>3, LinesSame
  <2>5. QED
    BY <1>1, <1>5, <2>4
<1>6. QED
  BY <1>3, <1>4, <1>5 DEF Test

LEMMA DeviceIsRun ==
  ASSUME 0 \in Ret, TypeInv, RefInv, NEW m \in toDev, NEW ret \in LegalRet(m.body.cmd, Ret),
         DeviceParse(m, ret)
  PROVE  \E id \in 1..calls, v \in Ret : Abs!Run(id, v)
<1>1. m.body \in Requests /\ ret \in Ret
  BY DEF DeviceParse, Requests, IsRequest, LegalRet
<1>2. /\ m.body.id \in 1..calls /\ m.body.cmd \in DeviceCmd
      /\ \A r \in ran : r.id # m.body.id
  BY <1>1, BmAssumption DEF RefInv, GivenInv, OnceInv
<1>3. DeviceRet(m.body.cmd, ret) \in Ret
  BY <1>1, <1>2 DEF DeviceRet
<1>4. Abs!Run(m.body.id, DeviceRet(m.body.cmd, ret))
  BY <1>2 DEF DeviceParse, Abs!Run
<1>5. QED
  BY <1>2, <1>3, <1>4

LEMMA AbsNext ==
  ASSUME 0 \in Ret, TypeInv, RefInv, OwnReply, [Next]_vars
  PROVE  [Abs!Next]_(Abs!vars)
<1>1. SUFFICES Abs!Next \/ UNCHANGED <<calls, ran, result, Lines>>
  BY LinesAreCalls DEF Abs!vars, Lines, Line, IsCall, CallOf
<1>2. StackOK /\ StackOK'
  BY NextType, StackIsOK DEF TypeInv, TypeOK, StackOK, StackInv, Frame
<1>3. ASSUME NEW c \in Cmd, Call(c) PROVE Abs!Next
  BY <1>3, CallIsIssued DEF Abs!Next
<1>4. ASSUME NEW d \in 0..MaxLapse, Test(d) PROVE Abs!Next \/ UNCHANGED <<calls, ran, result, Lines>>
  BY <1>4, TestIsComplete DEF Abs!Next
<1>5. ASSUME \/ PollEmpty \/ PollRefuse
             \/ \E m \in Readings : PollResponse(m)
      PROVE  UNCHANGED <<calls, ran, result, Lines>>
  <2>1. StackOK' /\ Kept({0}) /\ Len(stack') = Len(stack)
    BY <1>2, <1>5, StackPolled DEF PollEmpty, PollRefuse, PollResponse, CanPoll
  <2>2. QED
    BY <1>2, <1>5, <2>1, LinesSame DEF PollEmpty, PollRefuse, PollResponse, history
<1>6. ASSUME NEW m \in Readings, PollMessage(m) PROVE UNCHANGED <<calls, ran, result, Lines>>
  <2> DEFINE f == [kind |-> "loop", next |-> Following(tail), msg |-> m]
  <2>1. Pushed(f) /\ ~IsCall(f)
    BY <1>6, NextType, PollMessageType DEF IsCall
  <2> HIDE DEF f
  <2>2. QED
    BY <1>2, <1>6, <2>1, LinesCallback DEF PollMessage
<1>7. ASSUME NEW ret \in Ret, CallbackReturn(ret) PROVE UNCHANGED <<calls, ran, result, Lines>>
  <2>1. StackOK' /\ Kept({0}) /\ Len(stack') = Len(stack) - 1 /\ ~IsCall(Top)
    BY <1>2, <1>7, StackReturn DEF CallbackReturn, InCallback
  <2>2. QED
    BY <1>2, <1>7, <2>1, LinesSame DEF CallbackReturn, history
<1>8. ASSUME NEW m \in toDev, NEW ret \in LegalRet(m.body.cmd, Ret), DeviceParse(m, ret) PROVE Abs!Next
  BY <1>8, DeviceIsRun DEF Abs!Next
<1>9. ASSUME \/ \E m \in toApp : Put(m)
             \/ \E a \in Addr, c \in Note : DeviceNote(a, c)
             \/ \E m \in toDev : Gone(m)
             \/ Deinit \/ AppInit \/ Exhausted \/ UNCHANGED vars
      PROVE  UNCHANGED <<calls, ran, result, Lines>>
  <2>1. UNCHANGED <<calls, ran, result, stack>>
    BY <1>9 DEF Put, DeviceNote, Gone, Deinit, AppInit, Exhausted, vars, history
  <2>2. QED
    BY <2>1 DEF Lines, Line, IsCall, CallOf
<1>10. QED
  BY <1>3, <1>4, <1>5, <1>6, <1>7, <1>8, <1>9 DEF Next, Main, Poll

LEMMA InitAbs == Init => Abs!Init
<1> SUFFICES ASSUME Init PROVE Abs!Init
  OBVIOUS
<1>1. \A t \in 1..MaxDepth : ~(t <= Len(stack))
  BY EmptySeq, DepthsPositive DEF Init
<1>2. QED
  BY <1>1 DEF Init, Abs!Init

\* As long as each call takes its own response, it runs its callback at most once and
\* returns what that returned or an error of its own side, in any session, whatever is
\* lost, if callbacks make no calls.  A wrong response in last_response is the only way
\* the promise can fail then.
THEOREM OwnResponsesKeepPromise ==
  ASSUME ~Reentrant, 0 \in Ret
  PROVE  Spec /\ []OwnReply => Implements
<1>1. TypeInv /\ RefInv /\ OwnReply /\ [Next]_vars => [Abs!Next]_(Abs!vars)
  BY AbsNext
<1>2. QED
  BY <1>1, InitAbs, TypeInvariant, RefInvariant, PTL DEF Spec, Implements, Abs!Spec

\* That does not happen while a free number is found for each call, in a behaviour with
\* any number of calls and sessions ...
THEOREM FreeNumbersKeepPromise ==
  ASSUME ~Reentrant, 0 \in Ret
  PROVE  Spec /\ []NumberFree => Implements
BY OwnWhileFree, OwnResponsesKeepPromise, PTL DEF FreeNumbersSuffice

\* ... and so not in a single session of fewer than 2^32 calls.
THEOREM BmKeepsPromise ==
  ASSUME ~Reentrant, MaxSessions = 0, 0 \in Ret, MaxCalls < SeqMod
  PROVE  Spec => Implements
BY ResponsesAreOwn, OwnResponsesKeepPromise, PTL
=============================================================================
